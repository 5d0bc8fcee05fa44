SPECIFICATION Spec
CONSTANTS
  HeaderSize = 8
  LinksSize = 16
  FL_COUNT = 6
  SL_COUNT = 4
  SizeMax = 250
  BufferSizes = {12, 32, 160}
  Skews = {0, 3}
  Requests = {0, 9, 33, 56, 243}
INVARIANTS
  BoundaryTags
  NoFreeNeighbours
  ListsMatchHeaders
  ClientsOwnUsedBlocks
  FindFreeComplete
  StatsBalance
PROPERTIES
  ClientsUndisturbed
