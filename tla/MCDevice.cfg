SPECIFICATION MCSpec
CONSTANTS
  Nodes <- MCNodes
  Parent <- MCParent
  Bytes = {"1", "2", "3", "4", "5", "u", "v", "OK", "nl", "text"}
  Payloads <- MCPayloads
  Initial <- MCInitial
  Capacity = 4
  Chunk = 1
  MaxDepth = 1
  Commands <- MCCommands
  MaxCommands = 2
  MaxCuts = 1
  Patient = FALSE
  Overlaps = FALSE
  FileBytes = {"x", "nl"}
  MaxSize = 3
  Modes = {"r", "r+", "w", "w+", "a", "a+"}
  Counts = {1, 3}
  Limits = {0}
  DefaultLimit = 5
  MaxCalls = 6
  Size = 4
  HISTORY_COUNT = 2
  Letters = {"[", "A", "B", "C", "D"}
  EraseKeys = {"bs"}
  ReplLine <- MCReplLine
  ExitLine <- MCExitLine
  MaxEntered = 3
CONSTRAINT FewLetters
INVARIANTS
  OthersIntact
  FilesAsPhp
PROPERTIES
  AnswersAreTrue
  ShellUsable
  EditsText
CHECK_DEADLOCK FALSE
