SPECIFICATION MCSpec
CONSTANTS
  Scripts <- MCScripts
  Hierarchies <- MCHierarchies
  Values = {"1", "2"}
  MaxFrames = 3
  MaxObjects = 2
INVARIANTS
  DeclaredAsPhp
  AnswersAsPhp
PROPERTIES
  MembersGuarded
CHECK_DEADLOCK FALSE
