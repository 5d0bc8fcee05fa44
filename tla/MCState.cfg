SPECIFICATION MCSpec
CONSTANTS
  Parts = {"definitions", "includes", "destructors", "symbols", "shutdown"}
  Names = {"A", "B"}
  Functions <- MCFunctions
  Files <- MCFiles
  Sources <- MCSources
  Defines <- MCDefines
  Kinds = {"include", "invoke"}
  MaxDepth = 2
  MaxVms = 3
  FirstClasses = 1
  FirstModules = 1
  MaxFunctions = 2
  Classes <- MCClasses
  Destructors = {"Child", "Victim"}
  Extends <- MCExtends
  Needs <- MCNeeds
  Vars = {"g", "h"}
  Holds <- MCHolds
  MaxObjects = 3
  Identifiers <- MCIdentifiers
  Hash <- MCHash
  NestedNames = {"a"}
  FirstCapacity = 3
  MinCapacity = 2
  MaxCopies = 3
INVARIANTS
  DefinitionsFound
  ModulesOwned
  OnceRunsOnce
  NestedSound
  NamesKept
PROPERTIES
  EndsOrderly
CHECK_DEADLOCK FALSE
