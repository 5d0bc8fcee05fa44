CONSTANTS
    Variables <- TwoVariables
    Programs <- Sharing
    MaxArrays = 12
    MaxSlots = 30
SPECIFICATION Spec
INVARIANTS
  HoldersCounted
PROPERTIES
  ArraysAreValues
