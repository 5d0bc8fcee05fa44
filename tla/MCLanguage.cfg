SPECIFICATION MCSpec
CONSTANTS
  Max = 7
  Width = 4
  MagnitudeMax = 15
  StringLimit = 6
  Operands <- MCOperands
  MaxLength = 5
INVARIANTS
  OperatorsAsPhp
  ParsesAsPhp
  LoadsWhatWasWritten
CHECK_DEADLOCK FALSE
