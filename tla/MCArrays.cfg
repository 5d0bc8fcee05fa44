SPECIFICATION MCSpec
CONSTANTS
  arr1 = arr1
  arr2 = arr2
  v = v
  w = w
  NULL = NULL
  Alphabet = {"-", "+", "0", "1", "2", "7", "8", "9", "x"}
  MaxLength = 4
  Arrays = {arr1, arr2}
  Inputs <- MixedInputs
  Values = {v, w}
  key_hash <- SmallHash
  PPHP_INT_MAXIMUM = 99
  FirstCapacity = 3
  MinBuckets = 2
  UINT16_LIMIT = 15
  MaxHint = 0
  MaxUsed = 3
  MaxSize = 4
  Ranks = {1, 2, 3}
INVARIANTS
  Searchable
  IntegersOnly
  FunctionsAsPhp
PROPERTIES
  IsOrderedMap
  SortsStably
CHECK_DEADLOCK FALSE
