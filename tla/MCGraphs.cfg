CONSTANTS
  MaxObjs = 4
  MaxLen = 4
  YOUNG_THRESHOLD = 5
  MAJOR_THRESHOLD = 2
  LARGE_THRESHOLD = 2
  StackSize = 2
  NumRegs = 2
  MaxStack = 2
  CALL_MAX_SIZE = 1
  MaxArgs = 0
  Lens <- ShortOrLarge
  Indices <- FirstIndex
  StoresArrays = TRUE
  CallsGC = TRUE
SPECIFICATION Spec
INVARIANT Registry
INVARIANT TypeOK
INVARIANT Arena
INVARIANT FreshIds
PROPERTY ExactWithinGenerations
PROPERTY AgesOnly
\* The program halts, throws, or (a bound) runs out of ids.
CHECK_DEADLOCK FALSE
