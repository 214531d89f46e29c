CONSTANTS
  MaxObjs = 5
  MaxLen = 1
  YOUNG_THRESHOLD = 5
  MAJOR_THRESHOLD = 10
  LARGE_THRESHOLD = 1
  StackSize = 2
  NumRegs = 2
  MaxStack = 2
  CALL_MAX_SIZE = 1
  MaxArgs = 0
  Lens <- ShortArray
  Indices <- FirstIndex
  StoresArrays = TRUE
  CallsGC = FALSE
SPECIFICATION Spec
INVARIANT ReachableUsable
\* The program halts, throws, or (a bound) runs out of ids.
CHECK_DEADLOCK FALSE
