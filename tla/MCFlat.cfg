CONSTANTS
  MaxObjs = 4
  MaxLen = 4
  YOUNG_THRESHOLD = 5
  MAJOR_THRESHOLD = 2
  LARGE_THRESHOLD = 1
  StackSize = 3
  NumRegs = 2
  MaxStack = 2
  CALL_MAX_SIZE = 2
  MaxArgs = 1
  Lens <- ShortOrLarge
  Indices <- AnyIndex
  StoresArrays = FALSE
  CallsGC = TRUE
SPECIFICATION FairSpec
INVARIANT RootsUsable
INVARIANT FlatInv
INVARIANT CountsObjects
PROPERTY ImplementsIdeal
PROPERTY GarbageFreed
\* The program halts, throws, or (a bound) runs out of ids.
CHECK_DEADLOCK FALSE
