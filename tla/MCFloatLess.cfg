CONSTANTS
  Half = 4
  Byte = 4
  Programs <- Less
  Reloads <- None
  Args <- Floats
  StackSize = 6
  MaxStack = 3
  CALL_MAX_SIZE = 3
  MaxLoads = 1
  HOT_THRESHOLD = 2
SPECIFICATION DispatchSpec
PROPERTY FloatLessIsLess
\* The program halts, throws or ends the process.
CHECK_DEADLOCK FALSE
