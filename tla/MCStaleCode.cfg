CONSTANTS
  Half = 4
  Byte = 4
  Programs <- Sum
  Reloads <- Another
  Args <- Ints
  StackSize = 6
  MaxStack = 3
  CALL_MAX_SIZE = 3
  MaxLoads = 2
  HOT_THRESHOLD = 2
SPECIFICATION DispatchSpec
INVARIANT RunsLoadedProgram
\* The program halts, throws or ends the process.
CHECK_DEADLOCK FALSE
