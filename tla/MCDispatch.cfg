CONSTANTS
  Half = 4
  Byte = 4
  Programs <- Everything
  Reloads <- Another
  Args <- AnyValue
  StackSize = 6
  MaxStack = 3
  CALL_MAX_SIZE = 3
  MaxLoads = 2
  HOT_THRESHOLD = 2
SPECIFICATION DispatchSpec
INVARIANT DispatchTypeOK
INVARIANT Settled
PROPERTY Final
PROPERTY ImplementsInterpreter
\* The program halts, throws or ends the process.
CHECK_DEADLOCK FALSE
