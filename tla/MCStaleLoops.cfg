CONSTANTS
  JUMP_MAX = 10000
  Names <- MCNames
  FunctionNames <- MCFunctions
  Params <- MCParams
  Exprs <- MCExprs
  Assignments <- MCAssignments
  Increments <- MCIncrements
  Cost <- MCCost
  MaxCost = 5
  LaterCost = 8
  MaxDepth = 4
  MaxFunctions = 1
  MaxParses = 2
  Tests = 3
  Steps = 80
  Registers = 8
SPECIFICATION Spec
INVARIANT BreakOnlyInLoops
\* Parsing ends.
CHECK_DEADLOCK FALSE
