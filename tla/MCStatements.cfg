CONSTANTS
  JUMP_MAX = 10000
  Names <- MCNames
  FunctionNames <- MCFunctions
  Params <- MCParams
  Exprs <- MCExprs
  Assignments <- MCAssignments
  Increments <- MCIncrements
  Cost <- MCCost
  MaxCost = 9
  LaterCost = 4
  MaxDepth = 4
  MaxFunctions = 2
  MaxParses = 2
  Tests = 3
  Steps = 80
  Registers = 8
SPECIFICATION Spec
INVARIANT Follows
INVARIANT JumpsLand
INVARIANT BreaksInnermost
INVARIANT VariablesApart
\* Parsing ends.
CHECK_DEADLOCK FALSE
