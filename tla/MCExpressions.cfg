CONSTANTS
  Registers = 12
  Alphabets <- Mixed
SPECIFICATION Spec
INVARIANT ParsesTheTable
INVARIANT ParsesTheGrammar
INVARIANT ComputesTheTree
\* An expression of the longest length, or one the parser rejects, ends here.
CHECK_DEADLOCK FALSE
