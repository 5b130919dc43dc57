CONSTANTS
  MaxDepth = 4
  MaxDefers = 2
  LambdaReturns = TRUE
SPECIFICATION Spec
INVARIANT RunsOnceOnExit
