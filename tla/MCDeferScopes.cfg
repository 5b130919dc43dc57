CONSTANTS
  MaxDepth = 4
  MaxDefers = 4
  LambdaReturns = FALSE
SPECIFICATION Spec
INVARIANTS TypeOK RunsOnceOnExit
PROPERTY ImplementsContract
