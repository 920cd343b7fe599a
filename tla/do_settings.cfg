SPECIFICATION Spec
CONSTANTS
  D = 2
  B = 3
  M = 2
  Iterations = 3
  Settings <- AllSettings
INVARIANT TypeOK
INVARIANT ForwardCurrent
INVARIANT StepGradsFresh
INVARIANT SameCollectives
INVARIANT OverflowCostsOneUpdate
PROPERTY Termination
