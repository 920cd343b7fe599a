SPECIFICATION Spec
CONSTANTS
  D = 2
  B = 2
  M = 2
  Iterations = 2
  Settings <- Overflowing
INVARIANT ZeroedBeforeBackward
