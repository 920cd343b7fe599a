\* Every way of reducing, all small sizes and orders.
SPECIFICATION Spec
CONSTANTS
  D = 3
  N = 3
  MaxNumel = 2
  M = 2
  Iterations = 2
  Settings <- AllSettings
  Restarts <- AllRestarts
INVARIANT TypeOK
INVARIANT LayoutSound
INVARIANT UpdatedExactly
INVARIANT NoWriteInFlight
