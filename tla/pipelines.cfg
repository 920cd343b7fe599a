\* Both schedules, every way of communicating and reducing, several sizes.
SPECIFICATION Spec
CONSTANTS
  None = None
  Mixed = Mixed
INVARIANT TypeOK
INVARIANT NoMixing
INVARIANT OutstandingBackprops
INVARIANT GradsReducedOnce
INVARIANT CleanFinish
PROPERTY ImplementsOrder
PROPERTY Termination
