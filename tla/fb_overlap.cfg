\* More microbatches than stages: every stage has warmup, steady and cooldown.
SPECIFICATION LiveSpec
CONSTANTS
  P = 4
  M = 5
  ForwardOnly = FALSE
  GradReduce = "overlap"
  EagerSends = TRUE
  None = None
  Mixed = Mixed
INVARIANT TypeOK
INVARIANT NoMixing
INVARIANT OutstandingBackprops
INVARIANT GradsReducedOnce
INVARIANT NoCircularWait
INVARIANT CleanFinish
PROPERTY ImplementsOrder
