SPECIFICATION Spec
CONSTANTS
  D = 2
  N = 2
  MaxNumel = 2
  BucketSize = 2
  UseDistributedOptimizer = TRUE
INVARIANT EmbeddingInSync
