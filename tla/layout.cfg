\* Every accepted layout of up to 16 ranks, twice in a row.
SPECIFICATION Spec
CONSTANTS
  Worlds = {1, 2, 4, 6, 8, 12, 16}
  MaxPipeline = 4
  Layers = 12
INVARIANT TypeOK
INVARIANT PipelinesAligned
INVARIANT GradsCoverBatch
INVARIANT NormCountsOnce
