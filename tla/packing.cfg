SPECIFICATION Spec
CONSTANTS
  TensorSizes = {1, 2, 3}
  PipelineSizes = {1, 2}
  Rows = 2
  SeqLen = 3
  MicroBatches = 2
INVARIANT TypeOK
INVARIANT EachSequenceAlone
INVARIANT GradientsFollowAttention
