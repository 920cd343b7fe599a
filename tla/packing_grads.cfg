SPECIFICATION Spec
CONSTANTS
  TensorSizes = {2}
  PipelineSizes = {1, 2}
  Rows = 2
  SeqLen = 2
  MicroBatches = 1
INVARIANT GradientsOnce
