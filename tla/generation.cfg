SPECIFICATION Spec
CONSTANTS
  PipelineSizes = {1, 3}
  Clients = {1, 2}
  Words = {1}
  BeamWords = {1, 2}
  MaxBatch = 3
  MaxPrompt = 2
  MaxNew = 3
  BeamWidth = 2
  MaxPositions = 4
  MaxTokens = 6
  Threshold = 2
INVARIANT TypeOK
INVARIANT TokensFollowTheirPrefix
PROPERTY Answered
