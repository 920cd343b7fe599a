SPECIFICATION Spec
CONSTANTS
  M = 2
  D = 2
  MicroBatch = 1
  Rampup = TRUE
  Start = 2
  Increment = 2
  RampSamples = 4
  GlobalBatch = 6
  TrainSamples = 36
  TotalSamples = 36
  SaveInterval = 2
  ExitInterval = 3
  ExitSignal = TRUE
  ExitDuration = TRUE
  DpRandomInit = TRUE
  InitialScale = 3
  MinScale = 0
  GrowthInterval = 2
  Hysteresis = 2
  Limit = 1
  MaxCrashes = 1
INVARIANT TypeOK
INVARIANT SamplesInOrder
INVARIANT SameAsUninterrupted
PROPERTY CommitsCompleteCheckpoint
PROPERTY ImplementsResumable
PROPERTY Termination
