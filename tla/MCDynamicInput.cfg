\* Two workers, each with a source of three batches; epochs of two ticks,
\* a cooldown of one tick and sources that may ask to be woken a tick later.
CONSTANTS
  Workers = {0, 1}
  StartAt = 1
  EpochInterval = 2
  Cooldown = 1
  AwakeDelays = {1}
  MaxBatches = 3
  NoAwake = NoAwake
  CloseMayFail = FALSE
SPECIFICATION Spec
INVARIANTS
  TypeOK
  EpochBackpressure
PROPERTY
  Termination
