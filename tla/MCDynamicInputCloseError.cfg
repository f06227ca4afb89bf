\* The sources of MCDynamicInput.cfg, whose close() may raise: at EOF or
\* at teardown after an abort the error reaches unwrap_any in Drop.
CONSTANTS
  Workers = {0, 1}
  StartAt = 1
  EpochInterval = 2
  Cooldown = 1
  AwakeDelays = {1}
  MaxBatches = 3
  NoAwake = NoAwake
  CloseMayFail = TRUE
SPECIFICATION Spec
INVARIANT CloseErrorsNotPropagated
