CONSTANTS
  k1 = k1
  k2 = k2
  NoAwake = NoAwake
  NotBuilt = NotBuilt
  Finished = Finished
  Workers = {0, 1}
  Keys <- MCKeys
  ListParts <- MCListParts
  Hash <- MCHash
  Loads <- MCLoads
  StartAt = 2
  LoadsCapMax = 2
  LoadsEofAfterPrimaries = TRUE
  EpochInterval = 2
  Cooldown = 1
  AwakeDelays = {1}
  MaxBatches = 2
SPECIFICATION Spec
INVARIANT SnapshotOncePerEpoch
