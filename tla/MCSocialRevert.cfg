SPECIFICATION Spec
CONSTANTS
  Workers = {w1}
  NoWorker = NoWorker
  VersionedKinds = {}
  SocialKinds = {"save"}
  KeptKinds = {}
  Window = 2
  RevertSlice = 2
  RevertLimit = 3
  FinalPOA = 0
  MaxSkipped = 2
  LockMayExpire = FALSE
  MaxHeight <- Heights
  Settled <- SettledBlocks
  MaxForks = 1
  MaxFaults = 1
  MaxCrashes = 1
  MaxBad = 1
INVARIANTS TableIsReplay
CHECK_DEADLOCK FALSE
