SPECIFICATION FairSpec
CONSTANTS
  Workers = {w1}
  NoWorker = NoWorker
  VersionedKinds = {"track"}
  SocialKinds = {}
  KeptKinds = {}
  Window = 2
  RevertSlice = 2
  RevertLimit = 3
  FinalPOA = 2
  MaxSkipped = 2
  LockMayExpire = FALSE
  MaxHeight <- Heights
  Settled <- SettledBlocks
  MaxForks = 1
  MaxFaults = 1
  MaxCrashes = 1
  MaxBad = 1
INVARIANTS TypeOK OneHistory TableIsReplay
PROPERTIES CatchesUp
CHECK_DEADLOCK FALSE
