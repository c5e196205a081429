SPECIFICATION FairSpec
CONSTANTS
  n1 = n1
  n2 = n2
  n3 = n3
  Node = {n1, n2, n3}
  Entry = {e1, e2}
  SyncJob = {j1}
  MergeJob = {}
  Nobody = Nobody
  MaxExportRange = 1
  ReplicaSet <- FixedReplicaSet
  MaxRequests = 2
  MaxReplicaSetUpdates = 0
  MaxFaults = 2
  LockMayExpire = FALSE
  StableDuringWipe = FALSE
CHECK_DEADLOCK FALSE
INVARIANTS ClockMatchesRecords PrefixOfPrimary
PROPERTIES Converges ImplementsPrefixReplication
