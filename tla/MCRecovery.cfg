SPECIFICATION FairSpec
CONSTANTS
  n1 = n1
  n2 = n2
  n3 = n3
  Node = {n1, n2}
  Entry = {e1, e2}
  SyncJob = {}
  MergeJob = {m1}
  Nobody = Nobody
  MaxExportRange = 1
  ReplicaSet <- SwappedReplicaSets
  MaxRequests = 1
  MaxReplicaSetUpdates = 1
  MaxFaults = 1
  LockMayExpire = FALSE
  StableDuringWipe = FALSE
CHECK_DEADLOCK FALSE
INVARIANTS NoDuplicates
PROPERTIES Recovered
