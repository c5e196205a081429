SPECIFICATION QuorumSpec
CONSTANTS
  n1 = n1
  n2 = n2
  n3 = n3
  Node = {n1, n2, n3}
  Entry = {e1, e2}
  SyncJob = {j1}
  MergeJob = {}
  Nobody = Nobody
  MaxExportRange = 1
  ReplicaSet <- ReplacedSecondary
  MaxRequests = 1
  MaxReplicaSetUpdates = 1
  MaxFaults = 1
  MaxManualSyncs = 1
  LockMayExpire = FALSE
  StableDuringWipe = FALSE
SYMMETRY EntrySymmetry
CHECK_DEADLOCK FALSE
PROPERTY ConfirmsOnlyReplicated
