SPECIFICATION Spec
CONSTANTS
  n1 = n1
  n2 = n2
  n3 = n3
  Node = {n1, n2}
  Entry = {e1, e2}
  SyncJob = {j1}
  MergeJob = {m1}
  Nobody = Nobody
  MaxExportRange = 1
  ReplicaSet <- SwappedReplicaSets
  MaxRequests = 1
  MaxReplicaSetUpdates = 1
  MaxFaults = 0
  LockMayExpire = FALSE
  StableDuringWipe = FALSE
SYMMETRY JobSymmetry
CHECK_DEADLOCK FALSE
PROPERTIES NeverWipePrimary
