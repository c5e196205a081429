SPECIFICATION Spec
CONSTANTS
  n1 = n1
  n2 = n2
  n3 = n3
  Node = {n1, n2}
  Entry = {e1}
  SyncJob = {j1}
  MergeJob = {m1}
  Nobody = Nobody
  MaxExportRange = 1
  ReplicaSet <- MovingReplicaSets
  MaxRequests = 1
  MaxReplicaSetUpdates = 1
  MaxFaults = 0
  LockMayExpire = TRUE
  StableDuringWipe = TRUE
CHECK_DEADLOCK FALSE
INVARIANTS TypeOK RecordsContiguous Durable
PROPERTIES ClockNeverRewinds
