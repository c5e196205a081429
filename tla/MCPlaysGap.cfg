SPECIFICATION Spec
CONSTANTS
  Indexers = {"plays"}
  FirstPage = 1
  PageSize = 2
  ChunkSize = 1
  MaxBatches = 2
  Resize = 1
  MinSlot = 1
  Passes = {1}
  MaxTxs = 4
  MaxSlot = 3
  MaxFails = 1
  MaxExpiries = 0
INVARIANTS NoGap
CHECK_DEADLOCK FALSE
