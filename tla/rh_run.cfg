CONSTANTS
  Threads = {t1, t2}
  Ids = {x}
  TotalChunks = 3
  CheckpointInterval = 2
  Batches <- SmallBatches
  Saved <- SomeStates
  IOFaults = TRUE
  Restarts = TRUE
  Removals = TRUE
  None = None
SPECIFICATION Spec
INVARIANTS RecordedWasMarked AckedKept CheckpointBound SavedIsRead
SYMMETRY Symmetry
