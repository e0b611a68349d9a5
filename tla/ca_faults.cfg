CONSTANTS
  t1 = t1
  t2 = t2
  a = a
  b = b
  Threads = {t1, t2}
  Ids = {a, b}
  Names = {f}
  Ctxs = {p1, p2}
  MaxChunks = 2
  min_chunk_size = 1
  max_chunk_size = 4
  Chunks <- AnyChunks
  IOFaults = TRUE
  Crashes = TRUE
  None = None
  Zero = Zero
  Absent = Absent
  Garbage = Garbage
SPECIFICATION Spec
INVARIANTS QueriesAgree VerifiedFileIntact FinalFileIntact FinalizeKeepsContext
PROPERTY RemovedOnlyForReplacement
SYMMETRY Symmetry
