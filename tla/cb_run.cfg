CONSTANTS
  Threads = {t1, t2}
  BatchSizes = {2}
  MaxConcurrent = {1, 2}
  MaxTransfers = 2
  MaxCalls = 3
SPECIFICATION TransfersSpec
INVARIANTS CountsMatchResults CancelledStays
CHECK_DEADLOCK FALSE
PROPERTY CancelReleases
