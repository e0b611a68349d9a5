CONSTANTS
  Threads = {t1, t2}
  Files = {"a", "b", "c"}
  Size <- Sizes
  Quota = 4
  Quotas = {0, 3, 6}
  MaxFileSize = 0
  Free = 9
  Word = 16
  Thresholds = {50, 75}
  Trigger = 75
  Target = 50
  OldestFirst = TRUE
  Excluded = {"c"}
  MinAge = TRUE
  Calls = {"upload", "delete", "refresh", "set_quota", "reset", "cleanup", "start", "stop"}
  MaxCalls = 4
  None = None
  Port = 1
  NetworkFaults = TRUE
SPECIFICATION ServerSpec
SYMMETRY Symmetry
INVARIANTS ExcessIsAnnounced TurnsKeepQuota TracksTheDisk RunningIsListening
CHECK_DEADLOCK FALSE
