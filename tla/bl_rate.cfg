CONSTANTS
  Callers = {c1, c2}
  Controllers = {k1}
  Sizes = {1, 3}
  Limits = {0, 2, 3}
  Burst = 2
  Window = 3
  Meters = {m1, m2}
  Amounts = {1, 2}
  rate_window_size = 2
  rate_sample_interval = 1
  CounterWord = 16
  MaxRecords = 5
  MaxClock = 4
  Adapters = {"thread_system", "network", "async"}
  Tasks = {t1, t2, t3}
  Stages = {s1, s2}
  NoStage = none
  Workers = 2
SPECIFICATION Spec
SYMMETRY Symmetry
INVARIANTS RateRespected RateStands PendingIsUnready
PROPERTY ImplementsTokenBucket
CHECK_DEADLOCK FALSE
