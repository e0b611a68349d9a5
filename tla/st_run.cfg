CONSTANTS
  Threads = {t1, t2}
  Keys = {k1}
  Data = {"v1", "v2"}
  Present = "v1"
  Inputs = {"v2"}
  Size <- Sizes
  Configs <- Arrangements
  MoveTargets = {"cold"}
  MaxAge = 2
  None = None
  Torn = Torn
  Rules <- RuleSet
  AgeTiering <- Ages
  SizeTiering = TRUE
  Retention <- KeepTwo
  Retentions <- Holds
  MaxPending = 2
SPECIFICATION Spec
SYMMETRY Symmetry
INVARIANTS ReadsCurrent HoldersHold ProtectedStays TierFollows
CHECK_DEADLOCK FALSE
