CONSTANTS
  Word = 1048576
  NoPassword = NoPassword
  NoParams = NoParams
  Threads = {t1, t2}
  Sealers = {t1, t2}
  Owner = t1
  Ids = {a}
  Passwords = {NoPassword, p}
  KdfConfigs <- Configs
  Keeps = {1, 2}
  Keep = 1
  MaxUses = 1
  ByHand = TRUE
  Faults = TRUE
  MaxKeys = 3
  MaxKeyCalls = 4
  None = None
  Texts = {x, y}
  Text = x
  MaxWork = 4
  IvSizes = {8, 12}
  CounterWrap = 2
  CipherFaults = TRUE
  MaxSeals = 3
  MaxStreams = 1
  MaxPieces = 2
  NoKey = NoKey
  NoTag = NoTag
  Aad = Aad
  NoAad = NoAad
  NoJob = NoJob
SPECIFICATION Spec
INVARIANTS SealedStaysReadable RederivedIsKept NoncesApart OpenedIsSealed
CHECK_DEADLOCK FALSE
