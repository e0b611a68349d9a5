CONSTANTS
  Clients = {c1, c2}
  Workers = {w1}
  Uploads = {u1}
  Downloads = {d1}
  Ciphers = {"off", "keyless", "keyed"}
  StopModes = {TRUE, FALSE}
  StartFaults = TRUE
  Nothing = Nothing
SPECIFICATION FairSpec
INVARIANTS UploadedIntact DownloadRestorable NoneLostWhileRunning
PROPERTY AcceptedLeaves
CHECK_DEADLOCK FALSE
