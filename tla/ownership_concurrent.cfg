SPECIFICATION FairSpec
CONSTANTS
  Worker = {w1, w2}
  Account = {a1, a2}
  KeyAccount = {a1}
  Deletable = {a1, a2}
  Game = {g1}
  FreeGame = {}
  RawApi = TRUE
  MaxIds = 4
  Detached = Detached
PROPERTIES
  SyncReconciles
  JobsFinish
CHECK_DEADLOCK FALSE
