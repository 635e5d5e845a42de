SPECIFICATION Spec
CONSTANTS
  Worker = {w1, w2}
  Account = {a1, a2}
  KeyAccount = {}
  Deletable = {a1, a2}
  Game = {g1}
  FreeGame = {}
  RawApi = FALSE
  MaxIds = 3
  Detached = Detached
INVARIANTS
  DetachedIsConfirmed
CHECK_DEADLOCK FALSE
