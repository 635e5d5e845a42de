SPECIFICATION Spec
CONSTANTS
  Worker = {w1}
  Account = {a1, a2}
  KeyAccount = {}
  Deletable = {a1, a2}
  Game = {g1, g2}
  FreeGame = {g2}
  RawApi = FALSE
  MaxIds = 4
  Detached = Detached
SYMMETRY OwnershipSymmetry
INVARIANTS
  ConfirmedIsOwned
  DetachedIsConfirmed
CHECK_DEADLOCK FALSE
