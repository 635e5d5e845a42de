SPECIFICATION Spec
CONSTANTS
  Process = {p1}
  Session = {w1}
  Client = {c1, c2}
  Key = {k1, k2}
  MaxEntries = 1
  MaxCommits = 1
  MaxCrashes = 0
  MaxLostBumps = 1
  None = None
SYMMETRY ClientSymmetry
PROPERTIES
  PagesAreCurrent
