SPECIFICATION Spec
CONSTANTS
  Process = {p1, p2}
  Session = {w1}
  Client = {c1, c2}
  Key = {k1}
  MaxEntries = 1
  MaxCommits = 1
  MaxCrashes = 1
  MaxLostBumps = 1
  None = None
SYMMETRY ClientSymmetry
INVARIANTS
  NoStaleEntry
  AnswersAreCurrent
VIEW WithoutCopies
