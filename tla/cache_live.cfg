SPECIFICATION PollingSpec
CONSTANTS
  Process = {p1, p2}
  Session = {w1}
  Client = {c1}
  Key = {k1}
  MaxEntries = 1
  MaxCommits = 2
  MaxCrashes = 1
  MaxLostBumps = 0
  None = None
PROPERTIES
  RequestsAnswered
  StaleEntriesDie
  CopiesCatchUp
