SPECIFICATION FairSpec
CONSTANTS
  Nobody = Nobody
  i1 = i1
  i2 = i2
  p1 = p1
  Import <- MCImport
  Owner <- MCOwner
  Kind <- MCKind
  MetadataSync = {m1}
  WithSteam = {m1}
  SteamSync = {m2}
  Participant = {p1}
  Threads = 2
  MaxErrors = 1
  MaxCrashes = 1
INVARIANTS
  OneImportEach
  OpenRunsHaveTasks
  UploadsAreRemoved
  LocksHaveOwners
PROPERTIES
  OutcomesStay
  RunsFinish
  LocksComeFree
CHECK_DEADLOCK FALSE
