CONSTANTS
  ann = ann
  bob = bob
  cy = cy
  g1 = g1
  g2 = g2
  steam = steam
  ea = ea
  Item = {i1, i2, i3}
  NonGame = {i3}
  Classic = {i2}
  MaxCursor = 2
  IgdbAnswer <- MCIgdbAnswer
  RawgAnswer <- MCRawgAnswer
  StoreAnswer <- MCStoreAnswer
  Import <- MCImport
  MaxRuns = 3
  Player = {ann, bob, cy}
  Game = {g1, g2}
  Platform = {steam, ea}
  Optional = {ea}
  MayUse <- MCMayUse
  MayConfirm <- MCMayConfirm
  About <- MCAbout
  Minutes <- MCMinutes
SPECIFICATION LibrarySpec
INVARIANTS
 SourcesTellTheTruth ExclusionsHaveReasons
 CommonMeansAll OwnersDecide
PROPERTIES
  OwnedGamesStay GivenBackGamesGo SyncEnds
  RepairsLast
  ListsOnlyGrow
CHECK_DEADLOCK FALSE
