CONSTANTS
  s1 = s1
  s2 = s2
  o1 = o1
  plain = plain
  edition = edition
  other = other
  Worker = {w1, w2}
  SteamId = {s1, s2}
  OtherId = {o1}
  Title = {plain, edition, other}
  NoTitle = NoTitle
  Similar <- SimilarTitles
  Names <- ProviderNames
  Edited = {other}
  Related <- GalaxyReleases
  MaxGames = 2
  MaxRows = 3
SPECIFICATION Spec
SYMMETRY MatchingSymmetry
INVARIANTS SerialOneSteamApp MappedGamesExist
PROPERTIES SameTitleSameGame LoneImportHeals
CHECK_DEADLOCK FALSE
