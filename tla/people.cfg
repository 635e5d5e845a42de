CONSTANTS
  Handler = {h1, h2}
  Participant = {p1, p2}
  Leaving = {p1}
  SteamUser = {u1, u2}
  QrLogin = {q1}
  OpenIdLogin = {o1}
  MaxAccounts = 2
  MaxCrashes = 1
  MaxLogins = 1
  Nobody = Nobody
  NoUser = NoUser
  Thread = {t1, t2}
  ProviderAccount = {a1}
  MaxGrants = 2
  MaxSerial = 2
  MaxFlows = 2
  ann = ann
  bob = bob
  Person = {ann, bob}
  Entry <- MCEntry
  Party <- MCParty
  LocalDay <- MCLocalDay
  MaxTime = 4
  MaxEvents = 2
  Retention = 1
  Interval = 2
SPECIFICATION PeopleSpec
SYMMETRY PeopleSymmetry
INVARIANTS SteamAccountsMatch
 FileOfOneLogin  RenewableSession
 NamesGoWithPeople SummariesAddUp
PROPERTIES LoginIsOneShot EntriesExpire
CHECK_DEADLOCK FALSE
