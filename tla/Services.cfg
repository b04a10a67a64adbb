SPECIFICATION ServicesSpec
CONSTANTS
  Media = Media
  Search = Search
  Datasets = Datasets
  Teaming = Teaming
  Articles = Articles
  Calendar = Calendar
  Reviewing = Reviewing
  MediaPage = {p1, p2}
  InBundle = {p1}
  Item = {m1}
  Editing = {w1}
  Retrying = {c1}
  MaxChanges = 3
  LateActions = FALSE
  SearchPage = {p1, p2}
  Home = Home
  Unlisted = {}
  Slug = {a, b}
  NoEntry = NoEntry
  MaxEdits = 2
  Dataset = {d1, d2}
  PreviewTeam = {t1}
  RemoteId = {i1, i2}
  NoId = NoId
  Title = {"A"}
  MaxSaves = 3
  Outsiders = TRUE
  Group = {g1}
  Role = {r1}
  User = {u1}
  Login = {l1}
  SyncJob = {j1, j2}
  MaxDirectory = 1
  Window = {f1, f2}
  MaxRevision = 4
  Editor = {e1, e2}
  ReleaseDate = {"May", "June"}
  MaxEntries = 2
  Person = {alice, bob, carol}
  MaxDrafts = 4
INVARIANTS
  NoEarlyLeak
  FreshMeansSet
  LiveUsesArePublic
  PrivateIsPurged
  OnlyReleasedIsIndexed
  QuietIndexIsRight
  InLockstep
  CounterpartWhenNeeded
  NoOrphans
  MailAccounted
  OneToken
  SupersededWasPublic
  ReadyWasReviewed
PROPERTIES
  PermissionsSettle
  TeamsConverge
  CorrectionsKept
  RescheduleIsLogged
  StatusMovesOn
CHECK_DEADLOCK FALSE
