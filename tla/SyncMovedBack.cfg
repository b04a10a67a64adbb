SPECIFICATION SyncSpec
CONSTANTS
  Dataset = {d1, d2}
  PreviewTeam = {}
  RemoteId = {i1}
  NoId = NoId
  Title = {"A"}
  MaxSaves = 5
  Outsiders = FALSE
INVARIANT ReconciledWhenMovedBack
CHECK_DEADLOCK FALSE
