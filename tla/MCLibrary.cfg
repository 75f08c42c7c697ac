SPECIFICATION FairSpec
CONSTANTS
  i1 = i1 i2 = i2 i3 = i3
  e1 = e1 e2 = e2 b1 = b1
  m1 = m1 m2 = m2 g = g
  s1 = s1 s2 = s2
  Items <- MCItems
  Folders = {"inbox", "following"}
  Tracked = i1
  Entries = {m1, m2, g}
  Garbled = {g}
  At <- MCAt
  Syncs = {s1, s2}
  MaxFaults = 1
  SavedAt <- MCSavedAt
  PageSize = 2
  Editors = {e1, e2}
  Tops = {30}
  Bulks = {b1}
  Requests <- MCRequests
  BatchSize = 2
  NumDays = 1
  Scenes <- MCScenes
INVARIANTS TypeOK NoneDropped FurthestKept WalkExact BulkReaches
PROPERTIES TrashWaits BulkEnds
CHECK_DEADLOCK FALSE
