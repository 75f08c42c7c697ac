\* One subscriber and no faults: an edit of the feed makes the subscription new again.
CONSTANTS
  u1 = u1
  u2 = u2
  Users = {u1}
  Strangers = {}
  FetchType <- MCFetchType
  FetchBlocked = FALSE
  HasBuildDate = TRUE
  OldEntries = {}
  Empty = {}
  Day = 1
  MaxItems = 2
  MaxFailures = 0
  MaxTime = 4
  LastJoin = 1
  MaxFaults = 0
SPECIFICATION Spec
INVARIANT SeenOnce
CHECK_DEADLOCK FALSE
