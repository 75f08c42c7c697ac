\* One subscriber among others, overlapping refreshes, faults at any moment.
CONSTANTS
  u1 = u1
  u2 = u2
  Users = {u2}
  Strangers = {s1}
  FetchType <- MCFetchType
  FetchBlocked = FALSE
  HasBuildDate = TRUE
  OldEntries = {1}
  Empty = {2}
  Day = 1
  MaxItems = 1
  MaxFailures = 0
  MaxTime = 3
  LastJoin = 1
  MaxFaults = 1
SPECIFICATION FairSpec
INVARIANTS TypeOK NothingMissed
PROPERTY EntriesArrive
CHECK_DEADLOCK FALSE
