CONSTANTS
  u1 = u1 u2 = u2 p1 = p1 p2 = p2 f1 = f1 f2 = f2 e1 = e1
  UrlSavers = {u1, u2}
  PageSavers = {p1, p2}
  Editors = {e1}
  Requests = {r1}
  Request <- MCRequest
  FeedJobs = {f1, f2}
  Undated = {f2}
  NoItem = NoItem
  MaxFailures = 1
  MsPerSec = 2
  Start = 10
  MaxLost = 2
  Casts <- MCCasts
SPECIFICATION FairSpec
INVARIANTS RowBeforeJob ProcessingIsPending FeedPathsAgree UntimedFailures
PROPERTIES SaveSettles BlockIsLifted ImplementsQueues
CHECK_DEADLOCK FALSE
