\* One producer that also chooses ids, two workers that may be stopped, fairness.
CONSTANTS
  a1 = a1
  a2 = a2
  d1 = d1
  p1 = p1
  p2 = p2
  w1 = w1
  w2 = w2
  NoJob = NoJob
  AutoIds = {a1}
  CallerIds = {d1}
  Attempts <- MCAttempts
  Priority <- MCPriority
  Producers = {p1}
  Workers = {w1, w2}
  Slots = {1}
  MaxAdds = 2
  Faulty = FALSE
  MayStop = TRUE
  MayCrash = FALSE
  Scheduler = TRUE
SPECIFICATION FairSpec
INVARIANTS TypeOK OneCopy
PROPERTIES LostOnlyToStop EveryJobSettles DrainFinishes
CHECK_DEADLOCK FALSE
