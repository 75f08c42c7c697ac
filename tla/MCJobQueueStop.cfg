\* A worker is stopped while it processes a job; no faults, no crashes.
CONSTANTS
  a1 = a1
  a2 = a2
  d1 = d1
  p1 = p1
  p2 = p2
  w1 = w1
  w2 = w2
  NoJob = NoJob
  AutoIds = {a1}
  CallerIds = {}
  Attempts <- MCAttempts
  Priority <- MCPriority
  Producers = {p1}
  Workers = {w1}
  Slots = {1}
  MaxAdds = 0
  Faulty = FALSE
  MayStop = TRUE
  MayCrash = FALSE
  Scheduler = TRUE
SPECIFICATION Spec
INVARIANT InFlightCompletes
CHECK_DEADLOCK FALSE
