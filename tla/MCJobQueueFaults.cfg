\* Two worker processes of two slots, two producers, counter-given ids, all faults.
CONSTANTS
  a1 = a1
  a2 = a2
  d1 = d1
  p1 = p1
  p2 = p2
  w1 = w1
  w2 = w2
  NoJob = NoJob
  AutoIds = {a1, a2}
  CallerIds = {}
  Attempts <- MCAttempts
  Priority <- MCPriority
  Producers = {p1, p2}
  Workers = {w1, w2}
  Slots = {1, 2}
  MaxAdds = 0
  Faulty = TRUE
  MayStop = TRUE
  MayCrash = TRUE
  Scheduler = TRUE
SPECIFICATION Spec
SYMMETRY MCSymmetry
INVARIANTS SinglePlace SingleRunner JobReadable
PROPERTIES ImplementsLifecycle ImplementsLoop
CHECK_DEADLOCK FALSE
