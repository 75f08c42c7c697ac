\* The three programs, two slots, one request in flight.
CONSTANTS
  Slots = 2
  MaxRequests = 1
SPECIFICATION FairSpec
INVARIANTS TypeOK NoUseAfterClose NoCircularWait
PROPERTIES ImplementsLoop EndingShrinks ProcessEnds
CHECK_DEADLOCK FALSE
