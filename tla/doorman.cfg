SPECIFICATION FairSpec
CONSTANTS
  Requests = {r1, r2}
  None = None
  Cap = 1
  MaxEvents = 1
INVARIANTS TypeOK EventsAddUp
PROPERTIES VisitsWakeIt
CHECK_DEADLOCK FALSE
