SPECIFICATION Spec
CONSTANTS
    Alerts = {a1, a2}
    Recommendation = rec
    Thread = thr
    Day = day
    Topics <- MCTopics
    KindOf <- MCKindOf
    Dispatches = {d1, d2}
    MaxRow = 2
    MaxReq = 3
    MaxCrash = 1
CONSTRAINT FlowsApart
SYMMETRY AnyDispatch
INVARIANTS TypeOK AcceptedOnce OneSecondChance PendingIsTracked AnswersOwnSubject OneInFlight
PROPERTY RetryAnswerLands
CHECK_DEADLOCK FALSE
