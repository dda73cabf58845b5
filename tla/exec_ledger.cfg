SPECIFICATION Spec
CONSTANTS
    Changes = {"delete"}
    PageChanges = {}
    Kinds = {"snapshot_delete"}
    KindOf <- MCKindOf
    PressureKinds = {}
    GraceHours <- MCGraceHours
    Clicks = {"click"}
    PassTask = "pass"
    PassTriggers = {"schedule"}
    Modes = {"off", "apply"}
    FAILURES_BEFORE_REFUSING = 1
    ActMaxPerPass = 1
    Day = 1
    MaxRow = 2
    MaxTime = 1
    MaxEvents = 1
INVARIANTS OneOpenRow AppliedMeansLanded NoLostChange
PROPERTY LedgerKept
CHECK_DEADLOCK FALSE
