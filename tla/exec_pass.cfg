SPECIFICATION FairSpec
CONSTANTS
    Changes = {"delete", "gp3", "switch"}
    PageChanges = {"switch"}
    Kinds = {"snapshot_delete", "ebs"}
    KindOf <- MCKindOf
    PressureKinds = {"ebs"}
    GraceHours <- MCGraceHours
    Clicks = {}
    PassTask = "pass"
    PassTriggers = {"schedule", "pressure"}
    Modes = {"off", "dry_run", "apply"}
    FAILURES_BEFORE_REFUSING = 1
    ActMaxPerPass = 1
    Day = 1
    MaxRow = 2
    MaxTime = 1
    MaxEvents = 1
INVARIANTS TypeOK BudgetKept
PROPERTIES GraceIsContinuous PassEnds
CHECK_DEADLOCK FALSE
