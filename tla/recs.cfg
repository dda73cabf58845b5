SPECIFICATION Spec
CONSTANTS
  Keys = {"sec_i1", "idle_lb1"}
  Sources = {"q1", "cis"}
  FilerOf <- FilerByName
  SourceOf <- SourceByName
  Decisions = {"approved", "open"}
  Crons = {"run"}
  Planned = {"sec_i1", "idle_lb1"}
  MaxEvents = 1
INVARIANTS TypeOK DecisionStands RunningIsBusy
CHECK_DEADLOCK FALSE
