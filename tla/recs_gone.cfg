SPECIFICATION Spec
CONSTANTS
  Keys = {"stopped_i1", "sec_i1", "idle_lb1"}
  Sources = {"q1", "cis"}
  FilerOf <- FilerByName
  SourceOf <- SourceByName
  Decisions = {"approved", "open"}
  Crons = {"run"}
  Planned = {"stopped_i1"}
  MaxEvents = 1
PROPERTIES ResolvedIsGone
CHECK_DEADLOCK FALSE
