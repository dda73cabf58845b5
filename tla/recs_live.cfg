SPECIFICATION Spec
CONSTANTS
  Keys = {"stopped_i1", "sec_i1", "review_i1"}
  Sources = {"q1", "cis"}
  FilerOf <- FilerByName
  SourceOf <- SourceByName
  Decisions = {"open"}
  Crons = {"run"}
  Planned = {}
  MaxEvents = 1
PROPERTIES RunsEnd PersistsThenShown GoneIsResolved
CHECK_DEADLOCK FALSE
