SPECIFICATION Spec
CONSTANTS
  Profiles = {p1, p2}
  Qsos = {q1}
  MaxOps = 1
  MaxListens = 1
  DeltaOnStart <- On
  DeltaOnExit <- Anything
  AutoSync <- On
  WsjtxOnStart <- On
  WsjtxOnExit <- Anything
  Configured <- On
  Lookups <- On
  FormFilled <- Anything
  QslKey = TRUE
  TransientFailures = FALSE
INVARIANTS SyncOwnsProfile ResultsStayInProfile
PROPERTIES CloseEnds NewQsosArePushed
CHECK_DEADLOCK FALSE
