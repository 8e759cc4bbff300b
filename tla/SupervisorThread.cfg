SPECIFICATION Spec
CONSTANTS
  Requests = {r1, r2, r3}
  Serial = FALSE
  RawAgents = {"workspace"}
  LocalTime = {FALSE}
  IncludeWorkspace = TRUE
  ToolResults = {1}
  Trigger = 3
  Keep = 2
  Rooms = {2, 9}
  MaxCrashes = 1
SYMMETRY Symmetry
INVARIANTS
  TypeOK
  ToolsOnlyAfterApproval
  ConsumedRejectionIsFinal
  ReplyIsOfTheTurn
PROPERTY
  GateSpec
CHECK_DEADLOCK FALSE
