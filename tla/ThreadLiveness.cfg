SPECIFICATION FairSpec
CONSTANTS
  Requests = {r1, r2}
  Serial = FALSE
  RawAgents = {"workspace", "chat"}
  LocalTime = {TRUE, FALSE}
  IncludeWorkspace = TRUE
  ToolResults = {1}
  Trigger = 3
  Keep = 2
  Rooms = {2}
  MaxCrashes = 1
PROPERTY
  EveryRequestEnds
CHECK_DEADLOCK FALSE
