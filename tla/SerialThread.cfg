SPECIFICATION Spec
CONSTANTS
  Requests = {r1, r2, r3}
  Serial = TRUE
  RawAgents = {"file_writer", "chat", "end"}
  LocalTime = {TRUE, FALSE}
  IncludeWorkspace = TRUE
  ToolResults = {1}
  Trigger = 3
  Keep = 2
  Rooms = {2, 9}
  MaxCrashes = 1
SYMMETRY Symmetry
INVARIANTS
  ReplyIsOfTheTurn
  OnlyOwnStepsAreLost
  AnsweredTurnsAreKept
  OneDecisionPerReview
  InterruptedIsOwn
PROPERTY
  PendingReviewStays
CHECK_DEADLOCK FALSE
