SPECIFICATION Spec
CONSTANTS
  Histories <- NewOrLater
  Sizes = {1, 5}
  MaxCalls = 2
  MaxContextTokens = 6
  MaxOutput = 4
  NoticeLength = 3
  RecursionLimit = 6
  MaxResumes = 0
INVARIANT
  PromptKeepsPairs
CHECK_DEADLOCK FALSE
