SPECIFICATION FairSpec
CONSTANTS
  Histories <- NewOrLater
  Sizes = {1, 5}
  MaxCalls = 2
  MaxContextTokens = 6
  MaxOutput = 4
  NoticeLength = 3
  RecursionLimit = 6
  MaxResumes = 1
INVARIANTS
  TypeOK
  ContextIsOfThePass
  ResultsFollowTheirCall
  EffectsAreBounded
  PassEndsInReply
  ResultsAreCapped
PROPERTY
  PassStops
CHECK_DEADLOCK FALSE
