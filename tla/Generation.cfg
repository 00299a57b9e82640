SPECIFICATION FairSpec
CONSTANTS
  c1 = c1
  c2 = c2
  c3 = c3
  c4 = c4
  stray = stray
  Items <- FourItems
  Shown <- TwoItems
  Strays <- OneStray
  ListAttributes <- ListAttrs
  Profiles <- SomeProfiles
  ReplyModes <- SomeReplyModes
  MaxCites = 2
  MaxRetries = 1
INVARIANTS
  AnswerIsGrounded
  CitesWithinLimit
PROPERTIES
  GenerationEnds
CHECK_DEADLOCK FALSE
