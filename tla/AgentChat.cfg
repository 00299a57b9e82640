SPECIFICATION FairSpec
CONSTANTS
  t1 = t1
  t2 = t2
  e1 = e1
  auto = auto
  verified = verified
  same = same
  None = None
  Turns <- TwoTurns
  Streams <- OneStream
  Edits <- OneEdit
  Questions <- SameQuestion
  ChatModes <- TwoModes
  Requests <- OneOfEach
  Faults <- AllFaults
  MaxFaults = 1
INVARIANTS
  AnswersFollow
  ToldIsTrue
PROPERTIES
  HistoryIsThePast
  ModeWasAskedFor
  TurnEnds
CHECK_DEADLOCK FALSE
