SPECIFICATION Conversation
CONSTANTS
  Vocabulary <- Words
  ListAttributes <- ListAttrs
  Texts <- SomeTexts
  Remarks <- SomeRemarks
  Named <- Names
  Bare <- Seconds
  Things <- Documents
  Generic <- Common
  Several <- Phrases
  MaxTurns = 4
  QueryWindow = 2
  ReplyWindow = 1
INVARIANTS
  OwnRankWins
  ContextIsRecent
  RewritesAreOrdered
CHECK_DEADLOCK FALSE
