SPECIFICATION Spec
CONSTANTS
  Requests <- FourRequests
  Emails <- People
  Passwords <- Secrets
  Words <- Organizations
  Slugless <- Unslugged
  Long <- LongNames
  LongEmails <- LongAddresses
  Scenarios <- Stories
  None = None
  MaxFaults = 1
INVARIANTS
  AnsweredIsComplete
  TwinsRaced
  FailsForACause
  RevocationHolds
PROPERTIES
  OwnTenantOnly
CHECK_DEADLOCK FALSE
