CONSTANTS
  u1 = u1
  u2 = u2
  r1 = r1
  r2 = r2
  readable = readable
  broken = broken
  None = None
  Uploads <- TwoUploads
  Reindexes <- OneReindex
  Contents <- OneContent
  Unreadable <- NoContent
  Faults <- RecoverableFaults
  MaxFaults = 1
  CollectionAtStart = {TRUE}
SPECIFICATION FairSpec
PROPERTY JobSettles
CHECK_DEADLOCK FALSE
