CONSTANTS
  u1 = u1
  u2 = u2
  r1 = r1
  r2 = r2
  readable = readable
  broken = broken
  None = None
  Uploads <- TwoUploads
  Reindexes <- NoReindex
  Contents <- OneContent
  Unreadable <- NoContent
  Faults <- NoFaults
  MaxFaults = 0
  CollectionAtStart = {TRUE}
SPECIFICATION Spec
INVARIANT NoSpuriousFailure
CHECK_DEADLOCK FALSE
