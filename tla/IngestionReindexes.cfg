CONSTANTS
  u1 = u1
  u2 = u2
  r1 = r1
  r2 = r2
  readable = readable
  broken = broken
  None = None
  Uploads <- OneUpload
  Reindexes <- TwoReindexes
  Contents <- OneContent
  Unreadable <- NoContent
  Faults <- AllFaults
  MaxFaults = 4
  CollectionAtStart = {TRUE}
SPECIFICATION Spec
SYMMETRY Symmetry
INVARIANT IInv
PROPERTIES RowsReplacedWhole ImplementsLifecycle
CHECK_DEADLOCK FALSE
