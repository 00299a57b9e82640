CONSTANTS
  u1 = u1
  u2 = u2
  r1 = r1
  r2 = r2
  readable = readable
  broken = broken
  None = None
  Uploads <- TwoUploads
  Reindexes <- OneReindex
  Contents <- TwoContents
  Unreadable <- BrokenContent
  Faults <- AllFaults
  MaxFaults = 3
  CollectionAtStart = {TRUE, FALSE}
SPECIFICATION Spec
SYMMETRY Symmetry
INVARIANTS SourceKept OneRunPerJob SoleJobSearchable
CHECK_DEADLOCK FALSE
