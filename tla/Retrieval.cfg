SPECIFICATION Spec
CONSTANTS
  Chunks <- FiveChunks
  Doc <- ThreeDocs
  Index <- Positions
  ListAttributes <- ListAttrs
  Jobs <- SomeJobs
  EvidenceLimit = 2
  FinalLimit = 3
  RerankPool = 4
  RrfK = 60
  Whole <- SmallestWhole
  MaxFound = 3
INVARIANTS
  FoundMeansEvidence
  EvidenceIsSound
PROPERTIES
  FusionIsConsensus
  RerankerLosesNothing
CHECK_DEADLOCK FALSE
