SPECIFICATION FairSpec
CONSTANTS
  Scores <- ScoreGrid
  Assessments <- SomeAssessments
  Inputs <- AllInputs
  MaxAttempts = 2
  MinImprovement = 10
INVARIANTS
  PassedMeansVerified
  DegradedSaysWhy
  CitesOwnEvidence
  CorrectionImproves
PROPERTIES
  ImplementsContract
  Terminates
CHECK_DEADLOCK FALSE
