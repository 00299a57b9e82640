SPECIFICATION FairSpec
CONSTANTS
  q1 = q1
  q2 = q2
  Runs <- TwoRuns
  Faults <- AllFaults
  MaxFaults = 3
INVARIANTS
  AnswerKept
PROPERTIES
  RunNeverReverts
  RunSettles
CHECK_DEADLOCK FALSE
