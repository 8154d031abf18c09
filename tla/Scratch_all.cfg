CONSTANTS
  p1 = p1
  p2 = p2
  w1 = w1
  w2 = w2
  w3 = w3
  r1 = r1
  r2 = r2
  r3 = r3
  d1 = d1
  d2 = d2
  Processes <- OneProcess
  Workers <- TwoWorkers
  Runs <- ThreeRuns
  Databases <- TwoDatabases
  MaxVersion = 1
  None = None
SPECIFICATION FairSpec
INVARIANTS LiveRunStays AtMostTwoRuns CopyIsSettled
PROPERTIES CallsEnd LockReturns
