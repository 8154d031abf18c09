CONSTANTS
  c1 = c1
  c2 = c2
  Callers <- TwoCallers
  Counts <- OneCount
  Errors <- OneError
  CanCheck = TRUE
  Cooldown = 2
  Skews <- SetBack
  MaxTime = 2
  None = None
  Invalid = Invalid
SPECIFICATION Spec
INVARIANTS ScheduleAlive BackoffFollowsFailures ReportedIsPublished StatusCoherent
PROPERTY KeepsPromise
