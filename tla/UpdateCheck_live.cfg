CONSTANTS
  c1 = c1
  c2 = c2
  Callers <- OneCaller
  Counts <- OneCount
  Errors <- OneError
  CanCheck = TRUE
  Cooldown = 2
  Skews <- NoSkew
  MaxTime = 3
  None = None
  Invalid = Invalid
SPECIFICATION FairSpec
PROPERTIES CooldownHonoured EveryCheckEnds JoinedAreAnswered ChecksRecur
