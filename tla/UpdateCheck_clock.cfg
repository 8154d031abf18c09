CONSTANTS
  c1 = c1
  c2 = c2
  Callers <- OneCaller
  Counts <- OneCount
  Errors <- OneError
  CanCheck = TRUE
  Cooldown = 2
  Skews <- SetBack
  MaxTime = 3
  None = None
  Invalid = Invalid
SPECIFICATION Spec
INVARIANT CooldownEnds
