CONSTANTS
  MaxChecks = 2
  MaxChanges = 2
  None = None
SPECIFICATION FairSpec
INVARIANTS NothingMissed AgeNotNewer SettledAge
PROPERTY PageConverges
