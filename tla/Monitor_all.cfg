CONSTANTS
  MaxChanges = 3
  MaxAdoptions = 2
  None = None
  Saved = Saved
SPECIFICATION FairSpec
INVARIANTS NoLostChange ReadyIsCurrent TwoFollowUps
PROPERTIES TornOnlyUnnoticed RefreshIsServed Converges
