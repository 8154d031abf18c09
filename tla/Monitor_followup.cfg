CONSTANTS
  MaxChanges = 1
  MaxAdoptions = 0
  None = None
  Saved = Saved
SPECIFICATION Spec
INVARIANT OneFollowUp
