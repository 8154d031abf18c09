CONSTANTS
  Databases = {d1, d2}
  Loaders = {t1, t2}
  MaxReplaced = 2
  Absent = Absent
  Configurations <- ManyConfigurations
  kMaxIncludeDepth = 2
  UnsafeNames = {"", ".."}
  machine = "x86_64"
  None = None
  IntMax = 2579999
  Policies <- SomePolicies
  Values <- SomeValues
  Unset = Unset
  Offsets <- SomeOffsets
SPECIFICATION BackendSpec
SYMMETRY Symmetry
INVARIANTS LeaseIsCurrent ParsedAsWritten DelayFits
CHECK_DEADLOCK FALSE
