SPECIFICATION StorageSpec
CONSTANTS
  Entries <- MCEntries
  Order = 3
  MaxPages = 7
  MaxUpsets = 1
  MaxRedo = 2
  CanFail = FALSE
  None = None
INVARIANTS
  UntouchedSurvives
CHECK_DEADLOCK FALSE
