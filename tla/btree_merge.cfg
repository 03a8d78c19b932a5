SPECIFICATION Spec
CONSTANTS
  Entries <- MCEntries
  Order = 3
  MaxPages = 10
  MaxUpsets = 1
  CanFail = FALSE
  None = None
INVARIANTS
  FoundAfterMerge
CHECK_DEADLOCK FALSE
