SPECIFICATION Spec
CONSTANTS
  Entries <- MCEntries
  Order = 3
  MaxPages = 7
  MaxUpsets = 2
  CanFail = TRUE
  None = None
INVARIANTS
  FindsExactly
  ScansExactly
  ParentsAgree
  Balanced
  InternalNeverShort
  PinsReturned
  WritesArePinned
  ThreePinsSuffice
PROPERTIES
  ChainSurvivesMerge
  FailureKeepsChain
CHECK_DEADLOCK FALSE
