SPECIFICATION Spec
CONSTANTS
  Keys = {k1}
  Values = {v1}
  Absent = Absent
  NoKey = NoKey
  Torn = Torn
  Requests <- MCRequests
  MaxLsn = 3
  MaxChunks = 4
  MaxOpens = 3
  CanFail = TRUE
INVARIANTS TypeOK LsnIncreasing LostOnlyBehindTear
PROPERTY PrefixStable
CHECK_DEADLOCK FALSE
