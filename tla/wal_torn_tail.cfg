SPECIFICATION Spec
CONSTANTS
  Keys = {k1}
  Values = {v1}
  Absent = Absent
  NoKey = NoKey
  Torn = Torn
  Requests <- MCRequests
  MaxLsn = 3
  MaxChunks = 3
  MaxOpens = 3
  CanFail = FALSE
INVARIANT AckedReadable
CHECK_DEADLOCK FALSE
