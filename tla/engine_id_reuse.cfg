SPECIFICATION Spec
CONSTANTS
  Keys = {k1, k2}
  Values = {v1}
  Absent = Absent
  NoKey = NoKey
  Torn = Torn
  NoTxn = NoTxn
  Untouched = Untouched
  MaxLsn = 4
  MaxOpens = 3
  MaxCrashes = 2
  MaxIoErrors = 0
  CanSteal = FALSE
  CanMerge = FALSE
INVARIANT UncommittedStaysOut
CHECK_DEADLOCK FALSE
