SPECIFICATION Spec
CONSTANTS
  Keys = {k1}
  Values = {v1, v2}
  Absent = Absent
  NoKey = NoKey
  Torn = Torn
  NoTxn = NoTxn
  Untouched = Untouched
  MaxLsn = 4
  MaxOpens = 2
  MaxCrashes = 1
  MaxIoErrors = 0
  CanSteal = FALSE
  CanMerge = FALSE
INVARIANT RecoveredInCommitOrder
CHECK_DEADLOCK FALSE
