SPECIFICATION Spec
CONSTANTS
  Keys = {k1, k2}
  Values = {v1}
  Absent = Absent
  NoKey = NoKey
  Torn = Torn
  NoTxn = NoTxn
  Untouched = Untouched
  MaxLsn = 4
  MaxOpens = 2
  MaxCrashes = 2
  MaxIoErrors = 0
  CanSteal = TRUE
  CanMerge = TRUE
INVARIANTS ReplayIsFold LogComplete ConflictFreeRecovery CloseSafe
PROPERTIES RecoveryRestartable ImplementsWhileClean
SYMMETRY KeySymmetry
CHECK_DEADLOCK FALSE
