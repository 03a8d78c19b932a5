SPECIFICATION Spec
CONSTANTS
  Keys = {k1, k2}
  Values = {v1}
  Absent = Absent
  NoKey = NoKey
  Torn = Torn
  NoTxn = NoTxn
  Untouched = Untouched
  MaxLsn = 3
  MaxOpens = 2
  MaxCrashes = 1
  MaxIoErrors = 2
  CanSteal = FALSE
  CanMerge = TRUE
INVARIANTS TypeOK  
 
SYMMETRY KeySymmetry
CHECK_DEADLOCK FALSE
