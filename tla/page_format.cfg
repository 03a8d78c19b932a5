SPECIFICATION Spec
CONSTANTS
  Keys <- MCKeys
  ValueSizes = {1, 2029, 4060, 4061}
  ScanPrefixes <- MCPrefixes
  None = None
INVARIANTS
  ReadsBack
  CutLosesOnly
  PrefixExact
PROPERTIES
  KeysInFrontSafe
CHECK_DEADLOCK FALSE
