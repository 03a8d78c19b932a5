SPECIFICATION Spec
CONSTANTS
  MaxPages = 3
  Data = {z, a}
  Zero = z
  Missing = Missing
  Capacity = 2
  MaxPins = 2
  MaxIoErrors = 1
  MaxStops = 1
INVARIANTS
  TypeOK
  CleanMatchesFile
  LruListsFrames
PROPERTIES
  PinnedStays
  ImplementsPageStore
CHECK_DEADLOCK FALSE
