SPECIFICATION Spec
CONSTANTS
  Address <- Addresses
  MaxHandles = 3
  MaxOperations = 3
  MAX_TEMP_REFERENCE = 16
CHECK_DEADLOCK FALSE
INVARIANTS
  OnlyUnheldAreLost
  OnlySomeAreReadHalfMade
  NothingIsHalfDone
  HandlesHold
