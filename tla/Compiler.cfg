CONSTANTS
  TailCalls = TRUE
  Careless <- MCCareful
  MaxNest = 4
  MaxHeight = 5
  MaxSize = 5
  MaxArgs = 2
  MaxBreaks = 2
SPECIFICATION Spec
CHECK_DEADLOCK FALSE
INVARIANTS
  LocalsAtSlots
  JumpsAgree
  RoomCounted
  ReturnedCall
