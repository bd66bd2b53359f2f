SPECIFICATION Spec
CONSTANTS
  k1 = k1
  k2 = k2
  k3 = k3
  k4 = k4
  k5 = k5
  Undef = Undef
  Null = Null
  Key <- Key5
  Hash <- Hash5
  Val = {v1, v2}
  MIN_CAPACITY = 4
  MaxCapacity = 8
INVARIANTS
  EveryKeyFound
  RoomLeft
PROPERTIES
  MapIsDictionary
