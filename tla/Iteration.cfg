SPECIFICATION Spec
CONSTANTS
  a = a
  b = b
  k1 = k1
  k2 = k2
  k3 = k3
  k4 = k4
  Value = {a, b}
  Junk = Junk
  Error = Error
  Key = {k1, k2, k3, k4}
  Undef = Undef
  Null = Null
  Hash <- Hash4
  MaxCapacity = 8
  MIN_CAPACITY = 2
  Subjects = {"list", "map", "string", "range"}
  Texts <- Strings
  Ranges <- Ranges5
  MaxLists = 3
  MaxElements = 4
  MaxChanges <- Changes
  MaxIteration = 9
INVARIANTS
  LoopsVisitAll
PROPERTIES
  ListsAreSequences
  LoopsEnd
