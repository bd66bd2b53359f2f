SPECIFICATION Spec
CONSTANTS
  Object = {o1, o2}
  Kind = {"list", "map", "inst"}
  MaxBuffer = 2
  INITIAL_GC_SIZE = 3
  MIN_HEAP_SIZE = 2
  SIZE_MAX = 15
INVARIANTS
  TriColour
  NoDangling
PROPERTIES
  HeapIsCollected
  CollectionEnds
