SPECIFICATION Spec
CONSTANTS
  f = f
  g = g
  h = h
  Fn = {f, g, h}
  Arity <- MCArity
  StackSize <- MCStackSize
  Block = {b1, b2}
  Wild = Wild
  MIN_STACK_SIZE = 4
  INITIAL_CALL_FRAMES = 2
  MaxLog = 4
  MaxFrames = 4
  MaxArgc = 1
CHECK_DEADLOCK FALSE
INVARIANTS
  RoomForFrames
  FramesStacked
PROPERTIES
  PointersFollow
