SPECIFICATION Spec
CONSTANTS
  f1 = f1
  f2 = f2
  f3 = f3
  v1 = v1
  NoFiber = NoFiber
  Null = Null
  Val = {v1}
  NativeFns = FALSE
  Fiber <- Fiber2
  Arity <- Arity2
  MaxSp = 4
  MaxFrames = 2
  MaxCStack = 4
INVARIANTS
  FramesNested
  RegistersFit
PROPERTIES
  SuspendedUntouched
