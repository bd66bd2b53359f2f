SPECIFICATION Spec
CONSTANTS
  f1 = f1
  f2 = f2
  f3 = f3
  v1 = v1
  NoFiber = NoFiber
  Null = Null
  Val = {}
  NativeFns = FALSE
  Fiber <- Fiber3
  Arity <- Arity3
  MaxSp = 3
  MaxFrames = 1
  MaxCStack = 4
SYMMETRY Symmetric
INVARIANTS
  ChainOfCallers
  CallersWaitAtSlot
PROPERTIES
  FibersAreCoroutines
  OnlyErrorsLeadAstray
