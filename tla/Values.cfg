SPECIFICATION Spec
CONSTANTS
  o1 = o1
  o2 = o2
  o3 = o3
  n = n
  s = s
  t = t
  u = u
  Thing = {o1, o2, o3}
  Number = {n}
  Str = {s, t, u}
  Text <- Texts
  Graphs <- Graphs2
  Null = Null
  Error = Error
  MaxDepth = 6
CHECK_DEADLOCK FALSE
INVARIANTS
  WrittenRightly
  AnswersAreRight
PROPERTIES
  RecursionsEnd
