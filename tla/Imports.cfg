CONSTANTS
  Script = {a, b}
  Name = {x, y}
  None = None
  MaxImports = 2
SPECIFICATION Spec
SYMMETRY Alike
INVARIANTS
  CompilationsAreSeparate
  ImportedIsReady
PROPERTIES
  BodyRunsOnce
