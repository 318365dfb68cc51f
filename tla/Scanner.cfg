SPECIFICATION Spec
CONSTANTS
  Byte <- MCByte
  Nul = 0
  Outputs <- MCOutputs
  Chunk = 4
  Pipe = 5
  Drop = 2
  MaxFiles = 2
  Descriptors = 4
  Others = 1
INVARIANTS
  TypeOK
  Faithful
  Accounted
PROPERTIES
  ScanEnds
