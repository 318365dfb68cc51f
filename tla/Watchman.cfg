SPECIFICATION Spec
CONSTANTS
  Base = 16
  Width <- MCWidth
  DoubleWidth = 2
  Storage = 8
  Dir <- MCDir
  Path <- MCPath
  Word <- MCWord
  Reply <- MCReply
  Responds <- MCResponds
  Cuts = {2, 3, 4, 9}
  Interrupts = TRUE
  Patience = 2
INVARIANTS
  TypeOK
  RequestFits
  Aligned
  Truthful
  Survives
PROPERTIES
  ScanEnds
