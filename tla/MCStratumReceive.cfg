SPECIFICATION FairSpec
CONSTANTS
  BufferSize = 4
  MaxBytes = 4
  MaxConns = 2
  Nul = Nul
INVARIANTS
  TypeOK
  NoLineLeftWaiting
  BlamedForLongLine
PROPERTIES
  RefinesLines
  LineHandled
