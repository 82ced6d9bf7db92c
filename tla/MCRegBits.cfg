SPECIFICATION Spec
CONSTANTS
  r1 = r1
  r2 = r2
  Reg <- MCReg
  Width <- MCWidth
  Volatile <- MCVolatile
  Written <- MCWritten
  MaxPieces = 3
INVARIANTS
  TypeOK
  ReadsConcatenation
  WritesWhatIsAsked
  Untouched
