SPECIFICATION Spec
CONSTANTS
  File <- MCFile
  Value <- MCValue
  MaxNesting = 3
  NameCount = 2
  MaxItems = 2
  MaxValidates = 2
INVARIANTS
  TypeOK
  ResolvesLexically
  AcceptedIsSound
CHECK_DEADLOCK FALSE
