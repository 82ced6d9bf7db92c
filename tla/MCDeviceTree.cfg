SPECIFICATION Spec
CONSTANTS
  na = na
  nb = nb
  nr = nr
  nm = nm
  ScopeName <- MCScopeName
  RegName <- MCRegName
  Mark <- MCMark
  Path <- MCPath
  Target <- MCTarget
  MaxDirents = 4
INVARIANTS
  TypeOK
  IsATree
  OpenScopesAlive
  ProcContextAlive
  ResolveKeepsMeaning
  ResolveIsCanonical
PROPERTY
  AliasesPinned
