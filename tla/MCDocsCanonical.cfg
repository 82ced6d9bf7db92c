SPECIFICATION Spec
CONSTANTS
  na = na
  nb = nb
  nr = nr
  nm = nm
  ScopeName <- MCScopeName
  RegName <- MCRegName
  Mark <- MCMark
  Path <- MCPath
  Target <- MCTarget
  MaxDirents = 5
INVARIANT
  CanonicalFormOfThePath
