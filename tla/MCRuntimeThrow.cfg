SPECIFICATION SpecThrow
CONSTANTS
  root = root
  s1 = s1
  s2 = s2
  p1 = p1
  p2 = p2
  Scope <- MCScope
  RootScope = root
  Proc <- MCProc
  NoContext = NoContext
  MaxDepth = 5
INVARIANTS
  CurrentScopeTracked
