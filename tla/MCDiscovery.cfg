CONSTANTS
  Machine <- MCMachine
  ClientRule <- MCClientRule
  MaxCalls = 2
SPECIFICATION Spec
CHECK_DEADLOCK FALSE
INVARIANTS
  TypeOK
  ByRule
  Complete
  CpusInOrder
  RevIsThere
  RevIsRight
  ScopesClosed
  AffinityKept
