\* FIELD_TEST of a bitmask with the name of a bit.
SPECIFICATION Spec
CONSTANTS
  Devices <- HttCpus
  MaxStatements = 1300
INVARIANTS
  HttDecides
