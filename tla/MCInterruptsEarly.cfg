CONSTANTS
  BASE = 6
SPECIFICATION Spec
INVARIANTS ReadWaitsAll
