CONSTANTS
  BASE = 6
SPECIFICATION Spec
INVARIANTS DisableMasks
