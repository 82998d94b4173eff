CONSTANTS
  BASE = 6
SPECIFICATION Spec
INVARIANTS TypeOK InService NoSilentDevice NotTooEarly
PROPERTIES KeyServed ReadReturns
