CONSTANTS
  NUM_COLS = 3
  NUM_ROWS = 2
  PAGE = 8
  MAX_BUFFER_SIZE = 4
  BYTE = 4
SPECIFICATION Spec
INVARIANTS NeverFaults
