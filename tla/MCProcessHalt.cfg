CONSTANTS
  MAX_PROCESS_NUMBER = 3
  FDARRAY_MAX = 3
  RW_LIMIT = 3
  Dentries <- MCDentries
  Shell = "shell"
  Missing = "nosuch"
SPECIFICATION Spec
PROPERTY HaltResumesParent
