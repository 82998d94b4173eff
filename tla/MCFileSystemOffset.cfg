CONSTANTS
  FILE_NAME_LENGTH = 8
  DENTRY_LENGTH = 6
  DATA_BLOCK_SIZE = 2
  WORD = 32
  INODES = 14
  Dentries <- MCDentries
  IndexNodes <- MCIndexNodes
  Requests <- MCRequests
  Commands <- MCCommands
  Offsets <- MCOffsets
  Lengths <- MCLengths
SPECIFICATION Spec
INVARIANT ReadsAtOffset
