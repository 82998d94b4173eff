CONSTANTS
  SIZE = 8
  VIDEO = 5
  USER = 6
  MAX_PROCESS_NUMBER = 3
SPECIFICATION Spec
INVARIANTS TypeOK KernelReachable NothingElseMapped OwnFrame KernelPrivate NoStaleTranslation
