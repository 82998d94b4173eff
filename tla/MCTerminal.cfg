CONSTANTS
  MAX_BUFFER_SIZE = 2
  Letters = {"l"}
  Symbols = {}
  Others = {"enter"}
SPECIFICATION Spec
INVARIANTS TypeOK ModifiersFollowKeys ReadsEnteredLine
PROPERTIES ImplementsLineEditor ReadEnds
