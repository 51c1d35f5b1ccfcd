SPECIFICATION Spec
CONSTANTS
  Packet = 64
  NameLengths = {0, 1, 10, 11, 12, 13, 14, 28, 29, 30, 31, 60, 61, 255}
  ListLengths = {0, 1, 11, 12, 13, 28}
  MaxAsks = 2
  MaxCancels = 1
INVARIANT NothingLeft
PROPERTIES AnswerSpec AskAnswered
CHECK_DEADLOCK FALSE
