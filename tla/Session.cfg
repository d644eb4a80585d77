SPECIFICATION Spec
CONSTANTS
  Clients = {c1}
  MaxCommands = 2
  MaxStarts = 2
  BodySizes = {0, 2, 4, 6}
  LengthModulus = 5
  SocketBuffer = 3
  Outcomes = {"done", "throws", "crashes"}
INVARIANTS TypeOK FramesAligned AnswersMatch
PROPERTIES CommandsEnd SessionsEnd
CHECK_DEADLOCK FALSE
