SPECIFICATION Spec
CONSTANTS
  MAX_FRAME = 64
  MAX_CMD_FRAME = 32
  Commands <- MCCommands
  Responses <- MCResponses
CHECK_DEADLOCK FALSE
INVARIANTS
  CommandRoundTrip
  ResponseRoundTrip
  DamageDetected
  HeardInRange
  EchoIsNoAnswer
  FramesFit
