SPECIFICATION Spec
CONSTANTS
  MAX_FRAME = 3
  MAX_CMD_FRAME = 2
  RX_CAP = 3
  MaxLine = 5
  MaxOut = 3
  Commands <- MCCommands
  Alphabet <- MCAlphabet
PROPERTY
  EchoIsWholeFrame
