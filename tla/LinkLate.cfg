SPECIFICATION ClientSpec
CONSTANTS
  MAX_FRAME = 8
  MAX_CMD_FRAME = 3
  RX_CAP = 3
  MaxLine = 0
  MaxOut = 7
  MaxSends = 3
  MaxTyped = 2
  MaxAhead = 0
  MaxLosses = 2
  Alphabet <- Nothing
  Positions <- MCPositions
  Commands <- AllSent
  Typed <- TypedAtCli
  Programs = {"tcp_poll", "serial_home", "cli"}
  Echoes = FALSE
  Newlines = FALSE
  Rejects = TRUE
  Silences = TRUE
  Checksums = {TRUE, FALSE}
  Late = TRUE
  WriteErrors = TRUE
CHECK_DEADLOCK FALSE
INVARIANTS
  ClientTypeOK
  
  GenuineIfWhole
  LagBound
  PollIsFresh
  StoppedIsHeard
  HomeIsTold
  
PROPERTIES
  InOrder
  CheckedIsGenuine
