SPECIFICATION LinkSpec
CONSTANTS
  MAX_FRAME = 4
  MAX_CMD_FRAME = 3
  RX_CAP = 3
  MaxLine = 0
  MaxOut = 3
  MaxSends = 2
  Alphabet <- Nothing
  Positions <- MCPositions
  Commands <- AllKinds
  Echoes = FALSE
  Newlines = FALSE
  Rejects = TRUE
  Silences = FALSE
  Checksums = {FALSE}
  Late = FALSE
  WriteErrors = FALSE
CHECK_DEADLOCK FALSE
INVARIANT
  NoReplySwallowed
