SPECIFICATION FairLinkSpec
CONSTANTS
  MAX_FRAME = 4
  MAX_CMD_FRAME = 3
  RX_CAP = 3
  MaxLine = 0
  MaxOut = 3
  MaxSends = 3
  Alphabet <- Nothing
  Positions <- MCPositions
  Commands <- AllKinds
  Echoes = TRUE
  Newlines = FALSE
  Rejects = TRUE
  Silences = TRUE
  Checksums = {FALSE}
  Late = FALSE
  WriteErrors = FALSE
CHECK_DEADLOCK FALSE
PROPERTY
  IsRequestReply
