SPECIFICATION LinkSpec
CONSTANTS
  MAX_FRAME = 4
  MAX_CMD_FRAME = 3
  RX_CAP = 3
  MaxLine = 0
  MaxOut = 3
  MaxSends = 2
  Alphabet <- Nothing
  Positions <- MCPositions
  Commands <- QueryAndStop
  Echoes = FALSE
  Newlines = TRUE
  Rejects = FALSE
  Silences = FALSE
  Checksums = {FALSE}
  Late = FALSE
  WriteErrors = FALSE
CHECK_DEADLOCK FALSE
INVARIANT
  NewlineIsOptional
