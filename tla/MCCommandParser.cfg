SPECIFICATION Spec
CONSTANTS
  MAX_FRAME = 2
  MAX_CMD_FRAME = 4
  MaxLine = 6
  Alphabet <- MCAlphabet
INVARIANTS
  TypeOK
  BufferIsTail
  OnlyInRange
PROPERTY
  DecodesLines
