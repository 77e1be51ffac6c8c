SPECIFICATION Spec
CONSTANTS
  MAX_FRAME = 3
  MAX_CMD_FRAME = 2
  MaxLine = 6
  Alphabet <- MCAlphabet
INVARIANTS
  TypeOK
  BufferIsTail
PROPERTY
  DecodesLines
