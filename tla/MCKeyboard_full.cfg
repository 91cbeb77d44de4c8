CONSTANTS
  BufferSize = 4
  a = a
  b = b
  NL = NL
  Chars = {a, b}
  Counts = {2, 3}

SPECIFICATION Spec

PROPERTY
  EnterMakesLineAvailable
