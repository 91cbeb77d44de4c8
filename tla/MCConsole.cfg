CONSTANTS
  Cols = 2
  Rows = 3
  Byte = 3
  Glyphs = {x}
  NL = NL
  BS = BS
  Blank = Blank
  x = x
  MaxLine = 3
  TypesAtBoot = FALSE
  MaxOut = 6

SPECIFICATION Spec

INVARIANTS
  TypeOK
  ShowsOutput
  GetsCursor
