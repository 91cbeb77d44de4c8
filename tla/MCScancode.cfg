CONSTANTS
  Bytes <- MCBytes
  Keys = {42, 54, 58, 30, 2}
  MaxDown = 3
  None = None

SPECIFICATION KeysSpec

INVARIANTS
  ScancodeTypeOK
  NothingInService
  CharsAsMeant

PROPERTY
  KeysArrive
