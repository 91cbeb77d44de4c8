CONSTANTS
  Names <- MCNames
  Dos <- MCDos
  LastCluster = 3
  Digit = 2
  SectorBytes = 4
  SectorUnits = 2
  RootEntries = 2
  EofMin = 7
  Sizes = {1}
  Contents = {x}
  Pages = 3
  Images <- MCImages
  End = End
  Deleted = Deleted
  NoFile = NoFile
  NoName = NoName
  Lines <- MCLines
  Kind <- MCKind
  SP = SP
  NL = NL
  NUL = NUL
  Empty = Empty
  BufferSize = 7
  LineCells = 8
  Bytes <- MCBytes
  NameBytes = 12
  Fresh <- MCFresh
  BuffSize = 1
  note = note
  x = x
  create = create
  cat = cat
  help = help
  exit = exit

SPECIFICATION ShellSpec

CHECK_DEADLOCK FALSE

INVARIANTS
  ShellTypeOK
  RunsWhatWasTyped
  CatShowsLastCreate
  CreateStoresOrTells
