CONSTANTS
  Names <- MCNames
  Dos <- MCDos
  LastCluster = 4
  Digit = 2
  SectorBytes = 4
  SectorUnits = 2
  RootEntries = 3
  EofMin = 7
  Sizes = {1, 3}
  Contents = {x}
  Pages = 2
  Images <- MCImages
  x = x
  End = End
  Deleted = Deleted
  NoFile = NoFile
  NoName = NoName

SPECIFICATION Spec

INVARIANTS
  TypeOK
  NoCrossLink
  ChainsEnd
  TablesAgree
  ListShowsEveryFile
  ReadsInOrder

PROPERTIES
  DuplicatesOnlyWithoutPages
  KeepsFiles
