CONSTANTS
  Lbas = {0, 1}
  Words = 2
  Values = {0, 1}
  Garbage = 2

SPECIFICATION Spec

INVARIANTS
  TypeOK
  ReadOutcome
  WriteOutcome

PROPERTIES
  StoresWholeSectors
  MovesWordsOnRequest
  CallsEndOrWaitForNothing
