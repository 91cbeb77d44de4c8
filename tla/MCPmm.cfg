CONSTANTS
  U32 = 128
  BlockSize = 4
  BitsPerByte = 4
  WordBits = 8
  MemsetOnes = 2
  KiB = 2
  MemSize = 32
  MemoryMap <- MCMemoryMap
  Residues <- MCResidues
  RunSizes = {0, 1}

SPECIFICATION Spec

INVARIANTS
  TypeOK
  NoDoubleAllocation
  FrameZeroNeverHeld
  NoOvercommit

PROPERTY
  AllocatesFrames
