CONSTANTS
  Entries = 16
  KernelDir = 14
  BootDirectory = 7
  BootTable0 = 8
  BootTable768 = 9
  FreeSets <- MCFreeSets
  Totals = {8, 16, 19, 24, 40}
  NotPresent = NotPresent
  LowEnd = 11
  KernelFrames = {13, 14, 15}
  FatPages = 2

SPECIFICATION KernelSpec

INVARIANT
  CacheHasItsFrames
