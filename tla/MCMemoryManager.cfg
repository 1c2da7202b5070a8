CONSTANTS
  HeapStart = 64
  HeapSize = 70
  ChunkHeader = 16
  WordSize = 256
  Requests <- MCRequests
SPECIFICATION FairSpec
INVARIANTS
  TypeOK
  HeapInvariant
  FreedHeapIsWhole
PROPERTIES
  NullOnlyWhenNothingFits
  MallocReturns
  HeapContractHolds
