CONSTANTS
  Present = {"slave"}
  SectorBytes = 4
  Width = 65536
  Sectors <- MCSectors
  Counts <- MCCounts
  Buffers <- MCBuffers
  Identity <- MCIdentity
  Floating = 255
  Prompt = TRUE
SPECIFICATION FairSpec
INVARIANTS
  TypeOK
  NoTransferLeftOpen
PROPERTIES
  StoresOneWrite
  ReadsTheSector
  FlushIsDurable
  CallsReturn
