SPECIFICATION FairSpec
CONSTANTS
  MaxDrivers = 4
  NofBuses = 1
  NofDevices = 2
  NofFunctions = 2
  Machines <- MCMachines
  Ports <- MCPorts
  ChunkHeader = 2
  DriverSize = 5
  HeapSizes = {16, 50}
  FirstRequest = 3
  FirstAdapters <- MCAdapters
  Limits <- MCLimits
  DesktopWidth = 4
  DesktopHeight = 1
  Windows <- MCWindows
  MaxChildren = 2
  Deltas <- MCDeltas
  Presses <- MCPresses
INVARIANTS
  TypeOK
  SegmentsReachTheirLimits
  EachFunctionOnce
  EachCardOneDriver
  TalksToItsCard
  HandlersAreActive
  RunsInMode
  FrontStaysInReach
PROPERTIES
  DragAndDropHolds
  OnlyDevicesHoldTheBoot
