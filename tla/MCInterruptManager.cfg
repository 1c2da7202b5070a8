CONSTANTS
  A = A
  B = B
  Boot = Boot
  NoTask = NoTask
  Gone = Gone
  Tasks <- MCTasks
  MaxTasks = 2
  Depths = {0, 1}
  Word <- MCWord
  Entry <- MCEntry
  CodeSegment = 16
  IF_FLAG = 514
  Lines = {0, 1, 12}
  FirstBoot <- MCFirstBoot
  Successors <- MCSuccessors
  AtInt <- MCAtInt
  AfterInt <- MCAfterInt
  Write = 4
SPECIFICATION FairSpec
INVARIANTS
  TypeOK
  AllAcknowledged
PROPERTIES
  KernelMainIsAbandoned
  EveryTaskRuns
  RoundRobinHolds
