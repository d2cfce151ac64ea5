SPECIFICATION FairSpec
CONSTANTS
  THREAD_COUNT = 2
  Nobody = Nobody
  Columns = 1
  LastRow = 4
  Shapes <- TwoRuns
  MaxBlocks = 2
  SpuriousWakeups = TRUE
INVARIANTS
  AwakeWorkersCoverQueue
  ShutdownWakesSleepers
  CursorReturnsToInput
  RowsShowWholeBlocks
PROPERTIES
  DispatchesInOrder
  QueueDrains
  ShutdownCompletes
