CONSTANTS
  TaskCount = 3
  MaxTasks = 4
  PriorityCount = 3
  BasePriority <- LowHighIdle
  SemCount = 1
  QueueCount = 0
  MutexCount = 0
  TickModulus = 4
  TimeSlice = 1
  MaximumCount <- SemMaximum
  InitialCount <- SemInitial
  Capacity <- QueueCapacity
  Messages = {}
  Delays = {1}
  Timeouts = {1}
  Calls <- GiveAndTake
  RunTicks = 3
  CallsFail = TRUE
  MaxPending = 2
SPECIFICATION FairPortSpec
CHECK_DEADLOCK FALSE
INVARIANTS
  PortTypeOK OnlyCurrentRuns OpenGateIsAnAnswer NobodyLeftBehind RefusedOnlyBetweenStores
PROPERTIES
  ResponsesMatch TicksAccounted RunIsOver
