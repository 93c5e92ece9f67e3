CONSTANTS
  TaskCount = 4
  MaxTasks = 4
  PriorityCount = 3
  BasePriority <- EqualsHighIdle
  SemCount = 1
  QueueCount = 0
  MutexCount = 0
  TickModulus = 8
  TimeSlice = 2
  MaximumCount <- SemMaximum
  InitialCount <- SemInitial
  Capacity <- QueueCapacity
  Messages = {}
  Delays = {0, 2, 5}
  Timeouts = {0, 1, 7}
SPECIFICATION FairSpec
INVARIANTS
  ContainersExact HighestPriorityRuns NoLostWakeup DeadlinesAhead
PROPERTIES
  WakesExactlyOnTime DirectHandoff FiniteWaitsEnd EqualsShareProcessor
