CONSTANTS
  TaskCount = 4
  MaxTasks = 4
  PriorityCount = 4
  BasePriority <- LowMidHighIdle
  SemCount = 1
  QueueCount = 0
  MutexCount = 2
  TickModulus = 4
  TimeSlice = 2
  MaximumCount <- SemMaximum
  InitialCount <- SemInitial
  Capacity <- QueueCapacity
  Messages = {}
  Delays = {1}
  Timeouts = {1, 3}
SPECIFICATION Spec
INVARIANTS
  KernelValid HighestPriorityRuns WaitListsOrdered InheritanceExact OwnersCanRelease
