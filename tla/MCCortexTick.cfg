CONSTANTS
  TaskCount = 3
  MaxTasks = 4
  PriorityCount = 2
  BasePriority <- TwoEqualsIdle
  SemCount = 1
  QueueCount = 0
  MutexCount = 0
  TickModulus = 6
  TimeSlice = 2
  MaximumCount <- SemMaximum
  InitialCount <- SemInitial
  Capacity <- QueueCapacity
  Messages = {}
  Delays = {1, 2}
  Timeouts = {1}
SPECIFICATION CortexSpec
INVARIANTS
  SleepersAreListed
