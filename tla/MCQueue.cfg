CONSTANTS
  TaskCount = 4
  MaxTasks = 4
  PriorityCount = 3
  BasePriority <- LowEqualsIdle
  SemCount = 0
  QueueCount = 1
  MutexCount = 0
  TickModulus = 4
  TimeSlice = 1
  MaximumCount <- SemMaximum
  InitialCount <- SemInitial
  Capacity <- QueueCapacity
  Messages = {"a", "b"}
  Delays = {0}
  Timeouts = {0, 1, 3}
SPECIFICATION Spec
INVARIANTS
  TypeOK NoLostWakeup
PROPERTIES
  QueueIsChannel
