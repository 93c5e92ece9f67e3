CONSTANTS
  TaskCount = 4
  MaxTasks = 4
  PriorityCount = 3
  BasePriority <- EqualsHighIdle
  SemCount = 1
  QueueCount = 0
  MutexCount = 0
  TickModulus = 4
  TimeSlice = 2
  MaximumCount <- SemMaximum
  InitialCount <- SemInitial
  Capacity <- QueueCapacity
  Messages = {}
  Delays = {1}
  Timeouts = {1, 3}
SPECIFICATION Spec
PROPERTIES
  PreemptionKeepsTurn
