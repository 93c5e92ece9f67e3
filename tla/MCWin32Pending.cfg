CONSTANTS
  TaskCount = 2
  MaxTasks = 4
  PriorityCount = 2
  BasePriority <- OneTaskIdle
  SemCount = 0
  QueueCount = 0
  MutexCount = 0
  TickModulus = 4
  TimeSlice = 2
  MaximumCount <- SemMaximum
  InitialCount <- SemInitial
  Capacity <- QueueCapacity
  Messages = {}
  Delays = {1}
  Timeouts = {}
  Calls <- DelayAndYield
  RunTicks = 0
  CallsFail = FALSE
  MaxPending = 2
SPECIFICATION FairPortSpec
CHECK_DEADLOCK FALSE
PROPERTY
  PutOffTicksApplied
