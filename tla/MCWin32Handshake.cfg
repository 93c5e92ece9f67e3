CONSTANTS
  TaskCount = 3
  MaxTasks = 4
  PriorityCount = 2
  BasePriority <- TwoEqualsIdle
  SemCount = 1
  QueueCount = 0
  MutexCount = 0
  TickModulus = 4
  TimeSlice = 2
  MaximumCount <- SemMaximum
  InitialCount <- SemInitial
  Capacity <- QueueCapacity
  Messages = {}
  Delays = {1}
  Timeouts = {1}
  Calls <- TakeAndGive
  RunTicks = 0
  CallsFail = FALSE
  MaxPending = 2
SPECIFICATION PortSpec
CHECK_DEADLOCK FALSE
INVARIANTS
  OneMailboxFull
