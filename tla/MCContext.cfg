CONSTANTS
  TaskCount = 3
  MaxTasks = 4
  PriorityCount = 3
  BasePriority <- LowHighIdle
  SemCount = 1
  QueueCount = 0
  MutexCount = 0
  TickModulus = 4
  TimeSlice = 1
  MaximumCount <- SemMaximum
  InitialCount <- SemInitial
  Capacity <- QueueCapacity
  Messages = {}
  Delays = {1}
  Timeouts = {1, 3}
  Calls <- GiverAndTaker
SPECIFICATION FairContextSpec
INVARIANTS
  ContextsOwned ThreadIsCurrent
PROPERTIES
  CallsReturnWhenOver SwitchIsTaken FiniteCallsReturn
