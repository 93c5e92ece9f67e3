CONSTANTS
  TaskCount = 4
  MaxTasks = 4
  PriorityCount = 4
  BasePriority <- Priorities213
  SemCount = 1
  QueueCount = 1
  MutexCount = 0
  TickModulus = 8
  TimeSlice = 2
  MaximumCount <- SemMaximum
  InitialCount <- SemInitial
  Capacity <- QueueCapacity
  Messages <- TableValues
  Delays = {1, 2}
  Timeouts = {7}
  Temperatures <- Table
  HotOnes <- TableHot
  FirstDelay = 2
  Period = 1
  ProcessWork = 3
  AlarmWork = 2
SPECIFICATION FairDemoSpec
INVARIANT
  AlarmForEveryHotSample
PROPERTY
  PipelineMoves
