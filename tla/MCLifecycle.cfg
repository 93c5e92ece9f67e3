SPECIFICATION LifeSpec
CONSTANTS
    MaxTasks = 2
    MaxSemaphores = 2
    MaxQueues = 1
    MaxMutexes = 1
    PriorityCount = 3
    SizeMax = 2
    Counts = {0, 1}
    Sizes = {0, 1, 2}
    MaxSessions = 2
INVARIANTS
    ConfigurationSound
    OneIdle
    LiveHandles
PROPERTIES
    RunNeedsInit
    StaleHandlesRefused
