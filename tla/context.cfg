CONSTANTS
    NUM_BITS = 2
    Pow2 <- Pow2Table
    Client = "ordered"
    NDEBUG = FALSE
    MaxTasks = 4
    MaxModules = 1
    MaxQueued = 12
SPECIFICATION FairSpec
INVARIANTS TypeOK InOrder NoneOverdue QueuedOnce
PROPERTIES StoppedMeansDone RunProgresses ImplementsEventSchedule CallsReturn
CHECK_DEADLOCK FALSE
