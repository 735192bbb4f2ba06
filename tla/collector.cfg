CONSTANTS
    NUM_BITS = 2
    Pow2 <- Pow2Table
    Client = "ordered"
    NDEBUG = FALSE
    MaxTasks = 5
    MaxModules = 3
    MaxQueued = 12
    None = None
SPECIFICATION CollectorSpec
INVARIANTS ReportExact
CHECK_DEADLOCK FALSE
