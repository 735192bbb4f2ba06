CONSTANTS
    NUM_BITS = 2
    Pow2 <- Pow2Table
    Client = "documented"
    NDEBUG = FALSE
    MaxTasks = 2
    MaxModules = 1
    MaxQueued = 12
SPECIFICATION Spec
PROPERTIES ExecutesInitialized
CHECK_DEADLOCK FALSE
