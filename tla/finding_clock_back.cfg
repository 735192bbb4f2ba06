CONSTANTS
    NUM_BITS = 3
    Pow2 <- Pow2Table
    Client = "documented"
    NDEBUG = FALSE
    MaxTasks = 2
    MaxModules = 1
    MaxQueued = 12
SPECIFICATION Spec
PROPERTIES TimeNeverGoesBack
CHECK_DEADLOCK FALSE
