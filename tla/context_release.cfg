CONSTANTS
    NUM_BITS = 2
    Pow2 <- Pow2Table
    Client = "any"
    NDEBUG = TRUE
    MaxTasks = 3
    MaxModules = 0
    MaxQueued = 12
SPECIFICATION Spec
INVARIANTS TickQueued HeapSound
CHECK_DEADLOCK FALSE
