CONSTANTS
    NUM_BITS = 3
    Pow2 <- Pow2Table
    Client = "ordered"
    NDEBUG = FALSE
    MaxTasks = 24
    MaxModules = 2
    MaxQueued = 36
    None = None
    Kilo = 3
    Periods <- PeriodTable
    LevelNames <- Levels
    MaxMain = 1
SPECIFICATION MCSpec
CONSTRAINT Company
INVARIANTS ModulesTypeOK StatusExact CountExact MessagesPaired LoggedExact AbortsOnlyAtEnd
CHECK_DEADLOCK FALSE
