SPECIFICATION HdSpec
CONSTANTS
    ANY = ANY
    INTERRUPT = INTERRUPT
    NO_TASK = NO_TASK
    HARD_INT = HARD_INT
    Procs <- MCTasks
    IntTasks <- MCIntTasks
    Bodies <- HdBodies
    HD = 1
    SYS = 2
    FS = 3
    SECTOR_SIZE = 2
    NSECTOR = 3
    NR_SUB_PER_PART = 3
    Sectors <- MCSectors
    Values = {101, 102}
    Primary <- MCPrimary
    Logical <- MCLogical
    Settings <- MCSettings
INVARIANTS
    RequestsExact
    NoStrayInterrupt
PROPERTIES
    RequestsAnswered
    SysServes
CHECK_DEADLOCK FALSE
