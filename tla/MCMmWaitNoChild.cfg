CONSTANTS
    ANY = ANY
    INTERRUPT = INTERRUPT
    NO_TASK = NO_TASK
    HARD_INT = HARD_INT
    Procs <- MCProcs2
    IntTasks <- MCIntTasks
    Bodies <- MmBodies
    MM = 4
    PID_INIT = 5
    Settings <- MCUninterrupted
SPECIFICATION MmSpec
INVARIANTS
    WaiterHasChild
CHECK_DEADLOCK FALSE
