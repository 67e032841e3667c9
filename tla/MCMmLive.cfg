CONSTANTS
    ANY = ANY
    INTERRUPT = INTERRUPT
    NO_TASK = NO_TASK
    HARD_INT = HARD_INT
    Procs <- MCProcs3
    IntTasks <- MCIntTasks
    Bodies <- MmBodies
    MM = 4
    PID_INIT = 5
    Settings <- MCLive
SPECIFICATION MmFairSpec
INVARIANTS
    LiveTree
PROPERTIES
    ForkResult
    ForkReturns
    ExitWakesParent
CHECK_DEADLOCK FALSE
