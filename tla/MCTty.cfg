CONSTANTS
    ANY = ANY
    INTERRUPT = INTERRUPT
    NO_TASK = NO_TASK
    HARD_INT = HARD_INT
    Procs <- MCProcs
    IntTasks <- MCIntTasks
    Bodies <- TtyBodies
    TTY = 1
    FS = 2
    Ttys <- MCTtys
    FIRST_TTY = "tty0"
    NextTty <- MCNext
    Sessions <- MCSessions
    Counts = {2}
    KB_IN_BYTES = 2
    TTY_BUFFER_SIZE = 2
SPECIFICATION TtySpec
INVARIANTS
    NothingForgotten
    NoCircle
PROPERTIES
    KeysDrained
    EnterResumes
CHECK_DEADLOCK FALSE
