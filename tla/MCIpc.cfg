CONSTANTS
    tty = tty
    fs = fs
    mm = mm
    a = a
    m1 = m1
    m2 = m2
    ANY = ANY
    INTERRUPT = INTERRUPT
    NO_TASK = NO_TASK
    HARD_INT = HARD_INT
    Procs <- MCProcs
    IntTasks <- MCIntTasks
    Bodies <- MCBodies
SYMMETRY MCSymmetry
SPECIFICATION Spec
INVARIANTS
    TypeOK
    QueueExact
    SendGraphAcyclic
    NoMissedWakeup
    AssertsHold
PROPERTIES
    RendezvousSound
    NoOvertaking
    ImplementsQueue
CHECK_DEADLOCK FALSE
