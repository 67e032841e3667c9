SPECIFICATION Spec
CONSTANTS
    Sessions <- MCSessions
    KB_IN_BYTES = 3
INVARIANTS
    ReadAsTyped
    NoVainWait
PROPERTIES
    RingIsQueue
CHECK_DEADLOCK FALSE
