CONSTANTS
    N = 4
    Priority <- MCPriority
    TTY = 1
    HD = 2
SPECIFICATION FairSpec
INVARIANTS
    TypeOK
    ResumesRunnable
PROPERTIES
    NoStarvation
