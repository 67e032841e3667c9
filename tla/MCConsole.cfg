SPECIFICATION ConsoleSpec
CONSTANTS
    NR_CONSOLE = 2
    vmem_limit = 5
    SCREEN_WIDETH = 2
    SCREEN_SIZE = 4
    Word = 24
    RegWord = 16
    BootCursor = 2
    Settings <- MCSettings
INVARIANTS
    ConsolesInside
    ShownIsCurrent
PROPERTIES
    OutputEnds
