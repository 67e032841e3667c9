SPECIFICATION UserSpec
CONSTANTS
    Word = 256
    MaxItems = 2
    Widths <- MCWidths
    Ints <- MCInts
    Texts <- MCTexts
    Letters <- MCLetters
    LINE = 7
    RDBUF = 10
    STACK = 29
    ARG_STACK = 4
    PROGRAM = 4
    IMAGE = 62
    SECTOR = 4
    CHUNK = 2
    Names = {1, 2, 3}
    Sizes <- MCSizes
    MaxFiles = 3
    DIGITS = 2
INVARIANTS
    ArgsIntact
    FormatExact
    UnpackedSoFar
CHECK_DEADLOCK FALSE
