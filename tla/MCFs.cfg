CONSTANTS
    p1 = p1
    p2 = p2
    Procs = {p1, p2}
    FIRST = p1
    NR_FILES = 2
    NR_FILE_DESC = 3
    NR_INODE = 3
    NR_INODES = 8
    NR_BITS = 19
    FILE_SECTS = 4
    BYTE = 2
    SECTOR = 2
    FSBUF_SECTS = 4
    DIR_SECT = 8
    TAR_START = 14
    TAR_SECTS = 3
    Workloads <- MCWorkloads
    NameLen <- MCNameLen
    MAX_FILENAME_LEN = 3
    MaxPos = 9
    DirMax = 16
    MaxCnt = 2
SPECIFICATION Spec
INVARIANTS
    TablesExact
    DiskConsistent
PROPERTIES
    FittingTransfer
    ImplementsOpenFiles
CHECK_DEADLOCK FALSE
