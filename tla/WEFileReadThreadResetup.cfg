SPECIFICATION Spec
CONSTANTS
    f1 = f1
    f2 = f2
    fBig = fBig
    fOpen = fOpen
    fGone = fGone
    p1 = p1
    p2 = p2
    r1 = r1
    r2 = r2
    a = a
    b = b
    ENCL = ENCL
    ESC = ESC
    DELIM = DELIM
    NL = NL
    EOF = EOF
    StdIn = StdIn
    NoName = NoName
    Closed = Closed
    NoPm = NoPm
    NoThread = NoThread
    Files <- MCFiles
    PMs <- MCPMs
    Readers <- TwoReaders
    FileText <- MCFileText
    Missing <- MCMissing
    EnclEscArgs <- NoEnclEsc
    BuffSize = 8
    BatchQty = 2
    MaxFiles = 3
    MaxSetups = 2
INVARIANT OneReader
CHECK_DEADLOCK FALSE
