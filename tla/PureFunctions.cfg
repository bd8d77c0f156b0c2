SPECIFICATION Spec
CONSTANTS
    a = a
    b = b
    Space = Space
    ENCL = ENCL
    ESC = ESC
    DELIM = DELIM
    NL = NL
    EOF = EOF
    SEP = SEP
    tableT = tableT
    aliasU = aliasU
    filterF = filterF
    filterG = filterG
    Empty = Empty
    ok = ok
    nr = nr
    na = na
    blank = blank
    fan = fan
    temp = temp
    rpm = rpm
    cr = cr
    SmallBuf = 4
    LargeBuf = 8
    MaxTextLen = 6
    MaxListLen = 5
    CeilCalls <- MCCeilCalls
    CharCalls <- MCCharCalls
    TrimCalls <- MCTrimCalls
    RowCalls <- MCRowCalls
    FileLists <- MCFileLists
    QueryCalls <- MCQueryCalls
    MonitorCalls <- MCMonitorCalls
    SubjectCalls <- MCSubjectCalls
    ParseCalls <- MCParseCalls
    FieldCalls <- MCFieldCalls
    Words <- MCWords
INVARIANTS
    TypeOK
    CeilIsLeastIntegerNotBelow
    CharIsBytesOfValue
    TrimRemovesAffixes
    RowIsFirstRow
    NoCharacterLost
    WhereMeansEveryStep
    ColumnMapLeadsToColumn
    AlarmsAreSeverityOfReadings
    KeywordsInAnyCase
    ScanSplitsAtNewline
    BracketedTextIsOneToken
    EndOfInputIsSticky
    RescanIsFreshScan
    UnmatchedCharactersAreEchoed
    FieldHoldsValue
CHECK_DEADLOCK FALSE
