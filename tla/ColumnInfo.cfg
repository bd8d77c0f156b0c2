SPECIFICATION FairSpec
CONSTANTS
    c1 = c1
    c2 = c2
    w1 = w1
    w2 = w2
    NoOwner = NoOwner
    Columns <- MCColumns
    RefColumn = c1
    ColWidth <- MCColWidth
    DBRoots = {1, 2, 3}
    Snapshots <- MCSnapshots
    BlksPerExtent = 4
    AbbrevRows = 2
    NumRows = 9
    BufRows = 3
    Value <- MCValue
    Saturated = {4}
    Writers <- MCWriters
INVARIANTS
    TypeOK
    ColumnHoldsInput
    CPBoundarySplit
    ReportMatchesDisk
PROPERTIES
    RotationRefinement
    JobEnds
CHECK_DEADLOCK FALSE
