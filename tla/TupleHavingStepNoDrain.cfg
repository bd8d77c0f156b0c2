SPECIFICATION FairSpec
CONSTANTS
    RowGroupIn <- MCRowGroupIn
    DeliveredCols <- MCDeliveredCols
    Rows <- MCRows
    Passes <- MCPasses
    Throws <- MCThrows
    Inputs <- MCInputs
    tupleHavingStepErr = 1
    UpstreamErr = 2
    DLCapacity = 2
PROPERTY InputDrained
CHECK_DEADLOCK FALSE
