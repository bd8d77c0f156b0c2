SPECIFICATION FairPipeline
CONSTANTS
    ProjectSteps <- MCProjectSteps
    Jobs <- MCJobs
    Values <- MCValues
    Results <- MCResults
    Field <- MCField
    BadValues <- MCBadValues
    Fe1Passes <- MCFe1Passes
    Fe1Throws <- MCFe1Throws
    Fe3Throws <- MCFe3Throws
    Unset = Unset
    fRowsPerGroup = 2
    ERR_CROSS_ENGINE_CONNECT = 1
    ERR_IN_DELIVERY = 2
    OtherErr = 3
    tupleHavingStepErr = 4
    DLCapacity = 1
    HavingJobs <- MCHavingJobs
    HavingCols <- MCHavingCols
    HavingPasses <- MCHavingPasses
    HavingThrows <- MCHavingThrows
INVARIANTS
    PipelineTypeOK
    GroupsAreQueryResult
    JobDeliversResult
PROPERTIES
    PipelineEnds
CHECK_DEADLOCK FALSE
