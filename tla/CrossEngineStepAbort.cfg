SPECIFICATION FairSpec
CONSTANTS
    ProjectSteps <- MCProjectSteps
    Jobs <- MCJobs
    Values <- MCValues
    Results <- MCResults
    Field <- MCField
    BadValues <- MCBadValues
    Fe1Passes <- MCFe1Passes
    Fe1Throws <- MCFe1Throws
    Fe3Throws <- MCFe3Throws
    Unset = Unset
    fRowsPerGroup = 2
    ERR_CROSS_ENGINE_CONNECT = 1
    ERR_IN_DELIVERY = 2
    OtherErr = 3
    DLCapacity = 1
PROPERTY ThreadEndsAlways
CHECK_DEADLOCK FALSE
