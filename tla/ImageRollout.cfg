CONSTANTS
    NumUnits = 2
    MaxImages = 2
    MaxEdits = 1
    MaxUpsets = 1
SPECIFICATION FairSpec
INVARIANT TypeOK
INVARIANT RolloutCurrent
INVARIANT ReportsCurrent
PROPERTY ReadsAreFresh
PROPERTY RolloutConverges
PROPERTY ReportsConverge
PROPERTY FailureIsReported
CHECK_DEADLOCK FALSE
