CONSTANTS
    Kinds = {"Package", "Deployment", "Build", "GitHubEvent", "GitRepository",
             "Route", "Domain", "Environment", "ServiceUnit"}
    MaxTroubles = 2
    MaxUpsets = 2
SPECIFICATION FairSpec
INVARIANT TypeOK
INVARIANT QuietMeansDone
PROPERTY FailureIsReported
PROPERTY SuccessIsReported
CHECK_DEADLOCK FALSE
