CONSTANTS
    Kinds = {"Package","Deployment","GitHubEvent","GitRepository","Route","Domain"}
    CacheLag = TRUE
    MaxLives = 1
    MaxEdits = 2
    MaxUpsets = 1
SPECIFICATION FairSpec
INVARIANT TypeOK
INVARIANT ServiceHasPrerequisites
INVARIANT NothingForgotten
PROPERTY KeepsLifecycle
PROPERTY Provisioned
PROPERTY DeletionCompletes
PROPERTY ResultConverges
CHECK_DEADLOCK FALSE
