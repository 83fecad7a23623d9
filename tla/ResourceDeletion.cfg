CONSTANTS
    Kinds = {"Package","Deployment","GitHubEvent","GitRepository","Route","Domain"}
    CacheLag = FALSE
    MaxLives = 1
    MaxEdits = 0
    MaxUpsets = 0
SPECIFICATION FairSpec
PROPERTY EveryDeletionCompletes
CHECK_DEADLOCK FALSE
