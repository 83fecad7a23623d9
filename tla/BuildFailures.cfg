CONSTANTS
    c1 = c1
    c2 = c2
    e1 = e1
    e2 = e2
    Commits = {c1}
    NoCommit = NoCommit
    OtherEvent = OtherEvent
    Events = {e1}
    EventCreated <- OneEvent
    MaxAttempts = 2
    SameSecond = FALSE
    CacheLag = FALSE
    RunResults = {"failed"}
    MaxLives = 1
    MaxDeletes = 1
    MaxDeliveries = 0
    MaxFaults = 1
    MaxRestarts = 1
    MaxToggles = 2
SPECIFICATION FairSpec
INVARIANT NoWakeUpLost
INVARIANT RunsHaveTheirSecrets
PROPERTY KeepsLifecycle
PROPERTY DeletionCompletes
PROPERTY Converges
CHECK_DEADLOCK FALSE
