CONSTANTS
    c1 = c1
    c2 = c2
    e1 = e1
    e2 = e2
    Commits = {c1}
    NoCommit = NoCommit
    OtherEvent = OtherEvent
    Events = {e1}
    EventCreated <- OneEvent
    MaxAttempts = 3
    SameSecond = FALSE
    CacheLag = FALSE
    RunResults = {"pushed", "silent", "failed"}
    MaxLives = 1
    MaxDeletes = 0
    MaxDeliveries = 2
    MaxFaults = 0
    MaxRestarts = 0
    MaxToggles = 0
SPECIFICATION FairSpec
INVARIANT OutcomeIsFinal
INVARIANT RetryOnlyAfterFailure
INVARIANT ImageIsOfOutcome
PROPERTY Converges
CHECK_DEADLOCK FALSE
