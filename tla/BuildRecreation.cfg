CONSTANTS
    c1 = c1
    c2 = c2
    e1 = e1
    e2 = e2
    Commits = {c1}
    NoCommit = NoCommit
    OtherEvent = OtherEvent
    Events = {e1}
    EventCreated <- OneEvent
    MaxAttempts = 2
    SameSecond = FALSE
    CacheLag = TRUE
    RunResults = {"pushed", "failed"}
    MaxLives = 2
    MaxDeletes = 1
    MaxDeliveries = 0
    MaxFaults = 0
    MaxRestarts = 0
    MaxToggles = 0
SPECIFICATION Spec
INVARIANT TypeOK
INVARIANT ProvisionedUnderFinalizer
INVARIANT OneOutcome
PROPERTY OutcomeNeverRegresses
CHECK_DEADLOCK FALSE
