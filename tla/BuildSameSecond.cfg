CONSTANTS
    c1 = c1
    c2 = c2
    e1 = e1
    e2 = e2
    Commits = {c1}
    NoCommit = NoCommit
    OtherEvent = OtherEvent
    Events = {e1}
    EventCreated <- OneEvent
    MaxAttempts = 2
    SameSecond = TRUE
    CacheLag = FALSE
    RunResults = {"pushed", "failed"}
    MaxLives = 1
    MaxDeletes = 0
    MaxDeliveries = 1
    MaxFaults = 0
    MaxRestarts = 0
    MaxToggles = 0
SPECIFICATION Spec
PROPERTY OutcomeNeverRegresses
CHECK_DEADLOCK FALSE
