CONSTANTS
    b = b
    s = s
    t = t
    Resources = {b, s}
    KindOf <- BuildAndUnit
    CacheLag = TRUE
    MaxLives = 1
    MaxChanges = 2
    MaxUpsets = 1
SPECIFICATION FairSpec
INVARIANT TypeOK
INVARIANT ObserverIsDone
PROPERTY RollupConverges
PROPERTY RefsDiscovered
CHECK_DEADLOCK FALSE
