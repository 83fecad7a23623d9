CONSTANTS
    Owners = {o1, o2}
    Account = o1
    NoOwner = NoOwner
    MaxLives = 2
    MaxEdits = 1
    MaxPushes = 2
    MaxUpsets = 3
SPECIFICATION FairSpec
INVARIANT TypeOK
INVARIANT TeardownIsTotal
PROPERTY PassLeavesLayout
PROPERTY PassesGetThrough
CHECK_DEADLOCK FALSE
