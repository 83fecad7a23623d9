CONSTANTS
    b = b
    s = s
    t = t
    Resources = {s, t}
    KindOf <- TwoUnits
    CacheLag = FALSE
    MaxLives = 1
    MaxChanges = 1
    MaxUpsets = 1
SPECIFICATION Spec
PROPERTY RefsAreAdditive
CHECK_DEADLOCK FALSE
