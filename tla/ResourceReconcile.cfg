SPECIFICATION FairSpec
CONSTANTS
    s1 = s1
    s2 = s2
    l1 = l1
    l2 = l2
    NoObj = NoObj
    NoEntry = NoEntry
    NoSpec = NoSpec
    Specs <- MCSpecs
    Labels <- MCLabels
    Kinds <- MCKinds
    MaxEdits = 3
    MaxFaults = 1
INVARIANTS
    TypeOK
    CachedIsDesired
    RestingIsRestored
PROPERTY
    EventuallyRestored
CHECK_DEADLOCK FALSE
