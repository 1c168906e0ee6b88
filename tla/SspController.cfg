SPECIFICATION FairSpec
CONSTANTS
    s1 = s1
    s2 = s2
    Specs <- MCSpecs
    NoSsp = NoSsp
    NoSpec = NoSpec
    N = 1
    FullWatch = {1}
    Legacy = FALSE
    LaggingRes = FALSE
    MaxEdits = 3
    MaxFaults = 1
    MaxRestarts = 1
INVARIANTS
    TypeOK
    
    Converged
PROPERTIES
    ObservedGenerationExact
    
    EventuallySettled
CHECK_DEADLOCK FALSE
