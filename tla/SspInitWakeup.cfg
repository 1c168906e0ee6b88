SPECIFICATION Spec
CONSTANTS
    s1 = s1
    s2 = s2
    Specs <- MCSpecs
    NoSsp = NoSsp
    NoSpec = NoSpec
    N = 1
    FullWatch = {1}
    Legacy = FALSE
    LaggingRes = FALSE
    MaxEdits = 2
    MaxFaults = 0
    MaxRestarts = 0
INVARIANT ConvergedFromCreation
CHECK_DEADLOCK FALSE
