SPECIFICATION FairSpec
CONSTANTS
    Envs <- MCEnvs
    Specs <- MCSpecs
    MaxDisturbances = 1
INVARIANTS
    Wired
    

    
CHECK_DEADLOCK FALSE
