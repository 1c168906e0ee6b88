SPECIFICATION FairSpec
CONSTANTS
    b = b
    c = c
    t = t
    amd = amd
    arm = arm
    NoArch = NoArch
    None = None
    Archs <- MCArchs
    DefaultArch = amd
    Names <- MCNames
    CronNames <- MCCronNames
    Sources <- MCSources
    Specs <- MCSpecs
    UserPvcs <- MCUserPvcs
    Lagging = FALSE
    MaxEdits = 1
    MaxFaults = 1
INVARIANTS
    
    
    GoldenImagesConsistent
PROPERTIES
    EventuallyAtRest
    CleanupCompletes
CHECK_DEADLOCK FALSE
