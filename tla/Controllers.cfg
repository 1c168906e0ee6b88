SPECIFICATION ControllersSpec
CONSTANTS
    n1 = n1
    n2 = n2
    amd = amd
    arm = arm
    c1 = c1
    c2 = c2
    NoArch = NoArch
    DefaultArch = amd
    Archs <- MCArchs
    Namespaces <- MCNamespaces
    OlmNamespaces <- MCOlmNamespaces
    Specs <- MCSpecs
    MaxRequests = 3
    MaxInstalls = 1
    MaxServiceEdits = 3
    MaxServiceFaults = 2
    Claims <- MCClaims
    Disks <- MCDisks
    VolumeLists <- MCVolumeLists
    MaxVmEdits = 4
    MaxVmFaults = 1
INVARIANTS
    AdmittedIsUsable
    
PROPERTIES
    ScopeWidened
    
    ServiceRestored
CHECK_DEADLOCK FALSE
