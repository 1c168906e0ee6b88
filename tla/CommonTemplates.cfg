SPECIFICATION FairSpec
CONSTANTS
    dropped = dropped
    kept = kept
    other = other
    ns1 = ns1
    ns2 = ns2
    amd = amd
    arm = arm
    NoArch = NoArch
    None = None
    Archs <- MCArchs
    DefaultArch = amd
    Names <- MCNames
    Namespaces <- MCNamespaces
    ArchOf <- MCArchOf
    Bundle <- MCBundle
    Specs <- MCSpecs
    Legacy <- MCLegacy
    MaxEdits = 2
    MaxFaults = 1
INVARIANTS
    TemplatesConsistent
    
PROPERTIES
    EventuallyAtRest
    CleanupCompletes
CHECK_DEADLOCK FALSE
