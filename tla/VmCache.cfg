SPECIFICATION FairSpec
CONSTANTS
    v1 = v1
    v2 = v2
    t1 = t1
    t2 = t2
    NoTemplate = NoTemplate
    NoVm = NoVm
    VmKeys <- MCVmKeys
    TemplateNames <- MCTemplateNames
    Old <- MCOld
    MaxChanges = 2
    MaxFaults = 1
INVARIANTS
    IndexExact
    StoreFollows
PROPERTIES
    NeededTemplateKept
    EventuallyExact
CHECK_DEADLOCK FALSE
