SPECIFICATION Spec
CONSTANTS
    Length <- MCLength
    Opaque = "uint32 Value"
    RefVm <- MCRefVm
    None = None
    Err = Err
    Templates <- MCTemplates
    RuleLists <- MCRuleLists
    Vms <- MCVms
INVARIANTS
    RejectedExactly
    CausesExact
