SPECIFICATION CrdSpec
CONSTANTS
    c1 = c1
    c2 = c2
    c3 = c3
    Crds <- MCCrds
    Required <- MCRequired
    MaxChanges = 2
INVARIANT CompletionNoticed
SYMMETRY CrdSymmetry
CHECK_DEADLOCK FALSE
