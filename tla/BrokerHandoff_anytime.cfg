SPECIFICATION Spec
CONSTANTS
    Requests = {r1, r2, r3}
    None = None
    StartStates <- AnyTime
    InstallStates <- AnyTime
SYMMETRY RequestSymmetry
INVARIANTS
    CompletedOnce
    NoOrphan
    LockSpansInteraction
