SPECIFICATION FairSpec
CONSTANTS
    Requests = {r1, r2, r3, r4}
    None = None
INVARIANTS
    Exclusion
    ModalNeverStale
PROPERTIES
    ImplementsOneInteraction
    EveryInteractionEnds
CHECK_DEADLOCK FALSE
