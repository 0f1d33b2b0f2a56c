SPECIFICATION FairSpec
CONSTANTS
    Requests = {r1, r2, r3}
    None = None
    StartStates <- NotBetween
    InstallStates <- NotBetween
INVARIANTS
    ResumeBelongsToWaiter
PROPERTIES
    ImplementsOneInteraction
    NotReceivedMeansTried
    ReturnEndsWait
