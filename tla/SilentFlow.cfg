SPECIFICATION MCSpec
CONSTANTS
    Handlers = {h1, h2}
    None = None
    MultiResource = TRUE
    InitialTokens = 2
    MaxToken = 3
    OptionsAsked <- Plain
    PossibleAnswers <- ControlAnswers
INVARIANTS
    SentOnce
PROPERTIES
    RemovedOnlyIfRejected
    InputNeededMeansTried
    EveryCallEnds
CHECK_DEADLOCK FALSE
