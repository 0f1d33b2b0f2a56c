SPECIFICATION FairSpec
CONSTANTS
    c1 = c1
    c2 = c2
    c3 = c3
    h1 = h1
    h2 = h2
    Callers = {c1, c2, c3}
    Hosts = {h1, h2}
    HostOf <- TwoShare
    None = None
INVARIANTS
    NoErrorMeansValid
PROPERTIES
    NeverAskedAgain
    ImplementsSingleFlight
    EveryCallerAnswered
CHECK_DEADLOCK FALSE
