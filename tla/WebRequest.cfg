SPECIFICATION FairSpec
CONSTANTS
    Requests = {r1, r2, r3}
    AdfsChoices = {{}, {r3}}
    MaxChallenges = 1
    None = None
INVARIANTS
    CompletedOnce
    SentAsNeeded
    BodyOfLastAttempt
    ReportedOnce
PROPERTIES
    EveryRequestEnds
CHECK_DEADLOCK FALSE
