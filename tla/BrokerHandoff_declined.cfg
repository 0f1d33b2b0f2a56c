SPECIFICATION FairSpec
CONSTANTS
    Requests = {r1, r2}
    None = None
    StartStates <- WhileActive
    InstallStates <- WhileActive
PROPERTY WaiterIsTold
