\* The channel has room for two deltas where the code has 64.
CONSTANTS
    Calls = {"a", "b"}
    Scripts <- MCScripts
    Configs <- MCConfigs
    Estimates <- MCEstimates
    Turns = {3, 4}
    ChanCapacity = 2
SPECIFICATION Spec
INVARIANTS
    RequestsFit
    CallsAreTheProviders
PROPERTIES
    ImplementsResponse
    DriversEnd
\* One request, and no more.
CHECK_DEADLOCK FALSE
