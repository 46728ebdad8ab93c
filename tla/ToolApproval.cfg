\* Two runs that share the dialog and the grants; a channel with room for one.
CONSTANTS
    c1 = c1 c2 = c2 c3 = c3 k1 = k1 k2 = k2
    NoCall = NoCall
    Calls <- MCCalls
    Keys <- MCKeys
    Kinds <- MCKinds
    MaxRuns = 2
    RunOf <- MCRunOf
    ChanCap = 1
SPECIFICATION Spec
INVARIANTS
    OnlyPermittedExecute
    ProfileIsKept
    RequestInOnePlace
PROPERTIES
    ImplementsGate
    CancelEnds
    RunsEnd
\* A run of the program ends when the runtime has stopped.
CHECK_DEADLOCK FALSE
