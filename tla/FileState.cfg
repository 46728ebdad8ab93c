\* Concurrent calls on a file that others change too.
CONSTANTS
    r1 = r1 w1 = w1 e1 = e1 e2 = e2 a = a b = b o1 = o1
    Calls <- MixedCalls
    Op <- MixedOp
    Old <- MixedOld
    Base <- TwoPassages
    Outside <- Outsiders
    MaxClock = 2
SPECIFICATION Spec
INVARIANTS
    OverwritesOnlySeen
    
\* Every call ends.
CHECK_DEADLOCK FALSE
