\* Two servers; the start-up's discovery and, as in the tests, another one.
CONSTANTS
    s1 = s1
    s2 = s2
    t1 = t1
    t2 = t2
    search = search
    a = a
    b = b
    d = d
    Free = Free
    NoConn = NoConn
    Builtin = Builtin
    Servers <- MCServers
    Remotes <- MCRemotes
    Lists <- MCLists
    Names <- MCNames
    NameOf <- MCNameOf
    Builtins <- MCBuiltins
    Starters <- MCStarters
SPECIFICATION Spec
INVARIANTS
    NothingLeaks
    OfferedToolsAnswer
PROPERTIES
    ToldIsOffered
    WaitersAreServed
\* The program ends.
CHECK_DEADLOCK FALSE
