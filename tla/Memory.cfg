\* Three prompts, so that a turn that waited can meet a newer one; one /memory clear and one
\* death; an index with room for one line, so that one of two topics is left out.
CONSTANTS
    n1 = n1
    n2 = n2
    Names <- MCNames
    Proposals <- MCProposals
    MinListed = 1
    MaxListed = 1
    MaxProposals = 1
    MaxRuns = 3
    MaxClears = 1
    MaxCrashes = 1
SPECIFICATION Spec
INVARIANTS
    SingleFlight
    IndexTellsTopics
PROPERTIES
    TopicsSurvive
    ClearedIsGone
    HandedOverEnds
\* The user may stop submitting prompts.
CHECK_DEADLOCK FALSE
