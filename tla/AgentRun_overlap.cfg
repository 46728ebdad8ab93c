\* Two prompts, with closures and deferred calls of the first left over when the second is submitted.
CONSTANTS
    MaxRuns = 2
    MaxIterations = 1
    MaxDeltas = 1
    MaxSessions = 1
    MaxPosted = 2
SPECIFICATION Spec
INVARIANTS
    OneLoopAtATime
    TextStaysWithItsRun
PROPERTIES
    EveryRunEnds
\* The user may stop submitting prompts.
CHECK_DEADLOCK FALSE
