\* One prompt with two tool rounds, and events far ahead of the screen.
CONSTANTS
    MaxRuns = 1
    MaxIterations = 3
    MaxDeltas = 2
    MaxSessions = 0
    MaxPosted = 3
SPECIFICATION Spec
INVARIANTS
    TranscriptShowsLedger
    StoredResultsAreShown
\* The user may stop submitting prompts.
CHECK_DEADLOCK FALSE
