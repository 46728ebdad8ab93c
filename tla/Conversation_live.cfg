\* One process from its first prompt on: no crash, no resume.
CONSTANTS
    RetainedTurns = 1
    ToolResultLimit = 1
    Outputs <- MCOutputs
    Calls = {c1, c2}
    Writes = {FALSE}
    Tears = {}
    MaxMessages = 7
    MaxDeltas = 0
    MaxThoughts = 1
    MaxLate = 1
    MaxRestarts = 0
SYMMETRY Symmetry
SPECIFICATION Spec
INVARIANTS
    RoundIsAnswered
    OpenEndsItsTurn
PROPERTIES
    LedgerGrowsAtEnd
\* The user may stop at any point, and the message bound stops the model.
CHECK_DEADLOCK FALSE
