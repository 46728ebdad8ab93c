\* A session goes on after /compact and is loaded again.
CONSTANTS
    RetainedTurns = 1
    ToolResultLimit = 1
    Outputs <- MCOutputs
    Calls = {c1}
    Writes = {TRUE}
    Tears = {}
    MaxMessages = 8
    MaxDeltas = 1
    MaxThoughts = 0
    MaxLate = 1
    MaxRestarts = 0
SPECIFICATION Spec
INVARIANT
    LoadKeepsRequest
\* The user may stop at any point, and the message bound stops the model.
CHECK_DEADLOCK FALSE
