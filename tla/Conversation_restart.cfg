\* The process dies between two calls, or in a write that leaves nothing behind.
CONSTANTS
    RetainedTurns = 1
    ToolResultLimit = 1
    Outputs <- MCOutputs
    Calls = {c1}
    Writes = {TRUE}
    Tears = {"intact", "lost"}
    MaxMessages = 7
    MaxDeltas = 1
    MaxThoughts = 0
    MaxLate = 1
    MaxRestarts = 2
SPECIFICATION Spec
INVARIANTS
    IDsIncrease
    LedgerIsDurable
    ViewFollowsLedger
    SystemsReinjected
\* The user may stop at any point, and the message bound stops the model.
CHECK_DEADLOCK FALSE
