\* Three calls of two runs; the channel has room for one, as in main.
CONSTANTS
    c1 = c1
    c2 = c2
    c3 = c3
    h1 = h1
    h2 = h2
    NoCall = NoCall
    Calls <- MCCalls
    Runs <- MCRuns
    RunOf <- MCRunOf
    Headers <- MCHeaders
    Requests <- MCRequests
    Room = 1
SPECIFICATION Spec
INVARIANTS
    AnswersAreOwn
    OnlyRivalsReplace
PROPERTIES
    CancelledCallsEnd
    LoneQuestionsEnd
\* A question that lost its dialog waits until the user cancels.
CHECK_DEADLOCK FALSE
