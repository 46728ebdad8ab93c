------------------------------ MODULE AgentRun ------------------------------
(***************************************************************************)
(* Runs of the agent and the controller that starts, follows and cancels   *)
(* them: Controller.StartSubmission, Cancel and finish                     *)
(* (cmd/cli/controller/state.go), the visitor that carries events to the   *)
(* UI (cmd/cli/controller/agent.go), and Agent.Run (internal/svc/agent.go).*)
(*                                                                         *)
(* A run is a goroutine.  It changes the session ledger directly, and the  *)
(* transcript only through closures the UI goroutine runs in the order     *)
(* they were posted.  The UI decides by runID and the streaming state what *)
(* a closure still means when its turn comes.                              *)
(***************************************************************************)
EXTENDS Session

CONSTANTS
    MaxRuns,        \* bound on prompts submitted
    MaxIterations,  \* the agent's MaxIterations, 30 by default
    MaxDeltas,      \* bound on text deltas in one response
    MaxSessions,    \* bound on /new
    MaxPosted       \* room for closures of runs in the UI's dispatch queue

ASSUME AgentRunAssumption ==
    /\ MaxRuns \in Nat /\ MaxIterations \in Nat \ {0}
    /\ MaxDeltas \in Nat /\ MaxSessions \in Nat
    /\ MaxPosted \in Nat /\ MaxPosted >= 2

Runs == 1 .. MaxRuns

VARIABLES
    s,          \* the controller's session
    view,       \* the messages of the transcript
    streaming,  \* StreamRunning
    cancelling, \* cancelled, and the run has not ended yet
    runID,      \* the run the UI follows
    ctxDone,    \* runs whose context is cancelled
    posted,     \* closures for the UI goroutine, oldest first
    pc,         \* where each run's goroutine is
    iter,       \* the iteration of each run's loop
    said,       \* deltas so far in each run's response
    returned,   \* what Agent.Run returned
    sessions    \* sessions opened with /new

uiVars == <<view, streaming, cancelling, runID, ctxDone, sessions>>
vars   == <<s, uiVars, posted, pc, iter, said, returned>>

(* A message of the transcript; `run` says whose prompt it belongs to.     *)
ViewMessage(role, run, open) ==
    [role |-> role, run |-> run, content |-> <<>>, streaming |-> open,
     error |-> "", tools |-> <<>>]

(* At most one tool call in a response; its ID is the run and iteration. *)
CallID(r) == <<r, iter[r]>>

Closure(kind, r) == [kind |-> kind, run |-> r, call |-> CallID(r)]

Init ==
    /\ s = AddSystemMessage(New)
    /\ view = <<>>
    /\ streaming = FALSE /\ cancelling = FALSE
    /\ runID = 0 /\ ctxDone = {} /\ posted = <<>>
    /\ pc = [r \in Runs |-> "none"]
    /\ iter = [r \in Runs |-> 0]
    /\ said = [r \in Runs |-> 0]
    /\ returned = [r \in Runs |-> "none"]
    /\ sessions = 0

(***************************************************************************)
(* Posting.  The visitor posts under the run's context: Dispatch waits for *)
(* room in the queue, and once the context is cancelled it may refuse the  *)
(* closure.                                                                *)
(***************************************************************************)
Post(r, kinds) ==
    \/ /\ Len(posted) + Len(kinds) <= MaxPosted
       /\ posted' = posted \o [i \in DOMAIN kinds |-> Closure(kinds[i], r)]
    \/ r \in ctxDone /\ UNCHANGED posted

Go(r, from, to) ==
    /\ pc[r] = from
    /\ pc' = [pc EXCEPT ![r] = to]

(* Agent.Run returns: nil to the deferred call, an error to applyError. *)
ReturnNil(r, from) ==
    /\ Go(r, from, "deferred")
    /\ returned' = [returned EXCEPT ![r] = "nil"]

ReturnError(r, from) ==
    /\ Go(r, from, "failed")
    /\ returned' = [returned EXCEPT ![r] = "error"]

(***************************************************************************)
(* Agent.Run.                                                              *)
(***************************************************************************)

(* The top of the loop: the iteration limit and the preparation of the     *)
(* request may each end the run with an error; otherwise a stream opens.   *)
Request(r) ==
    /\ iter' = [iter EXCEPT ![r] = @ + 1]
    /\ said' = [said EXCEPT ![r] = 0]
    /\ \/ ReturnError(r, "request") /\ Post(r, <<"error">>)
       \/ /\ iter'[r] <= MaxIterations
          /\ Go(r, "request", "stream")
          /\ UNCHANGED <<returned, posted>>
    /\ UNCHANGED <<s, uiVars>>

VisitMessage(r) ==
    /\ pc[r] = "stream"
    /\ said[r] < MaxDeltas
    /\ said' = [said EXCEPT ![r] = @ + 1]
    /\ s' = AppendDelta(s, r)
    /\ Post(r, <<"stream">>)
    /\ UNCHANGED <<uiVars, pc, iter, returned>>

VisitToolCallStart(r) ==
    /\ pc[r] = "stream"
    /\ Last(s.messages).calls = <<>>
    /\ s' = AddToolCallToAssistant(s, CallID(r))
    /\ Post(r, <<"toolcall">>)
    /\ UNCHANGED <<uiVars, pc, iter, said, returned>>

StopForTools(r) ==
    /\ Go(r, "stream", "stopped")
    /\ s' = FinishAssistantMessage(s)
    /\ UNCHANGED <<uiVars, posted, iter, said, returned>>

(* The select of the loop sees the context before the stream is closed.    *)
SeeCancelled(r) ==
    /\ r \in ctxDone
    /\ ReturnError(r, "stream") \/ ReturnError(r, "stopped")
    /\ UNCHANGED <<s, uiVars, posted, iter, said>>

StreamFails(r) ==
    /\ ReturnError(r, "stream") \/ ReturnError(r, "stopped")
    /\ Post(r, <<"error">>)
    /\ UNCHANGED <<s, uiVars, iter, said>>

(* The stream is closed and the model has not stopped for tools. *)
Complete(r) ==
    /\ ReturnNil(r, "stream")
    /\ s' = FinishAssistantMessage(s)
    /\ Post(r, <<"complete">>)
    /\ UNCHANGED <<uiVars, iter, said>>

(* The stream is closed: inputs are filled in and the executor runs. *)
DispatchTools(r) ==
    /\ Go(r, "stopped", "tools")
    /\ s' = UpdateToolCallInput(s, CallID(r))
    /\ IF Last(s.messages).calls # <<>> THEN Post(r, <<"toolcall">>)
                                        ELSE UNCHANGED posted
    /\ UNCHANGED <<uiVars, iter, said, returned>>

(* Fault: the turn is over before its results are shown. *)
StoreResultsLate(r) ==
    /\ Go(r, "tools", "answered")
    /\ IF Last(s.messages).calls # <<>>
       THEN /\ s' = AddToolResultMessage(s, CallID(r), <<>>)
            /\ Post(r, <<"turn", "toolresult">>)
       ELSE /\ UNCHANGED s
            /\ Post(r, <<"turn">>)
    /\ UNCHANGED <<uiVars, iter, said, returned>>

(* All tools have returned, cancelled or not: their results are stored and *)
(* the turn is over.                                                       *)
StoreResults(r) ==
    /\ Go(r, "tools", "answered")
    /\ IF Last(s.messages).calls # <<>>
       THEN /\ s' = AddToolResultMessage(s, CallID(r), <<>>)
            /\ Post(r, <<"toolresult", "turn">>)
       ELSE /\ UNCHANGED s
            /\ Post(r, <<"turn">>)
    /\ UNCHANGED <<uiVars, iter, said, returned>>

NextIteration(r) ==
    /\ Go(r, "answered", "request")
    /\ s' = StartAssistantMessage(s)
    /\ UNCHANGED <<uiVars, posted, iter, said, returned>>

(***************************************************************************)
(* The rest of the run's goroutine.                                        *)
(***************************************************************************)
PostError(r) ==
    /\ Go(r, "failed", "deferred")
    /\ Post(r, <<"error">>)
    /\ UNCHANGED <<s, uiVars, iter, said, returned>>

(* The deferred call finishes the last message of the controller's session,*)
(* whichever that is by now ...                                            *)
DeferredFinish(r) ==
    /\ Go(r, "deferred", "posting")
    /\ s' = FinishAssistantMessage(s)
    /\ UNCHANGED <<uiVars, posted, iter, said, returned>>

(* ... and posts its closure under a context nobody cancels. *)
DeferredPost(r) ==
    /\ Go(r, "posting", "gone")
    /\ Len(posted) < MaxPosted
    /\ posted' = Append(posted, Closure("last", r))
    /\ UNCHANGED <<s, uiVars, iter, said, returned>>

Goroutine(r) ==
    \/ Request(r) \/ VisitMessage(r) \/ VisitToolCallStart(r)
    \/ StopForTools(r) \/ SeeCancelled(r) \/ StreamFails(r) \/ Complete(r)
    \/ DispatchTools(r) \/ StoreResults(r) \/ NextIteration(r)
    \/ PostError(r) \/ DeferredFinish(r) \/ DeferredPost(r)

(***************************************************************************)
(* The UI goroutine.                                                       *)
(***************************************************************************)
AssistantAt == {i \in DOMAIN view : view[i].role = "assistant"}

(* Fault: the transcript is searched from its start. *)
FirstAssistant == CHOOSE i \in AssistantAt : \A j \in AssistantAt : j >= i

(* The newest assistant message takes what a run says and its end. *)
Current == CHOOSE i \in AssistantAt : \A j \in AssistantAt : j <= i

(* finish: the current assistant message is closed, the UI is idle. *)
finish(reason) ==
    /\ view' = IF AssistantAt = {} THEN view
               ELSE [view EXCEPT ![Current].streaming = FALSE,
                                 ![Current].error = reason]
    /\ streaming' = FALSE

(* The composer takes a prompt when nothing runs or is being cancelled.    *)
StartSubmission ==
    /\ ~streaming /\ ~cancelling
    /\ runID < MaxRuns
    /\ s' = StartAssistantMessage(AddUserMessage(s))
    /\ view' = view \o <<ViewMessage("user", runID + 1, FALSE),
                         ViewMessage("assistant", runID + 1, TRUE)>>
    /\ streaming' = TRUE /\ cancelling' = FALSE
    /\ runID' = runID + 1
    /\ pc' = [pc EXCEPT ![runID + 1] = "request"]
    /\ UNCHANGED <<ctxDone, sessions, posted, iter, said, returned>>

Cancel ==
    /\ streaming
    /\ ctxDone' = ctxDone \cup {runID}
    /\ finish("interrupted")
    /\ cancelling' = TRUE
    /\ UNCHANGED <<s, runID, sessions, posted, pc, iter, said, returned>>

(* /new, through ReplaceSession. *)
NewSession ==
    /\ ~streaming /\ ~cancelling
    /\ sessions < MaxSessions
    /\ sessions' = sessions + 1
    /\ s' = AddSystemMessage(New)
    /\ view' = <<>>
    /\ UNCHANGED <<streaming, cancelling, runID, ctxDone, posted, pc, iter,
                   said, returned>>

(* Fault: events of any run count as long as one is running. *)
ActiveForAny(e) == streaming

(* What the closure of an event still changes, if its run is active. *)
Active(e) == e.run = runID /\ streaming

MarkDone(tools, shown) ==
    [i \in DOMAIN tools |-> IF i \in shown THEN [tools[i] EXCEPT !.done = TRUE]
                                           ELSE tools[i]]

Rendered(e) ==
    LET m     == view[Current]
        shown == {i \in DOMAIN m.tools : m.tools[i].id = e.call}
    IN  CASE e.kind = "stream" ->
                [view EXCEPT ![Current].content = Append(@, e.run)]
          [] e.kind = "toolcall" ->
                IF shown # {} THEN view
                ELSE [view EXCEPT ![Current].tools =
                                     Append(@, [id |-> e.call, done |-> FALSE])]
          [] e.kind = "toolresult" ->
                [view EXCEPT ![Current].tools = MarkDone(@, shown)]

ShowEvent(e) ==
    /\ e.kind \in {"stream", "toolcall", "toolresult"}
    /\ view' = IF Active(e) /\ AssistantAt # {} THEN Rendered(e) ELSE view
    /\ UNCHANGED <<streaming, cancelling>>

(* Fault: the next iteration goes on in the same segment. *)
SameAssistantSegment(e) ==
    /\ e.kind = "turn"
    /\ UNCHANGED <<view, streaming, cancelling>>

StartAssistantSegment(e) ==
    /\ e.kind = "turn"
    /\ view' = IF Active(e)
               THEN Append(view, ViewMessage("assistant", e.run, TRUE))
               ELSE view
    /\ UNCHANGED <<streaming, cancelling>>

LoopComplete(e) ==
    /\ e.kind = "complete"
    /\ IF Active(e) THEN finish("") ELSE UNCHANGED <<view, streaming>>
    /\ UNCHANGED cancelling

applyError(e) ==
    /\ e.kind = "error"
    /\ IF Active(e) THEN finish("error") ELSE UNCHANGED <<view, streaming>>
    /\ UNCHANGED cancelling

(* Fault: only the end of an active run opens the composer. *)
RunEndedIfActive(e) ==
    /\ e.kind = "last"
    /\ cancelling' = (cancelling /\ ~Active(e))
    /\ UNCHANGED <<view, streaming>>

RunEnded(e) ==
    /\ e.kind = "last"
    /\ cancelling' = (cancelling /\ e.run # runID)
    /\ UNCHANGED <<view, streaming>>

RunClosure ==
    /\ posted # <<>>
    /\ posted' = Tail(posted)
    /\ LET e == Head(posted)
       IN  ShowEvent(e) \/ StartAssistantSegment(e) \/ LoopComplete(e)
           \/ applyError(e) \/ RunEnded(e)
    /\ UNCHANGED <<s, runID, ctxDone, sessions, pc, iter, said, returned>>

Next ==
    \/ StartSubmission \/ Cancel \/ NewSession
    \/ RunClosure
    \/ \E r \in Runs : Goroutine(r)

(* The UI goroutine and the goroutines of the runs are scheduled; a model  *)
(* stream ends, and tools return.  The user is free to do nothing.         *)
Fairness == WF_vars(RunClosure) /\ \A r \in Runs : WF_vars(Goroutine(r))

Spec == Init /\ [][Next]_vars /\ Fairness

-----------------------------------------------------------------------------
(* Properties.                                                             *)

InLoop(r) == pc[r] \in {"request", "stream", "stopped", "tools", "answered"}

(* Two loops never work on one ledger: a run in its loop is the run the UI *)
(* follows, and the composer stays closed until it has left the loop, also *)
(* through errors and cancellations in any order.                          *)
OneLoopAtATime ==
    \A r \in Runs : InLoop(r) => r = runID /\ (streaming \/ cancelling)

(* Text keeps to its own prompt: what a response says is shown, and stored,*)
(* under the prompt it answers and no other, although events of a finished *)
(* run may still be queued when the next run starts.                       *)
TextStaysWithItsRun ==
    /\ \A m \in Range(view) : Range(m.content) \subseteq {m.run}
    /\ \A i \in DOMAIN s.messages :
          \A d \in Range(s.messages[i].content) :
             \A j \in i + 1 .. Len(s.messages) :
                d \notin Range(s.messages[j].content)
                \/ \A k \in i .. j : s.messages[k].role # "user"

Quiet == ~streaming /\ ~cancelling /\ posted = <<>>
         /\ \A r \in Runs : pc[r] \in {"none", "gone"}

(* The text of each of the assistant's messages, in their order. *)
Texts(messages) ==
    LET texts[n \in 0 .. Len(messages)] ==
            IF n = 0 THEN <<>>
            ELSE IF messages[n].role = "assistant"
                 THEN Append(texts[n - 1], messages[n].content)
            ELSE texts[n - 1]
    IN  texts[Len(messages)]

(* When all is quiet after runs that completed, the transcript has a       *)
(* segment for each assistant message of the ledger, and shows all the     *)
(* text stored in it.                                                      *)
TranscriptShowsLedger ==
    Quiet /\ (\A r \in 1 .. runID : returned[r] = "nil" /\ r \notin ctxDone) =>
        LET segments == Texts(view)
            stored   == Texts(s.messages)
        IN  /\ Len(segments) = Len(stored)
            /\ \A i \in DOMAIN stored : IsPrefix(stored[i], segments[i])

(* A tool that has a stored result is not shown as running in a completed  *)
(* run: its result is rendered before the next segment opens.              *)
StoredResultsAreShown ==
    Quiet /\ (\A r \in 1 .. runID : returned[r] = "nil" /\ r \notin ctxDone) =>
        \A m \in Range(s.messages) : m.role = "tool" =>
            \E v \in Range(view) :
                \E t \in Range(v.tools) : t.id = m.answers /\ t.done

(* The composer opens again after every run, also after one that was       *)
(* cancelled or has failed: the UI never waits for a run that is gone.     *)
Busy == streaming \/ cancelling
EveryRunEnds == Busy ~> ~Busy
=============================================================================
