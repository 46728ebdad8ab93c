---------------------------- MODULE ToolApproval ----------------------------
(***************************************************************************)
(* Tool execution behind the permission gate: the executor's goroutines    *)
(* (internal/infra/executor.go), the approval broker they call             *)
(* (internal/infra/approval/approval.go), the controller's approval loop,  *)
(* the approval dialog and its queue (cmd/cli/controller/approval.go), and *)
(* the user, who answers, cancels the run, or quits.                       *)
(*                                                                         *)
(* A request travels from the goroutine that waits for it through the      *)
(* channel `requests`, the loop's hand `held`, the UI's dispatch queue     *)
(* `dispatched`, to the dialog, as `request` or in `queue`.  Its answer    *)
(* comes back through a channel of its own with room for one decision.     *)
(***************************************************************************)
EXTENDS Naturals, Sequences, FiniteSets, Functions

CONSTANTS
    Calls,     \* tool calls
    NoCall,    \* no tool call
    Keys,      \* approval keys: profile, tool and path or command
    Kinds,     \* the invocations the model may make
    MaxRuns,   \* bound on runs of the agent
    RunOf,     \* the run in which a call is made
    ChanCap    \* room in the request channel, 16 in cmd/cli/main.go

Runs == 1 .. MaxRuns

Profiles   == {"plan", "build"}
Categories == {"read", "write", "command"}

(* What the policy reads off an invocation: see Policy. *)
Invocations ==
    [known: BOOLEAN, parsed: BOOLEAN, name: {"Bash", "MCP", "builtin"},
     profile: Profiles, category: Categories, dangerous: BOOLEAN,
     outside: BOOLEAN, sensitive: BOOLEAN, planFile: BOOLEAN,
     modifies: BOOLEAN, key: Keys]

(* The agent's plan file is a path below the workspace (Agent.planFilePath *)
(* of internal/svc/agent.go), so writing it leaves nothing outside.        *)
ASSUME ApprovalAssumption ==
    /\ NoCall \notin Calls
    /\ MaxRuns \in Nat /\ ChanCap \in Nat \ {0}
    /\ RunOf \in [Calls -> Runs]
    /\ Kinds \subseteq Invocations
    /\ \A i \in Kinds : i.planFile => ~i.outside

VARIABLES
    inv,        \* the invocation each call makes
    pc,         \* where the goroutine of each call is
    outcome,    \* how each call ended
    answer,     \* the decision in the response channel of each request
    requests,   \* the request channel
    held,       \* the request the approval loop has taken
    dispatched, \* closures waiting for the UI goroutine
    request,    \* the request the dialog shows
    queue,      \* the requests behind it
    dialogOpen, \* the dialog is on the screen
    grants,     \* keys allowed for the session
    run,        \* the controller's runID
    streaming,  \* StreamRunning
    cancelling, \* cancelled, and the run has not ended yet
    cancelled,  \* runs whose context is cancelled
    ended,      \* runs that have posted their last closure
    stopped     \* the UI runtime has stopped

callVars   == <<pc, outcome>>
pipeVars   == <<requests, held, dispatched>>
dialogVars == <<request, queue, dialogOpen>>
runVars    == <<run, streaming, cancelling, cancelled, ended, stopped>>
vars == <<inv, callVars, answer, pipeVars, dialogVars, grants, runVars>>

Approval(c) == <<"approval", c>>
End(r)      == <<"end", r>>

(***************************************************************************)
(* Broker.Authorize and planDecision: the verdict on an invocation before  *)
(* grants and the user come into it.                                       *)
(***************************************************************************)
(* Fault: the plan profile lets every file be written. *)
PlanDecisionWriting(i) ==
    IF i.category = "read" THEN IF i.outside THEN "ask" ELSE "allow"
    ELSE IF i.category = "write" THEN "allow" ELSE "deny"

PlanDecision(i) ==
    CASE i.category = "read" /\ i.outside      -> "ask"
      [] i.category = "read" /\ ~i.outside     -> "allow"
      [] i.category = "write" /\ i.planFile    -> "allow"
      [] OTHER                                 -> "deny"

BuildDecision(i) ==
    IF i.outside \/ i.sensitive THEN "ask"
    ELSE IF \/ i.category \in {"read", "write"}
            \/ i.name = "MCP"
            \/ i.name = "Bash" /\ i.modifies
         THEN "allow" ELSE "ask"

Policy(i) ==
    IF i.name = "Bash" /\ i.dangerous THEN "deny"
    ELSE IF i.profile = "plan" THEN PlanDecision(i)
    ELSE BuildDecision(i)

-----------------------------------------------------------------------------
Init ==
    /\ inv \in [Calls -> Kinds]
    /\ pc = [c \in Calls |-> "new"]
    /\ outcome = [c \in Calls |-> "none"]
    /\ answer = [c \in Calls |-> "none"]
    /\ requests = <<>> /\ held = NoCall /\ dispatched = <<>>
    /\ request = NoCall /\ queue = <<>> /\ dialogOpen = FALSE
    /\ grants = {}
    /\ run = 0 /\ streaming = FALSE /\ cancelling = FALSE
    /\ cancelled = {} /\ ended = {} /\ stopped = FALSE

CtxDone(c) == RunOf[c] \in cancelled

(***************************************************************************)
(* The agent's side: a run submits its calls, and ends when all of them    *)
(* are done.  The composer takes a prompt only when nothing runs and       *)
(* nothing is being cancelled.                                             *)
(***************************************************************************)
StartRun ==
    /\ ~streaming /\ ~cancelling /\ ~stopped
    /\ run < MaxRuns
    /\ run' = run + 1
    /\ streaming' = TRUE
    /\ pc' = [c \in Calls |-> IF RunOf[c] = run' THEN "submitted" ELSE pc[c]]
    /\ UNCHANGED <<inv, outcome, answer, pipeVars, dialogVars, grants,
                   cancelling, cancelled, ended, stopped>>

(* CollectResults has returned, and the run's deferred call has posted the *)
(* closure that ends it.                                                   *)
EndRun(r) ==
    /\ r = run /\ r \notin ended
    /\ \A c \in Calls : RunOf[c] = r => pc[c] = "done"
    /\ ended' = ended \cup {r}
    /\ dispatched' = IF stopped THEN dispatched ELSE Append(dispatched, End(r))
    /\ UNCHANGED <<inv, callVars, answer, requests, held, dialogVars, grants,
                   run, streaming, cancelling, cancelled, stopped>>

(***************************************************************************)
(* The goroutine of one call, executor.execute and Broker.Authorize.       *)
(***************************************************************************)
Step(c, from, to) ==
    /\ pc[c] = from
    /\ pc' = [pc EXCEPT ![c] = to]
    /\ UNCHANGED outcome

Done(c, from, result) ==
    /\ pc[c] = from
    /\ pc' = [pc EXCEPT ![c] = "done"]
    /\ outcome' = [outcome EXCEPT ![c] = result]

(* Look the tool up, parse its arguments, and see whether to go on. *)
Begin(c) ==
    /\ \/ ~(inv[c].known /\ inv[c].parsed) /\ Done(c, "submitted", "error")
       \/ /\ inv[c].known /\ inv[c].parsed
          /\ IF CtxDone(c) THEN Done(c, "submitted", "cancelled")
                           ELSE Step(c, "submitted", "authorize")
    /\ UNCHANGED <<inv, answer, pipeVars, dialogVars, grants, runVars>>

(* The policy, up to the point where the user has to be asked. *)
Authorize(c) ==
    /\ LET verdict == Policy(inv[c])
       IN  \/ (CtxDone(c) \/ verdict = "deny") /\ Done(c, "authorize", "denied")
           \/ /\ ~CtxDone(c)
              /\ \/ verdict = "allow"
                 \/ verdict = "ask" /\ inv[c].key \in grants
              /\ Step(c, "authorize", "allowed")
           \/ /\ ~CtxDone(c)
              /\ verdict = "ask" /\ inv[c].key \notin grants
              /\ Step(c, "authorize", "asking")
    /\ UNCHANGED <<inv, answer, pipeVars, dialogVars, grants, runVars>>

SendRequest(c) ==
    /\ Len(requests) < ChanCap
    /\ Step(c, "asking", "waiting")
    /\ requests' = Append(requests, c)
    /\ UNCHANGED <<inv, answer, held, dispatched, dialogVars, grants, runVars>>

(* Faults: any answer lets the call through; allowing once grants for the  *)
(* session.                                                                *)
ReceiveAnyAnswer(c) ==
    /\ answer[c] # "none"
    /\ Step(c, "waiting", "allowed")
    /\ UNCHANGED <<inv, answer, pipeVars, dialogVars, grants, runVars>>

ReceiveAnswerGranting(c) ==
    /\ \/ answer[c] \in {"once", "session"} /\ Step(c, "waiting", "allowed")
       \/ answer[c] \in {"deny", "cancelled"} /\ Done(c, "waiting", "denied")
    /\ grants' = grants \cup {inv[c].key}
    /\ UNCHANGED <<inv, answer, pipeVars, dialogVars, runVars>>

(* The answer has come: a goroutine whose context is done as well may take *)
(* either branch of its select.                                            *)
ReceiveAnswer(c) ==
    /\ \/ answer[c] \in {"once", "session"} /\ Step(c, "waiting", "allowed")
       \/ answer[c] = "deny" /\ Done(c, "waiting", "denied")
       \/ answer[c] = "cancelled" /\ Done(c, "waiting", "aborted")
    /\ grants' = IF answer[c] = "session" THEN grants \cup {inv[c].key}
                                          ELSE grants
    /\ UNCHANGED <<inv, answer, pipeVars, dialogVars, runVars>>

(* Fault: the context is not looked at while waiting for the answer. *)
AbandonBeforeSending(c) ==
    /\ CtxDone(c)
    /\ Done(c, "asking", "aborted")
    /\ UNCHANGED <<inv, answer, pipeVars, dialogVars, grants, runVars>>

Abandon(c) ==
    /\ CtxDone(c)
    /\ Done(c, "asking", "aborted") \/ Done(c, "waiting", "aborted")
    /\ UNCHANGED <<inv, answer, pipeVars, dialogVars, grants, runVars>>

(* The last look at the context before the tool is entered. *)
Enter(c) ==
    /\ IF CtxDone(c) THEN Done(c, "allowed", "cancelled")
                     ELSE Step(c, "allowed", "executing")
    /\ UNCHANGED <<inv, answer, pipeVars, dialogVars, grants, runVars>>

Return(c) ==
    /\ \E result \in {"succeeded", "failed"} : Done(c, "executing", result)
    /\ UNCHANGED <<inv, answer, pipeVars, dialogVars, grants, runVars>>

(***************************************************************************)
(* The controller.  Resolve fills a response channel once.                 *)
(***************************************************************************)
Resolve(answers, cs, decision) ==
    [c \in Calls |-> IF c \in cs /\ answers[c] = "none" THEN decision
                                                        ELSE answers[c]]

(* approvalLoop takes a request, and posts it to the UI goroutine; a       *)
(* stopped runtime takes no more closures.                                 *)
TakeRequest ==
    /\ held = NoCall /\ requests # <<>>
    /\ held' = Head(requests)
    /\ requests' = Tail(requests)
    /\ UNCHANGED <<inv, callVars, answer, dispatched, dialogVars, grants,
                   runVars>>

DispatchRequest ==
    /\ held # NoCall
    /\ IF stopped
       THEN /\ answer' = Resolve(answer, {held}, "cancelled")
            /\ UNCHANGED dispatched
       ELSE /\ dispatched' = Append(dispatched, Approval(held))
            /\ UNCHANGED answer
    /\ held' = NoCall
    /\ UNCHANGED <<inv, callVars, requests, dialogVars, grants, runVars>>

(* The UI goroutine runs the next closure: enqueueApproval ... *)
enqueueApproval(c) ==
    /\ IF request = NoCall
       THEN request' = c /\ dialogOpen' = TRUE /\ UNCHANGED queue
       ELSE queue' = Append(queue, c) /\ UNCHANGED <<request, dialogOpen>>
    /\ UNCHANGED <<streaming, cancelling>>

(* ... or the end of a run, which concerns the current run only. *)
endRun(r) ==
    /\ IF r = run THEN streaming' = FALSE /\ cancelling' = FALSE
                  ELSE UNCHANGED <<streaming, cancelling>>
    /\ UNCHANGED dialogVars

RunClosure ==
    /\ ~stopped
    /\ dispatched # <<>>
    /\ dispatched' = Tail(dispatched)
    /\ \/ Head(dispatched)[1] = "approval" /\ enqueueApproval(Head(dispatched)[2])
       \/ Head(dispatched)[1] = "end" /\ endRun(Head(dispatched)[2])
    /\ UNCHANGED <<inv, callVars, answer, requests, held, grants,
                   run, cancelled, ended, stopped>>

(* Fault: the requests behind the one that was answered are dropped.       *)
advanceApprovalClosing ==
    request' = NoCall /\ dialogOpen' = FALSE /\ queue' = <<>>

advanceApproval ==
    IF queue # <<>>
    THEN /\ request' = Head(queue) /\ queue' = Tail(queue)
         /\ UNCHANGED dialogOpen
    ELSE request' = NoCall /\ dialogOpen' = FALSE /\ UNCHANGED queue

(* ApproveOnce, ApproveSession and DenyApproval. *)
resolveApproval ==
    /\ ~stopped
    /\ dialogOpen /\ request # NoCall
    /\ \E decision \in {"once", "session", "deny"} :
          answer' = Resolve(answer, {request}, decision)
    /\ advanceApproval
    /\ UNCHANGED <<inv, callVars, pipeVars, grants, runVars>>

(* Fault: the requests behind the dialog stay in its queue. *)
denyAllApprovalsKeepingQueue ==
    /\ answer' = Resolve(answer, {request} \cup Range(queue), "cancelled")
    /\ request' = NoCall /\ dialogOpen' = FALSE /\ UNCHANGED queue

denyAllApprovals ==
    /\ answer' = Resolve(answer, {request} \cup Range(queue), "cancelled")
    /\ request' = NoCall /\ queue' = <<>> /\ dialogOpen' = FALSE

Cancel ==
    /\ ~stopped
    /\ streaming
    /\ cancelled' = cancelled \cup {run}
    /\ streaming' = FALSE /\ cancelling' = TRUE
    /\ denyAllApprovals
    /\ UNCHANGED <<inv, callVars, pipeVars, grants, run, ended, stopped>>

(* The runtime stops; then main calls Shutdown, and the process exits.     *)
Stop ==
    /\ ~stopped
    /\ stopped' = TRUE
    /\ UNCHANGED <<inv, callVars, answer, pipeVars, dialogVars, grants, run,
                   streaming, cancelling, cancelled, ended>>

Shutdown ==
    /\ stopped
    /\ IF streaming
       THEN /\ cancelled' = cancelled \cup {run}
            /\ streaming' = FALSE /\ cancelling' = TRUE
       ELSE UNCHANGED <<cancelled, streaming, cancelling>>
    /\ denyAllApprovals
    /\ UNCHANGED <<inv, callVars, pipeVars, grants, run, ended, stopped>>

Goroutine(c) ==
    \/ Begin(c) \/ Authorize(c) \/ SendRequest(c) \/ ReceiveAnswer(c)
    \/ Abandon(c) \/ Enter(c) \/ Return(c)

Next ==
    \/ StartRun \/ \E r \in Runs : EndRun(r)
    \/ \E c \in Calls : Goroutine(c)
    \/ TakeRequest \/ DispatchRequest \/ RunClosure
    \/ resolveApproval \/ Cancel \/ Stop \/ Shutdown

(***************************************************************************)
(* Go schedules every goroutine that can run, and the UI goroutine         *)
(* executes the closures posted to it.  A tool is assumed to return.       *)
(* Nothing makes the user act.                                             *)
(***************************************************************************)
Fairness ==
    /\ \A c \in Calls : WF_vars(Goroutine(c))
    /\ \A r \in Runs : WF_vars(EndRun(r))
    /\ WF_vars(TakeRequest) /\ WF_vars(DispatchRequest) /\ WF_vars(RunClosure)

Spec == Init /\ [][Next]_vars /\ Fairness

(* A user who answers the dialog in front of him. *)
Attended == WF_vars(resolveApproval)

-----------------------------------------------------------------------------
(* Properties.                                                             *)

Positions == {"new", "submitted", "authorize", "asking", "waiting",
              "allowed", "executing", "done"}

Results == {"none", "error", "cancelled", "denied", "aborted",
            "succeeded", "failed"}

Decisions == {"none", "once", "session", "deny", "cancelled"}

Closures == ({"approval"} \X Calls) \cup ({"end"} \X Runs)

(* Type correctness of the executor, the broker and the controller.        *)
TypeOK ==
    /\ inv \in [Calls -> Kinds]
    /\ pc \in [Calls -> Positions]
    /\ outcome \in [Calls -> Results]
    /\ answer \in [Calls -> Decisions]
    /\ requests \in Seq(Calls)
    /\ held \in Calls \cup {NoCall}
    /\ dispatched \in Seq(Closures)
    /\ request \in Calls \cup {NoCall}
    /\ queue \in Seq(Calls)
    /\ dialogOpen \in BOOLEAN
    /\ grants \subseteq Keys
    /\ run \in 0 .. MaxRuns
    /\ streaming \in BOOLEAN /\ cancelling \in BOOLEAN /\ stopped \in BOOLEAN
    /\ cancelled \subseteq Runs /\ ended \subseteq Runs
    /\ streaming => run # 0

Executed(c) == pc[c] = "executing" \/ outcome[c] \in {"succeeded", "failed"}

(* The user has allowed the invocation: this call, once or for the         *)
(* session, or an earlier call with the same key for the session.          *)
Consented(c) ==
    \/ answer[c] = "once"
    \/ \E d \in Calls : inv[d].key = inv[c].key /\ answer[d] = "session"

(* "Policy is enforced at the tool boundary" (domain/permission.go:14-15): *)
(* no tool is entered but one the policy allows, or one the policy leaves  *)
(* to the user and the user has allowed, whatever is cancelled, answered   *)
(* late or granted by another call meanwhile.                              *)
OnlyPermittedExecute ==
    \A c \in Calls : Executed(c) =>
        \/ Policy(inv[c]) = "allow"
        \/ Policy(inv[c]) = "ask" /\ Consented(c)

(* The plan profile lets a tool change nothing but the plan: what runs in  *)
(* it reads, or writes the plan file; and nothing outside the workspace is *)
(* touched in either profile before the user has agreed.                   *)
ProfileIsKept ==
    \A c \in Calls : Executed(c) =>
        /\ inv[c].profile = "plan" =>
              \/ inv[c].category = "read"
              \/ inv[c].category = "write" /\ inv[c].planFile
        /\ inv[c].outside => Consented(c)

(* Every grant goes back to a user's "allow this session" on a request     *)
(* with that key; cancelling grants nothing.                               *)
GrantsHaveConsent ==
    \A k \in grants :
        \E c \in Calls : inv[c].key = k /\ answer[c] = "session"

(* What has become of a call. *)
Fate(c) ==
    IF outcome[c] \in {"succeeded", "failed"} THEN "executed"
    ELSE IF pc[c] = "done" THEN "refused"
    ELSE IF pc[c] = "executing" THEN "executing" ELSE "pending"

(* Of a decision made by a cancellation the user knows nothing. *)
Consent(c) == IF answer[c] = "cancelled" THEN "none" ELSE answer[c]

Gate == INSTANCE PermissionGate WITH
    verdict   <- [c \in Calls |-> Policy(inv[c])],
    key       <- [c \in Calls |-> inv[c].key],
    consent   <- [c \in Calls |-> Consent(c)],
    granted   <- grants,
    withdrawn <- {c \in Calls : CtxDone(c)},
    state     <- [c \in Calls |-> Fate(c)]

(* The broker, its channels, the dialog and the executor keep the promise  *)
(* of a permission gate: answers are final, late ones allow nothing, only  *)
(* a permission for the session serves other calls, a refused or denied    *)
(* call is never entered, and no tool is entered after its run is          *)
(* cancelled.                                                              *)
ImplementsGate == Gate!Spec

Count(q, x) == Cardinality({i \in DOMAIN q : q[i] = x})

(* How often the request of a call is on its way to the user or before him.*)
Places(c) ==
    Count(requests, c) + (IF held = c THEN 1 ELSE 0)
    + Count(dispatched, Approval(c))
    + (IF request = c THEN 1 ELSE 0) + Count(queue, c)

(* No request is lost or shown twice: it is in one place at most, in one   *)
(* place exactly while its goroutine waits without an answer, and nowhere  *)
(* once it has been answered.                                              *)
RequestInOnePlace ==
    \A c \in Calls :
        /\ Places(c) <= 1
        /\ pc[c] = "waiting" /\ answer[c] = "none" => Places(c) = 1
        /\ answer[c] # "none" => Places(c) = 0

(* The dialog is on the screen exactly while there is a request to show,   *)
(* and no request waits behind an empty dialog.                            *)
DialogShowsRequest ==
    /\ dialogOpen <=> request # NoCall
    /\ queue # <<>> => request # NoCall

(* The composer opens again after a cancellation, which is when the last   *)
(* call of the run has ended: cancelling holds back no call, also none     *)
(* whose request is still on its way to a dialog that nobody answers.      *)
CancelEnds == cancelling ~> ~cancelling \/ stopped

(* With a user who answers, every run ends, and with it its calls, also    *)
(* when several of them ask at once through a full channel and behind one  *)
(* dialog, and whatever is cancelled.                                      *)
Busy    == streaming \/ cancelling
RunsEnd == Attended => (Busy ~> ~Busy \/ stopped)
=============================================================================
