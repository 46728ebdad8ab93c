------------------------------- MODULE AskUser ------------------------------
(***************************************************************************)
(* Questions to the user: the AskUserQuestion tool                         *)
(* (internal/infra/tools/askuser/askuser.go), the loop that carries its    *)
(* requests to the UI, and the dialog that answers them                    *)
(* (cmd/cli/controller/ask.go).                                            *)
(*                                                                         *)
(* Unlike approvals, questions have no queue: the dialog holds one         *)
(* request, the next one takes its place, and a cancelled run leaves the   *)
(* dialog as it is.  A question is a header and its number of options, an  *)
(* answer the index of an option.                                          *)
(***************************************************************************)
EXTENDS Integers, Sequences, FiniteSets

CONSTANTS
    Calls,      \* calls of the tool
    Runs,       \* runs of the agent, 1 .. n, one after the other
    RunOf,      \* the run each call belongs to
    Headers,    \* labels of questions
    Requests,   \* what a call may be given to ask, sequences of questions
    Room,       \* the capacity of RequestCh, 1 in main
    NoCall

ASSUME AskUserAssumption ==
    /\ Runs = 1 .. Cardinality(Runs) /\ IsFiniteSet(Runs)
    /\ RunOf \in [Calls -> Runs]
    /\ Requests \subseteq Seq([header : Headers, options : Nat])
    /\ Room \in Nat \ {0}
    /\ NoCall \notin Calls

VARIABLES
    pc,         \* where the goroutine of each call is
    asks,       \* the questions of each call
    channel,    \* requests in RequestCh, oldest first
    hand,       \* the request askLoop waits to dispatch
    posted,     \* requests in closures the UI has not run yet
    ask,        \* Controller.ask
    box,        \* the ResponseCh of each call, room for one answer
    answer,     \* what each call returned to the model
    ctxDone     \* runs that are cancelled

vars == <<pc, asks, channel, hand, posted, ask, box, answer, ctxDone>>
uiVars == <<ask, posted>>

Nothing == <<>>

(* No dialog: the zero AskState. *)
Closed == [call |-> NoCall, question |-> 1, selected |-> 0, selections |-> <<>>]

Init ==
    /\ pc = [c \in Calls |-> "none"]
    /\ asks = [c \in Calls |-> <<>>]
    /\ channel = <<>> /\ hand = NoCall /\ posted = <<>>
    /\ ask = Closed
    /\ box = [c \in Calls |-> Nothing]
    /\ answer = [c \in Calls |-> Nothing]
    /\ ctxDone = {}

Over  == {"rejected", "answered", "cancelled"}
Ended(c) == pc[c] \in Over

Go(c, from, to) == pc[c] = from /\ pc' = [pc EXCEPT ![c] = to]

(* Fault: the calls of a run that was cancelled are not waited for. *)
StartRunEarly(r) ==
    /\ \A c \in Calls : RunOf[c] < r => Ended(c) \/ RunOf[c] \in ctxDone
    /\ \A c \in Calls : RunOf[c] = r => pc[c] = "none"
    /\ pc' = [c \in Calls |-> IF RunOf[c] = r THEN "called" ELSE pc[c]]
    /\ UNCHANGED <<asks, channel, hand, uiVars, box, answer, ctxDone>>

(* A run's calls start together, once every call of the runs before it has *)
(* returned: CollectResults waits for all of them, also when the run has   *)
(* been cancelled.                                                         *)
StartRun(r) ==
    /\ \A c \in Calls : RunOf[c] < r => Ended(c)
    /\ \A c \in Calls : RunOf[c] = r => pc[c] = "none"
    /\ pc' = [c \in Calls |-> IF RunOf[c] = r THEN "called" ELSE pc[c]]
    /\ UNCHANGED <<asks, channel, hand, uiVars, box, answer, ctxDone>>

(***************************************************************************)
(* Tool.Execute.                                                           *)
(***************************************************************************)
WellFormed(qs) ==
    /\ Len(qs) \in 1 .. 4
    /\ \A i \in DOMAIN qs : qs[i].options \in 2 .. 4

Check(c, qs) ==
    /\ \/ WellFormed(qs) /\ Go(c, "called", "sending")
       \/ ~WellFormed(qs) /\ Go(c, "called", "rejected")
    /\ asks' = [asks EXCEPT ![c] = qs]
    /\ UNCHANGED <<channel, hand, uiVars, box, answer, ctxDone>>

(* The send waits for room and for nothing else. *)
Send(c) ==
    /\ Len(channel) < Room
    /\ Go(c, "sending", "waiting")
    /\ channel' = Append(channel, c)
    /\ UNCHANGED <<asks, hand, uiVars, box, answer, ctxDone>>

Receive(c) ==
    /\ box[c] # Nothing
    /\ Go(c, "waiting", "answered")
    /\ answer' = [answer EXCEPT ![c] = box[c]]
    /\ box' = [box EXCEPT ![c] = Nothing]
    /\ UNCHANGED <<asks, channel, hand, uiVars, ctxDone>>

(* Fault: the tool waits for an answer first. *)
GiveUpAnswered(c) ==
    /\ RunOf[c] \in ctxDone
    /\ box[c] # Nothing
    /\ Go(c, "waiting", "cancelled")
    /\ UNCHANGED <<asks, channel, hand, uiVars, box, answer, ctxDone>>

GiveUp(c) ==
    /\ RunOf[c] \in ctxDone
    /\ Go(c, "waiting", "cancelled")
    /\ UNCHANGED <<asks, channel, hand, uiVars, box, answer, ctxDone>>

(***************************************************************************)
(* askLoop and the closure it dispatches.                                  *)
(***************************************************************************)
TakeRequest ==
    /\ hand = NoCall
    /\ channel # <<>>
    /\ hand' = Head(channel)
    /\ channel' = Tail(channel)
    /\ UNCHANGED <<pc, asks, uiVars, box, answer, ctxDone>>

DispatchRequest ==
    /\ hand # NoCall
    /\ posted' = Append(posted, hand)
    /\ hand' = NoCall
    /\ UNCHANGED <<pc, asks, channel, ask, box, answer, ctxDone>>

(* The dialog is for this request now, whatever it was before. *)
Show ==
    /\ posted # <<>>
    /\ ask' = [Closed EXCEPT !.call = Head(posted),
                             !.selections = [i \in DOMAIN asks[Head(posted)] |-> 0]]
    /\ posted' = Tail(posted)
    /\ UNCHANGED <<pc, asks, channel, hand, box, answer, ctxDone>>

(***************************************************************************)
(* The user at the dialog.                                                 *)
(***************************************************************************)
Open == ask.call # NoCall

(* Arrow keys move the selection within the options. *)
MoveAsk(delta) ==
    /\ Open
    /\ LET last == asks[ask.call][ask.question].options - 1
           moved == ask.selected + delta
       IN  ask' = [ask EXCEPT !.selected =
                     IF moved > last THEN last ELSE IF moved < 0 THEN 0 ELSE moved]
    /\ UNCHANGED <<pc, asks, channel, hand, posted, box, answer, ctxDone>>

(* Fault: the cursor is read for every question. *)
RespondAskSelected(selections) ==
    LET qs == asks[ask.call]
    IN  /\ box' = [box EXCEPT ![ask.call] =
                     [h \in {qs[i].header : i \in DOMAIN qs} |-> ask.selected]]
        /\ ask' = Closed

(* Fault: the dialog closes and the answer is left out. *)
RespondAskClosing(selections) ==
    /\ ask' = Closed
    /\ UNCHANGED box

(* The answers by header; of two questions with one header the later one   *)
(* counts.  The answer goes into the request's own channel, unless an      *)
(* answer lies there, and the dialog closes.                               *)
RespondAsk(selections) ==
    LET qs == asks[ask.call]
        LastWith(h) == CHOOSE i \in DOMAIN qs :
                          /\ qs[i].header = h
                          /\ \A j \in DOMAIN qs : qs[j].header = h => j <= i
        answers == [h \in {qs[i].header : i \in DOMAIN qs} |-> selections[LastWith(h)]]
    IN  /\ box' = [box EXCEPT ![ask.call] = IF @ = Nothing THEN answers ELSE @]
        /\ ask' = Closed

ConfirmAsk ==
    /\ Open
    /\ LET chosen == [ask.selections EXCEPT ![ask.question] = ask.selected]
       IN  IF ask.question < Len(asks[ask.call])
           THEN /\ ask' = [ask EXCEPT !.selections = chosen,
                                      !.question = @ + 1,
                                      !.selected = chosen[ask.question + 1]]
                /\ UNCHANGED box
           ELSE RespondAsk(chosen)
    /\ UNCHANGED <<pc, asks, channel, hand, posted, answer, ctxDone>>

(* Escape answers every question with its first option. *)
RespondDefaults ==
    /\ Open
    /\ RespondAsk([i \in DOMAIN ask.selections |-> 0])
    /\ UNCHANGED <<pc, asks, channel, hand, posted, answer, ctxDone>>

(* Escape in the composer cancels the run; the dialog is not touched. *)
Cancel(r) ==
    /\ r \notin ctxDone
    /\ \E c \in Calls : RunOf[c] = r /\ pc[c] # "none" /\ ~Ended(c)
    /\ ctxDone' = ctxDone \cup {r}
    /\ UNCHANGED <<pc, asks, channel, hand, uiVars, box, answer>>

Execute(c) == (\E qs \in Requests : Check(c, qs)) \/ Send(c) \/ Receive(c) \/ GiveUp(c)
Loop       == TakeRequest \/ DispatchRequest
User       == (\E d \in {-1, 1} : MoveAsk(d)) \/ ConfirmAsk \/ RespondDefaults

Next ==
    \/ \E r \in Runs : StartRun(r) \/ Cancel(r)
    \/ \E c \in Calls : Execute(c)
    \/ Loop \/ Show
    \/ User

(* Goroutines and the UI run.  The user is not obliged to anything. *)
Fairness ==
    /\ \A c \in Calls : WF_vars(Execute(c))
    /\ WF_vars(Loop) /\ WF_vars(Show)

Spec == Init /\ [][Next]_vars /\ Fairness

(* A user who deals with every dialog, if only by the defaults. *)
AnsweringUser == WF_vars(ConfirmAsk \/ RespondDefaults)

(***************************************************************************)
(* Properties.                                                             *)
(***************************************************************************)
(* What a call returns answers its own questions: every header of its      *)
(* request has an option, and of a question with that header.              *)
AnswersAreOwn ==
    \A c \in Calls : pc[c] = "answered" =>
        /\ DOMAIN answer[c] = {asks[c][i].header : i \in DOMAIN asks[c]}
        /\ \A h \in DOMAIN answer[c] :
              \E i \in DOMAIN asks[c] :
                  asks[c][i].header = h /\ answer[c][h] < asks[c][i].options

InSeq(c, q) == \E i \in DOMAIN q : q[i] = c

(* Where a request that has been sent can still be seen or answered from.  *)
OnItsWay(c) == InSeq(c, channel) \/ hand = c \/ InSeq(c, posted) \/ ask.call = c

(* A question vanishes without an answer only when another one of the same *)
(* response has taken its place, or after its run was cancelled: requests  *)
(* of an earlier run never take the dialog from a later one.               *)
OnlyRivalsReplace ==
    \A c \in Calls :
        pc[c] = "waiting" /\ ~OnItsWay(c) /\ box[c] = Nothing =>
            \/ RunOf[c] \in ctxDone
            \/ \E d \in Calls \ {c} :
                  /\ RunOf[d] = RunOf[c]
                  /\ ask.call = d \/ box[d] # Nothing \/ pc[d] = "answered"

(* The send does not watch the context, and yet the calls of a cancelled   *)
(* run end, whatever the user does with the dialog: askLoop always makes   *)
(* room.                                                                   *)
CancelledCallsEnd ==
    \A c \in Calls : RunOf[c] \in ctxDone ~> Ended(c)

(* With a user who deals with dialogs, a question asked alone in its       *)
(* response is answered or cancelled, also when dialogs of earlier runs    *)
(* are still open.  Two in one response may leave one waiting.             *)
LoneQuestionsEnd ==
    AnsweringUser =>
        \A c \in Calls : (\A d \in Calls \ {c} : RunOf[d] # RunOf[c])
                          => (pc[c] = "called" ~> Ended(c))
=============================================================================
