------------------------- MODULE ToolApprovalProofs -------------------------
(***************************************************************************)
(* Proofs about ToolApproval, for any tool calls, approval keys, mix of    *)
(* invocations, number of runs and room in the request channel.            *)
(*                                                                         *)
(* What a tool call may do rests on three facts that hold together: a call *)
(* the broker has let through is permitted, a call that asks the user is   *)
(* one the policy leaves to the user, and a grant goes back to a user's    *)
(* answer.  Answers never change once given, so permission once obtained   *)
(* stays, whatever the other goroutines do.                                *)
(*                                                                         *)
(* That no request is lost or shown twice rests on counting: each step     *)
(* moves a request from one place to the next, adds one for a goroutine    *)
(* that had none, or takes out those it answers.                           *)
(*                                                                         *)
(* Both together show that all of it implements PermissionGate: an answer  *)
(* reaches only a request in some place, so never a call that has been let *)
(* through.                                                                *)
(***************************************************************************)
EXTENDS ToolApproval, SequenceTheorems, FunctionTheorems, FiniteSetTheorems,
        TLAPS

(* The actions of Next that touch no call, one by one. *)
LEMMA NextCases ==
    ASSUME [Next]_vars
    PROVE  \/ StartRun
           \/ \E r \in Runs : EndRun(r)
           \/ \E c \in Calls : Begin(c)
           \/ \E c \in Calls : Authorize(c)
           \/ \E c \in Calls : SendRequest(c)
           \/ \E c \in Calls : ReceiveAnswer(c)
           \/ \E c \in Calls : Abandon(c)
           \/ \E c \in Calls : Enter(c)
           \/ \E c \in Calls : Return(c)
           \/ TakeRequest \/ DispatchRequest \/ RunClosure
           \/ resolveApproval \/ Cancel \/ Stop \/ Shutdown
           \/ UNCHANGED vars
BY DEF Next, Goroutine

(* A typed closure is a request with its call, or the end with its run. *)
LEMMA ClosureTypes ==
    ASSUME NEW e \in Closures
    PROVE  /\ e[1] = "approval" => e[2] \in Calls
           /\ e[1] = "end" => e[2] \in Runs
BY DEF Closures

LEMMA ApprovalIsClosure == \A c \in Calls : Approval(c) \in Closures
BY DEF Approval, Closures

LEMMA EndIsClosure == \A r \in Runs : End(r) \in Closures
BY DEF End, Closures

(* Resolving requests keeps the types of the answers. *)
LEMMA ResolveType ==
    ASSUME answer \in [Calls -> Decisions], NEW cs,
           NEW decision \in Decisions
    PROVE  Resolve(answer, cs, decision) \in [Calls -> Decisions]
BY DEF Resolve

LEMMA TypeInit == Init => TypeOK
<1>1. Init => requests \in Seq(Calls) /\ dispatched \in Seq(Closures)
              /\ queue \in Seq(Calls)
  BY DEF Init
<1>2. Init => run \in 0 .. MaxRuns
  BY ApprovalAssumption DEF Init
<1>3. Init => /\ pc \in [Calls -> Positions]
              /\ outcome \in [Calls -> Results]
              /\ answer \in [Calls -> Decisions]
  BY DEF Init, Positions, Results, Decisions
<1>4. Init => /\ streaming \in BOOLEAN /\ cancelling \in BOOLEAN
              /\ stopped \in BOOLEAN /\ dialogOpen \in BOOLEAN
              /\ streaming => run # 0
  BY DEF Init
<1>. QED
  BY <1>1, <1>2, <1>3, <1>4 DEF Init, TypeOK

LEMMA TypeStep == TypeOK /\ [Next]_vars => TypeOK'
<1>. SUFFICES ASSUME TypeOK, [Next]_vars PROVE TypeOK'
  OBVIOUS
<1>. USE ApprovalAssumption DEF TypeOK
<1>1. CASE StartRun
  <2>1. run' \in 0 .. MaxRuns
    BY <1>1 DEF StartRun
  <2>2. pc' \in [Calls -> Positions]
    BY <1>1 DEF StartRun, Positions
  <2>. QED
    BY <1>1, <2>1, <2>2 DEF StartRun, pipeVars, dialogVars
<1>2. ASSUME NEW r \in Runs, EndRun(r) PROVE TypeOK'
  <2>1. dispatched' \in Seq(Closures)
    BY <1>2, EndIsClosure DEF EndRun
  <2>. QED
    BY <1>2, <2>1 DEF EndRun, callVars, dialogVars
<1>3. ASSUME NEW c \in Calls, Begin(c) PROVE TypeOK'
  BY <1>3 DEF Begin, Step, Done, Positions, Results, pipeVars, dialogVars,
     runVars
<1>4. ASSUME NEW c \in Calls, Authorize(c) PROVE TypeOK'
  BY <1>4 DEF Authorize, Step, Done, Positions, Results, pipeVars, dialogVars,
     runVars
<1>5. ASSUME NEW c \in Calls, SendRequest(c) PROVE TypeOK'
  BY <1>5 DEF SendRequest, Step, Positions, dialogVars, runVars
<1>6. ASSUME NEW c \in Calls, ReceiveAnswer(c) PROVE TypeOK'
  <2>1. inv[c].key \in Keys
    BY DEF Invocations
  <2>2. grants' \subseteq Keys
    BY <1>6, <2>1 DEF ReceiveAnswer
  <2>. QED
    BY <1>6, <2>2 DEF ReceiveAnswer, Step, Done, Positions, Results, pipeVars,
       dialogVars, runVars
<1>7. ASSUME NEW c \in Calls, Abandon(c) PROVE TypeOK'
  BY <1>7 DEF Abandon, Done, Positions, Results, pipeVars, dialogVars, runVars
<1>8. ASSUME NEW c \in Calls, Enter(c) PROVE TypeOK'
  BY <1>8 DEF Enter, Step, Done, Positions, Results, pipeVars, dialogVars,
     runVars
<1>9. ASSUME NEW c \in Calls, Return(c) PROVE TypeOK'
  BY <1>9 DEF Return, Done, Positions, Results, pipeVars, dialogVars, runVars
<1>10. CASE TakeRequest
  BY <1>10 DEF TakeRequest, callVars, dialogVars, runVars
<1>11. CASE DispatchRequest
  <2>1. held \in Calls
    BY <1>11 DEF DispatchRequest
  <2>2. answer' \in [Calls -> Decisions]
    BY <1>11, ResolveType DEF DispatchRequest, Decisions
  <2>3. dispatched' \in Seq(Closures)
    <3>1. \/ dispatched' = dispatched
          \/ dispatched' = Append(dispatched, Approval(held))
      BY <1>11 DEF DispatchRequest
    <3>2. Approval(held) \in Closures
      BY <2>1, ApprovalIsClosure
    <3>3. Append(dispatched, Approval(held)) \in Seq(Closures)
      BY <3>2
    <3>. QED
      BY <3>1, <3>3
  <2>. QED
    BY <1>11, <2>2, <2>3 DEF DispatchRequest, callVars, dialogVars, runVars
<1>12. CASE RunClosure
  <2>1. Head(dispatched) \in Closures /\ dispatched' \in Seq(Closures)
    BY <1>12 DEF RunClosure
  <2>2. CASE Head(dispatched)[1] = "approval"
             /\ enqueueApproval(Head(dispatched)[2])
    <3>1. Head(dispatched)[2] \in Calls
      BY <2>1, <2>2, ClosureTypes
    <3>2. request' \in Calls \cup {NoCall}
      BY <2>2, <3>1 DEF enqueueApproval
    <3>4. queue' \in Seq(Calls)
      <4>1. Append(queue, Head(dispatched)[2]) \in Seq(Calls)
        BY <3>1
      <4>. QED
        BY <2>2, <4>1 DEF enqueueApproval
    <3>3. dialogOpen' \in BOOLEAN
      BY <2>2 DEF enqueueApproval
    <3>. QED
      BY <1>12, <2>1, <2>2, <3>2, <3>3, <3>4 DEF RunClosure, enqueueApproval, callVars
  <2>3. CASE Head(dispatched)[1] = "end" /\ endRun(Head(dispatched)[2])
    BY <1>12, <2>1, <2>3 DEF RunClosure, endRun, callVars, dialogVars
  <2>. QED
    BY <1>12, <2>2, <2>3 DEF RunClosure
<1>13. CASE resolveApproval
  <2>1. answer' \in [Calls -> Decisions]
    BY <1>13, ResolveType DEF resolveApproval, Decisions
  <2>2. /\ request' \in Calls \cup {NoCall} /\ queue' \in Seq(Calls)
        /\ dialogOpen' \in BOOLEAN
    <3>1. CASE queue # <<>>
      <4>1. Head(queue) \in Calls /\ Tail(queue) \in Seq(Calls)
        BY <3>1, HeadTailProperties
      <4>. QED
        BY <1>13, <3>1, <4>1 DEF resolveApproval, advanceApproval
    <3>2. CASE queue = <<>>
      BY <1>13, <3>2 DEF resolveApproval, advanceApproval
    <3>. QED
      BY <3>1, <3>2
  <2>. QED
    BY <1>13, <2>1, <2>2 DEF resolveApproval, callVars, pipeVars, runVars
<1>14. CASE Cancel
  <2>1. answer' \in [Calls -> Decisions]
    BY <1>14, ResolveType DEF Cancel, denyAllApprovals, Decisions
  <2>2. cancelled' \subseteq Runs
    <3>1. streaming => run \in Runs
      BY DEF Runs
    <3>. QED
      BY <1>14, <3>1 DEF Cancel
  <2>3. /\ request' \in Calls \cup {NoCall} /\ queue' \in Seq(Calls)
        /\ dialogOpen' \in BOOLEAN
    <3>1. request' = NoCall /\ queue' = <<>> /\ dialogOpen' = FALSE
      BY <1>14 DEF Cancel, denyAllApprovals
    <3>2. queue' \in Seq(Calls)
      BY <3>1
    <3>3. request' \in Calls \cup {NoCall} /\ dialogOpen' \in BOOLEAN
      BY <3>1, Zenon
    <3>. QED
      BY <3>2, <3>3
  <2>. QED
    BY <1>14, <2>1, <2>2, <2>3 DEF Cancel, callVars, pipeVars
<1>15. CASE Stop
  BY <1>15 DEF Stop, callVars, pipeVars, dialogVars
<1>16. CASE Shutdown
  <2>1. answer' \in [Calls -> Decisions]
    BY <1>16, ResolveType DEF Shutdown, denyAllApprovals, Decisions
  <2>2. cancelled' \subseteq Runs
    <3>1. streaming => run \in Runs
      BY DEF Runs
    <3>. QED
      BY <1>16, <3>1 DEF Shutdown
  <2>3. /\ streaming' \in BOOLEAN /\ cancelling' \in BOOLEAN
        /\ streaming' => run' # 0
    BY <1>16 DEF Shutdown
  <2>4. /\ request' \in Calls \cup {NoCall} /\ queue' \in Seq(Calls)
        /\ dialogOpen' \in BOOLEAN
    <3>1. request' = NoCall /\ queue' = <<>> /\ dialogOpen' = FALSE
      BY <1>16 DEF Shutdown, denyAllApprovals
    <3>2. queue' \in Seq(Calls)
      BY <3>1
    <3>3. request' \in Calls \cup {NoCall} /\ dialogOpen' \in BOOLEAN
      BY <3>1, Zenon
    <3>. QED
      BY <3>2, <3>3
  <2>. QED
    BY <1>16, <2>1, <2>2, <2>3, <2>4 DEF Shutdown, callVars, pipeVars
<1>17. CASE UNCHANGED vars
  BY <1>17 DEF vars, callVars, pipeVars, dialogVars, runVars
<1>. QED
  BY <1>1, <1>2, <1>3, <1>4, <1>5, <1>6, <1>7, <1>8, <1>9, <1>10, <1>11,
     <1>12, <1>13, <1>14, <1>15, <1>16, <1>17, NextCases

(* Type correctness of every behaviour of the gate, the bounded runs and   *)
(* the bounded channel included.                                           *)
THEOREM TypeCorrect == Spec => []TypeOK
BY TypeInit, TypeStep, PTL DEF Spec

-----------------------------------------------------------------------------
(* Permission.                                                             *)

(* The calls that ask the user are those the policy leaves to the user.    *)
AskersMayAsk ==
    \A c \in Calls : pc[c] \in {"asking", "waiting"} => Policy(inv[c]) = "ask"

Permitted(c) ==
    \/ Policy(inv[c]) = "allow"
    \/ Policy(inv[c]) = "ask" /\ Consented(c)

(* What the broker lets through is permitted already before it executes.   *)
LetThroughArePermitted ==
    \A c \in Calls : pc[c] = "allowed" \/ Executed(c) => Permitted(c)

PermissionInv ==
    /\ TypeOK
    /\ AskersMayAsk
    /\ LetThroughArePermitted
    /\ GrantsHaveConsent

(* No step changes an invocation, nor an answer once it has been given.    *)
LEMMA AnswersAreFinal ==
    ASSUME TypeOK, [Next]_vars
    PROVE  /\ inv' = inv
           /\ \A c \in Calls : answer[c] # "none" => answer'[c] = answer[c]
<1>1. ASSUME NEW cs, NEW decision,
             answer' = Resolve(answer, cs, decision)
      PROVE  \A c \in Calls : answer[c] # "none" => answer'[c] = answer[c]
  BY <1>1 DEF Resolve
<1>2. CASE DispatchRequest \/ resolveApproval \/ Cancel \/ Shutdown
  <2>1. inv' = inv
    BY <1>2 DEF DispatchRequest, resolveApproval, Cancel, Shutdown
  <2>2. \/ \E cs, decision : answer' = Resolve(answer, cs, decision)
        \/ answer' = answer
    BY <1>2 DEF DispatchRequest, resolveApproval, Cancel, Shutdown,
       denyAllApprovals
  <2>. QED
    BY <1>1, <2>1, <2>2
<1>3. CASE \/ StartRun
           \/ \E r \in Runs : EndRun(r)
           \/ \E c \in Calls : Goroutine(c)
           \/ TakeRequest \/ RunClosure \/ Stop
           \/ UNCHANGED vars
  BY <1>3 DEF StartRun, EndRun, Goroutine, Begin, Authorize, SendRequest,
     ReceiveAnswer, Abandon, Enter, Return, TakeRequest, RunClosure, Stop, vars
<1>. QED
  BY <1>2, <1>3 DEF Next

(* So consent, and with it permission, is never lost.                      *)
LEMMA PermissionIsKept ==
    ASSUME TypeOK, [Next]_vars, NEW c \in Calls, Permitted(c)
    PROVE  Permitted(c)'
<1>1. Consented(c) => Consented(c)'
  BY AnswersAreFinal DEF Consented
<1>2. Policy(inv[c])' = Policy(inv[c])
  BY AnswersAreFinal
<1>. QED
  BY <1>1, <1>2 DEF Permitted

LEMMA PermissionInit == Init => PermissionInv
<1>. SUFFICES ASSUME Init PROVE PermissionInv
  OBVIOUS
<1>1. TypeOK
  BY TypeInit
<1>2. AskersMayAsk /\ LetThroughArePermitted
  BY DEF Init, AskersMayAsk, LetThroughArePermitted, Executed
<1>3. GrantsHaveConsent
  BY DEF Init, GrantsHaveConsent
<1>. QED
  BY <1>1, <1>2, <1>3 DEF PermissionInv

(* A goroutine that did not move, or that moved to a position where it has *)
(* neither asked nor been let through, needs no new permission.            *)
LEMMA OthersKeepPermission ==
    ASSUME PermissionInv, [Next]_vars, NEW c \in Calls,
           \/ pc'[c] = pc[c] /\ outcome'[c] = outcome[c]
           \/ /\ pc'[c] \notin {"asking", "waiting", "allowed", "executing"}
              /\ outcome'[c] \in {"succeeded", "failed"} =>
                    outcome'[c] = outcome[c]
    PROVE  /\ pc'[c] \in {"asking", "waiting"} => Policy(inv'[c]) = "ask"
           /\ pc'[c] = "allowed" \/ Executed(c)' => Permitted(c)'
<1>1. inv' = inv
  BY AnswersAreFinal DEF PermissionInv
<1>2. CASE pc'[c] = pc[c] /\ outcome'[c] = outcome[c]
  <2>1. pc'[c] \in {"asking", "waiting"} => Policy(inv'[c]) = "ask"
    BY <1>1, <1>2 DEF PermissionInv, AskersMayAsk
  <2>2. pc'[c] = "allowed" \/ Executed(c)' => Permitted(c)
    BY <1>2 DEF PermissionInv, LetThroughArePermitted, Executed
  <2>. QED
    BY <2>1, <2>2, PermissionIsKept DEF PermissionInv
<1>3. CASE /\ pc'[c] \notin {"asking", "waiting", "allowed", "executing"}
           /\ outcome'[c] \in {"succeeded", "failed"} =>
                 outcome'[c] = outcome[c]
  <2>1. Executed(c)' => Permitted(c)
    BY <1>3 DEF PermissionInv, LetThroughArePermitted, Executed
  <2>. QED
    BY <1>3, <2>1, PermissionIsKept DEF PermissionInv
<1>. QED
  BY <1>2, <1>3

(* One step of a goroutine leaves it permitted.                            *)
LEMMA GoroutinePermission ==
    ASSUME PermissionInv, [Next]_vars, NEW c \in Calls, Goroutine(c)
    PROVE  /\ pc'[c] \in {"asking", "waiting"} => Policy(inv'[c]) = "ask"
           /\ pc'[c] = "allowed" \/ Executed(c)' => Permitted(c)'
<1>. USE DEF PermissionInv, Step, Done
<1>0. inv' = inv /\ pc \in [Calls -> Positions] /\ outcome \in [Calls -> Results]
  BY AnswersAreFinal DEF TypeOK
<1>1. CASE Begin(c)
  BY <1>0, <1>1, OthersKeepPermission DEF Begin
<1>2. CASE Authorize(c)
  <2>1. CASE pc'[c] = "allowed" /\ outcome' = outcome
    <3>1. \/ Policy(inv[c]) = "allow"
          \/ Policy(inv[c]) = "ask" /\ inv[c].key \in grants
      BY <1>0, <1>2, <2>1 DEF Authorize
    <3>2. inv[c].key \in grants => Consented(c)
      BY DEF GrantsHaveConsent, Consented
    <3>. QED
      BY <2>1, <3>1, <3>2, PermissionIsKept DEF Permitted
  <2>2. CASE pc'[c] = "asking" /\ outcome' = outcome
    <3>1. Policy(inv[c]) = "ask"
      BY <1>0, <1>2, <2>2 DEF Authorize
    <3>2. Executed(c)' => Permitted(c)
      BY <2>2 DEF Executed, LetThroughArePermitted
    <3>. QED
      BY <1>0, <2>2, <3>1, <3>2, PermissionIsKept
  <2>3. CASE pc'[c] = "done" /\ outcome'[c] = "denied"
    BY <2>3, OthersKeepPermission
  <2>. QED
    BY <1>0, <1>2, <2>1, <2>2, <2>3 DEF Authorize
<1>3. CASE SendRequest(c)
  <2>1. Policy(inv[c]) = "ask" /\ pc'[c] = "waiting" /\ outcome' = outcome
    BY <1>0, <1>3 DEF SendRequest, AskersMayAsk
  <2>2. Executed(c)' => Permitted(c)
    BY <2>1 DEF Executed, LetThroughArePermitted
  <2>. QED
    BY <1>0, <2>1, <2>2, PermissionIsKept
<1>4. CASE ReceiveAnswer(c)
  <2>1. Policy(inv[c]) = "ask"
    BY <1>4 DEF ReceiveAnswer, AskersMayAsk
  <2>2. CASE answer[c] \in {"once", "session"}
    <3>1. Permitted(c)
      BY <2>1, <2>2 DEF Permitted, Consented
    <3>2. pc'[c] = "allowed"
      BY <1>0, <1>4, <2>2 DEF ReceiveAnswer
    <3>. QED
      BY <3>1, <3>2, PermissionIsKept
  <2>3. CASE answer[c] \notin {"once", "session"}
    BY <1>0, <1>4, <2>3, OthersKeepPermission DEF ReceiveAnswer
  <2>. QED
    BY <2>2, <2>3
<1>5. CASE Abandon(c)
  BY <1>0, <1>5, OthersKeepPermission DEF Abandon
<1>6. CASE Enter(c)
  <2>1. pc[c] = "allowed"
    BY <1>6 DEF Enter
  <2>2. Permitted(c)'
    BY <2>1, PermissionIsKept DEF LetThroughArePermitted
  <2>3. pc'[c] \in {"executing", "done"}
    BY <1>0, <1>6 DEF Enter
  <2>. QED
    BY <2>2, <2>3
<1>7. CASE Return(c)
  <2>1. pc[c] = "executing" /\ pc'[c] = "done"
    BY <1>0, <1>7 DEF Return
  <2>2. Permitted(c)'
    BY <2>1, PermissionIsKept DEF LetThroughArePermitted, Executed
  <2>. QED
    BY <2>1, <2>2
<1>. QED
  BY <1>1, <1>2, <1>3, <1>4, <1>5, <1>6, <1>7 DEF Goroutine

(* A key is granted only by the goroutine that receives the user's answer. *)
LEMMA GrantsStep ==
    ASSUME PermissionInv, [Next]_vars
    PROVE  GrantsHaveConsent'
<1>1. ASSUME NEW k \in grants
      PROVE  \E c \in Calls : inv'[c].key = k /\ answer'[c] = "session"
  BY <1>1, AnswersAreFinal DEF PermissionInv, GrantsHaveConsent
<1>2. ASSUME NEW c \in Calls, ReceiveAnswer(c)
      PROVE  GrantsHaveConsent'
  <2>1. \A k \in grants' \ grants : k = inv[c].key /\ answer[c] = "session"
    BY <1>2 DEF ReceiveAnswer
  <2>2. inv' = inv /\ answer' = answer
    BY <1>2 DEF ReceiveAnswer
  <2>. QED
    BY <1>1, <2>1, <2>2 DEF GrantsHaveConsent
<1>3. CASE grants' = grants
  BY <1>1, <1>3 DEF GrantsHaveConsent
<1>4. grants' = grants \/ \E c \in Calls : ReceiveAnswer(c)
  BY NextCases DEF StartRun, EndRun, Begin, Authorize, SendRequest, Abandon,
     Enter, Return, TakeRequest, DispatchRequest, RunClosure, resolveApproval,
     Cancel, Stop, Shutdown, vars
<1>. QED
  BY <1>2, <1>3, <1>4

LEMMA PermissionStep == PermissionInv /\ [Next]_vars => PermissionInv'
<1>. SUFFICES ASSUME PermissionInv, [Next]_vars PROVE PermissionInv'
  OBVIOUS
<1>1. TypeOK'
  BY TypeStep DEF PermissionInv
<1>2. GrantsHaveConsent'
  BY GrantsStep
<1>3. ASSUME NEW c \in Calls
      PROVE  /\ pc'[c] \in {"asking", "waiting"} => Policy(inv'[c]) = "ask"
             /\ pc'[c] = "allowed" \/ Executed(c)' => Permitted(c)'
  <2>0. pc \in [Calls -> Positions] /\ outcome \in [Calls -> Results]
    BY DEF PermissionInv, TypeOK
  <2>1. CASE Goroutine(c)
    BY <2>1, GoroutinePermission
  <2>2. ASSUME NEW d \in Calls, d # c, Goroutine(d)
        PROVE  pc'[c] = pc[c] /\ outcome'[c] = outcome[c]
    BY <2>0, <2>2 DEF Goroutine, Begin, Authorize, SendRequest, ReceiveAnswer,
       Abandon, Enter, Return, Step, Done
  <2>3. CASE StartRun
    BY <2>0, <2>3, OthersKeepPermission DEF StartRun
  <2>4. CASE \/ \E r \in Runs : EndRun(r)
             \/ TakeRequest \/ DispatchRequest \/ RunClosure
             \/ resolveApproval \/ Cancel \/ Stop \/ Shutdown
             \/ UNCHANGED vars
    <3>1. pc' = pc /\ outcome' = outcome
      BY <2>4 DEF EndRun, TakeRequest, DispatchRequest, RunClosure,
         resolveApproval, Cancel, Stop, Shutdown, vars, callVars
    <3>. QED
      BY <3>1, OthersKeepPermission
  <2>. QED
    BY <2>1, <2>2, <2>3, <2>4, OthersKeepPermission DEF Next
<1>4. AskersMayAsk' /\ LetThroughArePermitted'
  BY <1>3 DEF AskersMayAsk, LetThroughArePermitted
<1>. QED
  BY <1>1, <1>2, <1>4 DEF PermissionInv

LEMMA PermissionAlways == Spec => []PermissionInv
BY PermissionInit, PermissionStep, PTL DEF Spec

(* Policy is enforced at the tool boundary: whatever is cancelled,         *)
(* answered late or granted meanwhile, no tool is entered but one the      *)
(* policy allows or the user has agreed to.                                *)
THEOREM ToolsAreGated == Spec => []OnlyPermittedExecute
<1>1. PermissionInv => OnlyPermittedExecute
  BY DEF PermissionInv, LetThroughArePermitted, Permitted, OnlyPermittedExecute
<1>. QED
  BY <1>1, PermissionAlways, PTL

(* A grant for the session goes back to a user's answer, however many      *)
(* calls race for the same key.                                            *)
THEOREM GrantsAreConsented == Spec => []GrantsHaveConsent
<1>1. PermissionInv => GrantsHaveConsent
  BY DEF PermissionInv
<1>. QED
  BY <1>1, PermissionAlways, PTL

(* What the policy allows outright stays within the profile.               *)
LEMMA PolicyKeepsProfile ==
    ASSUME NEW i \in Kinds
    PROVE  /\ i.profile = "plan" /\ Policy(i) # "deny" =>
                 \/ i.category = "read"
                 \/ i.category = "write" /\ i.planFile
           /\ i.outside /\ Policy(i) # "deny" => Policy(i) = "ask"
<1>1. i \in Invocations /\ (i.planFile => ~i.outside)
  BY ApprovalAssumption
<1>. QED
  BY <1>1 DEF Policy, PlanDecision, BuildDecision, Invocations, Profiles,
     Categories

(* The plan profile changes nothing but the plan file, and neither profile *)
(* reaches outside the workspace without the user's consent.               *)
THEOREM ProfilesAreKept == Spec => []ProfileIsKept
<1>1. ASSUME PermissionInv PROVE ProfileIsKept
  <2>1. ASSUME NEW c \in Calls, Executed(c)
        PROVE  /\ inv[c].profile = "plan" =>
                     \/ inv[c].category = "read"
                     \/ inv[c].category = "write" /\ inv[c].planFile
               /\ inv[c].outside => Consented(c)
    <3>1. inv[c] \in Kinds
      BY <1>1 DEF PermissionInv, TypeOK
    <3>2. Permitted(c)
      BY <1>1, <2>1 DEF PermissionInv, LetThroughArePermitted
    <3>. QED
      BY <3>1, <3>2, PolicyKeepsProfile DEF Permitted
  <2>. QED
    BY <2>1 DEF ProfileIsKept
<1>. QED
  BY <1>1, PermissionAlways, PTL

-----------------------------------------------------------------------------
(* The dialog.                                                             *)

LEMMA DialogStep ==
    TypeOK /\ DialogShowsRequest /\ [Next]_vars => DialogShowsRequest'
<1>. SUFFICES ASSUME TypeOK, DialogShowsRequest, [Next]_vars
              PROVE  DialogShowsRequest'
  OBVIOUS
<1>. USE DEF DialogShowsRequest
<1>0. NoCall \notin Calls /\ queue \in Seq(Calls) /\ dispatched \in Seq(Closures)
  BY ApprovalAssumption DEF TypeOK
<1>1. CASE RunClosure
  <2>1. CASE Head(dispatched)[1] = "approval"
             /\ enqueueApproval(Head(dispatched)[2])
    <3>1. Head(dispatched) \in Closures
      BY <1>0, <1>1, HeadTailProperties DEF RunClosure
    <3>2. Head(dispatched)[2] # NoCall
      BY <1>0, <2>1, <3>1, ClosureTypes
    <3>. QED
      BY <2>1, <3>2 DEF enqueueApproval
  <2>2. CASE Head(dispatched)[1] = "end" /\ endRun(Head(dispatched)[2])
    BY <2>2 DEF endRun, dialogVars
  <2>. QED
    BY <1>1, <2>1, <2>2 DEF RunClosure
<1>2. CASE resolveApproval
  <2>1. CASE queue # <<>>
    <3>1. Head(queue) # NoCall
      BY <1>0, <2>1, HeadTailProperties
    <3>2. dialogOpen /\ request' = Head(queue) /\ dialogOpen' = dialogOpen
      BY <1>2, <2>1 DEF resolveApproval, advanceApproval
    <3>. QED
      BY <3>1, <3>2
  <2>2. CASE queue = <<>>
    BY <1>2, <2>2 DEF resolveApproval, advanceApproval
  <2>. QED
    BY <2>1, <2>2
<1>3. CASE Cancel \/ Shutdown
  BY <1>3 DEF Cancel, Shutdown, denyAllApprovals
<1>4. CASE UNCHANGED dialogVars
  BY <1>4 DEF dialogVars
<1>5. RunClosure \/ resolveApproval \/ Cancel \/ Shutdown
      \/ UNCHANGED dialogVars
  BY NextCases DEF StartRun, EndRun, Begin, Authorize, SendRequest,
     ReceiveAnswer, Abandon, Enter, Return, TakeRequest, DispatchRequest,
     Stop, vars
<1>. QED
  BY <1>1, <1>2, <1>3, <1>4, <1>5

(* The dialog is on the screen exactly while it has a request to show, and *)
(* no request waits behind an empty dialog.                                *)
THEOREM DialogIsHonest == Spec => []DialogShowsRequest
<1>1. Init => TypeOK /\ DialogShowsRequest
  BY TypeInit DEF Init, DialogShowsRequest
<1>2. TypeOK /\ DialogShowsRequest /\ [Next]_vars
      => TypeOK' /\ DialogShowsRequest'
  BY TypeStep, DialogStep
<1>. QED
  BY <1>1, <1>2, PTL DEF Spec
-------------------------------------------------------------------------

-----------------------------------------------------------------------------
(* Requests.                                                               *)

(* The indices at which an element stands in a sequence. *)
At(q, x) == {i \in DOMAIN q : q[i] = x}

(* A count is a number, zero exactly for what is not in the sequence.      *)
LEMMA CountNat ==
    ASSUME NEW S, NEW q \in Seq(S), NEW x
    PROVE  /\ IsFiniteSet(At(q, x))
           /\ Count(q, x) \in Nat
           /\ Count(q, x) = 0 <=> x \notin Range(q)
<1>1. IsFiniteSet(1 .. Len(q)) /\ At(q, x) \in SUBSET (1 .. Len(q))
  BY FS_Interval DEF At
<1>2. IsFiniteSet(At(q, x))
  BY <1>1, FS_Subset
<1>3. Count(q, x) = Cardinality(At(q, x))
  BY DEF Count, At
<1>4. At(q, x) = {} <=> x \notin Range(q)
  BY DEF At, Range
<1>. QED
  BY <1>2, <1>3, <1>4, FS_CardinalityType, FS_EmptySet

LEMMA CountEmpty == \A x : Count(<<>>, x) = 0
BY FS_EmptySet DEF Count

(* Appending adds one, taking the head off removes one.                    *)
LEMMA CountAppend ==
    ASSUME NEW S, NEW q \in Seq(S), NEW e \in S, NEW x
    PROVE  Count(Append(q, e), x) = Count(q, x) + (IF e = x THEN 1 ELSE 0)
<1>. DEFINE n == Len(q) + 1
<1>1. /\ Len(q) \in Nat /\ DOMAIN Append(q, e) = 1 .. n
      /\ \A i \in 1 .. Len(q) : Append(q, e)[i] = q[i]
      /\ Append(q, e)[n] = e
  BY AppendProperties, LenProperties
<1>2. At(Append(q, e), x) = IF e = x THEN At(q, x) \cup {n} ELSE At(q, x)
  BY <1>1, LenProperties DEF At
<1>3. n \notin At(q, x)
  BY <1>1, LenProperties DEF At
<1>4. IsFiniteSet(At(q, x)) /\ Cardinality(At(q, x)) \in Nat
  BY CountNat, FS_CardinalityType
<1>5. Cardinality(At(q, x) \cup {n}) = Cardinality(At(q, x)) + 1
  BY <1>3, <1>4, FS_AddElement
<1>6. Count(q, x) = Cardinality(At(q, x))
      /\ Count(Append(q, e), x) = Cardinality(At(Append(q, e), x))
  BY DEF Count, At
<1>. QED
  BY <1>2, <1>4, <1>5, <1>6

LEMMA CountTail ==
    ASSUME NEW S, NEW q \in Seq(S), NEW x, q # <<>>
    PROVE  Count(q, x) = Count(Tail(q), x) + (IF Head(q) = x THEN 1 ELSE 0)
<1>. DEFINE A == At(q, x) \ {1}
            B == At(Tail(q), x)
            f == [i \in A |-> i - 1]
<1>1. /\ Len(q) \in Nat \ {0} /\ DOMAIN q = 1 .. Len(q)
      /\ DOMAIN Tail(q) = 1 .. Len(q) - 1
      /\ \A i \in 1 .. Len(q) - 1 : Tail(q)[i] = q[i + 1]
      /\ Head(q) = q[1]
  BY HeadTailProperties, LenProperties, EmptySeq
<1>2. IsFiniteSet(At(q, x)) /\ IsFiniteSet(A)
  BY CountNat, FS_RemoveElement
<1>3. f \in Bijection(A, B)
  <2>1. f \in [A -> B]
    BY <1>1 DEF At
  <2>2. \A i, j \in A : f[i] = f[j] => i = j
    BY <1>1 DEF At
  <2>3. \A j \in B : \E i \in A : f[i] = j
    <3>1. ASSUME NEW j \in B PROVE j + 1 \in A /\ f[j + 1] = j
      BY <1>1 DEF At
    <3>. QED
      BY <3>1
  <2>. QED
    BY <2>1, <2>2, <2>3, Fun_IsBij
<1>4. Cardinality(B) = Cardinality(A)
  BY <1>2, <1>3, FS_Bijection DEF ExistsBijection
<1>5. Cardinality(At(q, x))
      = Cardinality(A) + (IF 1 \in At(q, x) THEN 1 ELSE 0)
  <2>1. Cardinality(At(q, x)) \in Nat
    BY <1>2, FS_CardinalityType
  <2>. QED
    BY <1>2, <2>1, FS_RemoveElement
<1>6. 1 \in At(q, x) <=> Head(q) = x
  BY <1>1 DEF At
<1>. QED
  BY <1>4, <1>5, <1>6 DEF Count, At

(* One for the place that holds the request of a call, zero for another.   *)
Has(place, c) == IF place = c THEN 1 ELSE 0

(* The four places, apart, for one call.                                   *)
LEMMA HasNat ==
    /\ \A x, c : Has(x, c) \in {0, 1}
    /\ \A c \in Calls : Has(NoCall, c) = 0
BY ApprovalAssumption DEF Has

LEMMA PlacesSum ==
    ASSUME TypeOK, NEW c \in Calls
    PROVE  /\ Count(requests, c) \in Nat
           /\ Count(dispatched, Approval(c)) \in Nat
           /\ Count(queue, c) \in Nat
           /\ Places(c) \in Nat
           /\ Places(c) = Count(requests, c) + Has(held, c)
                          + Count(dispatched, Approval(c))
                          + Has(request, c) + Count(queue, c)
<1>1. requests \in Seq(Calls) /\ dispatched \in Seq(Closures)
      /\ queue \in Seq(Calls)
  BY DEF TypeOK
<1>2. /\ Count(requests, c) \in Nat
      /\ Count(dispatched, Approval(c)) \in Nat
      /\ Count(queue, c) \in Nat
  BY <1>1, CountNat
<1>. QED
  BY <1>2 DEF Places, Has

LEMMA PlacesSumNext ==
    ASSUME NEW c \in Calls
    PROVE  Places(c)' = Count(requests', c) + Has(held', c)
                        + Count(dispatched', Approval(c))
                        + Has(request', c) + Count(queue', c)
BY DEF Places, Has, Count, Approval

(* A closure that carries a request carries that of one call.              *)
LEMMA ClosureCarries ==
    ASSUME NEW e \in Closures
    PROVE  /\ e[1] = "approval" => e = Approval(e[2])
           /\ e[1] = "end" => \A c \in Calls : e # Approval(c)
BY DEF Closures, Approval

LEMMA ApprovalApart ==
    /\ \A c, d \in Calls : Approval(c) = Approval(d) => c = d
    /\ \A c \in Calls, r \in Runs : End(r) # Approval(c)
BY DEF Approval, End

(* Steps that hand a request on neither lose nor copy it.                  *)
LEMMA HandingOn ==
    ASSUME TypeOK, NEW c \in Calls,
           \/ \E r \in Runs : EndRun(r)
           \/ TakeRequest
           \/ DispatchRequest /\ ~stopped
           \/ RunClosure
    PROVE  Places(c)' = Places(c)
<1>s. /\ Count(requests, c) \in Nat
      /\ Count(dispatched, Approval(c)) \in Nat
      /\ Count(queue, c) \in Nat
      /\ Places(c) = Count(requests, c) + Has(held, c)
                     + Count(dispatched, Approval(c))
                     + Has(request, c) + Count(queue, c)
      /\ Places(c)' = Count(requests', c) + Has(held', c)
                      + Count(dispatched', Approval(c))
                      + Has(request', c) + Count(queue', c)
  BY PlacesSum, PlacesSumNext, Zenon
<1>h. /\ Has(held, c) \in Nat /\ Has(request, c) \in Nat
      /\ Has(held', c) \in Nat /\ Has(request', c) \in Nat
      /\ Has(NoCall, c) = 0
  BY HasNat
<1>0. /\ requests \in Seq(Calls) /\ dispatched \in Seq(Closures)
      /\ queue \in Seq(Calls) /\ held \in Calls \cup {NoCall}
      /\ request \in Calls \cup {NoCall} /\ NoCall \notin Calls
  BY ApprovalAssumption DEF TypeOK
<1>1. ASSUME NEW r \in Runs, EndRun(r) PROVE Places(c)' = Places(c)
  <2>1. Count(dispatched', Approval(c)) = Count(dispatched, Approval(c))
    <3>1. End(r) \in Closures /\ End(r) # Approval(c)
      BY EndIsClosure, ApprovalApart
    <3>2. Count(Append(dispatched, End(r)), Approval(c))
          = Count(dispatched, Approval(c))
      BY <1>0, <1>s, <3>1, CountAppend
    <3>. QED
      BY <1>1, <3>2 DEF EndRun
  <2>. QED
    BY <1>s, <1>h, <1>1, <2>1 DEF EndRun, dialogVars
<1>2. CASE TakeRequest
  <2>1. /\ held = NoCall /\ held' = Head(requests)
        /\ dispatched' = dispatched /\ request' = request /\ queue' = queue
    BY <1>2 DEF TakeRequest, dialogVars
  <2>2. Count(requests, c) = Count(requests', c) + Has(held', c)
    BY <1>0, <1>2, <2>1, CountTail DEF TakeRequest, Has
  <2>3. requests' \in Seq(Calls)
    BY <1>0, <1>2, HeadTailProperties DEF TakeRequest
  <2>4. Count(requests', c) \in Nat
    BY <2>3, CountNat
  <2>. QED
    BY <1>s, <1>h, <1>0, <2>1, <2>2, <2>4
<1>3. CASE DispatchRequest /\ ~stopped
  <2>1. /\ held \in Calls /\ held' = NoCall
        /\ dispatched' = Append(dispatched, Approval(held))
        /\ requests' = requests /\ request' = request /\ queue' = queue
    BY <1>0, <1>3 DEF DispatchRequest, dialogVars
  <2>2. Count(dispatched', Approval(c))
        = Count(dispatched, Approval(c)) + Has(held, c)
    BY <1>0, <2>1, CountAppend, ApprovalIsClosure, ApprovalApart DEF Has
  <2>. QED
    BY <1>s, <1>h, <1>0, <2>1, <2>2
<1>4. CASE RunClosure
  <2>. DEFINE e == Head(dispatched)
  <2>1. e \in Closures /\ dispatched' \in Seq(Closures)
    BY <1>0, <1>4, HeadTailProperties DEF RunClosure
  <2>2. /\ Count(dispatched', Approval(c)) \in Nat
        /\ Count(dispatched, Approval(c))
           = Count(dispatched', Approval(c)) + Has(e, Approval(c))
    BY <1>0, <1>4, <2>1, CountTail, CountNat DEF RunClosure, Has
  <2>3. requests' = requests /\ held' = held
    BY <1>4 DEF RunClosure
  <2>. HIDE DEF e
  <2>4. CASE e[1] = "approval" /\ enqueueApproval(e[2])
    <3>1. e = Approval(e[2]) /\ e[2] \in Calls
      BY <2>1, <2>4, ClosureCarries, ClosureTypes
    <3>2. Has(e, Approval(c)) = Has(e[2], c)
      BY <3>1, ApprovalApart DEF Has
    <3>3. CASE request = NoCall
      <4>1. request' = e[2] /\ queue' = queue
        BY <2>4, <3>3 DEF enqueueApproval
      <4>. QED
        BY <1>s, <1>h, <1>0, <2>2, <2>3, <3>2, <3>3, <4>1
    <3>4. CASE request # NoCall
      <4>1. request' = request /\ queue' = Append(queue, e[2])
        BY <2>4, <3>4 DEF enqueueApproval
      <4>2. Count(queue', c) = Count(queue, c) + Has(e[2], c)
        BY <1>0, <3>1, <4>1, CountAppend DEF Has
      <4>3. Has(e[2], c) \in Nat /\ Has(request', c) = Has(request, c)
            /\ Has(held', c) = Has(held, c) /\ requests' = requests
        BY <2>3, <4>1, HasNat
      <4>. QED
        BY <1>s, <1>h, <2>2, <3>2, <4>2, <4>3
    <3>. QED
      BY <3>3, <3>4
  <2>5. CASE e[1] = "end" /\ endRun(e[2])
    <3>1. e # Approval(c)
      BY <2>1, <2>5, ClosureCarries
    <3>2. request' = request /\ queue' = queue
      BY <2>5 DEF endRun, dialogVars
    <3>. QED
      BY <1>s, <1>h, <2>2, <2>3, <3>1, <3>2 DEF Has
  <2>. QED
    BY <1>4, <2>4, <2>5 DEF RunClosure, e
<1>. QED
  BY <1>1, <1>2, <1>3, <1>4

(* A goroutine that asks puts its request in the channel.                  *)
LEMMA Sending ==
    ASSUME TypeOK, NEW c \in Calls, NEW d \in Calls, SendRequest(d)
    PROVE  Places(c)' = Places(c) + Has(d, c)
<1>1. Count(requests', c) = Count(requests, c) + Has(d, c)
  BY CountAppend DEF TypeOK, SendRequest, Has
<1>2. held' = held /\ dispatched' = dispatched /\ request' = request
      /\ queue' = queue
  BY DEF SendRequest, dialogVars
<1>3. Has(d, c) \in Nat /\ Has(held, c) \in Nat /\ Has(request, c) \in Nat
  BY HasNat
<1>. QED
  BY <1>1, <1>2, <1>3, PlacesSum, PlacesSumNext

(* Answering takes the request out of the place it was in.                 *)
LEMMA TakingOut ==
    ASSUME TypeOK, NEW c \in Calls
    PROVE  /\ DispatchRequest /\ stopped =>
                 Places(c)' = Places(c) - Has(held, c)
           /\ resolveApproval => Places(c)' = Places(c) - Has(request, c)
           /\ Cancel \/ Shutdown =>
                 Places(c)' = Places(c) - Has(request, c) - Count(queue, c)
<1>s. /\ Count(requests, c) \in Nat
      /\ Count(dispatched, Approval(c)) \in Nat
      /\ Count(queue, c) \in Nat
      /\ Places(c) = Count(requests, c) + Has(held, c)
                     + Count(dispatched, Approval(c))
                     + Has(request, c) + Count(queue, c)
      /\ Places(c)' = Count(requests', c) + Has(held', c)
                      + Count(dispatched', Approval(c))
                      + Has(request', c) + Count(queue', c)
  BY PlacesSum, PlacesSumNext, Zenon
<1>h. /\ Has(held, c) \in Nat /\ Has(request, c) \in Nat
      /\ Has(held', c) \in Nat /\ Has(request', c) \in Nat
      /\ Has(NoCall, c) = 0
  BY HasNat
<1>0. /\ queue \in Seq(Calls) /\ NoCall \notin Calls
  BY ApprovalAssumption DEF TypeOK
<1>1. ASSUME DispatchRequest, stopped
      PROVE  Places(c)' = Places(c) - Has(held, c)
  BY <1>s, <1>h, <1>0, <1>1 DEF DispatchRequest, dialogVars
<1>2. ASSUME resolveApproval
      PROVE  Places(c)' = Places(c) - Has(request, c)
  <2>1. requests' = requests /\ held' = held /\ dispatched' = dispatched
    BY <1>2 DEF resolveApproval, pipeVars
  <2>2. CASE queue # <<>>
    <3>1. request' = Head(queue) /\ queue' = Tail(queue)
      BY <1>2, <2>2 DEF resolveApproval, advanceApproval
    <3>2. queue' \in Seq(Calls)
      BY <1>0, <2>2, <3>1, HeadTailProperties
    <3>3. Count(queue', c) \in Nat
          /\ Count(queue, c) = Count(queue', c) + Has(request', c)
      BY <1>0, <2>2, <3>1, <3>2, CountTail, CountNat DEF Has
    <3>. QED
      BY <1>s, <1>h, <2>1, <3>3
  <2>3. CASE queue = <<>>
    BY <1>s, <1>h, <1>0, <1>2, <2>1, <2>3 DEF resolveApproval, advanceApproval
  <2>. QED
    BY <2>2, <2>3
<1>3. ASSUME Cancel \/ Shutdown
      PROVE  Places(c)' = Places(c) - Has(request, c) - Count(queue, c)
  <2>1. /\ requests' = requests /\ held' = held /\ dispatched' = dispatched
        /\ request' = NoCall /\ queue' = <<>>
    BY <1>3 DEF Cancel, Shutdown, denyAllApprovals, pipeVars
  <2>2. Count(queue', c) = 0
    BY <2>1, CountEmpty
  <2>. QED
    BY <1>s, <1>h, <1>0, <2>1, <2>2
<1>. QED
  BY <1>1, <1>2, <1>3

(* A call that has not sent its request is in no place, and has no answer; *)
(* the calls of a run that has not started have not begun.                 *)
Unsent == {"new", "submitted", "authorize", "asking"}

UnsentNowhere ==
    \A c \in Calls : pc[c] \in Unsent => Places(c) = 0 /\ answer[c] = "none"

LaterRunsAreNew == \A c \in Calls : RunOf[c] > run => pc[c] = "new"

PlacesInv ==
    /\ TypeOK
    /\ RequestInOnePlace
    /\ UnsentNowhere
    /\ LaterRunsAreNew

(* What the invariant says of one call.                                    *)
Placed(c) ==
    /\ Places(c) <= 1
    /\ pc[c] = "waiting" /\ answer[c] = "none" => Places(c) = 1
    /\ answer[c] # "none" => Places(c) = 0
    /\ pc[c] \in Unsent => Places(c) = 0 /\ answer[c] = "none"

LEMMA PlacesInvSplit ==
    RequestInOnePlace /\ UnsentNowhere <=> \A c \in Calls : Placed(c)
BY DEF RequestInOnePlace, UnsentNowhere, Placed

LEMMA PlacesInit == Init => PlacesInv
<1>. SUFFICES ASSUME Init PROVE PlacesInv
  OBVIOUS
<1>1. TypeOK
  BY TypeInit
<1>2. ASSUME NEW c \in Calls
      PROVE  Places(c) = 0 /\ pc[c] = "new" /\ answer[c] = "none"
  <2>1. Count(requests, c) = 0 /\ Count(dispatched, Approval(c)) = 0
        /\ Count(queue, c) = 0
    BY CountEmpty DEF Init
  <2>2. Has(held, c) = 0 /\ Has(request, c) = 0
    BY HasNat DEF Init
  <2>3. Places(c) = 0
    BY <1>1, <2>1, <2>2, PlacesSum
  <2>. QED
    BY <2>3 DEF Init
<1>3. \A c \in Calls : Placed(c)
  BY <1>2 DEF Placed
<1>. QED
  BY <1>1, <1>2, <1>3, PlacesInvSplit DEF PlacesInv, LaterRunsAreNew

(* A call whose request does not move, and whose answer stays, keeps its   *)
(* place as long as it does not go back.                                   *)
LEMMA PlaceIsKept ==
    ASSUME NEW c \in Calls, Placed(c),
           Places(c)' = Places(c), answer'[c] = answer[c],
           \/ pc'[c] = pc[c]
           \/ pc'[c] \notin Unsent \cup {"waiting"}
           \/ pc[c] \in Unsent /\ pc'[c] \in Unsent
    PROVE  Placed(c)'
BY DEF Placed, Unsent

(* A request that is answered leaves its place.                            *)
LEMMA PlaceIsLeft ==
    ASSUME TypeOK, NEW c \in Calls, Placed(c), pc' = pc,
           NEW decision \in Decisions, decision # "none",
           NEW cs, answer' = Resolve(answer, cs, decision),
           NEW n \in Nat, n <= Places(c), Places(c)' = Places(c) - n,
           n > 0 <=> c \in cs
    PROVE  Placed(c)'
<1>1. Places(c) \in Nat
  BY PlacesSum
<1>2. CASE c \notin cs
  <2>1. n = 0 /\ answer'[c] = answer[c]
    BY <1>2 DEF Resolve
  <2>2. Places(c)' = Places(c)
    BY <1>1, <2>1
  <2>. QED
    BY <2>1, <2>2, PlaceIsKept
<1>3. CASE c \in cs
  <2>1. Places(c) = 1 /\ Places(c)' = 0
    BY <1>1, <1>3 DEF Placed
  <2>2. answer'[c] # "none"
    BY <1>3 DEF Resolve
  <2>3. pc[c] \notin Unsent
    BY <2>1 DEF Placed
  <2>. QED
    BY <2>1, <2>2, <2>3 DEF Placed
<1>. QED
  BY <1>2, <1>3

LEMMA PlacesStep == PlacesInv /\ [Next]_vars => PlacesInv'
<1>. SUFFICES ASSUME PlacesInv, [Next]_vars PROVE PlacesInv'
  OBVIOUS
<1>0. /\ TypeOK
      /\ pc \in [Calls -> Positions]
      /\ \A c \in Calls : Placed(c) /\ Places(c) \in Nat
  BY PlacesInvSplit, PlacesSum DEF PlacesInv, TypeOK
<1>1. TypeOK'
  BY <1>0, TypeStep
<1>2. LaterRunsAreNew'
  <2>0. RunOf \in [Calls -> Runs] /\ run \in Nat
    BY <1>0, ApprovalAssumption DEF TypeOK
  <2>1. CASE StartRun
    BY <1>0, <2>0, <2>1 DEF StartRun, PlacesInv, LaterRunsAreNew, Runs
  <2>2. CASE run' = run /\ \A c \in Calls : pc[c] = "new" => pc'[c] = "new"
    BY <2>2 DEF PlacesInv, LaterRunsAreNew
  <2>3. \/ StartRun
        \/ run' = run /\ \A c \in Calls : pc[c] = "new" => pc'[c] = "new"
    BY <1>0, NextCases DEF EndRun, Begin, Authorize, SendRequest, ReceiveAnswer,
       Abandon, Enter, Return, Step, Done, TakeRequest, DispatchRequest,
       RunClosure, resolveApproval, Cancel, Stop, Shutdown, vars, runVars,
       callVars
  <2>. QED
    BY <2>1, <2>2, <2>3
<1>3. ASSUME NEW c \in Calls PROVE Placed(c)'
  <2>1. CASE StartRun
    <3>1. Places(c)' = Places(c) /\ answer'[c] = answer[c]
      BY <2>1 DEF StartRun, Places, Count, pipeVars, dialogVars
    <3>2. RunOf[c] \in Nat /\ run \in Nat
      BY <1>0, ApprovalAssumption DEF TypeOK, Runs
    <3>3. RunOf[c] = run' => pc[c] = "new"
      BY <2>1, <3>2 DEF StartRun, PlacesInv, LaterRunsAreNew
    <3>. QED
      BY <1>0, <2>1, <3>1, <3>3, PlaceIsKept DEF StartRun, Unsent
  <2>2. ASSUME NEW d \in Calls,
               \/ Begin(d) \/ Authorize(d) \/ ReceiveAnswer(d)
               \/ Abandon(d) \/ Enter(d) \/ Return(d)
        PROVE  Placed(c)'
    <3>1. Places(c)' = Places(c) /\ answer'[c] = answer[c]
      BY <2>2 DEF Begin, Authorize, ReceiveAnswer, Abandon, Enter, Return,
         Places, Count, pipeVars, dialogVars
    <3>2. \/ pc'[c] = pc[c]
          \/ pc'[c] \notin Unsent \cup {"waiting"}
          \/ pc[c] \in Unsent /\ pc'[c] \in Unsent
      BY <1>0, <2>2 DEF Begin, Authorize, ReceiveAnswer, Abandon, Enter,
         Return, Step, Done, Unsent
    <3>. QED
      BY <1>0, <3>1, <3>2, PlaceIsKept
  <2>3. ASSUME NEW d \in Calls, SendRequest(d) PROVE Placed(c)'
    <3>1. /\ pc[d] = "asking" /\ pc' = [pc EXCEPT ![d] = "waiting"]
          /\ answer' = answer
      BY <2>3 DEF SendRequest, Step
    <3>2. CASE c # d
      <4>1. Places(c)' = Places(c)
        BY <1>0, <2>3, <3>2, Sending DEF Has
      <4>. QED
        BY <1>0, <3>1, <3>2, <4>1, PlaceIsKept
    <3>3. CASE c = d
      <4>1. Places(c) = 0 /\ answer[c] = "none"
        BY <1>0, <3>1, <3>3 DEF Placed, Unsent
      <4>2. Places(c)' = 1
        BY <1>0, <2>3, <3>3, <4>1, Sending DEF Has
      <4>. QED
        BY <1>0, <3>1, <3>3, <4>1, <4>2 DEF Placed, Unsent
    <3>. QED
      BY <3>2, <3>3
  <2>4. CASE \/ \E r \in Runs : EndRun(r)
             \/ TakeRequest
             \/ DispatchRequest /\ ~stopped
             \/ RunClosure
    <3>1. Places(c)' = Places(c)
      BY <1>0, <2>4, HandingOn
    <3>2. pc' = pc /\ answer' = answer
      BY <2>4 DEF EndRun, TakeRequest, DispatchRequest, RunClosure, callVars
    <3>. QED
      BY <1>0, <3>1, <3>2, PlaceIsKept
  <2>5. CASE DispatchRequest /\ stopped
    <3>1. Places(c)' = Places(c) - Has(held, c)
      BY <1>0, <2>5, TakingOut
    <3>2. answer' = Resolve(answer, {held}, "cancelled") /\ pc' = pc
      BY <2>5 DEF DispatchRequest, callVars
    <3>3. Has(held, c) \in Nat /\ Has(held, c) <= Places(c)
      BY <1>0, PlacesSum, HasNat
    <3>4. Has(held, c) > 0 <=> c \in {held}
      BY DEF Has
    <3>. QED
      BY <1>0, <3>1, <3>2, <3>3, <3>4, PlaceIsLeft DEF Decisions
  <2>6. CASE resolveApproval
    <3>1. Places(c)' = Places(c) - Has(request, c)
      BY <1>0, <2>6, TakingOut
    <3>2. /\ pc' = pc
          /\ \E decision \in Decisions \ {"none"} :
                answer' = Resolve(answer, {request}, decision)
      BY <2>6 DEF resolveApproval, callVars, Decisions
    <3>3. Has(request, c) \in Nat /\ Has(request, c) <= Places(c)
      BY <1>0, PlacesSum, HasNat
    <3>4. Has(request, c) > 0 <=> c \in {request}
      BY DEF Has
    <3>. QED
      BY <1>0, <3>1, <3>2, <3>3, <3>4, PlaceIsLeft
  <2>7. CASE Cancel \/ Shutdown
    <3>. DEFINE n == Has(request, c) + Count(queue, c)
    <3>1. Places(c)' = Places(c) - n /\ n \in Nat /\ n <= Places(c)
      <4>1. Places(c)' = Places(c) - Has(request, c) - Count(queue, c)
        BY <1>0, <2>7, TakingOut
      <4>. QED
        BY <1>0, <4>1, PlacesSum, HasNat
    <3>2. /\ answer' = Resolve(answer, {request} \cup Range(queue), "cancelled")
          /\ pc' = pc
      BY <2>7 DEF Cancel, Shutdown, denyAllApprovals, callVars
    <3>3. n > 0 <=> c \in {request} \cup Range(queue)
      <4>1. queue \in Seq(Calls)
        BY <1>0 DEF TypeOK
      <4>2. Count(queue, c) \in Nat /\ (Count(queue, c) = 0 <=> c \notin Range(queue))
        BY <4>1, CountNat
      <4>. QED
        BY <4>2 DEF Has
    <3>. HIDE DEF n
    <3>. QED
      BY <1>0, <3>1, <3>2, <3>3, PlaceIsLeft DEF Decisions
  <2>8. CASE Stop \/ UNCHANGED vars
    <3>1. UNCHANGED <<pc, answer, pipeVars, dialogVars>>
      BY <2>8 DEF Stop, vars, callVars
    <3>2. Places(c)' = Places(c)
      BY <3>1 DEF Places, Count, pipeVars, dialogVars
    <3>. QED
      BY <1>0, <3>1, <3>2, PlaceIsKept
  <2>. QED
    BY <2>1, <2>2, <2>3, <2>4, <2>5, <2>6, <2>7, <2>8, NextCases
<1>4. RequestInOnePlace' /\ UnsentNowhere'
  BY <1>3 DEF RequestInOnePlace, UnsentNowhere, Placed
<1>. QED
  BY <1>1, <1>2, <1>4 DEF PlacesInv

(* No request is lost or shown twice on its way from the goroutine that    *)
(* waits for it, through channel, loop and UI queue, to the dialog and to  *)
(* its answer, also when runs are cancelled and the application stops.     *)
THEOREM RequestsStayInOnePlace == Spec => []RequestInOnePlace
<1>1. PlacesInv => RequestInOnePlace
  BY DEF PlacesInv
<1>. QED
  BY <1>1, PlacesInit, PlacesStep, PTL DEF Spec

-----------------------------------------------------------------------------
(* The permission gate.                                                    *)

(* A request comes to a place only when its goroutine sends it, and an     *)
(* answer only to a request in some place.                                 *)
LEMMA PlacesShrink ==
    ASSUME TypeOK, [Next]_vars, NEW c \in Calls
    PROVE  /\ Places(c)' <= Places(c) \/ SendRequest(c)
           /\ answer'[c] = answer[c] \/ Places(c) > 0
<1>0. /\ Places(c) \in Nat /\ Places(c) <= Places(c)
      /\ Has(held, c) \in Nat /\ Has(request, c) \in Nat /\ Count(queue, c) \in Nat
      /\ Places(c) >= Has(held, c) /\ Places(c) >= Has(request, c) + Count(queue, c)
      /\ Places(c) - Has(held, c) <= Places(c)
      /\ Places(c) - Has(request, c) <= Places(c)
      /\ Places(c) - Has(request, c) - Count(queue, c) <= Places(c)
  <2>1. Has(held, c) \in Nat /\ Has(request, c) \in Nat
    BY HasNat
  <2>. QED
    BY <2>1, PlacesSum
<1>1. CASE UNCHANGED <<answer, pipeVars, dialogVars>>
  BY <1>0, <1>1 DEF Places, Count, pipeVars, dialogVars
<1>2. ASSUME NEW d \in Calls, SendRequest(d)
      PROVE  /\ Places(c)' <= Places(c) \/ SendRequest(c)
             /\ answer'[c] = answer[c]
  <2>1. CASE c = d
    BY <1>2, <2>1 DEF SendRequest
  <2>2. CASE c # d
    BY <1>0, <1>2, <2>2, Sending DEF Has, SendRequest
  <2>. QED
    BY <2>1, <2>2
<1>3. CASE \/ \E r \in Runs : EndRun(r)
           \/ TakeRequest
           \/ DispatchRequest /\ ~stopped
           \/ RunClosure
  <2>1. Places(c)' = Places(c)
    BY <1>3, HandingOn
  <2>2. answer' = answer
    BY <1>3 DEF EndRun, TakeRequest, DispatchRequest, RunClosure
  <2>. QED
    BY <1>0, <2>1, <2>2
<1>4. CASE DispatchRequest /\ stopped
  <2>1. Places(c)' = Places(c) - Has(held, c)
    BY <1>4, TakingOut
  <2>2. answer'[c] = answer[c] \/ Has(held, c) = 1
    BY <1>4 DEF DispatchRequest, Resolve, Has
  <2>. QED
    BY <1>0, <2>1, <2>2
<1>5. CASE resolveApproval
  <2>1. Places(c)' = Places(c) - Has(request, c)
    BY <1>5, TakingOut
  <2>2. answer'[c] = answer[c] \/ Has(request, c) = 1
    BY <1>5 DEF resolveApproval, Resolve, Has
  <2>. QED
    BY <1>0, <2>1, <2>2
<1>6. CASE Cancel \/ Shutdown
  <2>1. Places(c)' = Places(c) - Has(request, c) - Count(queue, c)
    BY <1>6, TakingOut
  <2>2. answer' = Resolve(answer, {request} \cup Range(queue), "cancelled")
    BY <1>6 DEF Cancel, Shutdown, denyAllApprovals
  <2>3. Count(queue, c) = 0 <=> c \notin Range(queue)
    BY CountNat DEF TypeOK
  <2>4. answer'[c] = answer[c] \/ Has(request, c) = 1 \/ Count(queue, c) # 0
    BY <2>2, <2>3 DEF Resolve, Has
  <2>. QED
    BY <1>0, <2>1, <2>4
<1>7. ASSUME NEW d \in Calls,
             \/ Begin(d) \/ Authorize(d) \/ ReceiveAnswer(d)
             \/ Abandon(d) \/ Enter(d) \/ Return(d)
      PROVE  UNCHANGED <<answer, pipeVars, dialogVars>>
  BY <1>7 DEF Begin, Authorize, ReceiveAnswer, Abandon, Enter, Return
<1>8. CASE StartRun \/ Stop \/ UNCHANGED vars
  BY <1>1, <1>8 DEF StartRun, Stop, vars
<1>. QED
  BY <1>1, <1>2, <1>3, <1>4, <1>5, <1>6, <1>7, <1>8, NextCases

(* What is known of a call: it is executed or refused only when it is      *)
(* done; only calls that may ask are in a place, and none that the broker  *)
(* has let through, so that nobody can answer it any more; and that one is *)
(* allowed by the policy, by its own answer, or by a grant without having  *)
(* asked.                                                                  *)
Known(c) ==
    /\ pc[c] # "done" => outcome[c] = "none"
    /\ Places(c) > 0 => Policy(inv[c]) = "ask"
    /\ pc[c] \in {"allowed", "executing"} \/ outcome[c] \in {"succeeded", "failed"} =>
          Places(c) = 0
    /\ pc[c] = "allowed" =>
          \/ Policy(inv[c]) = "allow"
          \/ /\ Policy(inv[c]) = "ask"
             /\ \/ answer[c] \in {"once", "session"}
                \/ answer[c] = "none" /\ inv[c].key \in grants

GateInv == PermissionInv /\ PlacesInv /\ \A c \in Calls : Known(c)

LEMMA GateInvInit == Init => GateInv
<1>. SUFFICES ASSUME Init PROVE GateInv
  OBVIOUS
<1>1. PermissionInv /\ PlacesInv
  BY PermissionInit, PlacesInit
<1>2. ASSUME NEW c \in Calls PROVE Known(c)
  <2>1. pc[c] = "new" /\ outcome[c] = "none"
    BY DEF Init
  <2>2. Places(c) = 0
    BY <1>1, <2>1 DEF PlacesInv, UnsentNowhere, Unsent
  <2>. QED
    BY <2>1, <2>2 DEF Known
<1>. QED
  BY <1>1, <1>2 DEF GateInv

LEMMA PlacesNatNext ==
    ASSUME TypeOK', NEW c \in Calls
    PROVE  Places(c)' \in Nat
<1>1. /\ requests' \in Seq(Calls) /\ dispatched' \in Seq(Closures)
      /\ queue' \in Seq(Calls)
  BY DEF TypeOK
<1>2. /\ Count(requests', c) \in Nat
      /\ Count(dispatched', Approval(c)) \in Nat
      /\ Count(queue', c) \in Nat
  BY <1>1, CountNat
<1>3. Has(held', c) \in Nat /\ Has(request', c) \in Nat
  BY DEF Has
<1>. QED
  BY <1>2, <1>3, PlacesSumNext

(* A call that stays where it is, and one that moves.                      *)
LEMMA KnownStays ==
    ASSUME GateInv, [Next]_vars, NEW c \in Calls,
           UNCHANGED <<pc[c], outcome[c]>>, grants \subseteq grants'
    PROVE  Known(c)'
<1>1. TypeOK /\ Known(c)
  BY DEF GateInv, PlacesInv
<1>2. inv' = inv /\ (answer[c] # "none" => answer'[c] = answer[c])
  BY <1>1, AnswersAreFinal
<1>3. /\ Places(c)' <= Places(c) \/ SendRequest(c)
      /\ answer'[c] = answer[c] \/ Places(c) > 0
      /\ Places(c) \in Nat
  BY <1>1, PlacesShrink, PlacesSum
<1>4. ~SendRequest(c)
  BY <1>1 DEF SendRequest, Step, TypeOK
<1>5. Places(c)' \in Nat
  BY <1>1, TypeStep, PlacesNatNext
<1>6. Policy(inv'[c]) = Policy(inv[c])
  BY <1>2
<1>. HIDE DEF Policy
<1>. QED
  BY <1>1, <1>2, <1>3, <1>4, <1>5, <1>6 DEF Known

LEMMA KnownMoves ==
    ASSUME GateInv, [Next]_vars, NEW c \in Calls, Goroutine(c)
    PROVE  Known(c)'
<1>1. TypeOK /\ Known(c) /\ pc \in [Calls -> Positions] /\ outcome \in [Calls -> Results]
      /\ Placed(c) /\ AskersMayAsk
  BY PlacesInvSplit DEF GateInv, PlacesInv, PermissionInv, TypeOK
<1>2. /\ inv' = inv /\ Places(c) \in Nat /\ Places(c)' \in Nat
  BY <1>1, TypeStep, AnswersAreFinal, PlacesSum, PlacesNatNext
<1>3. Policy(inv'[c]) = Policy(inv[c])
  BY <1>2
<1>. HIDE DEF Policy
<1>4. CASE SendRequest(c)
  <2>1. pc[c] = "asking" /\ pc'[c] = "waiting" /\ outcome' = outcome
    BY <1>1, <1>4 DEF SendRequest, Step
  <2>2. Policy(inv[c]) = "ask" /\ outcome[c] = "none"
    BY <1>1, <2>1 DEF AskersMayAsk, Known
  <2>. QED
    BY <1>3, <2>1, <2>2 DEF Known
<1>5. CASE Begin(c) \/ Authorize(c) \/ ReceiveAnswer(c) \/ Abandon(c) \/ Enter(c) \/ Return(c)
  <2>1. Places(c)' = Places(c) /\ answer'[c] = answer[c]
    BY <1>5 DEF Begin, Authorize, ReceiveAnswer, Abandon, Enter, Return, Places, Count,
       pipeVars, dialogVars
  <2>2. grants \subseteq grants'
    BY <1>5 DEF Begin, Authorize, ReceiveAnswer, Abandon, Enter, Return
  <2>3. \/ pc'[c] = "done" /\ pc[c] = "executing" /\ outcome'[c] \in {"succeeded", "failed"}
        \/ pc'[c] = "done" /\ outcome'[c] \notin {"succeeded", "failed"}
        \/ UNCHANGED outcome /\ pc'[c] \in {"authorize", "asking"}
        \/ UNCHANGED outcome /\ pc[c] = "allowed" /\ pc'[c] = "executing"
        \/ UNCHANGED outcome /\ Authorize(c) /\ pc[c] = "authorize" /\ pc'[c] = "allowed"
        \/ UNCHANGED outcome /\ ReceiveAnswer(c) /\ pc[c] = "waiting" /\ pc'[c] = "allowed"
    BY <1>1, <1>5 DEF Begin, Authorize, ReceiveAnswer, Abandon, Enter, Return, Step, Done
  <2>4. CASE pc'[c] = "done" /\ pc[c] = "executing"
    BY <1>1, <1>3, <2>1, <2>4 DEF Known
  <2>5. CASE pc'[c] = "done" /\ outcome'[c] \notin {"succeeded", "failed"}
    BY <1>1, <1>3, <2>1, <2>5 DEF Known
  <2>6. CASE UNCHANGED outcome /\ pc'[c] \in {"authorize", "asking"}
    <3>1. pc[c] # "done"
      BY <1>1, <1>5, <2>6 DEF Begin, Authorize, ReceiveAnswer, Abandon, Enter, Return,
         Step, Done
    <3>. QED
      BY <1>1, <1>3, <2>1, <2>6, <3>1 DEF Known
  <2>7. CASE UNCHANGED outcome /\ pc[c] = "allowed" /\ pc'[c] = "executing"
    BY <1>1, <1>3, <2>1, <2>7 DEF Known
  <2>8. CASE UNCHANGED outcome /\ Authorize(c) /\ pc[c] = "authorize" /\ pc'[c] = "allowed"
    <3>1. Places(c) = 0 /\ answer[c] = "none"
      BY <1>1, <2>8 DEF Placed, Unsent
    <3>2. \/ Policy(inv[c]) = "allow"
          \/ Policy(inv[c]) = "ask" /\ inv[c].key \in grants
      BY <1>1, <2>8 DEF Authorize, Done, Step
    <3>. QED
      BY <1>1, <1>2, <1>3, <2>1, <2>2, <2>8, <3>1, <3>2 DEF Known
  <2>9. CASE UNCHANGED outcome /\ ReceiveAnswer(c) /\ pc[c] = "waiting" /\ pc'[c] = "allowed"
    <3>1. answer[c] \in {"once", "session"}
      BY <1>1, <2>9 DEF ReceiveAnswer, Done, Step
    <3>2. Places(c) = 0 /\ Policy(inv[c]) = "ask"
      BY <1>1, <2>9, <3>1 DEF Placed, AskersMayAsk
    <3>. QED
      BY <1>1, <1>3, <2>1, <2>9, <3>1, <3>2 DEF Known
  <2>. QED
    BY <2>3, <2>4, <2>5, <2>6, <2>7, <2>8, <2>9
<1>. QED
  BY <1>4, <1>5 DEF Goroutine

LEMMA GateInvStep == GateInv /\ [Next]_vars => GateInv'
<1>. SUFFICES ASSUME GateInv, [Next]_vars PROVE GateInv'
  OBVIOUS
<1>1. PermissionInv' /\ PlacesInv'
  BY PermissionStep, PlacesStep DEF GateInv
<1>2. ASSUME NEW c \in Calls PROVE Known(c)'
  <2>1. CASE Goroutine(c)
    BY <2>1, KnownMoves
  <2>2. CASE \E d \in Calls : d # c /\ Goroutine(d)
    <3>1. PICK d \in Calls : d # c /\ Goroutine(d)
      BY <2>2
    <3>2. UNCHANGED <<pc[c], outcome[c]>> /\ grants \subseteq grants'
      BY <3>1 DEF GateInv, PermissionInv, TypeOK, Goroutine, Begin, Authorize, SendRequest,
         ReceiveAnswer, Abandon, Enter, Return, Step, Done
    <3>. QED
      BY <3>2, KnownStays
  <2>3. CASE StartRun
    <3>1. /\ inv' = inv /\ outcome' = outcome /\ answer' = answer /\ grants' = grants
          /\ Places(c)' = Places(c)
      BY <2>3 DEF StartRun, Places, Count, pipeVars, dialogVars
    <3>2. /\ pc'[c] = pc[c] \/ (pc'[c] = "submitted" /\ RunOf[c] = run + 1)
      BY <2>3 DEF StartRun
    <3>3. RunOf[c] = run + 1 => pc[c] = "new"
      <4>1. RunOf[c] \in Nat /\ run \in Nat
        BY ApprovalAssumption DEF GateInv, PermissionInv, TypeOK, Runs
      <4>. QED
        BY <4>1 DEF GateInv, PlacesInv, LaterRunsAreNew
    <3>4. Known(c)
      BY DEF GateInv
    <3>. HIDE DEF Policy
    <3>. QED
      BY <3>1, <3>2, <3>3, <3>4 DEF Known
  <2>4. CASE \/ \E r \in Runs : EndRun(r)
             \/ TakeRequest \/ DispatchRequest \/ RunClosure \/ resolveApproval
             \/ Cancel \/ Stop \/ Shutdown \/ UNCHANGED vars
    <3>1. UNCHANGED <<pc, outcome, grants>>
      BY <2>4 DEF EndRun, TakeRequest, DispatchRequest, RunClosure, resolveApproval,
         Cancel, Stop, Shutdown, vars, callVars
    <3>. QED
      BY <3>1, KnownStays
  <2>. QED
    BY <2>1, <2>2, <2>3, <2>4 DEF Next
<1>. QED
  BY <1>1, <1>2 DEF GateInv

(* Steps that the gate does not see, and steps that move one call through  *)
(* it.                                                                     *)
LEMMA GateStays ==
    ASSUME inv' = inv, cancelled' = cancelled, grants' = grants,
           \A c \in Calls : Consent(c)' = Consent(c) /\ Fate(c)' = Fate(c)
    PROVE  UNCHANGED Gate!vars
BY DEF Gate!vars, CtxDone

LEMMA GateMoves ==
    ASSUME NEW c \in Calls, NEW from, NEW to,
           inv' = inv, cancelled' = cancelled, grants' = grants,
           \A d \in Calls : Consent(d)' = Consent(d) /\ (d # c => Fate(d)' = Fate(d)),
           Fate(c) = from, Fate(c)' = to
    PROVE  Gate!Moves(c, from, to)
BY DEF Gate!Moves, CtxDone

(* A cancellation decides nothing in the name of the user.                 *)
LEMMA CancellingIsNoConsent ==
    ASSUME NEW cs, answer' = Resolve(answer, cs, "cancelled"), NEW c \in Calls
    PROVE  Consent(c)' = Consent(c)
BY DEF Consent, Resolve

LEMMA GateInit == Init => Gate!Init
<1>. SUFFICES ASSUME Init PROVE Gate!Init
  OBVIOUS
<1>1. inv \in [Calls -> Kinds] /\ TypeOK
  BY TypeInit DEF Init
<1>2. ASSUME NEW c \in Calls
      PROVE  Policy(inv[c]) \in {"allow", "ask", "deny"} /\ inv[c].key \in Keys
  <2>1. inv[c] \in Invocations
    BY <1>1, ApprovalAssumption
  <2>. QED
    BY <2>1 DEF Policy, PlanDecision, BuildDecision, Invocations, Categories
<1>3. \A c \in Calls : Consent(c) = "none" /\ Fate(c) = "pending" /\ ~CtxDone(c)
  BY DEF Init, Consent, Fate, CtxDone
<1>. QED
  BY <1>2, <1>3 DEF Gate!Init, Init

(* The steps of a call's goroutine.                                        *)
LEMMA GoroutineThroughGate ==
    ASSUME GateInv, [Next]_vars, NEW c \in Calls, Goroutine(c)
    PROVE  [Gate!Next]_(Gate!vars)
<1>1. /\ pc \in [Calls -> Positions] /\ outcome \in [Calls -> Results]
      /\ Known(c) /\ PermissionInv
  BY DEF GateInv, PermissionInv, TypeOK
<1>2. /\ inv' = inv /\ cancelled' = cancelled /\ answer' = answer
      /\ grants' = grants \/ (ReceiveAnswer(c) /\ answer[c] = "session")
      /\ \A d \in Calls : d # c => UNCHANGED <<pc[d], outcome[d]>>
  BY <1>1 DEF Goroutine, Begin, Authorize, SendRequest, ReceiveAnswer, Abandon, Enter,
     Return, Step, Done, runVars
<1>3. \A d \in Calls : Consent(d)' = Consent(d) /\ (d # c => Fate(d)' = Fate(d))
  BY <1>2 DEF Consent, Fate
<1>4. pc[c] \notin {"done", "executing"} => Fate(c) = "pending"
  BY <1>1 DEF Known, Fate
<1>5. CASE /\ pc[c] \notin {"done", "executing"} /\ pc'[c] = "done"
           /\ outcome'[c] \notin {"succeeded", "failed"} /\ grants' = grants
  <2>1. Fate(c)' = "refused"
    BY <1>5 DEF Fate
  <2>2. Gate!Moves(c, "pending", "refused")
    BY <1>2, <1>3, <1>4, <1>5, <2>1, GateMoves
  <2>. QED
    BY <2>2 DEF Gate!Next, Gate!Refuse
<1>6. CASE /\ pc[c] \notin {"done", "executing"} /\ pc'[c] \notin {"done", "executing"}
           /\ outcome'[c] = outcome[c]
  <2>1. Fate(c) = "pending" /\ Fate(c)' = "pending"
    BY <1>1, <1>4, <1>6 DEF Known, Fate
  <2>2. \A d \in Calls : Fate(d)' = Fate(d)
    BY <1>3, <2>1
  <2>3. CASE grants' = grants
    BY <1>2, <1>3, <2>2, <2>3, GateStays
  <2>4. CASE ReceiveAnswer(c) /\ answer[c] = "session"
    <3>1. grants' = grants \cup {inv[c].key} /\ Consent(c) = "session"
      BY <2>4 DEF ReceiveAnswer, Consent
    <3>2. Gate!Grant(c)
      BY <1>2, <1>3, <2>1, <2>2, <3>1 DEF Gate!Grant, CtxDone
    <3>. QED
      BY <3>2 DEF Gate!Next
  <2>. QED
    BY <1>2, <2>3, <2>4
<1>7. CASE Enter(c) /\ ~CtxDone(c)
  <2>1. /\ pc[c] = "allowed" /\ pc'[c] = "executing" /\ UNCHANGED <<outcome, grants>>
    BY <1>1, <1>7 DEF Enter, Step
  <2>2. Fate(c) = "pending" /\ Fate(c)' = "executing"
    BY <1>1, <1>4, <2>1 DEF Known, Fate
  <2>3. Gate!Moves(c, "pending", "executing")
    BY <1>2, <1>3, <2>1, <2>2, GateMoves
  <2>4. Gate!Permitted(c)
    BY <1>1, <2>1 DEF Known, Gate!Permitted, Consent
  <2>. QED
    BY <1>7, <2>3, <2>4 DEF Gate!Next, Gate!Execute
<1>8. CASE Return(c)
  <2>1. /\ pc[c] = "executing" /\ outcome'[c] \in {"succeeded", "failed"}
        /\ grants' = grants
    BY <1>1, <1>8 DEF Return, Done
  <2>2. Fate(c) = "executing" /\ Fate(c)' = "executed"
    BY <1>1, <2>1 DEF Known, Fate
  <2>3. Gate!Moves(c, "executing", "executed")
    BY <1>2, <1>3, <2>1, <2>2, GateMoves
  <2>. QED
    BY <2>3 DEF Gate!Next, Gate!Return
<1>9. CASE Begin(c) \/ Abandon(c)
  BY <1>1, <1>5, <1>6, <1>9 DEF Begin, Abandon, Step, Done
<1>10. CASE Authorize(c)
  BY <1>1, <1>5, <1>6, <1>10 DEF Authorize, Step, Done
<1>11. CASE SendRequest(c)
  BY <1>1, <1>6, <1>11 DEF SendRequest, Step
<1>12. CASE ReceiveAnswer(c)
  BY <1>1, <1>5, <1>6, <1>12 DEF ReceiveAnswer, Step, Done
<1>13. CASE Enter(c) /\ CtxDone(c)
  BY <1>1, <1>5, <1>13 DEF Enter, Done
<1>. QED
  BY <1>7, <1>8, <1>9, <1>10, <1>11, <1>12, <1>13 DEF Goroutine

(* The user's answer comes to a call that may ask and has had none, and    *)
(* that nobody has let through meanwhile.                                  *)
LEMMA AnswerThroughGate ==
    ASSUME GateInv, resolveApproval
    PROVE  Gate!Next
<1>1. /\ request \in Calls
      /\ UNCHANGED <<inv, pc, outcome, grants, cancelled>>
  BY DEF resolveApproval, GateInv, PermissionInv, TypeOK, callVars, runVars
<1>2. PICK decision \in {"once", "session", "deny"} :
          answer' = Resolve(answer, {request}, decision)
  BY DEF resolveApproval
<1>3. Places(request) > 0
  <2>1. Has(request, request) = 1
    BY DEF Has
  <2>2. TypeOK /\ Has(held, request) \in Nat
    BY HasNat DEF GateInv, PlacesInv
  <2>. QED
    BY <1>1, <2>1, <2>2, PlacesSum
<1>4. Known(request) /\ Placed(request)
  BY <1>1, PlacesInvSplit DEF GateInv, PlacesInv
<1>5. answer[request] = "none"
  BY <1>3, <1>4 DEF Placed
<1>6. /\ Policy(inv[request]) = "ask" /\ Consent(request) = "none"
      /\ Fate(request) \in {"pending", "refused"}
  <2>1. Places(request) # 0
    BY <1>3
  <2>. QED
    BY <1>3, <1>4, <1>5, <2>1 DEF Known, Consent, Fate
<1>7. ASSUME NEW c \in Calls
      PROVE  /\ Fate(c)' = Fate(c)
             /\ Consent(c)' = IF c = request THEN decision ELSE Consent(c)
  BY <1>1, <1>2, <1>5 DEF Fate, Consent, Resolve
<1>8. [c \in Calls |-> Consent(c)]' = [[c \in Calls |-> Consent(c)] EXCEPT ![request] = decision]
  BY <1>1, <1>7
<1>9. Gate!Answer(request)
  BY <1>1, <1>6, <1>7, <1>8 DEF Gate!Answer, CtxDone
<1>. QED
  BY <1>1, <1>9 DEF Gate!Next

LEMMA GateStep == GateInv /\ [Next]_vars => [Gate!Next]_(Gate!vars)
<1>. SUFFICES ASSUME GateInv, [Next]_vars PROVE [Gate!Next]_(Gate!vars)
  OBVIOUS
<1>1. CASE \E c \in Calls : Goroutine(c)
  BY <1>1, GoroutineThroughGate
<1>2. CASE StartRun
  <2>1. UNCHANGED <<inv, outcome, answer, grants, cancelled>>
    BY <1>2 DEF StartRun
  <2>2. ASSUME NEW c \in Calls PROVE Fate(c)' = Fate(c)
    <3>1. pc'[c] = pc[c] \/ (pc'[c] = "submitted" /\ RunOf[c] = run + 1)
      BY <1>2 DEF StartRun
    <3>2. RunOf[c] = run + 1 => pc[c] = "new"
      <4>1. RunOf[c] \in Nat /\ run \in Nat
        BY ApprovalAssumption DEF GateInv, PermissionInv, TypeOK, Runs
      <4>. QED
        BY <4>1 DEF GateInv, PlacesInv, LaterRunsAreNew
    <3>. QED
      BY <2>1, <3>1, <3>2 DEF Fate
  <2>3. \A c \in Calls : Consent(c)' = Consent(c)
    BY <2>1 DEF Consent
  <2>. QED
    BY <2>1, <2>2, <2>3, GateStays
<1>3. CASE (\E r \in Runs : EndRun(r)) \/ TakeRequest \/ RunClosure \/ Stop \/ UNCHANGED vars
  <2>1. UNCHANGED <<inv, pc, outcome, answer, grants, cancelled>>
    BY <1>3 DEF EndRun, TakeRequest, RunClosure, Stop, callVars, runVars, vars
  <2>2. \A c \in Calls : Consent(c)' = Consent(c) /\ Fate(c)' = Fate(c)
    BY <2>1 DEF Consent, Fate
  <2>. QED
    BY <2>1, <2>2, GateStays
<1>4. CASE DispatchRequest
  <2>1. UNCHANGED <<inv, pc, outcome, grants, cancelled>>
    BY <1>4 DEF DispatchRequest, callVars, runVars
  <2>2. answer' = answer \/ answer' = Resolve(answer, {held}, "cancelled")
    BY <1>4 DEF DispatchRequest
  <2>3. \A c \in Calls : Fate(c)' = Fate(c)
    BY <2>1 DEF Fate
  <2>4. \A c \in Calls : Consent(c)' = Consent(c)
    <3>1. CASE answer' = answer
      BY <3>1 DEF Consent
    <3>. QED
      BY <2>2, <3>1, CancellingIsNoConsent
  <2>. QED
    BY <2>1, <2>3, <2>4, GateStays
<1>5. CASE resolveApproval
  BY <1>5, AnswerThroughGate
<1>6. CASE Cancel \/ Shutdown
  <2>1. /\ UNCHANGED <<inv, pc, outcome, grants>> /\ cancelled \subseteq cancelled'
        /\ answer' = Resolve(answer, {request} \cup Range(queue), "cancelled")
    BY <1>6 DEF Cancel, Shutdown, denyAllApprovals, callVars
  <2>2. \A c \in Calls : Fate(c)' = Fate(c)
    BY <2>1 DEF Fate
  <2>3. \A c \in Calls : Consent(c)' = Consent(c)
    BY <2>1, CancellingIsNoConsent
  <2>4. \A c \in Calls : CtxDone(c) => CtxDone(c)'
    BY <2>1 DEF CtxDone
  <2>5. Gate!Withdraw
    BY <2>1, <2>2, <2>3, <2>4 DEF Gate!Withdraw
  <2>. QED
    BY <2>5 DEF Gate!Next
<1>. QED
  BY <1>1, <1>2, <1>3, <1>4, <1>5, <1>6 DEF Next

(* The broker, its channels, the dialog and the executor implement the     *)
(* permission gate, for any calls, keys, invocations and runs.             *)
THEOREM GateIsKept == Spec => ImplementsGate
<1>1. GateInv /\ [Next]_vars => GateInv' /\ [Gate!Next]_(Gate!vars)
  BY GateInvStep, GateStep
<1>. QED
  BY GateInit, GateInvInit, <1>1, PTL DEF Spec, ImplementsGate, Gate!Spec
=============================================================================
