--------------------------- MODULE AgentRunProofs ---------------------------
(***************************************************************************)
(* Why the loops of two runs never work on one ledger, why what a response *)
(* says is stored and shown under its own prompt, and why after completed  *)
(* runs the transcript has all the text of the ledger and shows no tool    *)
(* with a stored result as running, for any number of prompts, iterations, *)
(* deltas and sessions and any room in the UI's queue.                     *)
(***************************************************************************)
EXTENDS AgentRun, SequenceTheorems, FiniteSetTheorems, WellFoundedInduction, TLAPS

(***************************************************************************)
(* The queue of closures                                                   *)
(***************************************************************************)
Kinds == {"stream", "toolcall", "toolresult", "turn", "complete", "error",
          "last"}

Positions == {"none", "request", "stream", "stopped", "tools", "answered",
              "failed", "deferred", "posting", "gone"}

Closures == [kind : Kinds, run : Runs, call : Runs \X Nat]

QueueType ==
    /\ posted \in Seq(Closures)
    /\ iter \in [Runs -> Nat]

(* The closures that can end what the UI shows as a run. *)
Ending == {"complete", "error", "last"}

(* What is in the queue after a post was there, or is one of the closures  *)
(* posted.                                                                 *)
LEMMA PostAdds ==
    ASSUME QueueType, NEW r \in Runs, NEW kinds \in Seq(Kinds), Post(r, kinds)
    PROVE  /\ posted' \in Seq(Closures)
           /\ \A j \in DOMAIN posted' :
                 \/ j \in DOMAIN posted /\ posted'[j] = posted[j]
                 \/ /\ posted'[j].run = r
                    /\ \E i \in DOMAIN kinds : posted'[j].kind = kinds[i]
<1> DEFINE new == [i \in DOMAIN kinds |-> Closure(kinds[i], r)]
<1>1. CASE UNCHANGED posted
  BY <1>1 DEF QueueType
<1>2. CASE posted' = posted \o new
  <2>1. \A i \in DOMAIN kinds : Closure(kinds[i], r) \in Closures
    BY DEF Closure, Closures, CallID, QueueType
  <2>2. new \in Seq(Closures) /\ Len(new) = Len(kinds)
    BY <2>1
  <2>3. posted' \in Seq(Closures) /\ Len(posted') = Len(posted) + Len(new)
    BY <1>2, <2>2 DEF QueueType
  <2>4. ASSUME NEW j \in DOMAIN posted', j \notin DOMAIN posted
        PROVE  /\ posted'[j].run = r
               /\ \E i \in DOMAIN kinds : posted'[j].kind = kinds[i]
    <3>1. j - Len(posted) \in DOMAIN kinds /\ posted'[j] = new[j - Len(posted)]
      BY <1>2, <2>2, <2>3, <2>4 DEF QueueType
    <3> QED BY <3>1 DEF Closure
  <2>5. \A j \in DOMAIN posted : posted'[j] = posted[j]
    BY <1>2, <2>2 DEF QueueType
  <2> QED BY <2>3, <2>4, <2>5
<1> QED BY <1>1, <1>2 DEF Post

LEMMA PostAddsOne ==
    ASSUME QueueType, NEW r \in Runs, NEW k \in Kinds, Post(r, <<k>>)
    PROVE  /\ posted' \in Seq(Closures)
           /\ \A j \in DOMAIN posted' :
                 \/ j \in DOMAIN posted /\ posted'[j] = posted[j]
                 \/ posted'[j].run = r /\ posted'[j].kind = k
<1> DEFINE kinds == <<k>>
<1>1. kinds \in Seq(Kinds) /\ \A i \in DOMAIN kinds : kinds[i] = k
  OBVIOUS
<1>2. Post(r, kinds)
  OBVIOUS
<1> HIDE DEF kinds
<1> QED BY <1>1, <1>2, PostAdds

LEMMA PostAddsTwo ==
    ASSUME QueueType, NEW r \in Runs, NEW k \in Kinds, NEW l \in Kinds, Post(r, <<k, l>>)
    PROVE  /\ posted' \in Seq(Closures)
           /\ \A j \in DOMAIN posted' :
                 \/ j \in DOMAIN posted /\ posted'[j] = posted[j]
                 \/ posted'[j].run = r /\ posted'[j].kind \in {k, l}
<1> DEFINE kinds == <<k, l>>
<1>1. kinds \in Seq(Kinds) /\ \A i \in DOMAIN kinds : kinds[i] \in {k, l}
  OBVIOUS
<1>2. Post(r, kinds)
  OBVIOUS
<1> HIDE DEF kinds
<1> QED BY <1>1, <1>2, PostAdds

(* Executing a closure leaves those behind it.                             *)
LEMMA TailKeeps ==
    ASSUME posted \in Seq(Closures), posted # <<>>, posted' = Tail(posted)
    PROVE  /\ Head(posted) \in Closures /\ 1 \in DOMAIN posted
           /\ posted[1] = Head(posted)
           /\ posted' \in Seq(Closures)
           /\ \A j \in DOMAIN posted' : j + 1 \in DOMAIN posted /\ posted'[j] = posted[j + 1]
OBVIOUS

(***************************************************************************)
(* The inductive invariant                                                 *)
(***************************************************************************)
ControlType ==
    /\ streaming \in BOOLEAN /\ cancelling \in BOOLEAN
    /\ runID \in 0 .. MaxRuns
    /\ pc \in [Runs -> Positions]

(* Runs get their number when they start, and post after that.             *)
Numbered ==
    /\ \A r \in Runs : r > runID => pc[r] = "none"
    /\ \A j \in DOMAIN posted : posted[j].run <= runID

(* A run in its loop has posted nothing that would end it on the screen.   *)
NothingEnds ==
    \A r \in Runs : InLoop(r) =>
        \A j \in DOMAIN posted : posted[j].run = r => posted[j].kind \notin Ending

LoopInv == QueueType /\ ControlType /\ Numbered /\ NothingEnds /\ OneLoopAtATime

LEMMA LoopInit == Init => LoopInv
<1> SUFFICES ASSUME Init PROVE LoopInv
  OBVIOUS
<1>1. /\ posted = <<>> /\ iter = [r \in Runs |-> 0] /\ runID = 0
      /\ pc = [r \in Runs |-> "none"] /\ streaming = FALSE /\ cancelling = FALSE
  BY DEF Init
<1>2. QueueType
  BY <1>1 DEF QueueType
<1>3. ControlType
  <2>1. runID \in 0 .. MaxRuns
    BY <1>1, AgentRunAssumption
  <2>2. pc \in [Runs -> Positions]
    BY <1>1 DEF Positions
  <2> QED BY <1>1, <2>1, <2>2, Zenon DEF ControlType
<1>4. DOMAIN posted = {} /\ \A r \in Runs : pc[r] = "none" /\ ~InLoop(r)
  BY <1>1 DEF InLoop
<1> QED BY <1>2, <1>3, <1>4 DEF LoopInv, Numbered, NothingEnds, OneLoopAtATime

(***************************************************************************)
(* Steps of a run's goroutine                                              *)
(***************************************************************************)

(* What they have in common: the run has started, no run enters its loop,  *)
(* the UI's state is left alone, and what the run posts ends it on the     *)
(* screen only when it leaves its loop.                                    *)
RunStep(r) ==
    /\ pc[r] # "none"
    /\ UNCHANGED <<streaming, cancelling, runID>>
    /\ pc' \in [Runs -> Positions]
    /\ \A q \in Runs : InLoop(q)' => InLoop(q)
    /\ \A q \in Runs : pc[q] = "none" => pc'[q] = "none"
    /\ QueueType'
    /\ \A j \in DOMAIN posted' :
          \/ j \in DOMAIN posted /\ posted'[j] = posted[j]
          \/ posted'[j].run = r /\ (InLoop(r)' => posted'[j].kind \notin Ending)

LEMMA GoroutineIsRunStep ==
    ASSUME LoopInv, NEW r \in Runs, Goroutine(r)
    PROVE  RunStep(r)
<1> DEFINE Posts(kinds) ==
      /\ posted' \in Seq(Closures)
      /\ \A j \in DOMAIN posted' :
            \/ j \in DOMAIN posted /\ posted'[j] = posted[j]
            \/ posted'[j].run = r /\ posted'[j].kind \in kinds
<1> DEFINE Moves(from, to) == Go(r, from, to) /\ UNCHANGED <<uiVars>> /\ iter' \in [Runs -> Nat]
<1>0. QueueType /\ pc \in [Runs -> Positions] /\ (UNCHANGED posted => Posts({}))
  BY DEF LoopInv, ControlType, QueueType
<1>p. /\ \A k \in Kinds : Post(r, <<k>>) => Posts({k})
      /\ Post(r, <<"toolresult", "turn">>) => Posts({"toolresult", "turn"})
  BY <1>0, PostAddsOne, PostAddsTwo DEF Kinds
<1> HIDE DEF Posts
<1>m. ASSUME NEW from \in Positions \ {"none"}, NEW to \in Positions \ {"none"}, NEW kinds,
             Moves(from, to), Posts(kinds),
             to \in {"request", "stream", "stopped", "tools", "answered"} =>
                /\ kinds \cap Ending = {}
                /\ from \in {"request", "stream", "stopped", "tools", "answered"}
      PROVE  RunStep(r)
  BY <1>0, <1>m DEF RunStep, Go, uiVars, InLoop, QueueType, Posts
<1>i. UNCHANGED iter => iter' \in [Runs -> Nat]
  BY <1>0 DEF QueueType
<1>1. CASE Request(r)
  <2>1. iter' \in [Runs -> Nat]
    BY <1>1, <1>0 DEF Request, QueueType
  <2>2. CASE ReturnError(r, "request") /\ Post(r, <<"error">>)
    <3>1. Moves("request", "failed") /\ Posts({"error"})
      BY <1>1, <1>p, <2>1, <2>2 DEF Request, ReturnError, Kinds
    <3> QED BY <3>1, <1>m DEF Positions
  <2>3. CASE Go(r, "request", "stream") /\ UNCHANGED <<returned, posted>>
    <3>1. Moves("request", "stream") /\ Posts({})
      BY <1>1, <1>0, <2>1, <2>3 DEF Request
    <3> QED BY <3>1, <1>m DEF Positions
  <2> QED BY <1>1, <2>2, <2>3 DEF Request
<1>2. CASE VisitMessage(r)
  <2>1. pc[r] = "stream" /\ UNCHANGED <<uiVars, pc, iter>> /\ Posts({"stream"})
    BY <1>2, <1>p DEF VisitMessage, Kinds
  <2> QED BY <2>1, <1>0, <1>i DEF RunStep, uiVars, InLoop, QueueType, Posts, Ending
<1>3. CASE VisitToolCallStart(r)
  <2>1. pc[r] = "stream" /\ UNCHANGED <<uiVars, pc, iter>> /\ Posts({"toolcall"})
    BY <1>3, <1>p DEF VisitToolCallStart, Kinds
  <2> QED BY <2>1, <1>0, <1>i DEF RunStep, uiVars, InLoop, QueueType, Posts, Ending
<1>4. CASE StopForTools(r)
  <2>1. Moves("stream", "stopped") /\ Posts({})
    BY <1>4, <1>0, <1>i DEF StopForTools
  <2> QED BY <2>1, <1>m DEF Positions
<1>5. CASE SeeCancelled(r)
  <2>1. \E from \in {"stream", "stopped"} : Moves(from, "failed") /\ Posts({})
    BY <1>5, <1>0, <1>i DEF SeeCancelled, ReturnError
  <2> QED BY <2>1, <1>m DEF Positions
<1>6. CASE StreamFails(r)
  <2>1. \E from \in {"stream", "stopped"} : Moves(from, "failed") /\ Posts({"error"})
    BY <1>6, <1>p, <1>i DEF StreamFails, ReturnError, Kinds
  <2> QED BY <2>1, <1>m DEF Positions
<1>7. CASE Complete(r)
  <2>1. Moves("stream", "deferred") /\ Posts({"complete"})
    BY <1>7, <1>p, <1>i DEF Complete, ReturnNil, Kinds
  <2> QED BY <2>1, <1>m DEF Positions
<1>8. CASE DispatchTools(r)
  <2>1. Moves("stopped", "tools") /\ (Posts({"toolcall"}) \/ Posts({}))
    BY <1>8, <1>0, <1>p, <1>i DEF DispatchTools, Kinds
  <2> QED BY <2>1, <1>m DEF Positions, Ending
<1>9. CASE StoreResults(r)
  <2>1. Moves("tools", "answered") /\ (Posts({"toolresult", "turn"}) \/ Posts({"turn"}))
    BY <1>9, <1>p, <1>i DEF StoreResults, Kinds
  <2> QED BY <2>1, <1>m DEF Positions, Ending
<1>10. CASE NextIteration(r)
  <2>1. Moves("answered", "request") /\ Posts({})
    BY <1>10, <1>0, <1>i DEF NextIteration
  <2> QED BY <2>1, <1>m DEF Positions
<1>11. CASE PostError(r)
  <2>1. Moves("failed", "deferred") /\ Posts({"error"})
    BY <1>11, <1>p, <1>i DEF PostError, Kinds
  <2> QED BY <2>1, <1>m DEF Positions
<1>12. CASE DeferredFinish(r)
  <2>1. Moves("deferred", "posting") /\ Posts({})
    BY <1>12, <1>0, <1>i DEF DeferredFinish
  <2> QED BY <2>1, <1>m DEF Positions
<1>13. CASE DeferredPost(r)
  <2>1. Closure("last", r) \in Closures /\ posted \in Seq(Closures)
    BY <1>0 DEF Closure, Closures, CallID, QueueType, Kinds
  <2>2. Posts({"last"})
    BY <1>13, <2>1 DEF DeferredPost, Closure, Posts
  <2>3. Moves("posting", "gone")
    BY <1>13, <1>i DEF DeferredPost
  <2> QED BY <2>2, <2>3, <1>m DEF Positions
<1> QED BY <1>1, <1>2, <1>3, <1>4, <1>5, <1>6, <1>7, <1>8, <1>9, <1>10,
           <1>11, <1>12, <1>13 DEF Goroutine

LEMMA LoopRunStep ==
    ASSUME LoopInv, NEW r \in Runs, RunStep(r)
    PROVE  LoopInv'
<1> USE DEF LoopInv, RunStep
<1>1. ControlType'
  BY DEF ControlType
<1>2. r <= runID
  BY DEF Numbered, ControlType, Runs
<1>3. Numbered'
  BY <1>2 DEF Numbered
<1>4. NothingEnds'
  BY DEF NothingEnds
<1>5. OneLoopAtATime'
  BY DEF OneLoopAtATime
<1> QED BY <1>1, <1>3, <1>4, <1>5

(***************************************************************************)
(* Steps of the UI goroutine                                               *)
(***************************************************************************)
LEMMA LoopStart ==
    ASSUME LoopInv, StartSubmission
    PROVE  LoopInv'
<1> USE DEF LoopInv, StartSubmission
<1>1. /\ runID + 1 \in Runs /\ runID' = runID + 1 /\ runID \in Nat
      /\ UNCHANGED <<posted, iter>>
      /\ streaming' = TRUE /\ cancelling' = FALSE /\ ~streaming /\ ~cancelling
      /\ pc' = [pc EXCEPT ![runID + 1] = "request"]
  <2>1. runID \in 0 .. MaxRuns /\ runID < MaxRuns /\ runID' = runID + 1
    BY DEF ControlType
  <2>2. runID + 1 \in Runs /\ runID \in Nat
    BY <2>1, AgentRunAssumption DEF Runs
  <2> QED BY <2>1, <2>2, Zenon
<1>2. QueueType' /\ ControlType'
  <2>1. QueueType'
    BY <1>1 DEF QueueType
  <2>2. runID' \in 0 .. MaxRuns
    BY <1>1, AgentRunAssumption DEF Runs
  <2>3. pc' \in [Runs -> Positions]
    BY <1>1 DEF ControlType, Positions
  <2> QED BY <1>1, <2>1, <2>2, <2>3 DEF ControlType
<1>3. \A r \in Runs : InLoop(r)' => r = runID + 1
  BY <1>1 DEF OneLoopAtATime, ControlType, InLoop
<1>4. OneLoopAtATime'
  BY <1>1, <1>3 DEF OneLoopAtATime
<1>5. \A j \in DOMAIN posted : posted[j].run <= runID /\ posted[j].run \in Nat
  <2> TAKE j \in DOMAIN posted
  <2>1. posted[j] \in Closures
    BY DEF QueueType
  <2>2. posted[j].run \in Nat
    BY <2>1, AgentRunAssumption DEF Closures, Runs
  <2> QED BY <2>2 DEF Numbered
<1>6. Numbered' /\ NothingEnds'
  BY <1>1, <1>3, <1>5, AgentRunAssumption DEF Numbered, NothingEnds, ControlType, Runs
<1> QED BY <1>2, <1>4, <1>6

LEMMA LoopUI ==
    ASSUME LoopInv, Cancel \/ NewSession
    PROVE  LoopInv'
<1>1. /\ UNCHANGED <<runID, posted, pc, iter>>
      /\ streaming' \in BOOLEAN /\ cancelling' \in BOOLEAN
      /\ streaming \/ cancelling => streaming' \/ cancelling'
  BY DEF Cancel, NewSession, finish, LoopInv, ControlType
<1> QED BY <1>1 DEF LoopInv, QueueType, ControlType, Numbered, NothingEnds,
                    OneLoopAtATime, InLoop

(* A closure that ends what the UI shows is one of a run that has left its *)
(* loop.                                                                   *)
LEMMA LoopClosure ==
    ASSUME LoopInv, RunClosure
    PROVE  LoopInv'
<1> DEFINE e == Head(posted)
<1>1. /\ posted # <<>> /\ posted' = Tail(posted) /\ UNCHANGED <<runID, pc, iter>>
      /\ ShowEvent(e) \/ StartAssistantSegment(e) \/ LoopComplete(e) \/ applyError(e) \/ RunEnded(e)
  BY DEF RunClosure
<1>2. /\ e \in Closures /\ 1 \in DOMAIN posted /\ posted[1] = e
      /\ posted' \in Seq(Closures)
      /\ \A j \in DOMAIN posted' : j + 1 \in DOMAIN posted /\ posted'[j] = posted[j + 1]
  BY <1>1, TailKeeps DEF LoopInv, QueueType
<1>3. /\ streaming' \in BOOLEAN /\ cancelling' \in BOOLEAN
      /\ \/ UNCHANGED <<streaming, cancelling>>
         \/ e.kind \in Ending /\ e.run = runID
  BY <1>1 DEF LoopInv, ControlType, ShowEvent, StartAssistantSegment, LoopComplete,
              applyError, RunEnded, Active, finish, Ending
<1>4. QueueType' /\ ControlType' /\ Numbered' /\ NothingEnds'
  BY <1>1, <1>2, <1>3 DEF LoopInv, QueueType, ControlType, Numbered, NothingEnds, InLoop
<1>5. OneLoopAtATime'
  <2>1. CASE UNCHANGED <<streaming, cancelling>>
    BY <1>1, <2>1 DEF LoopInv, OneLoopAtATime, InLoop
  <2>2. CASE e.kind \in Ending /\ e.run = runID
    <3>1. \A r \in Runs : ~InLoop(r)
      BY <1>2, <2>2 DEF LoopInv, OneLoopAtATime, NothingEnds
    <3> QED BY <1>1, <3>1 DEF OneLoopAtATime, InLoop
  <2> QED BY <1>3, <2>1, <2>2
<1> QED BY <1>4, <1>5 DEF LoopInv

LEMMA LoopStep == LoopInv /\ [Next]_vars => LoopInv'
<1> SUFFICES ASSUME LoopInv, [Next]_vars PROVE LoopInv'
  OBVIOUS
<1>1. CASE StartSubmission       BY <1>1, LoopStart
<1>2. CASE Cancel \/ NewSession  BY <1>2, LoopUI
<1>3. CASE RunClosure            BY <1>3, LoopClosure
<1>4. CASE \E r \in Runs : Goroutine(r)
  BY <1>4, GoroutineIsRunStep, LoopRunStep
<1>5. CASE UNCHANGED vars
  BY <1>5 DEF vars, uiVars, LoopInv, QueueType, ControlType, Numbered, NothingEnds,
              OneLoopAtATime, InLoop
<1> QED BY <1>1, <1>2, <1>3, <1>4, <1>5 DEF Next

(* Two loops never work on one ledger: the composer stays closed until the *)
(* loop of the run before has been left, through errors, cancellations and *)
(* closures that come late.                                                *)
THEOREM LoopsDoNotOverlap == Spec => []OneLoopAtATime
<1>1. LoopInv => OneLoopAtATime
  BY DEF LoopInv
<1> QED BY <1>1, LoopStep, LoopInit, PTL DEF Spec

(***************************************************************************)
(* The ledger                                                              *)
(***************************************************************************)
CallIDs == Runs \X Nat

LedgerMessages ==
    [seq : Nat, role : Roles, content : Seq(Runs), thinking : {<<>>}, signed : {FALSE},
     calls : Seq([id : CallIDs, input : BOOLEAN]), answers : CallIDs \cup {NoCall},
     streaming : BOOLEAN]

(* A session of the runs: nothing is compacted, and nothing persisted.     *)
Ledgers ==
    [messages : Seq(LedgerMessages), provider : {<<>>}, msgSeq : Nat, persisted : {FALSE},
     log : {<<>>}, eol : {TRUE}]

LEMMA Added ==
    ASSUME NEW q \in Ledgers, NEW role \in Roles, NEW call \in CallIDs \cup {NoCall},
           NEW open \in BOOLEAN
    PROVE  LET m == Message(q.msgSeq + 1, role, <<>>, call, open)
               t == AddMessage(q, role, <<>>, call, open)
           IN  /\ m \in LedgerMessages
               /\ t \in Ledgers /\ t.messages = Append(q.messages, m)
<1>. DEFINE m == Message(q.msgSeq + 1, role, <<>>, call, open)
            t == [q EXCEPT !.msgSeq = @ + 1, !.messages = Append(@, m)]
<1>1. m \in LedgerMessages
  BY DEF Message, LedgerMessages, Ledgers
<1>. HIDE DEF m
<1>2. t \in Ledgers /\ t.messages = Append(q.messages, m)
  <2>1. Append(q.messages, m) \in Seq(LedgerMessages) /\ q.msgSeq + 1 \in Nat
    BY <1>1 DEF Ledgers
  <2>. QED
    BY <2>1 DEF Ledgers
<1>3. AddMessage(q, role, <<>>, call, open) = t
  <2>1. q.provider = <<>> /\ ~q.persisted
    BY DEF Ledgers
  <2>. QED
    BY <2>1 DEF AddMessage, persistLocked, Write, Ledgers, m
<1>. QED
  BY <1>1, <1>2, <1>3 DEF m

(* What a message says, whom it answers and whether it has calls.          *)
Same(m, n) ==
    /\ n.role = m.role /\ n.content = m.content /\ n.answers = m.answers
    /\ n.calls = <<>> <=> m.calls = <<>>
    /\ n.streaming = TRUE => m.streaming = TRUE

Rewritten(q, t) ==
    /\ t \in Ledgers /\ Len(t.messages) = Len(q.messages)
    /\ \A i \in DOMAIN q.messages : Same(q.messages[i], t.messages[i])

LEMMA LastSet ==
    ASSUME NEW q \in Ledgers, q.messages # <<>>, NEW m \in LedgerMessages
    PROVE  LET t == [q EXCEPT !.messages = [@ EXCEPT ![Len(q.messages)] = m]]
           IN  /\ t \in Ledgers /\ Len(t.messages) = Len(q.messages)
               /\ t.messages[Len(q.messages)] = m
               /\ \A i \in DOMAIN q.messages :
                     i # Len(q.messages) => t.messages[i] = q.messages[i]
<1>. DEFINE n == Len(q.messages)
            l == [q.messages EXCEPT ![n] = m]
            t == [q EXCEPT !.messages = l]
<1>1. q.messages \in Seq(LedgerMessages) /\ n \in DOMAIN q.messages
  BY DEF Ledgers
<1>2. /\ l \in Seq(LedgerMessages) /\ Len(l) = n /\ l[n] = m
      /\ \A i \in DOMAIN q.messages : i # n => l[i] = q.messages[i]
  BY <1>1
<1>. HIDE DEF l
<1>3. t \in Ledgers /\ t.messages = l
  BY <1>2 DEF Ledgers
<1>. QED
  BY <1>2, <1>3 DEF l

LEMMA LastOf ==
    ASSUME NEW q \in Ledgers, q.messages # <<>>
    PROVE  /\ Last(q.messages) = q.messages[Len(q.messages)]
           /\ Last(q.messages) \in LedgerMessages
           /\ Len(q.messages) \in DOMAIN q.messages
BY DEF Ledgers, Last

LEMMA DeltaAppended ==
    ASSUME NEW q \in Ledgers, NEW r \in Runs
    PROVE  LET t == AppendDelta(q, r)
               n == Len(q.messages)
           IN  /\ t \in Ledgers /\ Len(t.messages) = n
               /\ \A i \in DOMAIN q.messages :
                     \/ Same(q.messages[i], t.messages[i])
                     \/ /\ i = n /\ q.messages[i].streaming
                        /\ t.messages[i] = [q.messages[i] EXCEPT !.content = Append(@, r)]
<1>. DEFINE n == Len(q.messages)
            m == [Last(q.messages) EXCEPT !.content = Append(@, r)]
            t == [q EXCEPT !.messages = [@ EXCEPT ![n] = m]]
<1>1. CASE LastStreams(q.messages)
  <2>1. q.messages # <<>>
    BY <1>1 DEF LastStreams
  <2>2. Last(q.messages).content \in Seq(Runs)
    BY <2>1, LastOf DEF LedgerMessages
  <2>3. m \in LedgerMessages
    <3>1. Append(Last(q.messages).content, r) \in Seq(Runs)
      BY <2>2
    <3>. QED
      BY <2>1, <3>1, LastOf DEF LedgerMessages
  <2>4. AppendDelta(q, r) = t
    <3>1. q.provider = <<>> /\ ~LastStreams(q.provider)
      BY DEF Ledgers, LastStreams
    <3>. QED
      BY <1>1, <2>1, <3>1, LastOf DEF AppendDelta, Amend, WithDelta, SetLast, Ledgers,
         LedgerMessages
  <2>5. m = [q.messages[n] EXCEPT !.content = Append(@, r)] /\ q.messages[n].streaming
    BY <1>1, <2>1, LastOf DEF LastStreams
  <2>. HIDE DEF m
  <2>6. /\ t \in Ledgers /\ Len(t.messages) = n /\ t.messages[n] = m
        /\ \A i \in DOMAIN q.messages : i # n => t.messages[i] = q.messages[i]
    BY <2>1, <2>3, LastSet
  <2>. HIDE DEF t
  <2>. QED
    BY <2>4, <2>5, <2>6 DEF Same
<1>2. CASE ~LastStreams(q.messages)
  BY <1>2 DEF AppendDelta, Same
<1>. QED
  BY <1>1, <1>2

LEMMA Finished ==
    ASSUME NEW q \in Ledgers
    PROVE  Rewritten(q, FinishAssistantMessage(q))
<1>. DEFINE n == Len(q.messages)
            m == [Last(q.messages) EXCEPT !.streaming = FALSE]
            t == [q EXCEPT !.messages = [@ EXCEPT ![n] = m]]
<1>1. CASE LastStreams(q.messages)
  <2>1. q.messages # <<>>
    BY <1>1 DEF LastStreams
  <2>2. m \in LedgerMessages /\ Same(Last(q.messages), m)
    BY <2>1, LastOf DEF LedgerMessages, Same
  <2>3. FinishAssistantMessage(q) = t
    <3>1. q.provider = <<>> /\ ~Mirrored(q) /\ ~q.persisted
      BY DEF Ledgers, Mirrored
    <3>. QED
      BY <1>1, <2>1, <3>1, LastOf DEF FinishAssistantMessage, Amend, Completed, SetLast,
         persistLocked, Write, Ledgers, LedgerMessages
  <2>. HIDE DEF m
  <2>. QED
    BY <2>1, <2>2, <2>3, LastSet, LastOf DEF Rewritten, Same
<1>2. CASE ~LastStreams(q.messages)
  BY <1>2 DEF FinishAssistantMessage, Rewritten, Same
<1>. QED
  BY <1>1, <1>2

LEMMA CallAdded ==
    ASSUME NEW q \in Ledgers, q.messages # <<>>, NEW call \in CallIDs
    PROVE  LET t == AddToolCallToAssistant(q, call)
               n == Len(q.messages)
           IN  /\ t \in Ledgers /\ Len(t.messages) = n
               /\ \A i \in DOMAIN q.messages :
                     \/ i # n /\ t.messages[i] = q.messages[i]
                     \/ /\ i = n /\ t.messages[i].calls # <<>>
                        /\ t.messages[i].role = q.messages[i].role
                        /\ t.messages[i].content = q.messages[i].content
                        /\ t.messages[i].answers = q.messages[i].answers
                        /\ t.messages[i].streaming = q.messages[i].streaming
<1>. DEFINE n == Len(q.messages)
            c == Append(Last(q.messages).calls, [id |-> call, input |-> FALSE])
            m == [Last(q.messages) EXCEPT !.calls = c]
            t == [q EXCEPT !.messages = [@ EXCEPT ![n] = m]]
<1>1. Last(q.messages).calls \in Seq([id : CallIDs, input : BOOLEAN])
  BY LastOf DEF LedgerMessages
<1>2. c \in Seq([id : CallIDs, input : BOOLEAN]) /\ c # <<>>
  BY <1>1
<1>3. AddToolCallToAssistant(q, call) = t
  <2>1. q.provider = <<>> /\ ~Mirrored(q)
    BY DEF Ledgers, Mirrored
  <2>. QED
    BY <2>1, LastOf DEF AddToolCallToAssistant, Amend, WithToolCall, SetLast, Ledgers,
       LedgerMessages
<1>. HIDE DEF c
<1>4. /\ m \in LedgerMessages /\ m.calls # <<>>
      /\ m.role = Last(q.messages).role /\ m.content = Last(q.messages).content
      /\ m.answers = Last(q.messages).answers
      /\ m.streaming = Last(q.messages).streaming
  BY <1>2, LastOf DEF LedgerMessages
<1>. HIDE DEF m
<1>. QED
  BY <1>3, <1>4, LastSet, LastOf

LEMMA InputSet ==
    ASSUME NEW calls \in Seq([id : CallIDs, input : BOOLEAN]), NEW first
    PROVE  LET c == [calls EXCEPT ![first].input = TRUE]
           IN  c \in Seq([id : CallIDs, input : BOOLEAN]) /\ (c = <<>> <=> calls = <<>>)
<1>. DEFINE c == [calls EXCEPT ![first].input = TRUE]
            S == [id : CallIDs, input : BOOLEAN]
<1>. DEFINE n == Len(calls)
<1>0. calls \in Seq(S)
  OBVIOUS
<1>. HIDE DEF S
<1>1. n \in Nat /\ calls \in [1 .. n -> S]
  BY <1>0
<1>2. c \in [1 .. n -> S]
  <2>1. \A x \in S : [x EXCEPT !.input = TRUE] \in S
    BY DEF S
  <2>. QED
    BY <1>1, <2>1
<1>. HIDE DEF c
<1>3. c \in Seq(S) /\ calls \in Seq(S) /\ Len(c) = n /\ Len(calls) = n
  BY <1>1, <1>2, SeqDef
<1>. QED
  BY <1>3 DEF c, S

LEMMA InputUpdated ==
    ASSUME NEW q \in Ledgers, q.messages # <<>>, NEW call \in CallIDs
    PROVE  Rewritten(q, UpdateToolCallInput(q, call))
<1>. DEFINE n == Len(q.messages)
            calls == Last(q.messages).calls
            matches == {i \in DOMAIN calls : calls[i].id = call}
            first == CHOOSE i \in matches : \A j \in matches : i <= j
            c == [calls EXCEPT ![first].input = TRUE]
            m == [Last(q.messages) EXCEPT !.calls = c]
            t == [q EXCEPT !.messages = [@ EXCEPT ![n] = m]]
<1>1. calls \in Seq([id : CallIDs, input : BOOLEAN])
  BY LastOf DEF LedgerMessages
<1>2. CASE matches = {}
  BY <1>2 DEF UpdateToolCallInput, Rewritten, Same
<1>3. CASE matches # {}
  <2>1. UpdateToolCallInput(q, call) = t
    <3>1. ~q.persisted
      BY DEF Ledgers
    <3>. QED
      BY <1>3, <3>1, LastOf DEF UpdateToolCallInput, Amend, SetLast, persistLocked, Write,
         Ledgers, LedgerMessages
  <2>2. c \in Seq([id : CallIDs, input : BOOLEAN]) /\ (c = <<>> <=> calls = <<>>)
    BY <1>1, InputSet
  <2>. HIDE DEF c
  <2>3. m \in LedgerMessages /\ Same(Last(q.messages), m)
    BY <2>2, LastOf DEF LedgerMessages, Same
  <2>. HIDE DEF m
  <2>. QED
    BY <2>1, <2>3, LastSet, LastOf DEF Rewritten, Same
<1>. QED
  BY <1>2, <1>3

(***************************************************************************)
(* Text under its prompt: the ledger                                       *)
(***************************************************************************)
Says(q, i, d) == d \in Range(q.messages[i].content)

(* With n the run that started last: nothing is said of a later run, only  *)
(* answers are open, and no prompt follows what the newest run has said.   *)
TextFits(q, n) ==
    /\ q \in Ledgers /\ n \in Nat
    /\ \A i \in DOMAIN q.messages :
          /\ q.messages[i].streaming = TRUE => q.messages[i].role = "assistant"
          /\ \A d \in Runs : Says(q, i, d) => d <= n
          /\ Says(q, i, n) => \A k \in i .. Len(q.messages) : q.messages[k].role # "user"
    /\ \A i \in DOMAIN q.messages, j \in DOMAIN q.messages : \A d \in Runs :
          i < j /\ Says(q, i, d) /\ Says(q, j, d) =>
             \A k \in i .. j : q.messages[k].role # "user"

LEMMA TextKept ==
    ASSUME NEW q, NEW n, TextFits(q, n), NEW t, t \in Ledgers,
           Len(t.messages) = Len(q.messages),
           \A i \in DOMAIN q.messages :
              /\ t.messages[i].role = q.messages[i].role
              /\ t.messages[i].content = q.messages[i].content
              /\ t.messages[i].streaming = TRUE => q.messages[i].streaming = TRUE
    PROVE  TextFits(t, n)
<1>1. DOMAIN t.messages = DOMAIN q.messages /\ DOMAIN q.messages = 1 .. Len(q.messages)
      /\ Len(q.messages) \in Nat
  BY DEF TextFits, Ledgers
<1>2. \A i \in DOMAIN q.messages, d \in Runs \cup {n} : Says(t, i, d) <=> Says(q, i, d)
  BY DEF Says
<1>. QED
  BY <1>1, <1>2 DEF TextFits

LEMMA TextAdded ==
    ASSUME NEW q, NEW n, TextFits(q, n), NEW t, t \in Ledgers, NEW m,
           t.messages = Append(q.messages, m), m.content = <<>>, m.role # "user",
           m.streaming = TRUE => m.role = "assistant"
    PROVE  TextFits(t, n)
<1>1. /\ Len(q.messages) \in Nat /\ DOMAIN q.messages = 1 .. Len(q.messages)
      /\ Len(t.messages) = Len(q.messages) + 1
      /\ DOMAIN t.messages = 1 .. Len(q.messages) + 1
      /\ \A i \in DOMAIN q.messages : t.messages[i] = q.messages[i]
      /\ t.messages[Len(q.messages) + 1] = m
  BY DEF TextFits, Ledgers
<1>2. \A i \in DOMAIN q.messages, d \in Runs \cup {n} : Says(t, i, d) <=> Says(q, i, d)
  BY <1>1 DEF Says
<1>3. \A d : ~Says(t, Len(q.messages) + 1, d)
  BY <1>1 DEF Says, Range
<1>4. ASSUME NEW i \in DOMAIN t.messages
      PROVE  /\ t.messages[i].streaming = TRUE => t.messages[i].role = "assistant"
             /\ \A d \in Runs : Says(t, i, d) => d <= n
             /\ Says(t, i, n) => \A k \in i .. Len(t.messages) : t.messages[k].role # "user"
  BY <1>1, <1>2, <1>3 DEF TextFits
<1>5. ASSUME NEW i \in DOMAIN t.messages, NEW j \in DOMAIN t.messages, NEW d \in Runs,
             i < j, Says(t, i, d), Says(t, j, d)
      PROVE  \A k \in i .. j : t.messages[k].role # "user"
  BY <1>1, <1>2, <1>3, <1>5 DEF TextFits
<1>. QED
  BY <1>4, <1>5 DEF TextFits

(* The next prompt: its run has said nothing yet.                          *)
LEMMA TextPrompted ==
    ASSUME NEW q, NEW n, TextFits(q, n), NEW t, t \in Ledgers, NEW m,
           t.messages = Append(q.messages, m), m.content = <<>>, m.streaming = FALSE,
           n + 1 \in Runs
    PROVE  TextFits(t, n + 1)
<1>1. /\ Len(q.messages) \in Nat /\ DOMAIN q.messages = 1 .. Len(q.messages)
      /\ Len(t.messages) = Len(q.messages) + 1
      /\ DOMAIN t.messages = 1 .. Len(q.messages) + 1
      /\ \A i \in DOMAIN q.messages : t.messages[i] = q.messages[i]
      /\ t.messages[Len(q.messages) + 1] = m
  BY DEF TextFits, Ledgers
<1>2. \A i \in DOMAIN q.messages, d \in Runs : Says(t, i, d) <=> Says(q, i, d)
  BY <1>1 DEF Says
<1>3. \A d : ~Says(t, Len(q.messages) + 1, d)
  BY <1>1 DEF Says, Range
<1>4. \A i \in DOMAIN t.messages : ~Says(t, i, n + 1)
  <2>1. ~(n + 1 <= n) /\ n \in Nat
    BY DEF TextFits
  <2>. QED
    BY <1>1, <1>2, <1>3, <2>1 DEF TextFits
<1>5. Runs \subseteq Nat
  BY AgentRunAssumption DEF Runs
<1>. QED
  BY <1>1, <1>2, <1>3, <1>4, <1>5 DEF TextFits

(* A delta of the newest run.                                              *)
LEMMA TextSaid ==
    ASSUME NEW q, NEW n \in Runs, TextFits(q, n), NEW t, t = AppendDelta(q, n)
    PROVE  TextFits(t, n)
<1>. DEFINE l == Len(q.messages)
<1>1. /\ t \in Ledgers /\ Len(t.messages) = l
      /\ \A i \in DOMAIN q.messages :
            \/ Same(q.messages[i], t.messages[i])
            \/ /\ i = l /\ q.messages[i].streaming
               /\ t.messages[i] = [q.messages[i] EXCEPT !.content = Append(@, n)]
  BY DeltaAppended DEF TextFits
<1>2. DOMAIN t.messages = DOMAIN q.messages /\ DOMAIN q.messages = 1 .. l /\ l \in Nat
      /\ \A i \in DOMAIN q.messages : q.messages[i] \in LedgerMessages
  BY <1>1 DEF TextFits, Ledgers
<1>3. \A i \in DOMAIN q.messages :
         /\ t.messages[i].role = q.messages[i].role
         /\ t.messages[i].streaming = TRUE => q.messages[i].streaming = TRUE
  BY <1>1, <1>2 DEF Same, LedgerMessages
<1>4. \A i \in DOMAIN q.messages : \A d \in Runs :
         Says(t, i, d) => Says(q, i, d) \/ (d = n /\ i = l /\ q.messages[i].streaming = TRUE)
  <2>. SUFFICES ASSUME NEW i \in DOMAIN q.messages, NEW d \in Runs, Says(t, i, d)
                PROVE  Says(q, i, d) \/ (d = n /\ i = l /\ q.messages[i].streaming = TRUE)
    OBVIOUS
  <2>1. CASE Same(q.messages[i], t.messages[i])
    BY <2>1 DEF Same, Says
  <2>2. CASE /\ i = l /\ q.messages[i].streaming
             /\ t.messages[i] = [q.messages[i] EXCEPT !.content = Append(@, n)]
    <3>1. q.messages[i].content \in Seq(Runs)
          /\ t.messages[i].content = Append(q.messages[i].content, n)
          /\ q.messages[i].streaming = TRUE
      BY <1>2, <2>2 DEF LedgerMessages
    <3>2. Range(t.messages[i].content) = Range(q.messages[i].content) \cup {n}
      BY <3>1 DEF Range
    <3>. QED
      BY <2>2, <3>1, <3>2 DEF Says
  <2>. QED
    BY <1>1, <2>1, <2>2
<1>5. \A i \in DOMAIN q.messages : Says(q, i, n) \/ (i = l /\ q.messages[i].streaming = TRUE) =>
         \A k \in i .. l : q.messages[k].role # "user"
  BY <1>2 DEF TextFits
<1>. HIDE DEF l
<1>7. ASSUME NEW i \in DOMAIN t.messages
      PROVE  /\ t.messages[i].streaming = TRUE => t.messages[i].role = "assistant"
             /\ \A d \in Runs : Says(t, i, d) => d <= n
             /\ Says(t, i, n) => \A k \in i .. l : t.messages[k].role # "user"
  <2>1. t.messages[i].streaming = TRUE => t.messages[i].role = "assistant"
    BY <1>2, <1>3 DEF TextFits
  <2>2. \A d \in Runs : Says(t, i, d) => d <= n
    BY <1>2, <1>4 DEF TextFits
  <2>3. Says(t, i, n) => \A k \in i .. l : t.messages[k].role # "user"
    BY <1>2, <1>3, <1>4, <1>5
  <2>. QED
    BY <2>1, <2>2, <2>3
<1>8. ASSUME NEW i \in DOMAIN t.messages, NEW j \in DOMAIN t.messages, NEW d \in Runs,
             i < j, Says(t, i, d), Says(t, j, d)
      PROVE  \A k \in i .. j : t.messages[k].role # "user"
  <2>1. Says(q, i, d)
    BY <1>2, <1>4, <1>8
  <2>2. CASE Says(q, j, d)
    BY <1>2, <1>3, <1>8, <2>1, <2>2 DEF TextFits
  <2>3. CASE d = n /\ j = l
    BY <1>2, <1>3, <1>5, <1>8, <2>1, <2>3
  <2>. QED
    BY <1>2, <1>4, <1>8, <2>2, <2>3
<1>. QED
  BY <1>1, <1>7, <1>8 DEF TextFits

(* What the steps of a run's goroutine do to the ledger, in order of the   *)
(* loop.                                                                   *)
LEMMA GoroutineLedger ==
    ASSUME LoopInv, s \in Ledgers, NEW r \in Runs, Goroutine(r)
    PROVE  \/ s' = s
           \/ s' = FinishAssistantMessage(s)
           \/ InLoop(r) /\ s' = AppendDelta(s, r)
           \/ InLoop(r) /\ s' = AddToolCallToAssistant(s, CallID(r))
           \/ InLoop(r) /\ s' = UpdateToolCallInput(s, CallID(r))
           \/ InLoop(r) /\ s' = AddToolResultMessage(s, CallID(r), <<>>)
           \/ InLoop(r) /\ s' = StartAssistantMessage(s)
BY DEF Goroutine, Request, VisitMessage, VisitToolCallStart, StopForTools, SeeCancelled,
       StreamFails, Complete, DispatchTools, StoreResults, NextIteration, PostError,
       DeferredFinish, DeferredPost, InLoop, Go, ReturnNil, ReturnError

(* A session has messages: its instructions come first.                    *)
TextInv == LoopInv /\ TextFits(s, runID) /\ s.messages # <<>>

LEMMA TextGoroutine ==
    ASSUME TextInv, NEW r \in Runs, Goroutine(r)
    PROVE  TextFits(s', runID') /\ s'.messages # <<>>
<1>1. s \in Ledgers /\ s.messages # <<>> /\ LoopInv /\ TextFits(s, runID)
  BY DEF TextInv, TextFits
<1>2. runID' = runID /\ CallID(r) \in CallIDs /\ (InLoop(r) => r = runID)
  <2>1. runID' = runID
    BY <1>1, GoroutineIsRunStep DEF RunStep
  <2>2. CallID(r) \in CallIDs
    BY <1>1 DEF LoopInv, QueueType, CallID, CallIDs
  <2>. QED
    BY <1>1, <2>1, <2>2 DEF LoopInv, OneLoopAtATime
<1>3. ASSUME Rewritten(s, s') PROVE TextFits(s', runID) /\ s'.messages # <<>>
  <2>1. TextFits(s', runID)
    BY <1>1, <1>3, TextKept DEF Rewritten, Same
  <2>. QED
    BY <1>1, <1>3, <2>1 DEF Rewritten, Ledgers
<1>4. CASE s' = s
  BY <1>1, <1>2, <1>4
<1>5. CASE s' = FinishAssistantMessage(s)
  BY <1>1, <1>2, <1>3, <1>5, Finished
<1>6. CASE InLoop(r) /\ s' = AppendDelta(s, r)
  <2>1. TextFits(s', runID)
    BY <1>1, <1>2, <1>6, TextSaid
  <2>2. s' \in Ledgers /\ Len(s'.messages) = Len(s.messages)
    BY <1>1, <1>6, DeltaAppended
  <2>. QED
    BY <1>1, <1>2, <2>1, <2>2 DEF Ledgers
<1>7. CASE InLoop(r) /\ s' = AddToolCallToAssistant(s, CallID(r))
  <2>1. /\ s' \in Ledgers /\ Len(s'.messages) = Len(s.messages)
        /\ \A i \in DOMAIN s.messages :
              /\ s'.messages[i].role = s.messages[i].role
              /\ s'.messages[i].content = s.messages[i].content
              /\ s'.messages[i].streaming = s.messages[i].streaming
    BY <1>1, <1>2, <1>7, CallAdded
  <2>2. TextFits(s', runID)
    BY <1>1, <2>1, TextKept
  <2>. QED
    BY <1>1, <1>2, <2>1, <2>2 DEF Ledgers
<1>8. CASE InLoop(r) /\ s' = UpdateToolCallInput(s, CallID(r))
  BY <1>1, <1>2, <1>3, <1>8, InputUpdated
<1>9. ASSUME NEW role \in {"tool", "assistant"}, NEW call \in CallIDs \cup {NoCall},
             NEW open \in BOOLEAN, open = TRUE => role = "assistant",
             s' = AddMessage(s, role, <<>>, call, open)
      PROVE  TextFits(s', runID) /\ s'.messages # <<>>
  <2>. DEFINE m == Message(s.msgSeq + 1, role, <<>>, call, open)
  <2>1. m \in LedgerMessages /\ s' \in Ledgers /\ s'.messages = Append(s.messages, m)
    BY <1>1, <1>9, Added DEF Roles
  <2>2. m.content = <<>> /\ m.role = role /\ m.streaming = open
    BY DEF Message
  <2>. HIDE DEF m
  <2>3. TextFits(s', runID)
    BY <1>1, <1>9, <2>1, <2>2, TextAdded
  <2>. QED
    BY <1>1, <2>1, <2>3 DEF Ledgers
<1>10. CASE InLoop(r) /\ s' = AddToolResultMessage(s, CallID(r), <<>>)
  BY <1>2, <1>9, <1>10 DEF AddToolResultMessage
<1>11. CASE InLoop(r) /\ s' = StartAssistantMessage(s)
  BY <1>2, <1>9, <1>11 DEF StartAssistantMessage
<1>. QED
  BY <1>1, <1>4, <1>5, <1>6, <1>7, <1>8, <1>10, <1>11, GoroutineLedger

LEMMA NewLedger ==
    /\ AddSystemMessage(New) \in Ledgers
    /\ AddSystemMessage(New).messages # <<>>
    /\ \A n \in Nat : TextFits(AddSystemMessage(New), n)
<1>. DEFINE m == Message(New.msgSeq + 1, "system", <<>>, NoCall, FALSE)
            t == AddSystemMessage(New)
<1>1. New \in Ledgers /\ New.messages = <<>> /\ \A n \in Nat : TextFits(New, n)
  BY DEF New, Ledgers, TextFits
<1>2. m \in LedgerMessages /\ t \in Ledgers /\ t.messages = Append(New.messages, m)
  BY <1>1, Added DEF AddSystemMessage, Roles
<1>3. m.content = <<>> /\ m.role = "system" /\ m.streaming = FALSE
  BY DEF Message
<1>. HIDE DEF m, t
<1>4. \A n \in Nat : TextFits(t, n)
  BY <1>1, <1>2, <1>3, TextAdded
<1>5. t.messages # <<>>
  BY <1>1, <1>2 DEF Ledgers
<1>. QED
  BY <1>2, <1>4, <1>5 DEF t

LEMMA TextStart ==
    ASSUME TextInv, StartSubmission
    PROVE  TextFits(s', runID') /\ s'.messages # <<>>
<1>. DEFINE q == AddUserMessage(s)
            m == Message(s.msgSeq + 1, "user", <<>>, NoCall, FALSE)
            a == Message(q.msgSeq + 1, "assistant", <<>>, NoCall, TRUE)
<1>1. TextFits(s, runID) /\ s \in Ledgers
  BY DEF TextInv, TextFits
<1>2. runID + 1 \in Runs /\ runID' = runID + 1
  BY AgentRunAssumption DEF StartSubmission, TextInv, LoopInv, ControlType, Runs
<1>3. m \in LedgerMessages /\ q \in Ledgers /\ q.messages = Append(s.messages, m)
  BY <1>1, Added DEF AddUserMessage, Roles
<1>4. m.content = <<>> /\ m.streaming = FALSE
  BY DEF Message
<1>5. s' = StartAssistantMessage(q)
  BY DEF StartSubmission
<1>. HIDE DEF m, q
<1>6. TextFits(q, runID + 1)
  BY <1>1, <1>2, <1>3, <1>4, TextPrompted
<1>7. a \in LedgerMessages /\ s' \in Ledgers /\ s'.messages = Append(q.messages, a)
  BY <1>3, <1>5, Added DEF StartAssistantMessage, Roles
<1>8. a.content = <<>> /\ a.role = "assistant"
  BY DEF Message
<1>. HIDE DEF a
<1>9. TextFits(s', runID + 1)
  BY <1>6, <1>7, <1>8, TextAdded
<1>10. s'.messages # <<>>
  BY <1>3, <1>7 DEF Ledgers
<1>. QED
  BY <1>2, <1>9, <1>10

LEMMA TextStep == TextInv /\ [Next]_vars => TextInv'
<1>. SUFFICES ASSUME TextInv, [Next]_vars PROVE TextFits(s', runID') /\ s'.messages # <<>>
  BY LoopStep DEF TextInv
<1>1. CASE StartSubmission
  BY <1>1, TextStart
<1>2. CASE Cancel \/ RunClosure \/ UNCHANGED vars
  BY <1>2 DEF Cancel, RunClosure, vars, uiVars, TextInv
<1>3. CASE NewSession
  <2>1. runID \in Nat /\ runID' = runID /\ s' = AddSystemMessage(New)
    BY <1>3, AgentRunAssumption DEF NewSession, TextInv, LoopInv, ControlType
  <2>. QED
    BY <2>1, NewLedger
<1>4. CASE \E r \in Runs : Goroutine(r)
  BY <1>4, TextGoroutine
<1>. QED
  BY <1>1, <1>2, <1>3, <1>4 DEF Next

(***************************************************************************)
(* Text under its prompt: the transcript                                   *)
(***************************************************************************)
Tool == [id : CallIDs, done : BOOLEAN]

Reasons == {"", "error", "interrupted"}

ViewMessages ==
    [role : {"user", "assistant"}, run : Runs, content : Seq(Runs), streaming : BOOLEAN,
     error : Reasons, tools : Seq(Tool)]

OwnText(m) == Range(m.content) \subseteq {m.run}

Following == streaming = TRUE

(* While a run is followed the transcript ends with a segment of its own.  *)
ShownText ==
    /\ view \in Seq(ViewMessages)
    /\ \A i \in DOMAIN view : OwnText(view[i])
    /\ Following =>
          /\ view # <<>>
          /\ view[Len(view)].role = "assistant" /\ view[Len(view)].run = runID

(* The message that takes the text is the last one.                        *)
LEMMA CurrentIsLast ==
    ASSUME ShownText, view # <<>>, view[Len(view)].role = "assistant"
    PROVE  AssistantAt # {} /\ Current = Len(view)
<1>1. Len(view) \in AssistantAt /\ \A j \in AssistantAt : j \in 1 .. Len(view)
  BY DEF ShownText, AssistantAt
<1>2. \A i \in AssistantAt : (\A j \in AssistantAt : j <= i) => i = Len(view)
  BY <1>1 DEF ShownText
<1>3. \A j \in AssistantAt : j <= Len(view)
  BY <1>1
<1>. QED
  BY <1>1, <1>2, <1>3 DEF Current

(* While the UI follows a run: the segment of the run is the current one.  *)
LEMMA CurrentWhileStreaming ==
    ASSUME ShownText, Following
    PROVE  /\ AssistantAt # {} /\ Current = Len(view) /\ Current \in DOMAIN view
           /\ view[Current] \in ViewMessages
           /\ view[Current].role = "assistant" /\ view[Current].run = runID
<1>1. AssistantAt # {} /\ Current = Len(view)
  BY CurrentIsLast DEF ShownText
<1>. QED
  BY <1>1 DEF ShownText

LEMMA SetAt ==
    ASSUME NEW S, NEW q \in Seq(S), NEW i \in DOMAIN q, NEW m \in S, NEW t,
           t = [q EXCEPT ![i] = m]
    PROVE  /\ t \in Seq(S) /\ Len(t) = Len(q) /\ t[i] = m
           /\ \A j \in DOMAIN q : j # i => t[j] = q[j]
OBVIOUS

Shut(m, reason) == [m EXCEPT !.streaming = FALSE, !.error = reason]

LEMMA ShutMessage ==
    ASSUME NEW m \in ViewMessages, NEW reason \in Reasons
    PROVE  LET n == Shut(m, reason)
           IN  /\ n \in ViewMessages /\ n.content = m.content /\ n.tools = m.tools
               /\ n.run = m.run /\ n.role = m.role
BY DEF ViewMessages, Shut

LEMMA Closed ==
    ASSUME NEW q \in Seq(ViewMessages), NEW c \in DOMAIN q, NEW t,
           NEW reason \in Reasons,
           t = [q EXCEPT ![c] = Shut(q[c], reason)]
    PROVE  /\ t \in Seq(ViewMessages) /\ Len(t) = Len(q)
           /\ \A i \in DOMAIN q :
                 /\ t[i].content = q[i].content /\ t[i].tools = q[i].tools
                 /\ t[i].run = q[i].run /\ t[i].role = q[i].role
<1>. DEFINE n == Shut(q[c], reason)
<1>1. q[c] \in ViewMessages
  OBVIOUS
<1>2. /\ n \in ViewMessages /\ n.content = q[c].content /\ n.tools = q[c].tools
      /\ n.run = q[c].run /\ n.role = q[c].role
  BY <1>1, ShutMessage
<1>. HIDE DEF n
<1>3. /\ t \in Seq(ViewMessages) /\ Len(t) = Len(q) /\ t[c] = n
      /\ \A i \in DOMAIN q : i # c => t[i] = q[i]
  BY <1>2, SetAt DEF n
<1>. QED
  BY <1>2, <1>3

LEMMA Finish ==
    ASSUME ShownText, Following, NEW reason \in Reasons,
           finish(reason)
    PROVE  /\ view' \in Seq(ViewMessages) /\ Len(view') = Len(view)
           /\ \A i \in DOMAIN view :
                 /\ view'[i].content = view[i].content /\ view'[i].tools = view[i].tools
                 /\ view'[i].run = view[i].run /\ view'[i].role = view[i].role
           /\ ~Following'
<1>1. AssistantAt # {} /\ Current \in DOMAIN view /\ view \in Seq(ViewMessages)
  BY CurrentWhileStreaming DEF ShownText
<1>2. /\ view' = [view EXCEPT ![Current] = Shut(view[Current], reason)]
      /\ ~Following'
  <2>1. view' = [view EXCEPT ![Current] = Shut(view[Current], reason)]
    BY <1>1 DEF finish, Shut
  <2>2. ~Following'
    BY Zenon DEF finish, Following
  <2>. QED
    BY <2>1, <2>2
<1>. QED
  BY <1>1, <1>2, Closed

(* What a rendered event makes of the current segment.                     *)
WithText(m, r) == [m EXCEPT !.content = Append(@, r)]
WithCall(m, call) == [m EXCEPT !.tools = Append(@, [id |-> call, done |-> FALSE])]
WithResult(m, shown) == [m EXCEPT !.tools = MarkDone(@, shown)]

LEMMA RangeAppended ==
    ASSUME NEW S, NEW q \in Seq(S), NEW x \in S
    PROVE  Range(Append(q, x)) = Range(q) \cup {x}
<1>. DEFINE t == Append(q, x)
<1>1. /\ DOMAIN t = 1 .. Len(q) + 1 /\ DOMAIN q = 1 .. Len(q) /\ Len(q) \in Nat
      /\ t[Len(q) + 1] = x /\ \A i \in 1 .. Len(q) : t[i] = q[i]
  OBVIOUS
<1>. HIDE DEF t
<1>. QED
  BY <1>1 DEF Range

LEMMA WithTextFits ==
    ASSUME NEW m \in ViewMessages, NEW r \in Runs
    PROVE  LET n == WithText(m, r)
           IN  /\ n \in ViewMessages /\ n.role = m.role /\ n.run = m.run /\ n.tools = m.tools
               /\ OwnText(m) /\ r = m.run => OwnText(n)
<1>1. m.content \in Seq(Runs)
  BY DEF ViewMessages
<1>2. Append(m.content, r) \in Seq(Runs)
      /\ Range(Append(m.content, r)) = Range(m.content) \cup {r}
  BY <1>1, RangeAppended
<1>3. LET n == WithText(m, r)
      IN  /\ n \in ViewMessages /\ n.role = m.role /\ n.run = m.run /\ n.tools = m.tools
          /\ n.content = Append(m.content, r)
  BY <1>2 DEF WithText, ViewMessages
<1>. QED
  BY <1>2, <1>3 DEF OwnText

LEMMA WithCallFits ==
    ASSUME NEW m \in ViewMessages, NEW call \in CallIDs
    PROVE  LET n == WithCall(m, call)
           IN  /\ n \in ViewMessages /\ n.role = m.role /\ n.run = m.run
               /\ n.content = m.content
               /\ Len(n.tools) = Len(m.tools) + 1
               /\ n.tools[Len(m.tools) + 1].id = call
               /\ \A i \in DOMAIN m.tools : n.tools[i] = m.tools[i]
<1>. DEFINE t == [id |-> call, done |-> FALSE]
            l == Append(m.tools, t)
<1>1. m.tools \in Seq(Tool) /\ t \in Tool /\ t.id = call
  BY DEF ViewMessages, Tool
<1>. HIDE DEF t
<1>2. /\ l \in Seq(Tool) /\ Len(l) = Len(m.tools) + 1 /\ l[Len(m.tools) + 1] = t
      /\ \A i \in DOMAIN m.tools : l[i] = m.tools[i]
  BY <1>1
<1>3. WithCall(m, call) = [m EXCEPT !.tools = l]
  BY DEF WithCall, t
<1>. HIDE DEF l
<1>4. LET n == [m EXCEPT !.tools = l]
      IN  n \in ViewMessages /\ n.role = m.role /\ n.run = m.run /\ n.content = m.content
          /\ n.tools = l
  BY <1>2 DEF ViewMessages
<1>. QED
  BY <1>1, <1>2, <1>3, <1>4

LEMMA ToolsMarked ==
    ASSUME NEW q \in Seq(Tool), NEW shown
    PROVE  LET l == MarkDone(q, shown)
           IN  /\ l \in Seq(Tool) /\ DOMAIN l = DOMAIN q
               /\ \A i \in DOMAIN q :
                     /\ l[i].id = q[i].id
                     /\ q[i].done = TRUE \/ i \in shown => l[i].done = TRUE
<1>. DEFINE M(i) == IF i \in shown THEN [q[i] EXCEPT !.done = TRUE] ELSE q[i]
<1>1. ASSUME NEW i \in DOMAIN q
      PROVE  /\ M(i) \in Tool /\ M(i).id = q[i].id
             /\ q[i].done = TRUE \/ i \in shown => M(i).done = TRUE
  <2>1. q[i] \in Tool
    OBVIOUS
  <2>. QED
    BY <2>1 DEF Tool
<1>2. MarkDone(q, shown) = [i \in 1 .. Len(q) |-> M(i)]
  BY DEF MarkDone
<1>. HIDE DEF M
<1>a. DOMAIN q = 1 .. Len(q) /\ Len(q) \in Nat
  OBVIOUS
<1>b. \A i \in 1 .. Len(q) : M(i) \in Tool
  BY <1>1, <1>a
<1>3. /\ MarkDone(q, shown) \in Seq(Tool) /\ DOMAIN MarkDone(q, shown) = DOMAIN q
      /\ \A i \in DOMAIN q : MarkDone(q, shown)[i] = M(i)
  BY <1>2, <1>a, <1>b
<1>. QED
  BY <1>1, <1>3

LEMMA WithResultFits ==
    ASSUME NEW m \in ViewMessages, NEW shown
    PROVE  LET n == WithResult(m, shown)
           IN  /\ n \in ViewMessages /\ n.role = m.role /\ n.run = m.run
               /\ n.content = m.content /\ DOMAIN n.tools = DOMAIN m.tools
               /\ \A i \in DOMAIN m.tools :
                     /\ n.tools[i].id = m.tools[i].id
                     /\ m.tools[i].done = TRUE \/ i \in shown => n.tools[i].done = TRUE
<1>. DEFINE l == MarkDone(m.tools, shown)
<1>1. m.tools \in Seq(Tool)
  BY DEF ViewMessages
<1>2. /\ l \in Seq(Tool) /\ DOMAIN l = DOMAIN m.tools
      /\ \A i \in DOMAIN m.tools :
            /\ l[i].id = m.tools[i].id
            /\ m.tools[i].done = TRUE \/ i \in shown => l[i].done = TRUE
  BY <1>1, ToolsMarked
<1>3. WithResult(m, shown) = [m EXCEPT !.tools = l]
  BY DEF WithResult
<1>. HIDE DEF l
<1>4. LET n == [m EXCEPT !.tools = l]
      IN  n \in ViewMessages /\ n.role = m.role /\ n.run = m.run /\ n.content = m.content
          /\ n.tools = l
  BY <1>2 DEF ViewMessages
<1>. QED
  BY <1>2, <1>3, <1>4

(* The current segment takes what is rendered; all others stay.            *)
LEMMA SegmentSet ==
    ASSUME ShownText, Following, NEW n \in ViewMessages,
           n.run = runID, n.role = "assistant", OwnText(n),
           view' = [view EXCEPT ![Current] = n], Following', UNCHANGED runID
    PROVE  /\ ShownText' /\ Len(view') = Len(view) /\ view'[Len(view)] = n
           /\ \A i \in DOMAIN view : i # Len(view) => view'[i] = view[i]
<1>1. Current = Len(view) /\ Len(view) \in DOMAIN view /\ view \in Seq(ViewMessages)
  BY CurrentWhileStreaming DEF ShownText
<1>2. /\ view' \in Seq(ViewMessages) /\ Len(view') = Len(view) /\ view'[Len(view)] = n
      /\ \A i \in DOMAIN view : i # Len(view) => view'[i] = view[i]
  BY <1>1, SetAt
<1>3. DOMAIN view' = DOMAIN view
  BY <1>1, <1>2
<1>4. ShownText'
  <2>1. ASSUME NEW i \in DOMAIN view' PROVE OwnText(view'[i])
    <3>1. CASE i = Len(view)
      BY <1>2, <3>1
    <3>2. CASE i # Len(view)
      BY <1>2, <1>3, <3>2 DEF ShownText
    <3>. QED
      BY <3>1, <3>2
  <2>2. /\ view' # <<>> /\ view'[Len(view')].role = "assistant"
        /\ view'[Len(view')].run = runID'
    BY <1>1, <1>2
  <2>. QED
    BY <1>2, <2>1, <2>2 DEF ShownText
<1>. QED
  BY <1>2, <1>4

LEMMA EventRendered ==
    ASSUME ShownText, NEW e \in Closures, Active(e),
           e.kind \in {"stream", "toolcall", "toolresult"}, view' = Rendered(e)
    PROVE  LET m == view[Len(view)]
               shown == {i \in DOMAIN m.tools : m.tools[i].id = e.call}
           IN  \/ /\ e.kind = "stream"
                  /\ view' = [view EXCEPT ![Current] = WithText(m, e.run)]
               \/ e.kind = "toolcall" /\ shown # {} /\ view' = view
               \/ /\ e.kind = "toolcall"
                  /\ view' = [view EXCEPT ![Current] = WithCall(m, e.call)]
               \/ /\ e.kind = "toolresult"
                  /\ view' = [view EXCEPT ![Current] = WithResult(m, shown)]
<1>1. e.run = runID /\ Following
  BY Zenon DEF Active, Following
<1>2. Current = Len(view) /\ view[Current] \in ViewMessages /\ Current \in DOMAIN view
  BY <1>1, CurrentWhileStreaming
<1>3. CASE e.kind = "stream"
  BY <1>2, <1>3 DEF Rendered, WithText
<1>4. CASE e.kind = "toolcall"
  BY <1>2, <1>4 DEF Rendered, WithCall
<1>5. CASE e.kind = "toolresult"
  BY <1>2, <1>5 DEF Rendered, WithResult
<1>. QED
  BY <1>3, <1>4, <1>5

LEMMA GoroutineShowsNothing ==
    ASSUME NEW r \in Runs, Goroutine(r) PROVE UNCHANGED uiVars
BY DEF Goroutine, Request, VisitMessage, VisitToolCallStart, StopForTools, SeeCancelled,
       StreamFails, Complete, DispatchTools, StoreResults, NextIteration, PostError,
       DeferredFinish, DeferredPost

LEMMA FreshSegment ==
    ASSUME NEW role \in {"user", "assistant"}, NEW r \in Runs, NEW open \in BOOLEAN
    PROVE  LET m == ViewMessage(role, r, open)
           IN  /\ m \in ViewMessages /\ m.role = role /\ m.run = r
               /\ m.content = <<>> /\ m.tools = <<>>
BY DEF ViewMessage, ViewMessages, Reasons

(* A message opened at the end.                                            *)
LEMMA SegmentAdded ==
    ASSUME NEW q \in Seq(ViewMessages), NEW m \in ViewMessages, NEW t,
           t = Append(q, m), m.content = <<>>,
           \A i \in DOMAIN q : OwnText(q[i])
    PROVE  /\ t \in Seq(ViewMessages) /\ t # <<>> /\ t[Len(t)] = m
           /\ Len(t) = Len(q) + 1 /\ \A i \in DOMAIN q : t[i] = q[i]
           /\ \A i \in DOMAIN t : OwnText(t[i])
<1>1. /\ t \in Seq(ViewMessages) /\ t # <<>> /\ Len(t) = Len(q) + 1 /\ t[Len(q) + 1] = m
      /\ DOMAIN t = 1 .. Len(q) + 1 /\ DOMAIN q = 1 .. Len(q) /\ Len(q) \in Nat
      /\ \A i \in DOMAIN q : t[i] = q[i]
  OBVIOUS
<1>2. OwnText(m)
  BY DEF Range, OwnText
<1>3. ASSUME NEW i \in DOMAIN t PROVE OwnText(t[i])
  BY <1>1, <1>2
<1>. QED
  BY <1>1, <1>3

LEMMA ShownStart ==
    ASSUME LoopInv, ShownText, StartSubmission
    PROVE  ShownText'
<1>. DEFINE u == ViewMessage("user", runID + 1, FALSE)
            a == ViewMessage("assistant", runID + 1, TRUE)
            v == Append(view, u)
<1>1. runID + 1 \in Runs /\ runID' = runID + 1
  BY AgentRunAssumption DEF StartSubmission, LoopInv, ControlType, Runs
<1>2. u \in ViewMessages /\ u.content = <<>>
  BY <1>1, FreshSegment
<1>3. a \in ViewMessages /\ a.content = <<>> /\ a.role = "assistant" /\ a.run = runID + 1
  BY <1>1, FreshSegment
<1>4. view' = Append(v, a)
  <2>1. view' = view \o <<u, a>> /\ view \in Seq(ViewMessages)
    BY DEF StartSubmission, ShownText
  <2>. HIDE DEF u, a
  <2>. QED
    BY <1>2, <1>3, <2>1
<1>. HIDE DEF u, a, v
<1>5. v \in Seq(ViewMessages) /\ \A i \in DOMAIN v : OwnText(v[i])
  BY <1>2, SegmentAdded DEF ShownText, v
<1>6. /\ view' \in Seq(ViewMessages) /\ view' # <<>> /\ view'[Len(view')] = a
      /\ \A i \in DOMAIN view' : OwnText(view'[i])
  BY <1>3, <1>4, <1>5, SegmentAdded
<1>. QED
  BY <1>1, <1>3, <1>6 DEF ShownText

LEMMA ShownFinish ==
    ASSUME ShownText, Following, NEW reason \in Reasons, finish(reason)
    PROVE  ShownText'
<1>1. /\ view' \in Seq(ViewMessages) /\ Len(view') = Len(view)
      /\ \A i \in DOMAIN view :
            view'[i].content = view[i].content /\ view'[i].run = view[i].run
      /\ ~Following'
  BY Finish
<1>2. DOMAIN view' = DOMAIN view /\ ~Following'
  BY <1>1 DEF ShownText
<1>3. ASSUME NEW i \in DOMAIN view' PROVE OwnText(view'[i])
  BY <1>1, <1>2 DEF ShownText, OwnText
<1>. QED
  BY <1>1, <1>2, <1>3 DEF ShownText

LEMMA ShownKept ==
    ASSUME ShownText, UNCHANGED <<view, streaming, runID>> PROVE ShownText'
<1>1. Following' <=> Following
  BY Zenon DEF Following
<1>. QED
  BY <1>1 DEF ShownText

LEMMA ShownClosure ==
    ASSUME LoopInv, ShownText, RunClosure
    PROVE  ShownText'
<1>. DEFINE e == Head(posted)
<1>1. /\ e \in Closures /\ UNCHANGED runID
      /\ ShowEvent(e) \/ StartAssistantSegment(e) \/ LoopComplete(e) \/ applyError(e)
         \/ RunEnded(e)
  BY TailKeeps DEF RunClosure, LoopInv, QueueType
<1>. HIDE DEF e
<1>0. e.run \in Runs /\ (Active(e) <=> e.run = runID /\ Following)
  <2>1. e.run \in Runs
    BY <1>1 DEF Closures
  <2>2. Active(e) <=> e.run = runID /\ Following
    <3>1. streaming \in BOOLEAN
      BY DEF LoopInv, ControlType
    <3>. QED
      BY <3>1, Zenon DEF Active, Following
  <2>. QED
    BY <2>1, <2>2
<1>2. ASSUME UNCHANGED <<view, streaming>> PROVE ShownText'
  BY <1>1, <1>2, ShownKept
<1>3. CASE ShowEvent(e)
  <2>1. CASE view' = view
    BY <1>2, <1>3, <2>1 DEF ShowEvent
  <2>2. CASE Active(e) /\ view' = Rendered(e)
    <3>. DEFINE m == view[Len(view)]
                shown == {i \in DOMAIN m.tools : m.tools[i].id = e.call}
    <3>1. /\ Following /\ e.run = runID /\ m \in ViewMessages
          /\ m.role = "assistant" /\ m.run = runID
          /\ OwnText(m) /\ Following' /\ UNCHANGED runID
      <4>1. Following' <=> Following
        BY <1>3, Zenon DEF ShowEvent, Following
      <4>. QED
        BY <1>0, <1>1, <2>2, <4>1, CurrentWhileStreaming DEF ShownText
    <3>2. \E n \in ViewMessages :
             /\ view' = [view EXCEPT ![Current] = n]
             /\ n.run = runID /\ n.role = "assistant" /\ OwnText(n)
      <4>. HIDE DEF m, shown
      <4>0. e.call \in CallIDs
        BY <1>1 DEF Closures, CallIDs
      <4>1. CASE view' = [view EXCEPT ![Current] = WithText(m, e.run)]
        BY <1>0, <3>1, <4>1, WithTextFits
      <4>2. CASE view' = [view EXCEPT ![Current] = WithCall(m, e.call)]
        <5>. DEFINE n == WithCall(m, e.call)
        <5>1. n \in ViewMessages /\ n.role = m.role /\ n.run = m.run /\ n.content = m.content
          BY <3>1, <4>0, WithCallFits
        <5>. HIDE DEF n
        <5>2. OwnText(n)
          BY <3>1, <5>1 DEF OwnText
        <5>. QED
          BY <3>1, <4>2, <5>1, <5>2 DEF n
      <4>3. CASE view' = [view EXCEPT ![Current] = WithResult(m, shown)]
        <5>. DEFINE n == WithResult(m, shown)
        <5>1. n \in ViewMessages /\ n.role = m.role /\ n.run = m.run /\ n.content = m.content
          BY <3>1, WithResultFits
        <5>. HIDE DEF n
        <5>2. OwnText(n)
          BY <3>1, <5>1 DEF OwnText
        <5>. QED
          BY <3>1, <4>3, <5>1, <5>2 DEF n
      <4>4. CASE view' = view
        <5>1. view' = [view EXCEPT ![Current] = m]
          BY <3>1, <4>4, CurrentWhileStreaming DEF m, ShownText
        <5>. QED
          BY <3>1, <5>1
      <4>. QED
        BY <1>1, <1>3, <2>2, <3>1, <4>1, <4>2, <4>3, <4>4, EventRendered DEF ShowEvent, m, shown
    <3>. QED
      BY <3>1, <3>2, SegmentSet
  <2>. QED
    BY <1>3, <2>1, <2>2 DEF ShowEvent
<1>4. CASE StartAssistantSegment(e)
  <2>1. CASE view' = view
    BY <1>2, <1>4, <2>1 DEF StartAssistantSegment
  <2>2. CASE Active(e) /\ view' = Append(view, ViewMessage("assistant", e.run, TRUE))
    <3>. DEFINE m == ViewMessage("assistant", e.run, TRUE)
    <3>1. m \in ViewMessages /\ m.role = "assistant" /\ m.run = e.run /\ m.content = <<>>
      BY <1>0, FreshSegment
    <3>a. view' = Append(view, m) /\ view \in Seq(ViewMessages)
      BY <2>2 DEF ShownText
    <3>. HIDE DEF m
    <3>2. /\ view' \in Seq(ViewMessages) /\ view' # <<>> /\ view'[Len(view')] = m
          /\ \A i \in DOMAIN view' : OwnText(view'[i])
      BY <3>1, <3>a, SegmentAdded DEF ShownText
    <3>3. runID' = runID /\ e.run = runID
      BY <1>0, <1>1, <2>2
    <3>. QED
      BY <3>1, <3>2, <3>3 DEF ShownText
  <2>. QED
    BY <1>4, <2>1, <2>2 DEF StartAssistantSegment
<1>5. CASE LoopComplete(e)
  <2>1. CASE Active(e) /\ finish("")
    BY <1>0, <2>1, ShownFinish, Zenon DEF Reasons
  <2>. QED
    BY <1>2, <1>5, <2>1 DEF LoopComplete
<1>6. CASE applyError(e)
  <2>1. CASE Active(e) /\ finish("error")
    BY <1>0, <2>1, ShownFinish, Zenon DEF Reasons
  <2>. QED
    BY <1>2, <1>6, <2>1 DEF applyError
<1>7. CASE RunEnded(e)
  BY <1>2, <1>7 DEF RunEnded
<1>. QED
  BY <1>1, <1>3, <1>4, <1>5, <1>6, <1>7

LEMMA ShownStep == LoopInv /\ ShownText /\ [Next]_vars => ShownText'
<1>. SUFFICES ASSUME LoopInv, ShownText, [Next]_vars PROVE ShownText'
  OBVIOUS
<1>1. CASE StartSubmission
  BY <1>1, ShownStart
<1>2. CASE Cancel
  <2>1. Following /\ finish("interrupted") /\ "interrupted" \in Reasons
    BY <1>2, Zenon DEF Cancel, LoopInv, ControlType, Reasons, Following
  <2>. QED
    BY <2>1, ShownFinish
<1>3. CASE NewSession
  <2>1. view' = <<>> /\ ~Following'
    BY <1>3, Zenon DEF NewSession, LoopInv, ControlType, Following
  <2>. QED
    BY <2>1, EmptySeq DEF ShownText
<1>4. CASE RunClosure
  BY <1>4, ShownClosure
<1>5. CASE (\E r \in Runs : Goroutine(r)) \/ UNCHANGED vars
  <2>1. UNCHANGED <<view, streaming, runID>>
    BY <1>5, GoroutineShowsNothing DEF uiVars, vars
  <2>. QED
    BY <2>1, ShownKept
<1>. QED
  BY <1>1, <1>2, <1>3, <1>4, <1>5 DEF Next

LEMMA TextInit == Init => TextInv /\ ShownText
<1>. SUFFICES ASSUME Init PROVE TextInv /\ ShownText
  OBVIOUS
<1>1. s = AddSystemMessage(New) /\ view = <<>> /\ runID = 0 /\ ~Following
  BY Zenon DEF Init, Following
<1>2. TextInv
  BY <1>1, LoopInit, NewLedger DEF TextInv
<1>3. ShownText
  BY <1>1 DEF ShownText
<1>. QED
  BY <1>2, <1>3

(* What a response says is shown and stored under its own prompt, however  *)
(* late its closures come and however its run ended.                       *)
THEOREM TextIsOfItsRun == Spec => []TextStaysWithItsRun
<1>1. TextInv /\ ShownText => TextStaysWithItsRun
  <2>. SUFFICES ASSUME TextInv, ShownText PROVE TextStaysWithItsRun
    OBVIOUS
  <2>1. \A m \in Range(view) : Range(m.content) \subseteq {m.run}
    BY DEF ShownText, OwnText, Range
  <2>2. ASSUME NEW i \in DOMAIN s.messages, NEW d \in Range(s.messages[i].content),
               NEW j \in i + 1 .. Len(s.messages)
        PROVE  \/ d \notin Range(s.messages[j].content)
               \/ \A k \in i .. j : s.messages[k].role # "user"
    <3>1. s.messages \in Seq(LedgerMessages)
      BY DEF TextInv, TextFits, Ledgers
    <3>2. j \in DOMAIN s.messages /\ i < j
      BY <3>1
    <3>3. s.messages[i] \in LedgerMessages
      BY <3>1
    <3>4. s.messages[i].content \in Seq(Runs)
      BY <3>3 DEF LedgerMessages
    <3>5. d \in Runs
      BY <3>4 DEF Range
    <3>. QED
      BY <3>2, <3>5 DEF TextInv, TextFits, Says
  <2>. QED
    BY <2>1, <2>2 DEF TextStaysWithItsRun
<1>2. TextInv /\ ShownText /\ [Next]_vars => TextInv' /\ ShownText'
  BY TextStep, ShownStep DEF TextInv
<1>. QED
  BY <1>1, <1>2, TextInit, PTL DEF Spec

(***************************************************************************)
(* Results on the screen                                                   *)
(***************************************************************************)

(* The outcome of a run is that of its loop, and only a run whose context  *)
(* is cancelled is being cancelled.                                        *)
Outcomes ==
    /\ returned \in [Runs -> {"none", "nil", "error"}]
    /\ \A r \in Runs : pc[r] = "none" \/ InLoop(r) => returned[r] = "none"
    /\ \A r \in Runs : pc[r] = "failed" => returned[r] = "error"
    /\ cancelling = TRUE => runID \in ctxDone

(* No run so far has been cancelled or has failed.                         *)
Clean == \A r \in 1 .. runID : r \notin ctxDone /\ returned[r] # "error"

(* All events in the queue are of the run the UI follows, none is an error,*)
(* and a completion comes after the others.                                *)
Followed(q) ==
    \A j \in DOMAIN q :
        /\ q[j].kind # "last" => q[j].run = runID /\ Following
        /\ q[j].kind # "error"
        /\ q[j].kind = "complete" => \A k \in DOMAIN q : k > j => q[k].kind = "last"

OnScreen(v, c) ==
    v # <<>> /\ \E t \in DOMAIN v[Len(v)].tools : v[Len(v)].tools[t].id = c

(* The tool call is in the current segment once the closures before the    *)
(* n-th have been executed.                                                *)
Announced(q, v, c, n) ==
    \E i \in 0 .. n - 1 :
        /\ \A k \in i + 1 .. n - 1 : q[k].kind # "turn"
        /\ \/ i = 0 /\ OnScreen(v, c)
           \/ i > 0 /\ q[i].kind = "toolcall" /\ q[i].call = c

InOrder(q, v) ==
    \A j \in DOMAIN q : q[j].kind = "toolresult" => Announced(q, v, q[j].call, j)

ShownDone(v, c) ==
    \E i \in DOMAIN v : \E t \in DOMAIN v[i].tools :
        v[i].tools[t].id = c /\ v[i].tools[t].done = TRUE

ResultComes(q, c) == \E j \in DOMAIN q : q[j].kind = "toolresult" /\ q[j].call = c

OnTheirWay(q, v, l) ==
    \A i \in DOMAIN l : l[i].role = "tool" =>
        ShownDone(v, l[i].answers) \/ ResultComes(q, l[i].answers)

LastCalls(l) == l[Len(l)].calls

CallsAreAnnounced ==
    \A r \in Runs : pc[r] \in {"stream", "stopped", "tools"} /\ LastCalls(s.messages) # <<>> =>
        Announced(posted, view, CallID(r), Len(posted) + 1)

RequestsAreFresh == \A r \in Runs : pc[r] = "request" => LastCalls(s.messages) = <<>>

Flow ==
    /\ Followed(posted) /\ InOrder(posted, view) /\ OnTheirWay(posted, view, s.messages)
    /\ CallsAreAnnounced /\ RequestsAreFresh

CleanFlow == Clean => Flow

(* One more closure in the queue.                                          *)
LEMMA QueueGrows ==
    ASSUME NEW q \in Seq(Closures), NEW e \in Closures, NEW t, t = Append(q, e)
    PROVE  /\ t \in Seq(Closures) /\ Len(t) = Len(q) + 1 /\ t[Len(q) + 1] = e
           /\ DOMAIN q = 1 .. Len(q) /\ DOMAIN t = 1 .. Len(q) + 1 /\ Len(q) \in Nat
           /\ \A j \in DOMAIN q : t[j] = q[j]
OBVIOUS

LEMMA AnnouncedGrows ==
    ASSUME NEW q \in Seq(Closures), NEW e \in Closures, NEW t, t = Append(q, e),
           NEW v, NEW c, NEW n \in 1 .. Len(q) + 1, Announced(q, v, c, n)
    PROVE  /\ Announced(t, v, c, n)
           /\ n = Len(q) + 1 /\ e.kind # "turn" => Announced(t, v, c, n + 1)
<1>1. PICK i \in 0 .. n - 1 :
          /\ \A k \in i + 1 .. n - 1 : q[k].kind # "turn"
          /\ \/ i = 0 /\ OnScreen(v, c)
             \/ i > 0 /\ q[i].kind = "toolcall" /\ q[i].call = c
  BY DEF Announced
<1>2. /\ \A k \in i + 1 .. n - 1 : t[k].kind # "turn"
      /\ \/ i = 0 /\ OnScreen(v, c)
         \/ i > 0 /\ t[i].kind = "toolcall" /\ t[i].call = c
  BY <1>1, QueueGrows
<1>3. Announced(t, v, c, n)
  BY <1>2 DEF Announced
<1>4. ASSUME n = Len(q) + 1, e.kind # "turn" PROVE Announced(t, v, c, n + 1)
  <2>1. i \in 0 .. (n + 1) - 1 /\ \A k \in i + 1 .. (n + 1) - 1 : t[k].kind # "turn"
    BY <1>2, <1>4, QueueGrows
  <2>. QED
    BY <1>2, <2>1 DEF Announced
<1>. QED
  BY <1>3, <1>4

LEMMA Queued ==
    ASSUME NEW q \in Seq(Closures), NEW e \in Closures, NEW t, t = Append(q, e), NEW v,
           Followed(q), InOrder(q, v),
           e.kind # "last" =>
              /\ e.run = runID /\ Following /\ e.kind # "error"
              /\ \A j \in DOMAIN q : q[j].kind # "complete",
           e.kind = "toolresult" => Announced(q, v, e.call, Len(q) + 1)
    PROVE  Followed(t) /\ InOrder(t, v)
<1>1. Followed(t)
  BY QueueGrows DEF Followed
<1>2. ASSUME NEW j \in DOMAIN t, t[j].kind = "toolresult" PROVE Announced(t, v, t[j].call, j)
  <2>1. CASE j \in DOMAIN q
    <3>1. t[j] = q[j] /\ j \in 1 .. Len(q) + 1
      BY <2>1, QueueGrows
    <3>2. Announced(q, v, q[j].call, j)
      BY <1>2, <2>1, <3>1 DEF InOrder
    <3>. QED
      BY <3>1, <3>2, AnnouncedGrows
  <2>2. CASE j = Len(q) + 1
    <3>1. t[j] = e /\ j \in 1 .. Len(q) + 1
      BY <2>2, QueueGrows
    <3>. QED
      BY <1>2, <2>2, <3>1, AnnouncedGrows
  <2>. QED
    BY <2>1, <2>2, QueueGrows
<1>. QED
  BY <1>1, <1>2 DEF InOrder

LEMMA ResultsGrow ==
    ASSUME NEW q \in Seq(Closures), NEW e \in Closures, NEW t, t = Append(q, e)
    PROVE  /\ \A c : ResultComes(q, c) => ResultComes(t, c)
           /\ e.kind = "toolresult" => ResultComes(t, e.call)
BY QueueGrows DEF ResultComes

(* One closure less: what it has changed in the transcript is kept.        *)
ToolsKept(v, w) ==
    \A i \in DOMAIN v :
        /\ i \in DOMAIN w
        /\ \A t \in DOMAIN v[i].tools :
              /\ t \in DOMAIN w[i].tools /\ w[i].tools[t].id = v[i].tools[t].id
              /\ v[i].tools[t].done = TRUE => w[i].tools[t].done = TRUE

LEMMA DoneIsKept ==
    ASSUME NEW v, NEW w, ToolsKept(v, w), NEW c
    PROVE  /\ ShownDone(v, c) => ShownDone(w, c)
           /\ v \in Seq(ViewMessages) /\ w \in Seq(ViewMessages) /\ Len(w) = Len(v) =>
                 (OnScreen(v, c) => OnScreen(w, c))
<1>1. ShownDone(v, c) => ShownDone(w, c)
  BY DEF ToolsKept, ShownDone
<1>2. ASSUME v \in Seq(ViewMessages), w \in Seq(ViewMessages), Len(w) = Len(v), OnScreen(v, c)
      PROVE  OnScreen(w, c)
  <2>1. Len(v) \in DOMAIN v /\ w # <<>>
    BY <1>2 DEF OnScreen
  <2>. QED
    BY <1>2, <2>1 DEF ToolsKept, OnScreen
<1>. QED
  BY <1>1, <1>2

LEMMA TailIs ==
    ASSUME NEW q \in Seq(Closures), q # <<>>, NEW t, t = Tail(q)
    PROVE  /\ t \in Seq(Closures) /\ Len(q) \in Nat /\ Len(t) = Len(q) - 1
           /\ DOMAIN q = 1 .. Len(q) /\ DOMAIN t = 1 .. Len(q) - 1 /\ 1 \in DOMAIN q
           /\ \A j \in DOMAIN t : j + 1 \in DOMAIN q /\ t[j] = q[j + 1]
OBVIOUS

LEMMA AnnouncedStays ==
    ASSUME NEW q \in Seq(Closures), q # <<>>, NEW t, t = Tail(q), NEW v, NEW w, NEW c,
           NEW n \in 2 .. Len(q) + 1, Announced(q, v, c, n),
           OnScreen(v, c) /\ q[1].kind # "turn" => OnScreen(w, c),
           q[1].kind = "toolcall" /\ q[1].call = c => OnScreen(w, c)
    PROVE  Announced(t, w, c, n - 1)
<1>1. PICK i \in 0 .. n - 1 :
          /\ \A k \in i + 1 .. n - 1 : q[k].kind # "turn"
          /\ \/ i = 0 /\ OnScreen(v, c)
             \/ i > 0 /\ q[i].kind = "toolcall" /\ q[i].call = c
  BY DEF Announced
<1>2. n \in Nat /\ i \in Nat /\ \A k \in 1 .. n - 2 : t[k] = q[k + 1]
  BY TailIs
<1>3. \A k \in i .. n - 2 : k > 0 => t[k].kind # "turn"
  BY <1>1, <1>2
<1>4. CASE i \in {0, 1}
  <2>1. OnScreen(w, c)
    BY <1>1, <1>4
  <2>2. 0 \in 0 .. (n - 1) - 1 /\ \A k \in 0 + 1 .. (n - 1) - 1 : t[k].kind # "turn"
    BY <1>2, <1>3, <1>4
  <2>. QED
    BY <2>1, <2>2 DEF Announced
<1>5. CASE i > 1
  <2>1. i - 1 \in 0 .. (n - 1) - 1 /\ i - 1 > 0
        /\ (i - 1) + 1 = i /\ (n - 1) - 1 = n - 2 /\ \A k \in i .. n - 2 : k > 0
    BY <1>2, <1>5
  <2>2. t[i - 1] = q[i]
    BY <1>2, <1>5
  <2>. QED
    <3>. DEFINE h == i - 1
                m == n - 1
    <3>1. h \in 0 .. m - 1 /\ h > 0 /\ h + 1 = i /\ m - 1 = n - 2
      BY <2>1
    <3>2. \A k \in h + 1 .. m - 1 : t[k].kind # "turn"
      BY <1>3, <2>1, <3>1
    <3>3. t[h].kind = "toolcall" /\ t[h].call = c
      BY <1>1, <1>5, <2>2
    <3>. HIDE DEF h, m
    <3>4. Announced(t, w, c, m)
      BY <3>1, <3>2, <3>3 DEF Announced
    <3>. QED
      BY <3>4 DEF m
<1>. QED
  BY <1>2, <1>4, <1>5

(* The closure at the head leaves the rest in order, if it keeps the tools *)
(* of the transcript, adds the call it announces and marks the one it      *)
(* answers.                                                                *)
LEMMA Executed ==
    ASSUME NEW q \in Seq(Closures), q # <<>>, NEW t, t = Tail(q),
           NEW v, NEW w, NEW l,
           InOrder(q, v), OnTheirWay(q, v, l),
           ToolsKept(v, w),
           \A c : OnScreen(v, c) /\ q[1].kind # "turn" => OnScreen(w, c),
           q[1].kind = "toolcall" => OnScreen(w, q[1].call),
           q[1].kind = "toolresult" /\ OnScreen(v, q[1].call) => ShownDone(w, q[1].call)
    PROVE  /\ t \in Seq(Closures) /\ InOrder(t, w) /\ OnTheirWay(t, w, l)
           /\ \A c : Announced(q, v, c, Len(q) + 1) => Announced(t, w, c, Len(t) + 1)
<1>0. \A c : q[1].kind = "toolcall" /\ q[1].call = c => OnScreen(w, c)
  OBVIOUS
<1>1. ASSUME NEW c, NEW n \in 2 .. Len(q) + 1, Announced(q, v, c, n)
      PROVE  Announced(t, w, c, n - 1)
  BY <1>0, <1>1, AnnouncedStays
<1>2. InOrder(t, w)
  <2>. SUFFICES ASSUME NEW j \in DOMAIN t, t[j].kind = "toolresult"
                PROVE  Announced(t, w, t[j].call, j)
    BY DEF InOrder
  <2>a. /\ DOMAIN t = 1 .. Len(q) - 1 /\ Len(q) \in Nat
        /\ j + 1 \in DOMAIN q /\ t[j] = q[j + 1]
    BY TailIs
  <2>1. j + 1 \in 2 .. Len(q) + 1 /\ j + 1 \in DOMAIN q /\ t[j] = q[j + 1] /\ (j + 1) - 1 = j
    BY <2>a
  <2>2. Announced(q, v, t[j].call, j + 1)
    BY <2>1 DEF InOrder
  <2>. QED
    BY <1>1, <2>1, <2>2
<1>3. ASSUME NEW c, ShownDone(v, c) \/ ResultComes(q, c)
      PROVE  ShownDone(w, c) \/ ResultComes(t, c)
  <2>1. CASE ShownDone(v, c)
    BY <2>1, DoneIsKept
  <2>2. CASE ResultComes(q, c)
    <3>1. PICK j \in DOMAIN q : q[j].kind = "toolresult" /\ q[j].call = c
      BY <2>2 DEF ResultComes
    <3>2. CASE j = 1
      <4>1. Announced(q, v, c, 1)
        BY <3>1, <3>2 DEF InOrder
      <4>2. OnScreen(v, c)
        BY <4>1 DEF Announced
      <4>. QED
        BY <3>1, <3>2, <4>2
    <3>3. CASE j > 1
      <4>1. j - 1 \in DOMAIN t /\ t[j - 1] = q[j]
        BY <3>3, TailIs
      <4>. QED
        BY <3>1, <4>1 DEF ResultComes
    <3>. QED
      BY <3>2, <3>3, TailIs
  <2>. QED
    BY <1>3, <2>1, <2>2
<1>4. OnTheirWay(t, w, l)
  BY <1>3 DEF OnTheirWay
<1>5. \A c : Announced(q, v, c, Len(q) + 1) => Announced(t, w, c, Len(t) + 1)
  BY <1>1, TailIs
<1>. QED
  BY <1>2, <1>4, <1>5, TailIs

Loop == {"request", "stream", "stopped", "tools", "answered"}

(* A run's outcome is set when it leaves its loop.                         *)
Returns(r) ==
    /\ UNCHANGED <<cancelling, runID, ctxDone>>
    /\ \E from, to \in Positions \ {"none"} :
          /\ pc[r] = from /\ pc' = [pc EXCEPT ![r] = to]
          /\ \/ /\ UNCHANGED returned /\ to # "failed"
                /\ to \in Loop => from \in Loop
             \/ /\ from \in Loop /\ to = "deferred"
                /\ returned' = [returned EXCEPT ![r] = "nil"]
             \/ /\ from \in Loop /\ to = "failed"
                /\ returned' = [returned EXCEPT ![r] = "error"]

LEMMA GoroutineReturns ==
    ASSUME LoopInv, NEW r \in Runs, Goroutine(r)
    PROVE  Returns(r)
<1>0. pc \in [Runs -> Positions] /\ UNCHANGED <<cancelling, runID, ctxDone>>
  BY GoroutineShowsNothing DEF LoopInv, ControlType, uiVars
<1>1. ASSUME NEW from \in Loop, ReturnError(r, from) PROVE Returns(r)
  BY <1>0, <1>1 DEF ReturnError, Go, Returns, Loop, Positions
<1>2. ASSUME NEW from \in Positions \ {"none"}, NEW to \in Positions \ {"none", "failed"},
             Go(r, from, to), UNCHANGED returned, to \in Loop => from \in Loop
      PROVE  Returns(r)
  BY <1>0, <1>2 DEF Go, Returns
<1>3. CASE Request(r)
  BY <1>1, <1>2, <1>3 DEF Request, Loop, Positions
<1>4. CASE VisitMessage(r) \/ VisitToolCallStart(r)
  <2>1. pc[r] = "stream" /\ UNCHANGED <<pc, returned>>
    BY <1>4 DEF VisitMessage, VisitToolCallStart
  <2>2. Go(r, "stream", "stream")
    BY <1>0, <2>1 DEF Go
  <2>. QED
    BY <1>2, <2>1, <2>2 DEF Loop, Positions
<1>5. CASE StopForTools(r)
  BY <1>2, <1>5 DEF StopForTools, Loop, Positions
<1>6. CASE SeeCancelled(r) \/ StreamFails(r)
  BY <1>1, <1>6 DEF SeeCancelled, StreamFails, Loop
<1>7. CASE Complete(r)
  BY <1>0, <1>7 DEF Complete, ReturnNil, Go, Returns, Loop, Positions
<1>8. CASE DispatchTools(r) \/ StoreResults(r)
  BY <1>2, <1>8 DEF DispatchTools, StoreResults, Loop, Positions
<1>9. CASE NextIteration(r)
  BY <1>2, <1>9 DEF NextIteration, Loop, Positions
<1>10. CASE PostError(r) \/ DeferredFinish(r) \/ DeferredPost(r)
  BY <1>2, <1>10 DEF PostError, DeferredFinish, DeferredPost, Loop, Positions
<1>. QED
  BY <1>3, <1>4, <1>5, <1>6, <1>7, <1>8, <1>9, <1>10 DEF Goroutine

LEMMA OutcomesStep ==
    LoopInv /\ Outcomes /\ [Next]_vars => Outcomes' /\ (Clean' => Clean)
<1>. SUFFICES ASSUME LoopInv, Outcomes, [Next]_vars PROVE Outcomes' /\ (Clean' => Clean)
  OBVIOUS
<1>0. /\ returned \in [Runs -> {"none", "nil", "error"}] /\ pc \in [Runs -> Positions]
      /\ runID \in Nat /\ runID <= MaxRuns /\ Runs = 1 .. MaxRuns /\ MaxRuns \in Nat
  BY AgentRunAssumption DEF LoopInv, ControlType, Outcomes, Runs
<1>1. CASE StartSubmission
  <2>1. /\ runID + 1 \in Runs /\ runID' = runID + 1 /\ UNCHANGED <<ctxDone, returned>>
        /\ pc' = [pc EXCEPT ![runID + 1] = "request"]
        /\ pc[runID + 1] = "none"
    BY <1>0, <1>1 DEF StartSubmission, LoopInv, Numbered
  <2>2. ~(cancelling' = TRUE)
    BY <1>1, Zenon DEF StartSubmission
  <2>. QED
    BY <1>0, <2>1, <2>2 DEF Outcomes, Clean, InLoop
<1>2. CASE Cancel
  <2>1. UNCHANGED <<runID, returned, pc>> /\ ctxDone' = ctxDone \cup {runID}
    BY <1>2 DEF Cancel
  <2>. QED
    BY <2>1 DEF Outcomes, Clean, InLoop
<1>3. CASE NewSession
  BY <1>3 DEF NewSession, Outcomes, Clean, InLoop
<1>4. CASE RunClosure
  <2>1. UNCHANGED <<runID, returned, pc, ctxDone>>
    BY <1>4 DEF RunClosure
  <2>2. cancelling' = TRUE => cancelling = TRUE
    BY <1>4 DEF RunClosure, ShowEvent, StartAssistantSegment, LoopComplete, applyError, RunEnded,
                LoopInv, ControlType
  <2>. QED
    BY <2>1, <2>2 DEF Outcomes, Clean, InLoop
<1>5. CASE \E r \in Runs : Goroutine(r)
  <2>1. PICK r \in Runs : Returns(r)
    BY <1>5, GoroutineReturns
  <2>2. UNCHANGED <<cancelling, runID, ctxDone>>
    BY <2>1 DEF Returns
  <2>3. PICK from, to \in Positions \ {"none"} :
          /\ pc[r] = from /\ pc' = [pc EXCEPT ![r] = to]
          /\ \/ /\ UNCHANGED returned /\ to # "failed"
                /\ to \in Loop => from \in Loop
             \/ /\ from \in Loop /\ to = "deferred"
                /\ returned' = [returned EXCEPT ![r] = "nil"]
             \/ /\ from \in Loop /\ to = "failed"
                /\ returned' = [returned EXCEPT ![r] = "error"]
    BY <2>1 DEF Returns
  <2>4. from \in Loop => returned[r] = "none"
    BY <2>3 DEF Outcomes, InLoop, Loop
  <2>5. returned' \in [Runs -> {"none", "nil", "error"}]
    BY <1>0, <2>3
  <2>6. \A q \in Runs : /\ returned[q] = "error" => returned'[q] = "error"
                        /\ pc'[q] = "none" \/ InLoop(q)' => returned'[q] = "none"
                        /\ pc'[q] = "failed" => returned'[q] = "error"
    BY <1>0, <2>3, <2>4 DEF Outcomes, InLoop, Loop
  <2>. QED
    BY <1>0, <2>2, <2>5, <2>6 DEF Outcomes, Clean
<1>6. CASE UNCHANGED vars
  BY <1>6 DEF vars, uiVars, Outcomes, Clean, InLoop
<1>. QED
  BY <1>1, <1>2, <1>3, <1>4, <1>5, <1>6 DEF Next

FlowInv == TextInv /\ ShownText /\ Outcomes /\ CleanFlow

(* While no run is followed nothing is on its way to the screen.           *)
LEMMA IdleQueue ==
    ASSUME FlowInv, Flow, ~Following
    PROVE  /\ \A j \in DOMAIN posted : posted[j].kind = "last"
           /\ \A v : InOrder(posted, v) /\ \A c : ~ResultComes(posted, c)
<1>1. \A j \in DOMAIN posted : posted[j].kind = "last"
  BY DEF Flow, Followed
<1>. QED
  BY <1>1 DEF InOrder, ResultComes

LEMMA FlowStart ==
    ASSUME FlowInv, Flow, StartSubmission
    PROVE  Flow'
<1>. DEFINE q == AddUserMessage(s)
            u == Message(s.msgSeq + 1, "user", <<>>, NoCall, FALSE)
            a == Message(q.msgSeq + 1, "assistant", <<>>, NoCall, TRUE)
<1>0. LoopInv /\ s \in Ledgers /\ view \in Seq(ViewMessages)
  BY DEF FlowInv, TextInv, TextFits, ShownText
<1>1. ~Following /\ ~cancelling /\ UNCHANGED posted
  BY Zenon DEF StartSubmission, Following
<1>2. /\ \A j \in DOMAIN posted : posted[j].kind = "last"
      /\ \A v : InOrder(posted, v) /\ \A c : ~ResultComes(posted, c)
  BY <1>1, IdleQueue
<1>3. \A r \in Runs : ~InLoop(r)
  <2>1. ~streaming
    BY DEF StartSubmission
  <2>. QED
    BY <1>0, <1>1, <2>1 DEF LoopInv, OneLoopAtATime
<1>4. u \in LedgerMessages /\ q \in Ledgers /\ q.messages = Append(s.messages, u)
  BY <1>0, Added DEF AddUserMessage, Roles
<1>5. u.role = "user"
  BY DEF Message
<1>6. s' = StartAssistantMessage(q)
  BY DEF StartSubmission
<1>. HIDE DEF u, q
<1>7. a \in LedgerMessages /\ s' \in Ledgers /\ s'.messages = Append(q.messages, a)
  BY <1>4, <1>6, Added DEF StartAssistantMessage, Roles
<1>8. a.calls = <<>> /\ a.role = "assistant"
  BY DEF Message
<1>. HIDE DEF a
<1>9. /\ Len(s'.messages) = Len(s.messages) + 2 /\ Len(s.messages) \in Nat
      /\ DOMAIN s'.messages = 1 .. Len(s.messages) + 2
      /\ DOMAIN s.messages = 1 .. Len(s.messages)
      /\ \A i \in DOMAIN s.messages : s'.messages[i] = s.messages[i]
      /\ s'.messages[Len(s.messages) + 1] = u /\ s'.messages[Len(s.messages) + 2] = a
  BY <1>0, <1>4, <1>7 DEF Ledgers
<1>10. ToolsKept(view, view')
  <2>. DEFINE x == ViewMessage("user", runID + 1, FALSE)
              y == ViewMessage("assistant", runID + 1, TRUE)
  <2>1. view' = view \o <<x, y>>
    BY DEF StartSubmission
  <2>. HIDE DEF x, y
  <2>2. \A i \in DOMAIN view : i \in DOMAIN view' /\ view'[i] = view[i]
    BY <1>0, <2>1
  <2>. QED
    BY <2>2 DEF ToolsKept
<1>11. Followed(posted)'
  BY <1>1, <1>2 DEF Followed
<1>12. OnTheirWay(posted, view, s.messages)'
  <2>1. \A i \in DOMAIN s.messages : s.messages[i].role = "tool" => ShownDone(view', s.messages[i].answers)
    BY <1>2, <1>10, DoneIsKept DEF FlowInv, Flow, OnTheirWay
  <2>2. \A i \in DOMAIN s'.messages : s'.messages[i].role = "tool" => i \in DOMAIN s.messages
    BY <1>5, <1>8, <1>9
  <2>. QED
    BY <1>9, <2>1, <2>2 DEF OnTheirWay
<1>13. LastCalls(s'.messages) = <<>>
  BY <1>8, <1>9 DEF LastCalls
<1>. QED
  BY <1>1, <1>2, <1>11, <1>12, <1>13 DEF Flow, CallsAreAnnounced, RequestsAreFresh

LEMMA FlowNew ==
    ASSUME FlowInv, Flow, NewSession
    PROVE  Flow'
<1>1. ~Following /\ ~streaming /\ ~cancelling /\ UNCHANGED <<posted, pc>>
      /\ s' = AddSystemMessage(New)
  BY Zenon DEF NewSession, Following
<1>2. /\ \A j \in DOMAIN posted : posted[j].kind = "last"
      /\ \A v : InOrder(posted, v)
  BY <1>1, IdleQueue
<1>3. \A r \in Runs : ~InLoop(r)'
  BY <1>1 DEF FlowInv, TextInv, LoopInv, OneLoopAtATime, InLoop
<1>4. \A i \in DOMAIN s'.messages : s'.messages[i].role = "system"
  <2>. DEFINE m == Message(New.msgSeq + 1, "system", <<>>, NoCall, FALSE)
  <2>1. New \in Ledgers /\ New.messages = <<>>
    BY DEF New, Ledgers
  <2>2. s'.messages = Append(New.messages, m)
    BY <1>1, <2>1, Added DEF AddSystemMessage, Roles
  <2>3. m.role = "system"
    BY DEF Message
  <2>. HIDE DEF m
  <2>. QED
    BY <2>1, <2>2, <2>3
<1>5. Followed(posted)' /\ OnTheirWay(posted, view, s.messages)'
  BY <1>1, <1>2, <1>4 DEF Followed, OnTheirWay
<1>. QED
  BY <1>1, <1>2, <1>3, <1>5 DEF Flow, CallsAreAnnounced, RequestsAreFresh, InLoop

(* What an executed closure makes of the transcript.                       *)
LEMMA ClosureKeeps ==
    ASSUME FlowInv, Flow, RunClosure
    PROVE  LET e == Head(posted)
           IN  /\ ToolsKept(view, view')
               /\ \A c : OnScreen(view, c) /\ e.kind # "turn" => OnScreen(view', c)
               /\ e.kind = "toolcall" => OnScreen(view', e.call)
               /\ e.kind = "toolresult" /\ OnScreen(view, e.call) => ShownDone(view', e.call)
               /\ (Following' <=> Following) \/ e.kind = "complete"
<1>. DEFINE e == Head(posted)
<1>0. LoopInv /\ ShownText /\ view \in Seq(ViewMessages)
  BY DEF FlowInv, TextInv, ShownText
<1>1. /\ posted # <<>> /\ posted \in Seq(Closures) /\ e \in Closures
      /\ posted[1] = e /\ 1 \in DOMAIN posted
      /\ ShowEvent(e) \/ StartAssistantSegment(e) \/ LoopComplete(e) \/ applyError(e)
         \/ RunEnded(e)
  BY <1>0, TailKeeps DEF RunClosure, LoopInv, QueueType
<1>. HIDE DEF e
<1>2. e.kind # "error" /\ (e.kind # "last" => e.run = runID /\ Following)
  BY <1>1 DEF Flow, Followed
<1>3. e.kind # "last" => Active(e)
  <2>1. streaming \in BOOLEAN
    BY <1>0 DEF LoopInv, ControlType
  <2>. QED
    BY <1>2, <2>1, Zenon DEF Active, Following
<1>4. ShownText'
  BY <1>0, ShownClosure
<1>5. ASSUME UNCHANGED view
      PROVE  ToolsKept(view, view') /\ \A c : OnScreen(view, c) => OnScreen(view', c)
  BY <1>5 DEF ToolsKept
<1>6. CASE ShowEvent(e)
  <2>. DEFINE m == view[Len(view)]
              shown == {i \in DOMAIN m.tools : m.tools[i].id = e.call}
  <2>0. /\ Following' <=> Following
        /\ e.kind \in {"stream", "toolcall", "toolresult"}
    BY <1>6, Zenon DEF ShowEvent, Following
  <2>1. /\ AssistantAt # {} /\ Current = Len(view) /\ Current \in DOMAIN view
        /\ view[Current] \in ViewMessages /\ view[Current].role = "assistant"
        /\ view[Current].run = runID /\ e.run = runID /\ Following
        /\ view' = Rendered(e)
    <3>1. e.run = runID /\ Following /\ Active(e)
      BY <1>2, <1>3, <2>0
    <3>. QED
      BY <1>0, <1>6, <3>1, CurrentWhileStreaming DEF ShowEvent
  <2>2. e.run \in Runs /\ e.call \in CallIDs /\ m \in ViewMessages
    BY <1>1, <2>1 DEF Closures, CallIDs
  <2>. HIDE DEF m
  <2>3. ASSUME NEW n \in ViewMessages, view' = [view EXCEPT ![Current] = n],
               \A t \in DOMAIN m.tools :
                  /\ t \in DOMAIN n.tools /\ n.tools[t].id = m.tools[t].id
                  /\ m.tools[t].done = TRUE => n.tools[t].done = TRUE
        PROVE  /\ ToolsKept(view, view') /\ \A c : OnScreen(view, c) => OnScreen(view', c)
               /\ view' # <<>> /\ view'[Len(view')] = n /\ Len(view') \in DOMAIN view'
    <3>1. /\ view' \in Seq(ViewMessages) /\ Len(view') = Len(view) /\ view'[Len(view)] = n
          /\ \A i \in DOMAIN view : i # Len(view) => view'[i] = view[i]
      BY <1>0, <2>1, <2>3, SetAt
    <3>2. DOMAIN view' = DOMAIN view
      BY <1>0, <3>1
    <3>3. ToolsKept(view, view')
      BY <2>3, <3>1, <3>2 DEF ToolsKept, m
    <3>. QED
      BY <1>0, <2>1, <3>1, <3>2, <3>3, DoneIsKept
  <2>4. CASE e.kind = "stream"
    <3>. DEFINE n == WithText(m, e.run)
    <3>1. n \in ViewMessages /\ n.tools = m.tools
      BY <2>2, WithTextFits
    <3>2. view' = [view EXCEPT ![Current] = n]
      BY <1>0, <1>1, <1>3, <2>0, <2>1, <2>4, EventRendered DEF m
    <3>. HIDE DEF n
    <3>. QED
      BY <2>0, <2>3, <2>4, <3>1, <3>2 DEF e
  <2>5. CASE e.kind = "toolcall" /\ shown # {} /\ view' = view
    <3>1. OnScreen(view, e.call)
      BY <1>0, <2>1, <2>5 DEF OnScreen, m
    <3>. QED
      BY <1>5, <2>0, <2>5, <3>1 DEF e
  <2>6. CASE e.kind = "toolcall" /\ view' = [view EXCEPT ![Current] = WithCall(m, e.call)]
    <3>. DEFINE n == WithCall(m, e.call)
    <3>1. /\ n \in ViewMessages /\ Len(n.tools) = Len(m.tools) + 1
          /\ n.tools[Len(m.tools) + 1].id = e.call
          /\ \A i \in DOMAIN m.tools : n.tools[i] = m.tools[i]
      BY <2>2, WithCallFits
    <3>. HIDE DEF n
    <3>2. m.tools \in Seq(Tool) /\ n.tools \in Seq(Tool)
      BY <2>2, <3>1 DEF ViewMessages
    <3>3. Len(m.tools) + 1 \in DOMAIN n.tools /\ \A t \in DOMAIN m.tools : t \in DOMAIN n.tools
      BY <3>1, <3>2
    <3>4. /\ ToolsKept(view, view') /\ \A c : OnScreen(view, c) => OnScreen(view', c)
          /\ view' # <<>> /\ view'[Len(view')] = n
      BY <2>3, <2>6, <3>1, <3>3 DEF n
    <3>5. OnScreen(view', e.call)
      BY <3>1, <3>3, <3>4 DEF OnScreen
    <3>. QED
      BY <2>0, <2>6, <3>4, <3>5 DEF e
  <2>7. CASE e.kind = "toolresult"
    <3>. DEFINE n == WithResult(m, shown)
    <3>1. view' = [view EXCEPT ![Current] = n]
      BY <1>0, <1>1, <1>3, <2>0, <2>1, <2>7, EventRendered DEF m
    <3>2. /\ n \in ViewMessages /\ DOMAIN n.tools = DOMAIN m.tools
          /\ \A i \in DOMAIN m.tools :
                /\ n.tools[i].id = m.tools[i].id
                /\ m.tools[i].done = TRUE \/ i \in shown => n.tools[i].done = TRUE
      BY <2>2, WithResultFits
    <3>. HIDE DEF n
    <3>3. /\ ToolsKept(view, view') /\ \A c : OnScreen(view, c) => OnScreen(view', c)
          /\ view'[Len(view')] = n /\ Len(view') \in DOMAIN view'
      BY <2>3, <3>1, <3>2
    <3>4. ASSUME OnScreen(view, e.call) PROVE ShownDone(view', e.call)
      <4>1. PICK t \in DOMAIN m.tools : m.tools[t].id = e.call
        BY <3>4 DEF OnScreen, m
      <4>2. t \in DOMAIN n.tools /\ n.tools[t].id = e.call /\ n.tools[t].done = TRUE
        BY <3>2, <4>1
      <4>. QED
        BY <3>3, <4>2 DEF ShownDone
    <3>. QED
      BY <2>0, <2>7, <3>3, <3>4 DEF e
  <2>. QED
    <3>1. e.kind = "toolcall" => \/ shown # {} /\ view' = view
                                 \/ view' = [view EXCEPT ![Current] = WithCall(m, e.call)]
      BY <1>0, <1>1, <1>3, <2>0, <2>1, EventRendered DEF m
    <3>. QED
      BY <2>0, <2>4, <2>5, <2>6, <2>7, <3>1
<1>7. CASE StartAssistantSegment(e)
  <2>. DEFINE m == ViewMessage("assistant", e.run, TRUE)
  <2>1. view' = Append(view, m) /\ e.kind = "turn"
    BY <1>3, <1>7 DEF StartAssistantSegment
  <2>. HIDE DEF m
  <2>2. \A i \in DOMAIN view : i \in DOMAIN view' /\ view'[i] = view[i]
    BY <1>0, <2>1
  <2>3. ToolsKept(view, view')
    BY <2>2 DEF ToolsKept
  <2>4. Following' <=> Following
    BY <1>7, Zenon DEF StartAssistantSegment, Following
  <2>. QED
    BY <2>1, <2>3, <2>4 DEF e
<1>8. CASE LoopComplete(e)
  <2>1. e.kind = "complete" /\ finish("")
    BY <1>3, <1>8, Zenon DEF LoopComplete
  <2>2. /\ view' \in Seq(ViewMessages) /\ Len(view') = Len(view)
        /\ \A i \in DOMAIN view : view'[i].tools = view[i].tools
    <3>1. e.kind = "complete" /\ \E x \in Reasons : finish(x)
      BY <2>1, Zenon DEF Reasons
    <3>2. Following
      BY <1>2, <3>1
    <3>. QED
      BY <1>0, <3>1, <3>2, Finish
  <2>3. DOMAIN view' = DOMAIN view
    BY <1>0, <2>2
  <2>4. ToolsKept(view, view')
    BY <2>2, <2>3 DEF ToolsKept
  <2>5. e.kind = "complete"
    BY <2>1, Zenon
  <2>. QED
    BY <1>0, <2>2, <2>4, <2>5, DoneIsKept DEF e
<1>9. CASE applyError(e)
  BY <1>2, <1>9 DEF applyError
<1>10. CASE RunEnded(e)
  <2>1. e.kind = "last" /\ UNCHANGED view /\ (Following' <=> Following)
    BY <1>10, Zenon DEF RunEnded, Following
  <2>. QED
    BY <1>5, <2>1 DEF e
<1>. QED
  BY <1>1, <1>6, <1>7, <1>8, <1>9, <1>10

LEMMA FlowClosure ==
    ASSUME FlowInv, Flow, RunClosure
    PROVE  Flow'
<1>. DEFINE e == Head(posted)
<1>0. /\ posted # <<>> /\ posted \in Seq(Closures) /\ posted' = Tail(posted) /\ posted[1] = e
      /\ UNCHANGED <<s, runID, pc, iter>>
  BY DEF FlowInv, TextInv, LoopInv, QueueType, RunClosure
<1>1. /\ ToolsKept(view, view')
      /\ \A c : OnScreen(view, c) /\ e.kind # "turn" => OnScreen(view', c)
      /\ e.kind = "toolcall" => OnScreen(view', e.call)
      /\ e.kind = "toolresult" /\ OnScreen(view, e.call) => ShownDone(view', e.call)
      /\ (Following' <=> Following) \/ e.kind = "complete"
  BY ClosureKeeps
<1>. HIDE DEF e
<1>2. Followed(posted) /\ InOrder(posted, view) /\ OnTheirWay(posted, view, s.messages)
  BY DEF Flow
<1>3. /\ InOrder(posted', view') /\ OnTheirWay(posted', view', s.messages)
      /\ \A c : Announced(posted, view, c, Len(posted) + 1) =>
                   Announced(posted', view', c, Len(posted') + 1)
  BY <1>0, <1>1, <1>2, Executed
<1>4. Followed(posted)'
  <2>1. \A j \in DOMAIN posted' : j + 1 \in DOMAIN posted /\ posted'[j] = posted[j + 1]
        /\ j + 1 > 1 /\ 1 \in DOMAIN posted
    BY <1>0, TailIs
  <2>2. \A j \in DOMAIN posted', k \in DOMAIN posted' : k > j => k + 1 > j + 1
    BY <1>0, TailIs
  <2>3. e.kind = "complete" => \A j \in DOMAIN posted' : posted'[j].kind = "last"
    BY <1>0, <1>2, <2>1 DEF Followed
  <2>. QED
    BY <1>0, <1>1, <1>2, <2>1, <2>2, <2>3 DEF Followed
<1>5. CallsAreAnnounced'
  BY <1>0, <1>3 DEF Flow, CallsAreAnnounced, CallID
<1>6. RequestsAreFresh'
  BY <1>0 DEF Flow, RequestsAreFresh
<1>. QED
  BY <1>0, <1>3, <1>4, <1>5, <1>6 DEF Flow

(***************************************************************************)
(* Steps of a goroutine, while no run has been cancelled or has failed     *)
(***************************************************************************)
LEMMA CleanRun ==
    ASSUME FlowInv, NEW r \in Runs, Goroutine(r), Clean, Clean'
    PROVE  /\ pc[r] # "failed" /\ r \notin ctxDone /\ ~(returned'[r] = "error")
           /\ \A from : ~ReturnError(r, from)
           /\ InLoop(r) => r = runID /\ Following
           /\ \A q \in Runs : InLoop(q) /\ InLoop(r) => q = r
<1>0. /\ LoopInv /\ Outcomes /\ runID' = runID /\ r <= runID
      /\ returned \in [Runs -> {"none", "nil", "error"}] /\ r \in 1 .. runID /\ runID \in Nat
  <2>1. LoopInv /\ Outcomes
    BY DEF FlowInv, TextInv
  <2>2. RunStep(r)
    BY <2>1, GoroutineIsRunStep
  <2>. QED
    BY <2>1, <2>2, AgentRunAssumption
       DEF RunStep, LoopInv, Numbered, ControlType, Runs, Outcomes
<1>1. r \notin ctxDone /\ returned[r] # "error" /\ returned'[r] # "error"
  BY <1>0 DEF Clean
<1>2. pc[r] # "failed" /\ \A from : ~ReturnError(r, from)
  BY <1>0, <1>1 DEF Outcomes, ReturnError
<1>3. InLoop(r) => r = runID /\ Following
  <2>1. InLoop(r) => r = runID /\ (streaming = TRUE \/ cancelling = TRUE)
    BY <1>0 DEF LoopInv, OneLoopAtATime, ControlType
  <2>2. r = runID => ~(cancelling = TRUE)
    BY <1>0, <1>1 DEF Outcomes
  <2>. QED
    BY <2>1, <2>2, Zenon DEF Following
<1>4. \A q \in Runs : InLoop(q) /\ InLoop(r) => q = r
  BY <1>0 DEF LoopInv, OneLoopAtATime
<1>. QED
  BY <1>1, <1>2, <1>3, <1>4

LEMMA CleanPost ==
    ASSUME NEW r \in Runs, r \notin ctxDone, posted \in Seq(Closures)
    PROVE  /\ \A k : Post(r, <<k>>) => posted' = Append(posted, Closure(k, r))
           /\ \A k, m : Post(r, <<k, m>>) =>
                 posted' = Append(Append(posted, Closure(k, r)), Closure(m, r))
<1>1. ASSUME NEW k, Post(r, <<k>>) PROVE posted' = Append(posted, Closure(k, r))
  <2>. DEFINE kinds == <<k>>
  <2>1. posted' = posted \o [i \in DOMAIN kinds |-> Closure(kinds[i], r)]
    BY <1>1 DEF Post
  <2>2. [i \in DOMAIN kinds |-> Closure(kinds[i], r)] = <<Closure(k, r)>>
    OBVIOUS
  <2>. QED
    BY <2>1, <2>2
<1>2. ASSUME NEW k, NEW m, Post(r, <<k, m>>)
      PROVE  posted' = Append(Append(posted, Closure(k, r)), Closure(m, r))
  <2>. DEFINE kinds == <<k, m>>
  <2>1. posted' = posted \o [i \in DOMAIN kinds |-> Closure(kinds[i], r)]
    BY <1>2 DEF Post
  <2>2. [i \in DOMAIN kinds |-> Closure(kinds[i], r)] = <<Closure(k, r), Closure(m, r)>>
    OBVIOUS
  <2>. QED
    BY <2>1, <2>2
<1>. QED
  BY <1>1, <1>2

(* What the steps leave of the ledger: roles and answers.                  *)
LEMMA WayKept ==
    ASSUME NEW q, NEW v, NEW l \in Seq(LedgerMessages), NEW m \in Seq(LedgerMessages),
           Len(m) = Len(l),
           \A i \in DOMAIN l : m[i].role = l[i].role /\ m[i].answers = l[i].answers,
           OnTheirWay(q, v, l)
    PROVE  OnTheirWay(q, v, m)
<1>1. DOMAIN l = DOMAIN m
  OBVIOUS
<1>. QED
  BY <1>1 DEF OnTheirWay

(* The session's roles and answers are kept, and a last message without    *)
(* calls stays one.                                                        *)
RolesKept(l, m) ==
    /\ m \in Seq(LedgerMessages) /\ Len(m) = Len(l)
    /\ \A i \in DOMAIN l : m[i].role = l[i].role /\ m[i].answers = l[i].answers

CallsKept(l, m) == LastCalls(l) = <<>> <=> LastCalls(m) = <<>>

LEMMA LedgerKept ==
    ASSUME s \in Ledgers, s.messages # <<>>, NEW r \in Runs, CallID(r) \in CallIDs
    PROVE  /\ s' \in {s, AppendDelta(s, r), FinishAssistantMessage(s),
                      UpdateToolCallInput(s, CallID(r))} =>
                 RolesKept(s.messages, s'.messages) /\ CallsKept(s.messages, s'.messages)
           /\ s' = AddToolCallToAssistant(s, CallID(r)) => RolesKept(s.messages, s'.messages)
<1>0. Len(s.messages) \in DOMAIN s.messages /\ s.messages \in Seq(LedgerMessages)
  BY DEF Ledgers
<1>1. ASSUME Rewritten(s, s')
      PROVE  RolesKept(s.messages, s'.messages) /\ CallsKept(s.messages, s'.messages)
  BY <1>0, <1>1 DEF Rewritten, Ledgers, RolesKept, CallsKept, LastCalls, Same
<1>2. CASE s' = s
  BY <1>0, <1>2 DEF RolesKept, CallsKept
<1>3. CASE s' = AppendDelta(s, r)
  <2>1. /\ s' \in Ledgers /\ Len(s'.messages) = Len(s.messages)
        /\ \A i \in DOMAIN s.messages :
              \/ Same(s.messages[i], s'.messages[i])
              \/ s'.messages[i] = [s.messages[i] EXCEPT !.content = Append(@, r)]
    BY <1>3, DeltaAppended
  <2>2. ASSUME NEW i \in DOMAIN s.messages
        PROVE  /\ s'.messages[i].role = s.messages[i].role
               /\ s'.messages[i].answers = s.messages[i].answers
               /\ s'.messages[i].calls = <<>> <=> s.messages[i].calls = <<>>
    <3>1. s.messages[i] \in LedgerMessages
      BY <1>0
    <3>. QED
      BY <2>1, <3>1 DEF Same, LedgerMessages
  <2>. QED
    BY <1>0, <2>1, <2>2 DEF RolesKept, CallsKept, LastCalls, Ledgers
<1>4. CASE s' = FinishAssistantMessage(s)
  BY <1>1, <1>4, Finished
<1>5. CASE s' = UpdateToolCallInput(s, CallID(r))
  BY <1>1, <1>5, InputUpdated
<1>6. ASSUME s' = AddToolCallToAssistant(s, CallID(r)) PROVE RolesKept(s.messages, s'.messages)
  <2>1. /\ s' \in Ledgers /\ Len(s'.messages) = Len(s.messages)
        /\ \A i \in DOMAIN s.messages :
              /\ s'.messages[i].role = s.messages[i].role
              /\ s'.messages[i].answers = s.messages[i].answers
    BY <1>6, CallAdded
  <2>. QED
    BY <2>1 DEF RolesKept, Ledgers
<1>. QED
  BY <1>2, <1>3, <1>4, <1>5, <1>6

LEMMA WayExtended ==
    ASSUME NEW q \in Seq(Closures), NEW e \in Closures, NEW t, t = Append(q, e),
           NEW v, NEW l, OnTheirWay(q, v, l)
    PROVE  OnTheirWay(t, v, l)
BY ResultsGrow DEF OnTheirWay

LEMMA FlowGoroutine ==
    ASSUME FlowInv, Flow, NEW r \in Runs, Goroutine(r), Clean, Clean'
    PROVE  Flow'
<1>. DEFINE call == CallID(r)
            last == Len(posted) + 1
<1>1. /\ LoopInv /\ s \in Ledgers /\ s.messages # <<>> /\ s.messages \in Seq(LedgerMessages)
      /\ posted \in Seq(Closures) /\ iter \in [Runs -> Nat] /\ call \in CallIDs
      /\ pc \in [Runs -> Positions]
  BY DEF FlowInv, TextInv, TextFits, Ledgers, LoopInv, QueueType, ControlType, CallID, CallIDs
<1>2. /\ Followed(posted) /\ InOrder(posted, view) /\ OnTheirWay(posted, view, s.messages)
      /\ CallsAreAnnounced /\ RequestsAreFresh
  BY DEF Flow
<1>3. UNCHANGED <<view, runID>> /\ (Following' <=> Following)
  <2>1. UNCHANGED <<view, runID, streaming>>
    BY GoroutineShowsNothing DEF uiVars
  <2>. QED
    BY <2>1, Zenon DEF Following
<1>4. /\ pc[r] # "failed" /\ r \notin ctxDone /\ \A from : ~ReturnError(r, from)
      /\ InLoop(r) => r = runID /\ Following
      /\ \A q \in Runs : InLoop(q) /\ InLoop(r) => q = r
      /\ \A q \in Runs : InLoop(q)' => InLoop(q)
  BY <1>1, CleanRun, GoroutineIsRunStep DEF RunStep
<1>5. \A k \in Kinds : /\ Closure(k, r) \in Closures /\ Closure(k, r).kind = k
                       /\ Closure(k, r).run = r /\ Closure(k, r).call = call
  BY <1>1 DEF Closure, Closures, CallIDs
<1>6. InLoop(r) => \A j \in DOMAIN posted : posted[j].kind # "complete"
  BY <1>1, <1>2, <1>4 DEF Followed, LoopInv, NothingEnds, Ending
<1>7. ASSUME NEW q \in Seq(Closures), Followed(q), InOrder(q, view),
             InLoop(r), \A j \in DOMAIN q : q[j].kind # "complete",
             NEW k \in Kinds \ {"error", "last"},
             k = "toolresult" => Announced(q, view, call, Len(q) + 1)
      PROVE  LET t == Append(q, Closure(k, r))
             IN  t \in Seq(Closures) /\ Followed(t) /\ InOrder(t, view)
  <2>. DEFINE e == Closure(k, r)
  <2>1. e \in Closures /\ e.kind = k /\ e.run = r /\ e.call = call
    BY <1>5, <1>7
  <2>2. e.kind # "last" =>
           /\ e.run = runID /\ Following /\ e.kind # "error"
           /\ \A j \in DOMAIN q : q[j].kind # "complete"
    BY <1>4, <1>7, <2>1
  <2>3. e.kind = "toolresult" => Announced(q, view, e.call, Len(q) + 1)
    BY <1>7, <2>1
  <2>. HIDE DEF e
  <2>4. \A t : t = Append(q, e) => Followed(t) /\ InOrder(t, view)
    BY <1>7, <2>1, <2>2, <2>3, Queued
  <2>5. Append(q, e) \in Seq(Closures) /\ Followed(Append(q, e)) /\ InOrder(Append(q, e), view)
    <3>1. Append(q, e) \in Seq(Closures)
      BY <1>7, <2>1
    <3>. QED
      BY <2>4, <3>1
  <2>. QED
    BY <2>5 DEF e
<1>8. ASSUME Followed(posted'), InOrder(posted', view), OnTheirWay(posted', view, s'.messages),
             CallsAreAnnounced', RequestsAreFresh'
      PROVE  Flow'
  BY <1>3, <1>8 DEF Flow, Followed
<1>. HIDE DEF call, last
<1>9. ASSUME InLoop(r),
             pc'[r] \in {"stream", "stopped", "tools"} /\ LastCalls(s'.messages) # <<>> =>
                Announced(posted', view, CallID(r)', Len(posted') + 1),
             pc'[r] = "request" => LastCalls(s'.messages) = <<>>
      PROVE  CallsAreAnnounced' /\ RequestsAreFresh'
  <2>1. \A q \in Runs : pc'[q] \in {"request", "stream", "stopped", "tools"} => q = r
    BY <1>4, <1>9 DEF InLoop
  <2>. QED
    BY <1>3, <1>9, <2>1 DEF CallsAreAnnounced, RequestsAreFresh
<1>k. /\ s' \in {s, AppendDelta(s, r), FinishAssistantMessage(s), UpdateToolCallInput(s, call)} =>
            RolesKept(s.messages, s'.messages) /\ CallsKept(s.messages, s'.messages)
      /\ s' = AddToolCallToAssistant(s, call) => RolesKept(s.messages, s'.messages)
  BY <1>1, LedgerKept DEF call
<1>w. ASSUME NEW q, OnTheirWay(q, view, s.messages), RolesKept(s.messages, s'.messages)
      PROVE  OnTheirWay(q, view, s'.messages)
  BY <1>1, <1>w, WayKept DEF RolesKept
<1>a. UNCHANGED iter => CallID(r)' = call
  BY DEF CallID, call
<1>n. pc[r] \in {"stream", "stopped", "tools"} /\ LastCalls(s.messages) # <<>> =>
         Announced(posted, view, call, last)
  BY <1>2 DEF CallsAreAnnounced, call, last
<1>g. ASSUME NEW k \in Kinds \ {"turn"}, posted' = Append(posted, Closure(k, r)), NEW c,
             Announced(posted, view, c, last)
      PROVE  Announced(posted', view, c, Len(posted') + 1)
  <2>1. last \in 1 .. Len(posted) + 1 /\ Len(posted') + 1 = last + 1 /\ last = Len(posted) + 1
    BY <1>1, <1>5, <1>g, QueueGrows DEF last
  <2>2. Announced(posted', view, c, last + 1)
    <3>. DEFINE e == Closure(k, r)
    <3>1. e \in Closures /\ e.kind # "turn" /\ posted' = Append(posted, e)
      BY <1>5, <1>g
    <3>. HIDE DEF e
    <3>. QED
      BY <1>1, <1>g, <2>1, <3>1, AnnouncedGrows
  <2>. QED
    BY <2>1, <2>2
<1>10. CASE Request(r)
  <2>1. Go(r, "request", "stream") /\ UNCHANGED <<s, posted>>
    BY <1>4, <1>10 DEF Request
  <2>2. InLoop(r) /\ pc'[r] = "stream" /\ LastCalls(s'.messages) = <<>>
    BY <1>1, <1>2, <2>1 DEF Go, InLoop, RequestsAreFresh
  <2>. QED
    BY <1>2, <1>8, <1>9, <2>1, <2>2
<1>11. CASE VisitMessage(r)
  <2>1. /\ pc[r] = "stream" /\ UNCHANGED <<pc, iter>> /\ s' = AppendDelta(s, r)
        /\ posted' = Append(posted, Closure("stream", r)) /\ InLoop(r)
    BY <1>1, <1>4, <1>11, CleanPost DEF VisitMessage, InLoop
  <2>2. Closure("stream", r) \in Closures /\ Closure("stream", r).kind = "stream"
    BY <1>5 DEF Kinds
  <2>3. Followed(posted') /\ InOrder(posted', view)
    BY <1>1, <1>2, <1>6, <1>7, <2>1 DEF Kinds
  <2>4. OnTheirWay(posted', view, s'.messages) /\ CallsKept(s.messages, s'.messages)
    BY <1>1, <1>2, <1>k, <1>w, <2>1, <2>2, WayExtended
  <2>5. LastCalls(s.messages) # <<>> => Announced(posted', view, call, Len(posted') + 1)
    BY <1>g, <1>n, <2>1 DEF Kinds
  <2>. QED
    BY <1>8, <1>9, <1>a, <2>1, <2>3, <2>4, <2>5 DEF CallsKept
<1>12. CASE VisitToolCallStart(r)
  <2>1. /\ pc[r] = "stream" /\ UNCHANGED <<pc, iter>> /\ s' = AddToolCallToAssistant(s, call)
        /\ posted' = Append(posted, Closure("toolcall", r)) /\ InLoop(r)
    BY <1>1, <1>4, <1>12, CleanPost DEF VisitToolCallStart, InLoop, call
  <2>2. /\ Closure("toolcall", r) \in Closures /\ Closure("toolcall", r).kind = "toolcall"
        /\ Closure("toolcall", r).call = call
    BY <1>5 DEF Kinds
  <2>3. Followed(posted') /\ InOrder(posted', view)
    BY <1>1, <1>2, <1>6, <1>7, <2>1 DEF Kinds
  <2>4. OnTheirWay(posted', view, s'.messages)
    BY <1>1, <1>2, <1>k, <1>w, <2>1, <2>2, WayExtended
  <2>5. Announced(posted', view, call, Len(posted') + 1)
    <3>1. /\ Len(posted') = last /\ posted'[last].kind = "toolcall" /\ posted'[last].call = call
          /\ last \in Nat /\ last > 0
      BY <1>1, <2>1, <2>2, QueueGrows DEF last
    <3>2. last \in 0 .. (last + 1) - 1 /\ \A k \in last + 1 .. (last + 1) - 1 : FALSE
      BY <3>1
    <3>3. Announced(posted', view, call, last + 1)
      BY <3>1, <3>2 DEF Announced
    <3>. QED
      BY <3>1, <3>3
  <2>. QED
    BY <1>8, <1>9, <1>a, <2>1, <2>3, <2>4, <2>5
<1>13. CASE StopForTools(r)
  <2>1. /\ pc[r] = "stream" /\ pc'[r] = "stopped" /\ UNCHANGED <<posted, iter>> /\ InLoop(r)
        /\ s' = FinishAssistantMessage(s)
    BY <1>1, <1>13 DEF StopForTools, Go, InLoop
  <2>2. OnTheirWay(posted', view, s'.messages) /\ CallsKept(s.messages, s'.messages)
    BY <1>2, <1>k, <1>w, <2>1
  <2>. QED
    BY <1>2, <1>8, <1>9, <1>a, <1>n, <2>1, <2>2 DEF CallsKept, last
<1>14. CASE Complete(r)
  <2>1. /\ pc[r] = "stream" /\ pc'[r] = "deferred" /\ InLoop(r)
        /\ s' = FinishAssistantMessage(s) /\ posted' = Append(posted, Closure("complete", r))
    BY <1>1, <1>4, <1>14, CleanPost DEF Complete, ReturnNil, Go, InLoop
  <2>2. Closure("complete", r) \in Closures /\ Closure("complete", r).kind = "complete"
    BY <1>5 DEF Kinds
  <2>3. Followed(posted') /\ InOrder(posted', view)
    BY <1>1, <1>2, <1>6, <1>7, <2>1 DEF Kinds
  <2>4. OnTheirWay(posted', view, s'.messages)
    BY <1>1, <1>2, <1>k, <1>w, <2>1, <2>2, WayExtended
  <2>. QED
    BY <1>8, <1>9, <2>1, <2>3, <2>4
<1>15. CASE DispatchTools(r)
  <2>1. /\ pc[r] = "stopped" /\ pc'[r] = "tools" /\ InLoop(r) /\ UNCHANGED iter
        /\ s' = UpdateToolCallInput(s, call)
        /\ UNCHANGED posted \/ posted' = Append(posted, Closure("toolcall", r))
    BY <1>1, <1>4, <1>15, CleanPost DEF DispatchTools, Go, InLoop, call
  <2>2. Closure("toolcall", r) \in Closures /\ Closure("toolcall", r).kind = "toolcall"
    BY <1>5 DEF Kinds
  <2>3. Followed(posted') /\ InOrder(posted', view)
    BY <1>1, <1>2, <1>6, <1>7, <2>1 DEF Kinds
  <2>4. OnTheirWay(posted', view, s'.messages) /\ CallsKept(s.messages, s'.messages)
    BY <1>1, <1>2, <1>k, <1>w, <2>1, <2>2, WayExtended
  <2>5. LastCalls(s.messages) # <<>> => Announced(posted', view, call, Len(posted') + 1)
    <3>1. CASE UNCHANGED posted
      BY <1>n, <2>1, <3>1 DEF last
    <3>2. CASE posted' = Append(posted, Closure("toolcall", r))
      BY <1>g, <1>n, <2>1, <3>2 DEF Kinds
    <3>. QED
      BY <2>1, <3>1, <3>2
  <2>. QED
    BY <1>8, <1>9, <1>a, <2>1, <2>3, <2>4, <2>5 DEF CallsKept
<1>16. CASE StoreResults(r)
  <2>. DEFINE q == Append(posted, Closure("toolresult", r))
  <2>1. pc[r] = "tools" /\ pc'[r] = "answered" /\ InLoop(r)
    BY <1>1, <1>16 DEF StoreResults, Go, InLoop
  <2>2. /\ Closure("turn", r) \in Closures /\ Closure("turn", r).kind = "turn"
        /\ Closure("toolresult", r) \in Closures /\ Closure("toolresult", r).kind = "toolresult"
        /\ Closure("toolresult", r).call = call
    BY <1>5 DEF Kinds
  <2>3. CASE UNCHANGED s /\ posted' = Append(posted, Closure("turn", r))
    <3>1. Followed(posted') /\ InOrder(posted', view)
      BY <1>1, <1>2, <1>6, <1>7, <2>1, <2>3 DEF Kinds
    <3>2. OnTheirWay(posted', view, s'.messages)
      BY <1>1, <1>2, <2>2, <2>3, WayExtended
    <3>. QED
      BY <1>8, <1>9, <2>1, <3>1, <3>2
  <2>4. CASE /\ LastCalls(s.messages) # <<>> /\ s' = AddToolResultMessage(s, call, <<>>)
             /\ posted' = Append(q, Closure("turn", r))
    <3>1. q \in Seq(Closures) /\ Followed(q) /\ InOrder(q, view)
      BY <1>1, <1>2, <1>6, <1>7, <1>n, <2>1, <2>4 DEF Kinds, last
    <3>2. \A j \in DOMAIN q : q[j].kind # "complete"
      <4>1. \A j \in DOMAIN q : \/ j \in DOMAIN posted /\ q[j] = posted[j]
                                \/ q[j] = Closure("toolresult", r)
        BY <1>1, <2>2, QueueGrows
      <4>. QED
        BY <1>6, <2>1, <2>2, <4>1
    <3>3. Followed(posted') /\ InOrder(posted', view)
      <4>. HIDE DEF q
      <4>. QED
        BY <1>7, <2>1, <2>4, <3>1, <3>2 DEF Kinds
    <3>4. ResultComes(q, call)
      <4>. DEFINE e == Closure("toolresult", r)
      <4>1. e \in Closures /\ e.kind = "toolresult" /\ e.call = call
        BY <2>2
      <4>2. q = Append(posted, e)
        OBVIOUS
      <4>. HIDE DEF q, e
      <4>. QED
        BY <1>1, <4>1, <4>2, ResultsGrow
    <3>5. OnTheirWay(q, view, s.messages)
      BY <1>1, <1>2, <2>2, WayExtended
    <3>. HIDE DEF q
    <3>6. ResultComes(posted', call) /\ OnTheirWay(posted', view, s.messages)
      <4>. DEFINE e == Closure("turn", r)
      <4>1. e \in Closures /\ posted' = Append(q, e)
        BY <2>2, <2>4
      <4>. HIDE DEF e
      <4>. QED
        BY <3>1, <3>4, <3>5, <4>1, ResultsGrow, WayExtended
    <3>7. OnTheirWay(posted', view, s'.messages)
      <4>. DEFINE m == Message(s.msgSeq + 1, "tool", <<>>, call, FALSE)
      <4>1. s'.messages = Append(s.messages, m)
        BY <1>1, <2>4, Added DEF AddToolResultMessage, Roles
      <4>2. m.answers = call
        BY DEF Message
      <4>. HIDE DEF m
      <4>3. \A i \in DOMAIN s'.messages : \/ i \in DOMAIN s.messages /\ s'.messages[i] = s.messages[i]
                                          \/ s'.messages[i] = m
        BY <1>1, <4>1
      <4>. QED
        BY <3>6, <4>2, <4>3 DEF OnTheirWay
    <3>. QED
      BY <1>8, <1>9, <2>1, <3>3, <3>7
  <2>. QED
    <3>1. Last(s.messages).calls = LastCalls(s.messages)
      BY <1>1, LastOf DEF LastCalls
    <3>. QED
      BY <1>1, <1>4, <1>16, <2>3, <2>4, <3>1, CleanPost DEF StoreResults, call
<1>17. CASE NextIteration(r)
  <2>1. /\ pc[r] = "answered" /\ pc'[r] = "request" /\ InLoop(r) /\ UNCHANGED posted
        /\ s' = StartAssistantMessage(s)
    BY <1>1, <1>17 DEF NextIteration, Go, InLoop
  <2>. DEFINE m == Message(s.msgSeq + 1, "assistant", <<>>, NoCall, TRUE)
  <2>2. s'.messages = Append(s.messages, m) /\ m \in LedgerMessages
    BY <1>1, <2>1, Added DEF StartAssistantMessage, Roles
  <2>3. m.role = "assistant" /\ m.calls = <<>>
    BY DEF Message
  <2>. HIDE DEF m
  <2>4. /\ \A i \in DOMAIN s'.messages : \/ i \in DOMAIN s.messages /\ s'.messages[i] = s.messages[i]
                                         \/ s'.messages[i] = m
        /\ s'.messages[Len(s'.messages)] = m
    BY <1>1, <2>2
  <2>5. OnTheirWay(posted', view, s'.messages)
    BY <1>2, <2>1, <2>3, <2>4 DEF OnTheirWay
  <2>6. LastCalls(s'.messages) = <<>>
    BY <2>3, <2>4 DEF LastCalls
  <2>. QED
    BY <1>2, <1>8, <1>9, <2>1, <2>5, <2>6
<1>18. CASE DeferredFinish(r) \/ DeferredPost(r)
  <2>1. /\ UNCHANGED iter /\ s' \in {s, FinishAssistantMessage(s)}
        /\ UNCHANGED posted \/ posted' = Append(posted, Closure("last", r))
        /\ \A q \in Runs : pc'[q] \in {"request", "stream", "stopped", "tools"} => pc'[q] = pc[q]
    BY <1>1, <1>18 DEF DeferredFinish, DeferredPost, Go
  <2>2. Closure("last", r) \in Closures /\ Closure("last", r).kind = "last"
    BY <1>5 DEF Kinds
  <2>. DEFINE e == Closure("last", r)
  <2>. HIDE DEF e
  <2>3. Followed(posted') /\ InOrder(posted', view)
    BY <1>1, <1>2, <2>1, <2>2, Queued DEF e
  <2>4. OnTheirWay(posted', view, s'.messages) /\ CallsKept(s.messages, s'.messages)
    BY <1>1, <1>2, <1>k, <1>w, <2>1, <2>2, WayExtended
  <2>5. \A c : Announced(posted, view, c, last) => Announced(posted', view, c, Len(posted') + 1)
    <3>1. CASE UNCHANGED posted
      BY <3>1 DEF last
    <3>2. CASE posted' = Append(posted, Closure("last", r))
      BY <1>g, <3>2 DEF Kinds
    <3>. QED
      BY <2>1, <3>1, <3>2
  <2>6. CallsAreAnnounced' /\ RequestsAreFresh'
    <3>1. \A q \in Runs : CallID(q)' = CallID(q)
      BY <2>1 DEF CallID
    <3>. QED
      BY <1>2, <1>3, <2>1, <2>4, <2>5, <3>1
         DEF CallsAreAnnounced, RequestsAreFresh, CallsKept, last
  <2>. QED
    BY <1>8, <2>3, <2>4, <2>6
<1>19. CASE SeeCancelled(r) \/ StreamFails(r) \/ PostError(r)
  BY <1>4, <1>19 DEF SeeCancelled, StreamFails, PostError, Go
<1>. QED
  BY <1>10, <1>11, <1>12, <1>13, <1>14, <1>15, <1>16, <1>17, <1>18, <1>19 DEF Goroutine

(* Who presses Cancel makes the runs so far no longer clean.               *)
LEMMA CancelIsNotClean ==
    ASSUME FlowInv, Cancel PROVE ~Clean'
<1>1. /\ ShownText /\ runID' = runID /\ ctxDone' = ctxDone \cup {runID}
      /\ runID \in Nat /\ streaming = TRUE
  BY AgentRunAssumption DEF Cancel, FlowInv, TextInv, LoopInv, ControlType
<1>2. Following
  BY <1>1, Zenon DEF Following
<1>3. runID \in Runs
  BY <1>1, <1>2, CurrentWhileStreaming DEF ViewMessages
<1>4. runID \in 1 .. runID
  BY <1>1, <1>3, AgentRunAssumption DEF Runs
<1>. QED
  BY <1>1, <1>4 DEF Clean

LEMMA FlowStep == FlowInv /\ [Next]_vars => FlowInv'
<1>. SUFFICES ASSUME FlowInv, [Next]_vars PROVE FlowInv'
  OBVIOUS
<1>1. TextInv' /\ ShownText' /\ Outcomes' /\ (Clean' => Clean)
  BY TextStep, ShownStep, OutcomesStep DEF FlowInv, TextInv
<1>2. ASSUME Clean', Clean, Flow PROVE Flow'
  <2>1. CASE StartSubmission
    BY <1>2, <2>1, FlowStart
  <2>2. CASE Cancel
    BY <1>2, <2>2, CancelIsNotClean
  <2>3. CASE NewSession
    BY <1>2, <2>3, FlowNew
  <2>4. CASE RunClosure
    BY <1>2, <2>4, FlowClosure
  <2>5. CASE \E r \in Runs : Goroutine(r)
    BY <1>2, <2>5, FlowGoroutine
  <2>6. CASE UNCHANGED vars
    <3>1. UNCHANGED <<s, view, streaming, runID, posted, pc, iter>>
      BY <2>6 DEF vars, uiVars
    <3>. QED
      BY <1>2, <3>1 DEF Flow, Followed, Following, CallsAreAnnounced, RequestsAreFresh, CallID
  <2>. QED
    BY <2>1, <2>2, <2>3, <2>4, <2>5, <2>6 DEF Next
<1>. QED
  BY <1>1, <1>2 DEF FlowInv, CleanFlow

LEMMA FlowInit == Init => FlowInv
<1>. SUFFICES ASSUME Init PROVE Outcomes /\ Flow
  BY TextInit DEF FlowInv, CleanFlow
<1>1. /\ returned = [r \in Runs |-> "none"] /\ pc = [r \in Runs |-> "none"]
      /\ posted = <<>> /\ s = AddSystemMessage(New)
  BY DEF Init
<1>2. ~(cancelling = TRUE)
  BY Zenon DEF Init
<1>3. Outcomes
  BY <1>1, <1>2 DEF Outcomes, InLoop
<1>4. DOMAIN posted = {} /\ \A r \in Runs : pc[r] = "none"
  BY <1>1
<1>5. \A i \in DOMAIN s.messages : s.messages[i].role = "system"
  <2>. DEFINE m == Message(New.msgSeq + 1, "system", <<>>, NoCall, FALSE)
  <2>1. New \in Ledgers /\ New.messages = <<>>
    BY DEF New, Ledgers
  <2>2. s.messages = Append(New.messages, m)
    BY <1>1, <2>1, Added DEF AddSystemMessage, Roles
  <2>3. m.role = "system"
    BY DEF Message
  <2>. HIDE DEF m
  <2>. QED
    BY <2>1, <2>2, <2>3
<1>6. Followed(posted) /\ InOrder(posted, view) /\ OnTheirWay(posted, view, s.messages)
  BY <1>4, <1>5 DEF Followed, InOrder, OnTheirWay
<1>. QED
  BY <1>3, <1>4, <1>6 DEF Flow, CallsAreAnnounced, RequestsAreFresh

(* A tool that has a stored result is not shown as running once all is     *)
(* quiet after runs that completed: its call was announced before the      *)
(* result came, and no segment opened in between.                          *)
THEOREM StoredResultsShow == Spec => []StoredResultsAreShown
<1>1. FlowInv => StoredResultsAreShown
  <2>. SUFFICES ASSUME FlowInv, Quiet,
                       \A r \in 1 .. runID : returned[r] = "nil" /\ r \notin ctxDone,
                       NEW m \in Range(s.messages), m.role = "tool"
                PROVE  \E v \in Range(view) : \E t \in Range(v.tools) : t.id = m.answers /\ t.done
    BY DEF StoredResultsAreShown
  <2>1. Flow /\ posted = <<>>
    BY DEF FlowInv, CleanFlow, Clean, Quiet
  <2>2. PICK i \in DOMAIN s.messages : s.messages[i] = m
    BY DEF Range
  <2>3. ShownDone(view, m.answers)
    BY <2>1, <2>2 DEF Flow, OnTheirWay, ResultComes
  <2>4. PICK j \in DOMAIN view : \E t \in DOMAIN view[j].tools :
           view[j].tools[t].id = m.answers /\ view[j].tools[t].done = TRUE
    BY <2>3 DEF ShownDone
  <2>5. PICK t \in DOMAIN view[j].tools :
           view[j].tools[t].id = m.answers /\ view[j].tools[t].done = TRUE
    BY <2>4
  <2>6. view[j] \in Range(view) /\ view[j].tools[t] \in Range(view[j].tools)
    BY DEF Range
  <2>. QED
    BY <2>5, <2>6
<1>. QED
  BY <1>1, FlowInit, FlowStep, PTL DEF Spec

(* A set of numbers that is not empty has a least one.                     *)
LEMMA NatLeast ==
    ASSUME NEW T, T \subseteq Nat, T # {}
    PROVE  \E x \in T : \A y \in T : x <= y
<1>. DEFINE S == {0 .. k - 1 : k \in T}
            Within == StrictSubsetOrdering(Nat)
<1>1. S \subseteq FiniteSubsetsOf(Nat)
  <2>1. ASSUME NEW k \in T
        PROVE  0 .. k - 1 \subseteq Nat /\ IsFiniteSet(0 .. k - 1)
    <3>1. 0 \in Int /\ k - 1 \in Int
      OBVIOUS
    <3>2. IsFiniteSet(0 .. k - 1)
      BY <3>1, FS_Interval, Zenon
    <3>. QED
      BY <3>2
  <2>. QED
    BY <2>1, Zenon DEF FiniteSubsetsOf
<1>2. PICK U \in S : \A V \in S : ~ (<<V, U>> \in Within)
  <2>1. IsWellFoundedOn(Within, FiniteSubsetsOf(Nat))
    BY FS_StrictSubsetOrderingWellFounded
  <2>2. S # {}
    OBVIOUS
  <2>. HIDE DEF Within, S
  <2>. QED
    BY <1>1, <2>1, <2>2, WFMin
<1>3. PICK x \in T : U = 0 .. x - 1
  OBVIOUS
<1>4. ASSUME NEW y \in T, y < x PROVE FALSE
  <2>1. 0 .. y - 1 \in S /\ 0 .. y - 1 \subseteq U /\ 0 .. y - 1 # U
    BY <1>3, <1>4
  <2>2. <<0 .. y - 1, U>> \in Within
    BY <2>1, <1>1 DEF StrictSubsetOrdering, FiniteSubsetsOf
  <2>. QED
    BY <2>1, <2>2, <1>2
<1>. QED
  BY <1>4

(* What holds of 0, and of every number up to n whose predecessor it holds *)
(* of, holds of all of them.                                               *)
LEMMA Climb ==
    ASSUME NEW n \in Nat, NEW P, 0 \in P, \A k \in 1 .. n : k - 1 \in P => k \in P
    PROVE  \A k \in 0 .. n : k \in P
<1>. DEFINE Bad == {k \in 0 .. n : k \notin P}
<1>. SUFFICES ASSUME Bad # {} PROVE FALSE
  OBVIOUS
<1>1. Bad \subseteq Nat
  OBVIOUS
<1>2. PICK k \in Bad : \A j \in Bad : k <= j
  <2>. HIDE DEF Bad
  <2>. QED
    BY <1>1, NatLeast
<1>3. k \in 1 .. n /\ k \notin P /\ k - 1 \in 0 .. n /\ ~(k <= k - 1)
  OBVIOUS
<1>4. k - 1 \in P
  BY <1>2, <1>3
<1>. QED
  BY <1>3, <1>4

Unfolds(f, n, x0, step) == f[0] = x0 /\ \A k \in 1 .. n : f[k] = step[k][f[k - 1]]

(* A recursive definition over a sequence's positions has a solution.      *)
LEMMA Recursion ==
    ASSUME NEW X, NEW n \in Nat, NEW x0 \in X, NEW step \in [1 .. n -> [X -> X]]
    PROVE  \E f \in [0 .. n -> X] : Unfolds(f, n, x0, step)
<1>. DEFINE Solves(f, k) == /\ f \in [0 .. k -> X] /\ f[0] = x0
                            /\ \A i \in 1 .. k : f[i] = step[i][f[i - 1]]
            P == {k \in 0 .. n : \E f : Solves(f, k)}
<1>1. 0 \in P
  <2>. DEFINE f == [i \in 0 .. 0 |-> x0]
  <2>1. Solves(f, 0)
    OBVIOUS
  <2>. HIDE DEF Solves
  <2>. QED
    BY <2>1
<1>2. ASSUME NEW k \in 1 .. n, k - 1 \in P PROVE k \in P
  <2>1. PICK f : Solves(f, k - 1)
    BY <1>2
  <2>2. f \in [0 .. k - 1 -> X] /\ k - 1 \in 0 .. k - 1 /\ 0 \in 0 .. k - 1
    BY <2>1
  <2>. DEFINE x == step[k][f[k - 1]]
              g == [i \in 0 .. k |-> IF i = k THEN x ELSE f[i]]
  <2>3. x \in X
    BY <2>2
  <2>4. \A i \in 0 .. k : i # k => i \in 0 .. k - 1
    OBVIOUS
  <2>5. \A i \in 0 .. k - 1 : i \in 0 .. k /\ i # k
    OBVIOUS
  <2>6. g \in [0 .. k -> X] /\ g[k] = x /\ \A i \in 0 .. k - 1 : g[i] = f[i]
    <3>. HIDE DEF x
    <3>. QED
      BY <2>2, <2>3, <2>4, <2>5
  <2>7. ASSUME NEW i \in 1 .. k PROVE g[i] = step[i][g[i - 1]]
    <3>. HIDE DEF g
    <3>1. CASE i = k
      BY <2>2, <2>6, <3>1
    <3>2. CASE i # k
      <4>1. i \in 1 .. k - 1 /\ i \in 0 .. k - 1 /\ i - 1 \in 0 .. k - 1
        BY <3>2
      <4>. QED
        BY <2>1, <2>6, <4>1
    <3>. QED
      BY <3>1, <3>2
  <2>8. Solves(g, k)
    <3>. HIDE DEF g
    <3>. QED
      BY <2>1, <2>2, <2>6, <2>7
  <2>. HIDE DEF Solves, g
  <2>. QED
    BY <2>8
<1>3. n \in P
  <2>. HIDE DEF P
  <2>1. \A k \in 0 .. n : k \in P
    BY <1>1, <1>2, Climb
  <2>. QED
    BY <2>1
<1>. QED
  BY <1>3 DEF Unfolds


(***************************************************************************)
(* The text of a sequence of messages                                      *)
(***************************************************************************)
Words == Seq(Runs)

(* A set of messages whose content is text.                                *)
Worded(M) == \A m \in M : m.content \in Words

(* What follows the text x when a message is added.                        *)
With(m, x) == IF m.role = "assistant" THEN Append(x, m.content) ELSE x

TextsTo(f, q) == f[0] = <<>> /\ \A k \in 1 .. Len(q) : f[k] = With(q[k], f[k - 1])

LEMMA TextsAre ==
    ASSUME NEW M, Worded(M), NEW q \in Seq(M)
    PROVE  \E f \in [0 .. Len(q) -> Seq(Words)] : TextsTo(f, q) /\ Texts(q) = f[Len(q)]
<1>. DEFINE n == Len(q)
            X == Seq(Words)
            x0 == <<>>
            step == [k \in 1 .. n |-> [x \in X |-> With(q[k], x)]]
            Body(f, k) == IF k = 0 THEN <<>> ELSE With(q[k], f[k - 1])
<1>0. n \in Nat /\ x0 \in X /\ \A k \in 1 .. n : q[k] \in M
  OBVIOUS
<1>1. ASSUME NEW k \in 1 .. n, NEW x \in X PROVE With(q[k], x) \in X
  <2>1. q[k].content \in Words
    BY <1>0 DEF Worded
  <2>. HIDE DEF n
  <2>. QED
    BY <2>1 DEF With
<1>2. step \in [1 .. n -> [X -> X]]
  <2>. HIDE DEF X, n
  <2>. QED
    BY <1>1
<1>3. PICK f \in [0 .. n -> X] : Unfolds(f, n, x0, step)
  <2>. HIDE DEF step, n, X, x0
  <2>. QED
    BY <1>0, <1>2, Recursion, Zenon
<1>4. f[0] = <<>> /\ \A k \in 1 .. n : f[k] = With(q[k], f[k - 1])
  <2>1. ASSUME NEW k \in 1 .. n PROVE k - 1 \in 0 .. n
    BY <1>0, <2>1
  <2>2. ASSUME NEW k \in 1 .. n PROVE f[k] = With(q[k], f[k - 1])
    <3>1. f[k - 1] \in X /\ f[k] = step[k][f[k - 1]]
      <4>. HIDE DEF step, X, n
      <4>. QED
        BY <1>3, <2>1 DEF Unfolds
    <3>. HIDE DEF X, n
    <3>. QED
      BY <3>1
  <2>. QED
    BY <1>3, <2>2 DEF Unfolds
<1>. DEFINE texts[k \in 0 .. n] == IF k = 0 THEN <<>>
                ELSE IF q[k].role = "assistant" THEN Append(texts[k - 1], q[k].content)
                ELSE texts[k - 1]
<1>5. f = [k \in 0 .. n |-> IF k = 0 THEN <<>>
                ELSE IF q[k].role = "assistant" THEN Append(f[k - 1], q[k].content)
                ELSE f[k - 1]]
  <2>1. ASSUME NEW k \in 0 .. n
        PROVE  f[k] = IF k = 0 THEN <<>>
                      ELSE IF q[k].role = "assistant" THEN Append(f[k - 1], q[k].content)
                      ELSE f[k - 1]
    <3>1. CASE k = 0
      BY <1>4, <3>1
    <3>2. CASE k # 0
      <4>1. k \in 1 .. n
        BY <1>0, <3>2
      <4>. QED
        BY <1>4, <3>2, <4>1 DEF With
    <3>. QED
      BY <3>1, <3>2
  <2>. HIDE DEF n, X
  <2>. QED
    BY <1>3, <2>1
<1>6. texts = [k \in 0 .. n |-> IF k = 0 THEN <<>>
                ELSE IF q[k].role = "assistant" THEN Append(texts[k - 1], q[k].content)
                ELSE texts[k - 1]]
  BY <1>5
<1>7. Texts(q) = texts[n]
  BY DEF Texts
<1>. HIDE DEF texts
<1>8. \A k \in 0 .. n : texts[k] = f[k]
  <2>. DEFINE P == {k \in 0 .. n : texts[k] = f[k]}
  <2>1. 0 \in P
    BY <1>0, <1>4, <1>6
  <2>2. ASSUME NEW k \in 1 .. n, k - 1 \in P PROVE k \in P
    <3>1. k \in 0 .. n /\ k # 0 /\ texts[k - 1] = f[k - 1]
      BY <2>2
    <3>2. texts[k] = With(q[k], texts[k - 1])
      <4>. HIDE DEF n
      <4>. QED
        BY <1>6, <3>1 DEF With
    <3>. QED
      BY <1>4, <3>1, <3>2
  <2>. HIDE DEF P, n
  <2>3. \A k \in 0 .. n : k \in P
    BY <1>0, <2>1, <2>2, Climb
  <2>. QED
    BY <2>3 DEF P
<1>9. TextsTo(f, q) /\ Texts(q) = f[n]
  BY <1>0, <1>4, <1>7, <1>8 DEF TextsTo
<1>. QED
  BY <1>9

LEMMA TextsFound ==
    ASSUME NEW M, Worded(M), NEW q \in Seq(M), NEW f, TextsTo(f, q)
    PROVE  Texts(q) = f[Len(q)]
<1>. DEFINE n == Len(q)
<1>0. n \in Nat
  OBVIOUS
<1>1. PICK g \in [0 .. n -> Seq(Words)] : TextsTo(g, q) /\ Texts(q) = g[n]
  BY TextsAre
<1>2. \A k \in 0 .. n : g[k] = f[k]
  <2>. DEFINE P == {k \in 0 .. n : g[k] = f[k]}
  <2>1. 0 \in P
    BY <1>0, <1>1 DEF TextsTo
  <2>2. ASSUME NEW k \in 1 .. n, k - 1 \in P PROVE k \in P
    BY <1>0, <1>1, <2>2 DEF TextsTo
  <2>. HIDE DEF P, n
  <2>3. \A k \in 0 .. n : k \in P
    BY <1>0, <2>1, <2>2, Climb
  <2>. QED
    BY <2>3 DEF P
<1>. QED
  BY <1>0, <1>1, <1>2

(* One message more.                                                       *)
LEMMA TextsAppended ==
    ASSUME NEW M, Worded(M), NEW q \in Seq(M), NEW m \in M
    PROVE  Texts(q) \in Seq(Words) /\ Texts(Append(q, m)) = With(m, Texts(q))
<1>. DEFINE n == Len(q)
            t == Append(q, m)
<1>0. /\ n \in Nat /\ t \in Seq(M) /\ Len(t) = n + 1 /\ t[n + 1] = m
      /\ \A k \in 1 .. n : t[k] = q[k]
  OBVIOUS
<1>1. PICK f \in [0 .. n -> Seq(Words)] : TextsTo(f, q) /\ Texts(q) = f[n]
  BY TextsAre
<1>. DEFINE g == [k \in 0 .. n + 1 |-> IF k = n + 1 THEN With(m, f[n]) ELSE f[k]]
<1>. HIDE DEF t, n
<1>2. g[n + 1] = With(m, f[n]) /\ \A k \in 0 .. n : g[k] = f[k]
  BY <1>0
<1>. HIDE DEF g
<1>3. TextsTo(g, t)
  <2>1. g[0] = <<>>
    <3>1. 0 \in 0 .. n /\ f[0] = <<>>
      BY <1>0, <1>1 DEF TextsTo
    <3>. QED
      BY <1>2, <3>1
  <2>2. ASSUME NEW k \in 1 .. n + 1 PROVE g[k] = With(t[k], g[k - 1])
    <3>1. CASE k = n + 1
      <4>1. k - 1 = n /\ n \in 0 .. n
        BY <1>0, <3>1
      <4>. QED
        BY <1>0, <1>2, <3>1, <4>1
    <3>2. CASE k # n + 1
      <4>1. k \in 1 .. n /\ k \in 0 .. n /\ k - 1 \in 0 .. n
        BY <1>0, <3>2
      <4>. QED
        BY <1>0, <1>1, <1>2, <4>1 DEF TextsTo, n
    <3>. QED
      BY <3>1, <3>2
  <2>. QED
    BY <1>0, <2>1, <2>2 DEF TextsTo
<1>4. Texts(t) = g[n + 1]
  BY <1>0, <1>3, TextsFound
<1>5. f[n] \in Seq(Words)
  BY <1>0, <1>1
<1>. QED
  BY <1>1, <1>2, <1>4, <1>5 DEF t

(* Messages that say the same.                                             *)
LEMMA TextsKept ==
    ASSUME NEW M, Worded(M), NEW q \in Seq(M), NEW t \in Seq(M), Len(t) = Len(q),
           \A i \in DOMAIN q : t[i].role = q[i].role /\ t[i].content = q[i].content
    PROVE  Texts(t) = Texts(q)
<1>1. PICK f \in [0 .. Len(q) -> Seq(Words)] : TextsTo(f, q) /\ Texts(q) = f[Len(q)]
  BY TextsAre
<1>2. TextsTo(f, t)
  <2>1. ASSUME NEW k \in 1 .. Len(t) PROVE f[k] = With(t[k], f[k - 1])
    <3>1. k \in DOMAIN q /\ k \in 1 .. Len(q)
      OBVIOUS
    <3>2. f[k] = With(q[k], f[k - 1])
      BY <1>1, <3>1 DEF TextsTo
    <3>. QED
      BY <3>1, <3>2 DEF With
  <2>. QED
    BY <1>1, <2>1 DEF TextsTo
<1>. QED
  BY <1>1, <1>2, TextsFound

LEMMA TextsEmpty == Texts(<<>>) = <<>>
<1>. DEFINE M == {}
            q == <<>>
<1>1. PICK f \in [0 .. Len(q) -> Seq(Words)] : TextsTo(f, q) /\ Texts(q) = f[Len(q)]
  <2>1. Worded(M) /\ q \in Seq(M)
    BY DEF Worded
  <2>. HIDE DEF M, q
  <2>. QED
    BY <2>1, TextsAre
<1>2. Len(q) = 0
  OBVIOUS
<1>. HIDE DEF q
<1>. QED
  BY <1>1, <1>2 DEF TextsTo, q

LEMMA LastAppended ==
    ASSUME NEW S, NEW x \in Seq(S), NEW y \in S, NEW z \in S
    PROVE  /\ Append(x, y) \in Seq(S) /\ Append(x, y) # <<>>
           /\ Append(x, y)[Len(Append(x, y))] = y
           /\ Append(x, z) = [Append(x, y) EXCEPT ![Len(Append(x, y))] = z]
<1>. DEFINE a == Append(x, y)
            b == Append(x, z)
            c == [a EXCEPT ![Len(a)] = z]
<1>1. /\ Len(x) \in Nat /\ a \in Seq(S) /\ b \in Seq(S) /\ Len(a) = Len(x) + 1
      /\ Len(b) = Len(x) + 1 /\ a[Len(x) + 1] = y /\ b[Len(x) + 1] = z
      /\ \A i \in 1 .. Len(x) : a[i] = x[i] /\ b[i] = x[i]
  OBVIOUS
<1>. HIDE DEF a, b
<1>2. a # <<>> /\ DOMAIN a = 1 .. Len(x) + 1 /\ b = [i \in 1 .. Len(x) + 1 |-> b[i]]
  BY <1>1
<1>3. c = [i \in 1 .. Len(x) + 1 |-> IF i = Len(a) THEN z ELSE a[i]]
  BY <1>1, <1>2
<1>. HIDE DEF c
<1>4. b = c
  <2>1. ASSUME NEW i \in 1 .. Len(x) + 1
        PROVE  b[i] = IF i = Len(a) THEN z ELSE a[i]
    <3>1. CASE i = Len(x) + 1
      BY <1>1, <3>1
    <3>2. CASE i # Len(x) + 1
      <4>1. i \in 1 .. Len(x)
        BY <1>1, <3>2
      <4>. QED
        BY <1>1, <3>2, <4>1
    <3>. QED
      BY <3>1, <3>2
  <2>. QED
    BY <1>2, <1>3, <2>1
<1>. QED
  BY <1>1, <1>2, <1>4 DEF a, b, c

LEMMA Rejoined ==
    ASSUME NEW S, NEW q \in Seq(S), NEW n \in Nat, n > 0, Len(q) = n
    PROVE  q = Append(SubSeq(q, 1, n - 1), q[n])
<1>. DEFINE a == SubSeq(q, 1, n - 1)
            b == Append(a, q[n])
<1>1. /\ a \in Seq(S) /\ Len(a) = n - 1 /\ \A i \in 1 .. n - 1 : a[i] = q[i]
      /\ q[n] \in S
  OBVIOUS
<1>. HIDE DEF a
<1>2. /\ b \in Seq(S) /\ Len(b) = n /\ b[n] = q[n]
      /\ \A i \in 1 .. n - 1 : b[i] = a[i]
  BY <1>1
<1>. HIDE DEF b
<1>3. \A i \in 1 .. n : b[i] = q[i]
  <2>1. \A i \in 1 .. n : i = n \/ i \in 1 .. n - 1
    OBVIOUS
  <2>. QED
    BY <1>1, <1>2, <2>1
<1>4. b = [i \in 1 .. n |-> b[i]] /\ q = [i \in 1 .. n |-> q[i]]
  BY <1>2
<1>5. b = q
  BY <1>3, <1>4
<1>. QED
  BY <1>5 DEF a, b

(* The last message of the assistant says something else.                  *)
LastRewritten(M, q, t) ==
    /\ q \in Seq(M) /\ q # <<>> /\ t \in Seq(M) /\ Len(t) = Len(q)
    /\ \A i \in DOMAIN q :
          i # Len(q) => t[i].role = q[i].role /\ t[i].content = q[i].content
    /\ q[Len(q)].role = "assistant" /\ t[Len(q)].role = "assistant"

LastTextIs(q, t) ==
    /\ Texts(q) \in Seq(Words) /\ Texts(q) # <<>>
    /\ Texts(q)[Len(Texts(q))] = q[Len(q)].content
    /\ Texts(t) = [Texts(q) EXCEPT ![Len(Texts(q))] = t[Len(q)].content]

LEMMA TextsChanged ==
    ASSUME NEW M, Worded(M), NEW q, NEW t, LastRewritten(M, q, t)
    PROVE  LastTextIs(q, t)
<1>0. /\ q \in Seq(M) /\ q # <<>> /\ t \in Seq(M) /\ Len(t) = Len(q)
      /\ \A i \in DOMAIN q :
            i # Len(q) => t[i].role = q[i].role /\ t[i].content = q[i].content
      /\ q[Len(q)].role = "assistant" /\ t[Len(q)].role = "assistant"
  BY DEF LastRewritten
<1>. DEFINE n == Len(q)
            a == SubSeq(q, 1, n - 1)
            b == SubSeq(t, 1, n - 1)
<1>1. n \in Nat /\ n > 0 /\ n \in DOMAIN q /\ n \in DOMAIN t /\ q[n] \in M /\ t[n] \in M
  BY <1>0
<1>2. /\ a \in Seq(M) /\ b \in Seq(M) /\ Len(a) = n - 1 /\ Len(b) = n - 1
      /\ \A i \in 1 .. n - 1 : a[i] = q[i] /\ b[i] = t[i]
  BY <1>0
<1>3. q = Append(a, q[n]) /\ t = Append(b, t[n])
  BY <1>0, <1>1, Rejoined
<1>4. \A i \in DOMAIN a : b[i].role = a[i].role /\ b[i].content = a[i].content
  BY <1>0, <1>1, <1>2
<1>. DEFINE x == Texts(a)
            y == q[n].content
            z == t[n].content
<1>. HIDE DEF a, b, n
<1>5. Texts(b) = x
  BY <1>2, <1>4, TextsKept
<1>6. x \in Seq(Words) /\ Texts(q) = With(q[n], x)
  BY <1>1, <1>2, <1>3, TextsAppended
<1>7. Texts(t) = With(t[n], x)
  BY <1>1, <1>2, <1>3, <1>5, TextsAppended
<1>8. Texts(q) = Append(x, y) /\ Texts(t) = Append(x, z)
  BY <1>0, <1>6, <1>7 DEF With, n
<1>9. y \in Words /\ z \in Words
  BY <1>1 DEF Worded
<1>. HIDE DEF x, y, z
<1>10. /\ Append(x, y) \in Seq(Words) /\ Append(x, y) # <<>>
       /\ Append(x, y)[Len(Append(x, y))] = y
       /\ Append(x, z) = [Append(x, y) EXCEPT ![Len(Append(x, y))] = z]
  <2>. HIDE DEF Words
  <2>. QED
    BY <1>6, <1>9, LastAppended
<1>. QED
  BY <1>8, <1>10 DEF LastTextIs, y, z, n

(***************************************************************************)
(* The text the queue brings                                               *)
(***************************************************************************)

(* What an active event makes of the text x of the segments.               *)
Heard(e, x) ==
    IF e.kind = "stream" THEN [x EXCEPT ![Len(x)] = Append(@, e.run)]
    ELSE IF e.kind = "turn" THEN Append(x, <<>>)
    ELSE x

HeardAll(c, q) == \A k \in 1 .. Len(q) : c[k] = Heard(q[k], c[k - 1])

(* The closures of q, all active, take the text x to the text y.           *)
Leads(q, x, y) ==
    \E c \in [0 .. Len(q) -> Seq(Words)] : c[0] = x /\ c[Len(q)] = y /\ HeardAll(c, q)

LEMMA LastReplaced ==
    ASSUME NEW S, NEW x \in Seq(S), x # <<>>, NEW y \in S
    PROVE  LET z == [x EXCEPT ![Len(x)] = y]
           IN  /\ z \in Seq(S) /\ Len(z) = Len(x) /\ z[Len(x)] = y
               /\ \A i \in 1 .. Len(x) : i # Len(x) => z[i] = x[i]
OBVIOUS

LEMMA HeardIsText ==
    ASSUME NEW e \in Closures, NEW x \in Seq(Words)
    PROVE  Heard(e, x) \in Seq(Words)
<1>1. e.run \in Runs
  BY DEF Closures
<1>2. CASE e.kind = "stream" /\ x # <<>>
  <2>. DEFINE y == Append(x[Len(x)], e.run)
  <2>1. y \in Words
    <3>1. x[Len(x)] \in Words
      BY <1>2
    <3>. QED
      BY <1>1, <3>1 DEF Words
  <2>2. Heard(e, x) = [x EXCEPT ![Len(x)] = y]
    BY <1>2 DEF Heard
  <2>. HIDE DEF y
  <2>. QED
    BY <1>2, <2>1, <2>2, LastReplaced
<1>3. CASE e.kind = "stream" /\ x = <<>>
  <2>1. Heard(e, x) = [x EXCEPT ![Len(x)] = Append(@, e.run)]
    BY <1>3 DEF Heard
  <2>2. DOMAIN x = {}
    BY <1>3
  <2>3. Heard(e, x) = x
    BY <1>3, <2>1, <2>2
  <2>. QED
    BY <2>3
<1>4. CASE e.kind = "turn"
  <2>1. <<>> \in Words
    BY DEF Words
  <2>. QED
    BY <1>4, <2>1 DEF Heard
<1>5. CASE e.kind # "stream" /\ e.kind # "turn"
  BY <1>5 DEF Heard
<1>. QED
  BY <1>2, <1>3, <1>4, <1>5

(* Nothing in the queue.                                                   *)
LEMMA LeadsNowhere ==
    ASSUME NEW x, NEW y, NEW q, q = <<>>
    PROVE  /\ Leads(q, x, y) => x = y
           /\ x \in Seq(Words) => Leads(q, x, x)
<1>1. Len(q) = 0
  OBVIOUS
<1>2. ASSUME x \in Seq(Words) PROVE Leads(q, x, x)
  <2>. DEFINE c == [i \in 0 .. 0 |-> x]
  <2>1. c \in [0 .. 0 -> Seq(Words)] /\ c[0] = x
    BY <1>2
  <2>. HIDE DEF c
  <2>. QED
    BY <1>1, <2>1 DEF Leads, HeardAll
<1>. QED
  BY <1>1, <1>2 DEF Leads

(* One more closure in the queue.                                          *)
LEMMA LeadsFurther ==
    ASSUME NEW q \in Seq(Closures), NEW e \in Closures, NEW t, t = Append(q, e),
           NEW x, NEW y, Leads(q, x, y)
    PROVE  y \in Seq(Words) /\ Leads(t, x, Heard(e, y))
<1>. DEFINE n == Len(q)
            z == Heard(e, y)
            d(c) == [k \in 0 .. n + 1 |-> IF k = n + 1 THEN z ELSE c[k]]
<1>1. /\ n \in Nat /\ Len(t) = n + 1 /\ t[n + 1] = e /\ \A k \in 1 .. n : t[k] = q[k]
  BY QueueGrows
<1>2. PICK c \in [0 .. n -> Seq(Words)] : c[0] = x /\ c[n] = y /\ HeardAll(c, q)
  BY DEF Leads
<1>3. y \in Seq(Words) /\ z \in Seq(Words)
  BY <1>1, <1>2, HeardIsText
<1>. DEFINE b == d(c)
<1>4. /\ b \in [0 .. n + 1 -> Seq(Words)] /\ b[n + 1] = z
      /\ \A k \in 0 .. n : b[k] = c[k]
  <2>1. \A k \in 0 .. n + 1 : k # n + 1 => k \in 0 .. n
    BY <1>1
  <2>2. \A k \in 0 .. n : k \in 0 .. n + 1 /\ k # n + 1
    BY <1>1
  <2>. HIDE DEF z, n
  <2>. QED
    BY <1>1, <1>2, <1>3, <2>1, <2>2
<1>. HIDE DEF b, n
<1>5. HeardAll(b, t)
  <2>1. ASSUME NEW k \in 1 .. n + 1 PROVE b[k] = Heard(t[k], b[k - 1])
    <3>1. CASE k = n + 1
      <4>1. k - 1 = n /\ n \in 0 .. n
        BY <1>1, <3>1
      <4>. QED
        BY <1>1, <1>2, <1>4, <3>1, <4>1
    <3>2. CASE k # n + 1
      <4>1. k \in 1 .. n /\ k \in 0 .. n /\ k - 1 \in 0 .. n
        BY <1>1, <3>2
      <4>. QED
        BY <1>1, <1>2, <1>4, <4>1 DEF HeardAll, n
    <3>. QED
      BY <3>1, <3>2
  <2>. QED
    BY <1>1, <2>1 DEF HeardAll
<1>6. b[0] = x
  <2>1. 0 \in 0 .. n
    BY <1>1
  <2>. QED
    BY <1>2, <1>4, <2>1
<1>. HIDE DEF z
<1>7. Leads(t, x, z)
  BY <1>1, <1>4, <1>5, <1>6 DEF Leads
<1>. QED
  BY <1>3, <1>7 DEF z

(* One closure less.                                                       *)
LEMMA LeadsOn ==
    ASSUME NEW q \in Seq(Closures), q # <<>>, NEW t, t = Tail(q),
           NEW x, NEW y, Leads(q, x, y)
    PROVE  Leads(t, Heard(q[1], x), y)
<1>. DEFINE n == Len(q)
<1>1. /\ n \in Nat /\ n > 0 /\ Len(t) = n - 1 /\ \A k \in 1 .. n - 1 : t[k] = q[k + 1]
  BY TailIs
<1>2. PICK c \in [0 .. n -> Seq(Words)] : c[0] = x /\ c[n] = y /\ HeardAll(c, q)
  BY DEF Leads
<1>. DEFINE b == [k \in 0 .. n - 1 |-> c[k + 1]]
<1>. HIDE DEF n
<1>3. b \in [0 .. n - 1 -> Seq(Words)] /\ \A k \in 0 .. n - 1 : b[k] = c[k + 1]
  <2>1. \A k \in 0 .. n - 1 : k + 1 \in 0 .. n
    BY <1>1
  <2>. QED
    BY <1>2, <2>1
<1>. HIDE DEF b
<1>4. HeardAll(b, t)
  <2>1. ASSUME NEW k \in 1 .. n - 1 PROVE b[k] = Heard(t[k], b[k - 1])
    <3>1. /\ k \in 0 .. n - 1 /\ k - 1 \in 0 .. n - 1 /\ k + 1 \in 1 .. n
          /\ (k - 1) + 1 = k /\ (k + 1) - 1 = k
      BY <1>1
    <3>2. c[k + 1] = Heard(q[k + 1], c[k])
      BY <1>2, <3>1 DEF HeardAll, n
    <3>. QED
      BY <1>1, <1>3, <3>1, <3>2
  <2>. QED
    BY <1>1, <2>1 DEF HeardAll
<1>5. b[0] = Heard(q[1], x) /\ b[n - 1] = y
  <2>1. 0 \in 0 .. n - 1 /\ n - 1 \in 0 .. n - 1 /\ 1 \in 1 .. n /\ 1 - 1 = 0
        /\ (n - 1) + 1 = n /\ 0 + 1 = 1
    BY <1>1
  <2>2. c[1] = Heard(q[1], c[0])
    BY <1>2, <2>1 DEF HeardAll, n
  <2>. QED
    BY <1>2, <1>3, <2>1, <2>2
<1>. QED
  BY <1>1, <1>3, <1>4, <1>5 DEF Leads

(* A queue of ends of runs says nothing.                                   *)
LEMMA LeadsIdle ==
    ASSUME NEW q \in Seq(Closures), \A j \in DOMAIN q : q[j].kind = "last", NEW x
    PROVE  /\ \A y : Leads(q, x, y) => x = y
           /\ x \in Seq(Words) => Leads(q, x, x)
<1>. DEFINE n == Len(q)
<1>1. n \in Nat /\ \A k \in 1 .. n : q[k].kind = "last"
  OBVIOUS
<1>2. \A k \in 1 .. n : \A z : Heard(q[k], z) = z
  BY <1>1 DEF Heard
<1>3. ASSUME NEW y, Leads(q, x, y) PROVE x = y
  <2>1. PICK c \in [0 .. n -> Seq(Words)] : c[0] = x /\ c[n] = y /\ HeardAll(c, q)
    BY <1>3 DEF Leads
  <2>. DEFINE P == {k \in 0 .. n : c[k] = x}
  <2>2. 0 \in P
    BY <1>1, <2>1
  <2>3. ASSUME NEW k \in 1 .. n, k - 1 \in P PROVE k \in P
    <3>1. k \in 0 .. n /\ c[k - 1] = x
      BY <1>1, <2>3
    <3>2. c[k] = Heard(q[k], c[k - 1])
      BY <2>1 DEF HeardAll
    <3>. QED
      BY <1>2, <3>1, <3>2
  <2>. HIDE DEF P, n
  <2>4. \A k \in 0 .. n : k \in P
    BY <1>1, <2>2, <2>3, Climb
  <2>5. n \in 0 .. n
    BY <1>1
  <2>. QED
    BY <2>1, <2>4, <2>5 DEF P
<1>4. ASSUME x \in Seq(Words) PROVE Leads(q, x, x)
  <2>. DEFINE c == [k \in 0 .. n |-> x]
  <2>. HIDE DEF n
  <2>1. c \in [0 .. n -> Seq(Words)] /\ \A k \in 0 .. n : c[k] = x
    BY <1>4
  <2>. HIDE DEF c
  <2>2. HeardAll(c, q)
    <3>1. ASSUME NEW k \in 1 .. n PROVE c[k] = Heard(q[k], c[k - 1])
      <4>1. k \in 0 .. n /\ k - 1 \in 0 .. n
        BY <1>1
      <4>. QED
        BY <1>2, <2>1, <4>1
    <3>. QED
      BY <3>1 DEF HeardAll, n
  <2>3. c[0] = x /\ c[n] = x
    <3>1. 0 \in 0 .. n /\ n \in 0 .. n
      BY <1>1
    <3>. QED
      BY <2>1, <3>1
  <2>. QED
    BY <2>1, <2>2, <2>3 DEF Leads, n
<1>. QED
  BY <1>3, <1>4

(* Both ledger and transcript consist of messages whose content is text.   *)
LEMMA MessagesAreWorded ==
    /\ Worded(LedgerMessages) /\ Worded(ViewMessages)
    /\ \A q \in Seq(LedgerMessages) : Texts(q) \in Seq(Words)
    /\ \A q \in Seq(ViewMessages) : Texts(q) \in Seq(Words)
<1>1. Worded(LedgerMessages)
  BY DEF Worded, Words, LedgerMessages
<1>2. Worded(ViewMessages)
  BY DEF Worded, Words, ViewMessages
<1>3. ASSUME NEW M, Worded(M), NEW q \in Seq(M) PROVE Texts(q) \in Seq(Words)
  <2>1. PICK f \in [0 .. Len(q) -> Seq(Words)] : Texts(q) = f[Len(q)]
    BY <1>3, TextsAre
  <2>. QED
    BY <2>1
<1>. QED
  BY <1>1, <1>2, <1>3

(***************************************************************************)
(* The text of the transcript                                              *)
(***************************************************************************)

(* While every event in the queue is active, the text of the segments      *)
(* changes with each closure as the queue foretells.                       *)
LEMMA ClosureIsHeard ==
    ASSUME FlowInv, Flow, RunClosure
    PROVE  Texts(view') = Heard(Head(posted), Texts(view))
<1>. DEFINE e == Head(posted)
            x == Texts(view)
<1>0. LoopInv /\ ShownText /\ view \in Seq(ViewMessages) /\ Worded(ViewMessages)
  BY MessagesAreWorded DEF FlowInv, TextInv, ShownText
<1>1. /\ posted # <<>> /\ posted \in Seq(Closures) /\ e \in Closures /\ UNCHANGED runID
      /\ posted[1] = e /\ 1 \in DOMAIN posted
      /\ ShowEvent(e) \/ StartAssistantSegment(e) \/ LoopComplete(e) \/ applyError(e)
         \/ RunEnded(e)
  BY <1>0, TailKeeps DEF RunClosure, LoopInv, QueueType
<1>. HIDE DEF e
<1>2. e.kind # "error" /\ (e.kind # "last" => e.run = runID /\ Following) /\ e.run \in Runs
  BY <1>1 DEF Flow, Followed, Closures
<1>3. e.kind # "last" => Active(e)
  <2>1. streaming \in BOOLEAN
    BY <1>0 DEF LoopInv, ControlType
  <2>. QED
    BY <1>2, <2>1, Zenon DEF Active, Following
<1>4. view' \in Seq(ViewMessages)
  BY <1>0, ShownClosure DEF ShownText
<1>5. ASSUME Len(view') = Len(view),
             \A i \in DOMAIN view : view'[i].role = view[i].role /\ view'[i].content = view[i].content
      PROVE  Texts(view') = x
  BY <1>0, <1>4, <1>5, TextsKept
<1>6. CASE ShowEvent(e)
  <2>. DEFINE m == view[Len(view)]
              shown == {i \in DOMAIN m.tools : m.tools[i].id = e.call}
  <2>1. e.kind \in {"stream", "toolcall", "toolresult"} /\ Following /\ e.run = runID
    BY <1>2, <1>6 DEF ShowEvent
  <2>2. /\ AssistantAt # {} /\ Current = Len(view) /\ Len(view) \in DOMAIN view
        /\ m \in ViewMessages /\ m.role = "assistant" /\ view # <<>>
    BY <1>0, <2>1, CurrentWhileStreaming
  <2>3. view' = Rendered(e)
    BY <1>3, <1>6, <2>1, <2>2 DEF ShowEvent
  <2>4. \/ /\ e.kind = "stream"
           /\ view' = [view EXCEPT ![Current] = WithText(m, e.run)]
        \/ e.kind = "toolcall" /\ shown # {} /\ view' = view
        \/ /\ e.kind = "toolcall"
           /\ view' = [view EXCEPT ![Current] = WithCall(m, e.call)]
        \/ /\ e.kind = "toolresult"
           /\ view' = [view EXCEPT ![Current] = WithResult(m, shown)]
    BY <1>0, <1>1, <1>3, <2>1, <2>3, EventRendered
  <2>. HIDE DEF m, shown
  <2>5. ASSUME NEW n \in ViewMessages, view' = [view EXCEPT ![Current] = n]
        PROVE  /\ Len(view') = Len(view) /\ view'[Len(view)] = n
               /\ \A i \in DOMAIN view : i # Len(view) => view'[i] = view[i]
    BY <1>0, <2>2, <2>5, SetAt
  <2>6. ASSUME NEW n \in ViewMessages, view' = [view EXCEPT ![Current] = n],
               n.role = m.role, n.content = m.content
        PROVE  Texts(view') = x
    BY <1>5, <2>5, <2>6 DEF m
  <2>7. CASE e.kind = "stream" /\ view' = [view EXCEPT ![Current] = WithText(m, e.run)]
    <3>. DEFINE n == WithText(m, e.run)
    <3>1. n \in ViewMessages /\ n.role = m.role
      BY <1>2, <2>2, WithTextFits
    <3>2. n.content = Append(m.content, e.run)
      BY <2>2 DEF WithText, ViewMessages
    <3>. HIDE DEF n
    <3>3. /\ Len(view') = Len(view) /\ view'[Len(view)] = n
          /\ \A i \in DOMAIN view : i # Len(view) => view'[i] = view[i]
      BY <2>5, <2>7, <3>1 DEF n
    <3>4. /\ view[Len(view)].role = "assistant" /\ view'[Len(view)].role = "assistant"
          /\ view[Len(view)].content = m.content
          /\ \A i \in DOMAIN view : i # Len(view) =>
                view'[i].role = view[i].role /\ view'[i].content = view[i].content
      BY <2>2, <3>1, <3>3 DEF m
    <3>5. /\ x[Len(x)] = m.content /\ x \in Seq(Words)
          /\ Texts(view') = [x EXCEPT ![Len(x)] = Append(m.content, e.run)]
      <4>. DEFINE a == view
                  b == view'
      <4>1. LastRewritten(ViewMessages, a, b)
        BY <1>0, <1>4, <2>2, <3>3, <3>4 DEF LastRewritten
      <4>2. a[Len(a)].content = m.content /\ b[Len(a)].content = Append(m.content, e.run)
        BY <3>2, <3>3, <3>4
      <4>. HIDE DEF a, b
      <4>3. LastTextIs(a, b)
        BY <1>0, <4>1, TextsChanged, Zenon
      <4>. QED
        BY <4>2, <4>3 DEF LastTextIs, a, b
    <3>. HIDE DEF x
    <3>6. Heard(e, x) = [x EXCEPT ![Len(x)] = Append(x[Len(x)], e.run)]
      BY <2>7 DEF Heard
    <3>. QED
      BY <3>5, <3>6 DEF e, x
  <2>8. CASE e.kind = "toolcall" /\ view' = view
    BY <2>8 DEF Heard, e
  <2>9. CASE e.kind = "toolcall" /\ view' = [view EXCEPT ![Current] = WithCall(m, e.call)]
    <3>. DEFINE n == WithCall(m, e.call)
    <3>0. e.call \in CallIDs
      BY <1>1 DEF Closures, CallIDs
    <3>1. n \in ViewMessages /\ n.role = m.role /\ n.content = m.content
      BY <2>2, <3>0, WithCallFits
    <3>. HIDE DEF n
    <3>2. Texts(view') = x
      BY <2>6, <2>9, <3>1 DEF n
    <3>. QED
      BY <2>9, <3>2 DEF Heard, e
  <2>10. CASE e.kind = "toolresult" /\ view' = [view EXCEPT ![Current] = WithResult(m, shown)]
    <3>. DEFINE n == WithResult(m, shown)
    <3>1. n \in ViewMessages /\ n.role = m.role /\ n.content = m.content
      BY <2>2, WithResultFits
    <3>. HIDE DEF n
    <3>2. Texts(view') = x
      BY <2>6, <2>10, <3>1 DEF n
    <3>. QED
      BY <2>10, <3>2 DEF Heard, e
  <2>. QED
    BY <2>4, <2>7, <2>8, <2>9, <2>10
<1>7. CASE StartAssistantSegment(e)
  <2>. DEFINE m == ViewMessage("assistant", e.run, TRUE)
  <2>1. e.kind = "turn" /\ view' = Append(view, m)
    BY <1>3, <1>7 DEF StartAssistantSegment
  <2>2. m \in ViewMessages /\ m.role = "assistant" /\ m.content = <<>>
    BY <1>2, FreshSegment
  <2>. HIDE DEF m
  <2>3. Texts(view') = With(m, x)
    BY <1>0, <2>1, <2>2, TextsAppended
  <2>. QED
    BY <2>1, <2>2, <2>3 DEF With, Heard, e
<1>8. CASE LoopComplete(e)
  <2>1. e.kind = "complete" /\ finish("") /\ Following /\ "" \in Reasons
    BY <1>2, <1>3, <1>8, Zenon DEF LoopComplete, Reasons
  <2>2. \A reason \in Reasons : finish(reason) =>
           /\ Len(view') = Len(view)
           /\ \A i \in DOMAIN view : view'[i].role = view[i].role /\ view'[i].content = view[i].content
    BY <1>0, <2>1, Finish
  <2>3. Len(view') = Len(view)
        /\ \A i \in DOMAIN view : view'[i].role = view[i].role /\ view'[i].content = view[i].content
    BY <2>1, <2>2, Zenon
  <2>4. e.kind = "complete" /\ Texts(view') = x
    BY <1>5, <2>1, <2>3, Zenon
  <2>. QED
    BY <2>4 DEF Heard, e
<1>9. CASE applyError(e)
  BY <1>2, <1>9 DEF applyError
<1>10. CASE RunEnded(e)
  BY <1>10 DEF RunEnded, Heard, e
<1>. QED
  BY <1>1, <1>6, <1>7, <1>8, <1>9, <1>10

(***************************************************************************)
(* The text of the ledger                                                  *)
(***************************************************************************)
LEMMA TextsRewritten ==
    ASSUME NEW q \in Ledgers, NEW t \in Ledgers, Len(t.messages) = Len(q.messages),
           \A i \in DOMAIN q.messages :
              /\ t.messages[i].role = q.messages[i].role
              /\ t.messages[i].content = q.messages[i].content
    PROVE  Texts(t.messages) = Texts(q.messages)
<1>1. /\ q.messages \in Seq(LedgerMessages) /\ t.messages \in Seq(LedgerMessages)
      /\ Worded(LedgerMessages)
  BY MessagesAreWorded DEF Ledgers
<1>. QED
  BY <1>1, TextsKept

MessageAdded(q, t, role, open) ==
    /\ t \in Ledgers /\ Len(t.messages) = Len(q.messages) + 1
    /\ Len(q.messages) \in Nat
    /\ DOMAIN t.messages = 1 .. Len(q.messages) + 1
    /\ DOMAIN q.messages = 1 .. Len(q.messages)
    /\ \A i \in DOMAIN q.messages : t.messages[i] = q.messages[i]
    /\ t.messages[Len(q.messages) + 1].streaming = open
    /\ Texts(t.messages) = IF role = "assistant" THEN Append(Texts(q.messages), <<>>)
                                                 ELSE Texts(q.messages)

LEMMA TextsAdded ==
    ASSUME NEW q \in Ledgers, NEW role \in Roles, NEW call \in CallIDs \cup {NoCall},
           NEW open \in BOOLEAN, NEW t, t = AddMessage(q, role, <<>>, call, open)
    PROVE  MessageAdded(q, t, role, open)
<1>. DEFINE m == Message(q.msgSeq + 1, role, <<>>, call, open)
<1>1. m \in LedgerMessages /\ t \in Ledgers /\ t.messages = Append(q.messages, m)
  BY Added
<1>2. m.content = <<>> /\ m.role = role /\ m.streaming = open
  BY DEF Message
<1>. HIDE DEF m
<1>3. q.messages \in Seq(LedgerMessages) /\ Worded(LedgerMessages)
  BY MessagesAreWorded DEF Ledgers
<1>4. Texts(t.messages) = With(m, Texts(q.messages))
  BY <1>1, <1>3, TextsAppended
<1>5. /\ Len(t.messages) = Len(q.messages) + 1 /\ Len(q.messages) \in Nat
      /\ DOMAIN t.messages = 1 .. Len(q.messages) + 1
      /\ DOMAIN q.messages = 1 .. Len(q.messages)
      /\ \A i \in DOMAIN q.messages : t.messages[i] = q.messages[i]
      /\ t.messages[Len(q.messages) + 1] = m
  BY <1>1, <1>3
<1>6. Texts(t.messages) = IF role = "assistant" THEN Append(Texts(q.messages), <<>>)
                                                ELSE Texts(q.messages)
  BY <1>2, <1>4 DEF With
<1>. QED
  BY <1>1, <1>2, <1>5, <1>6 DEF MessageAdded

(* A delta reaches the last message while that one is open, and none after *)
(* it was finished.                                                        *)
LastOpen(l) == l[Len(l)].streaming = TRUE

LEMMA TextsSaid ==
    ASSUME NEW q \in Ledgers, q.messages # <<>>, NEW r \in Runs,
           LastOpen(q.messages) => q.messages[Len(q.messages)].role = "assistant",
           NEW t, t = AppendDelta(q, r)
    PROVE  LET x == Texts(q.messages)
           IN  \/ ~LastOpen(q.messages) /\ t = q
               \/ /\ LastOpen(q.messages) /\ x \in Seq(Words) /\ x # <<>>
                  /\ Texts(t.messages) = [x EXCEPT ![Len(x)] = Append(x[Len(x)], r)]
<1>. DEFINE n == Len(q.messages)
            x == Texts(q.messages)
            m == [Last(q.messages) EXCEPT !.content = Append(@, r)]
            u == [q EXCEPT !.messages = [@ EXCEPT ![n] = m]]
<1>0. /\ Last(q.messages) = q.messages[n] /\ q.messages[n] \in LedgerMessages
      /\ n \in DOMAIN q.messages /\ q.messages \in Seq(LedgerMessages)
      /\ Worded(LedgerMessages)
  BY LastOf, MessagesAreWorded DEF Ledgers
<1>1. LastStreams(q.messages) <=> LastOpen(q.messages)
  <2>1. q.messages[n].streaming \in BOOLEAN
    BY <1>0 DEF LedgerMessages
  <2>. QED
    BY <1>0, <2>1, Zenon DEF LastStreams, LastOpen
<1>2. CASE ~LastOpen(q.messages)
  BY <1>1, <1>2 DEF AppendDelta
<1>3. CASE LastOpen(q.messages)
  <2>1. q.messages[n].content \in Seq(Runs) /\ Append(q.messages[n].content, r) \in Seq(Runs)
    <3>. DEFINE y == q.messages[n].content
    <3>1. y \in Seq(Runs)
      BY <1>0 DEF LedgerMessages
    <3>. HIDE DEF y
    <3>2. Append(y, r) \in Seq(Runs)
      BY <3>1
    <3>. QED
      BY <3>1, <3>2 DEF y
  <2>2. /\ m \in LedgerMessages /\ m.role = q.messages[n].role
        /\ m.content = Append(q.messages[n].content, r)
    BY <1>0, <2>1 DEF LedgerMessages
  <2>3. t = u
    <3>1. q.provider = <<>> /\ ~LastStreams(q.provider)
      BY DEF Ledgers, LastStreams
    <3>. QED
      BY <1>0, <1>1, <1>3, <3>1 DEF AppendDelta, Amend, WithDelta, SetLast, Ledgers,
         LedgerMessages
  <2>. HIDE DEF m
  <2>4. /\ u \in Ledgers /\ Len(u.messages) = n /\ u.messages[n] = m
        /\ \A i \in DOMAIN q.messages : i # n => u.messages[i] = q.messages[i]
    BY <2>2, LastSet
  <2>. HIDE DEF u
  <2>5. /\ t.messages \in Seq(LedgerMessages) /\ Len(t.messages) = n
        /\ t.messages[n].role = "assistant" /\ q.messages[n].role = "assistant"
        /\ t.messages[n].content = Append(q.messages[n].content, r)
        /\ \A i \in DOMAIN q.messages : i # n =>
              t.messages[i].role = q.messages[i].role /\ t.messages[i].content = q.messages[i].content
    BY <1>3, <2>2, <2>3, <2>4 DEF Ledgers
  <2>6. /\ x \in Seq(Words) /\ x # <<>> /\ x[Len(x)] = q.messages[n].content
        /\ Texts(t.messages) = [x EXCEPT ![Len(x)] = t.messages[n].content]
    <3>. DEFINE a == q.messages
                b == t.messages
    <3>1. LastRewritten(LedgerMessages, a, b)
      BY <1>0, <2>5 DEF LastRewritten
    <3>. HIDE DEF a, b
    <3>2. LastTextIs(a, b)
      BY <1>0, <3>1, TextsChanged, Zenon
    <3>. QED
      BY <3>2 DEF LastTextIs, a, b
  <2>. HIDE DEF x, n
  <2>7. Texts(t.messages) = [x EXCEPT ![Len(x)] = Append(x[Len(x)], r)]
    BY <2>5, <2>6
  <2>. QED
    BY <1>3, <2>6, <2>7 DEF x
<1>. QED
  BY <1>2, <1>3

(* After a response has been finished the last message is not open.        *)
LEMMA FinishCloses ==
    ASSUME NEW q \in Ledgers, q.messages # <<>>, NEW t, t = FinishAssistantMessage(q)
    PROVE  Rewritten(q, t) /\ ~LastOpen(t.messages)
<1>. DEFINE n == Len(q.messages)
            m == [Last(q.messages) EXCEPT !.streaming = FALSE]
            u == [q EXCEPT !.messages = [@ EXCEPT ![n] = m]]
<1>0. /\ Last(q.messages) = q.messages[n] /\ q.messages[n] \in LedgerMessages
      /\ n \in DOMAIN q.messages
  BY LastOf
<1>1. LastStreams(q.messages) <=> LastOpen(q.messages)
  <2>1. q.messages[n].streaming \in BOOLEAN
    BY <1>0 DEF LedgerMessages
  <2>. QED
    BY <1>0, <2>1, Zenon DEF LastStreams, LastOpen
<1>2. CASE ~LastOpen(q.messages)
  BY <1>1, <1>2, Finished DEF FinishAssistantMessage
<1>3. CASE LastOpen(q.messages)
  <2>1. m \in LedgerMessages /\ ~(m.streaming = TRUE)
    BY <1>0 DEF LedgerMessages
  <2>2. t = u
    <3>1. q.provider = <<>> /\ ~Mirrored(q) /\ ~q.persisted
      BY DEF Ledgers, Mirrored
    <3>. QED
      BY <1>0, <1>1, <1>3, <3>1 DEF FinishAssistantMessage, Amend, Completed, SetLast,
         persistLocked, Write, Ledgers, LedgerMessages
  <2>. HIDE DEF m
  <2>3. Len(u.messages) = n /\ u.messages[n] = m
    BY <2>1, LastSet
  <2>. QED
    BY <2>1, <2>2, <2>3, Finished DEF LastOpen
<1>. QED
  BY <1>2, <1>3

(***************************************************************************)
(* What the queue brings, and what is stored                               *)
(***************************************************************************)
Begins(a, b) == Len(a) <= Len(b) /\ \A j \in 1 .. Len(a) : b[j] = a[j]

(* The text w has a segment for each message due, and all of its text.     *)
Tracks(w, due) ==
    /\ w \in Seq(Words) /\ due \in Seq(Words) /\ Len(w) = Len(due)
    /\ \A i \in 1 .. Len(due) : Begins(due[i], w[i])

Exact(w, due) == w[Len(w)] = due[Len(due)]

LEMMA BeginsItself ==
    ASSUME NEW a \in Words
    PROVE  /\ Begins(a, a)
           /\ \A r \in Runs : Append(a, r) \in Words /\ Begins(a, Append(a, r))
BY DEF Begins, Words

LEMMA BeginsLonger ==
    ASSUME NEW a \in Words, NEW b \in Words, Begins(a, b), NEW r \in Runs
    PROVE  Begins(a, Append(b, r))
BY DEF Begins, Words

LEMMA TracksItself ==
    ASSUME NEW x \in Seq(Words)
    PROVE  Tracks(x, x) /\ Exact(x, x)
<1>1. \A i \in 1 .. Len(x) : x[i] \in Words
  OBVIOUS
<1>2. \A i \in 1 .. Len(x) : Begins(x[i], x[i])
  BY <1>1, BeginsItself
<1>. QED
  BY <1>2 DEF Tracks, Exact

LEMMA TracksOpened ==
    ASSUME NEW w, NEW d, Tracks(w, d)
    PROVE  Tracks(Append(w, <<>>), Append(d, <<>>)) /\ Exact(Append(w, <<>>), Append(d, <<>>))
<1>. DEFINE e == <<>>
            v == Append(w, e)
            c == Append(d, e)
            n == Len(d)
<1>0. e \in Words
  BY DEF Words
<1>. HIDE DEF e
<1>1. e \in Words /\ Begins(e, e)
  BY <1>0, BeginsItself
<1>2. /\ v \in Seq(Words) /\ c \in Seq(Words) /\ n \in Nat /\ Len(v) = n + 1 /\ Len(c) = n + 1
      /\ v[n + 1] = e /\ c[n + 1] = e
      /\ \A i \in 1 .. n : v[i] = w[i] /\ c[i] = d[i]
  BY <1>1 DEF Tracks
<1>3. \A i \in 1 .. n : Begins(d[i], w[i])
  BY DEF Tracks
<1>. HIDE DEF v, c, n
<1>4. ASSUME NEW i \in 1 .. n + 1 PROVE Begins(c[i], v[i])
  <2>1. i = n + 1 \/ i \in 1 .. n
    BY <1>2
  <2>. QED
    BY <1>1, <1>2, <1>3, <2>1
<1>5. Tracks(v, c) /\ Exact(v, c)
  BY <1>2, <1>4 DEF Tracks, Exact
<1>. QED
  BY <1>5 DEF v, c, e

LEMMA HeardSays ==
    ASSUME NEW w \in Seq(Words), w # <<>>, NEW e \in Closures, e.kind = "stream"
    PROVE  LET y == Append(w[Len(w)], e.run)
               v == Heard(e, w)
           IN  /\ y \in Words /\ e.run \in Runs /\ w[Len(w)] \in Words
               /\ v \in Seq(Words) /\ Len(v) = Len(w) /\ v[Len(w)] = y
               /\ \A i \in 1 .. Len(w) : i # Len(w) => v[i] = w[i]
<1>. DEFINE y == Append(w[Len(w)], e.run)
            v == Heard(e, w)
<1>1. e.run \in Runs /\ w[Len(w)] \in Words
  BY DEF Closures
<1>2. y \in Words
  BY <1>1, BeginsItself
<1>3. v = [w EXCEPT ![Len(w)] = y]
  BY DEF Heard
<1>. HIDE DEF y, v
<1>4. /\ v \in Seq(Words) /\ Len(v) = Len(w) /\ v[Len(w)] = y
      /\ \A i \in 1 .. Len(w) : i # Len(w) => v[i] = w[i]
  BY <1>2, <1>3, LastReplaced
<1>. QED
  BY <1>1, <1>2, <1>4 DEF y, v

LEMMA TracksHeard ==
    ASSUME NEW w, NEW d, Tracks(w, d), NEW e \in Closures, e.kind = "stream"
    PROVE  Tracks(Heard(e, w), d)
<1>1. CASE w = <<>>
  <2>1. Len(w) = 0 /\ w \in Seq(Words) /\ Len(d) = 0 /\ d \in Seq(Words)
    BY <1>1 DEF Tracks
  <2>2. Heard(e, w) \in Seq(Words)
    BY <2>1, HeardIsText
  <2>3. Heard(e, w) = w
    <3>1. Heard(e, w) = [w EXCEPT ![Len(w)] = Append(@, e.run)]
      BY DEF Heard
    <3>2. DOMAIN w = {}
      BY <1>1
    <3>. QED
      BY <1>1, <3>1, <3>2
  <2>. QED
    BY <2>3
<1>2. CASE w # <<>>
  <2>. DEFINE y == Append(w[Len(w)], e.run)
              v == Heard(e, w)
              n == Len(w)
  <2>1. /\ w \in Seq(Words) /\ d \in Seq(Words) /\ Len(d) = n
        /\ n \in Nat /\ n > 0 /\ \A i \in 1 .. n : Begins(d[i], w[i]) /\ d[i] \in Words
    BY <1>2 DEF Tracks
  <2>2. /\ e.run \in Runs /\ w[n] \in Words
        /\ v \in Seq(Words) /\ Len(v) = n /\ v[n] = y
        /\ \A i \in 1 .. n : i # n => v[i] = w[i]
    BY <1>2, <2>1, HeardSays
  <2>3. n \in 1 .. n
    BY <2>1
  <2>4. Begins(d[n], y)
    BY <2>1, <2>2, <2>3, BeginsLonger
  <2>. HIDE DEF v, n, y
  <2>5. \A i \in 1 .. n : Begins(d[i], v[i])
    BY <2>1, <2>2, <2>4
  <2>6. Tracks(v, d)
    BY <2>1, <2>2, <2>5 DEF Tracks
  <2>. QED
    BY <2>6 DEF v
<1>. QED
  BY <1>1, <1>2

LEMMA TracksSaid ==
    ASSUME NEW w, NEW d, Tracks(w, d), Exact(w, d), d # <<>>,
           NEW e \in Closures, e.kind = "stream",
           NEW c, c = [d EXCEPT ![Len(d)] = Append(d[Len(d)], e.run)]
    PROVE  Tracks(Heard(e, w), c) /\ Exact(Heard(e, w), c)
<1>. DEFINE y == Append(w[Len(w)], e.run)
            v == Heard(e, w)
            n == Len(w)
<1>1. /\ w \in Seq(Words) /\ d \in Seq(Words) /\ Len(d) = n /\ w # <<>> /\ d[n] = w[n]
      /\ n \in Nat /\ n > 0 /\ n \in 1 .. n /\ \A i \in 1 .. n : Begins(d[i], w[i])
  BY DEF Tracks, Exact
<1>2. /\ y \in Words
      /\ v \in Seq(Words) /\ Len(v) = n /\ v[n] = y
      /\ \A i \in 1 .. n : i # n => v[i] = w[i]
  BY <1>1, HeardSays
<1>3. c = [d EXCEPT ![Len(d)] = y]
  BY <1>1
<1>. HIDE DEF v, n, y
<1>4. /\ c \in Seq(Words) /\ Len(c) = Len(d) /\ c[Len(d)] = y
      /\ \A i \in 1 .. Len(d) : i # Len(d) => c[i] = d[i]
  <2>. DEFINE b == [d EXCEPT ![Len(d)] = y]
  <2>1. /\ b \in Seq(Words) /\ Len(b) = Len(d) /\ b[Len(d)] = y
        /\ \A i \in 1 .. Len(d) : i # Len(d) => b[i] = d[i]
    <3>1. d \in Seq(Words) /\ d # <<>> /\ y \in Words
      BY <1>1, <1>2
    <3>. QED
      BY <3>1, LastReplaced
  <2>. QED
    BY <1>3, <2>1
<1>5. Begins(y, y)
  BY <1>2, BeginsItself
<1>6. \A i \in 1 .. n : Begins(c[i], v[i])
  BY <1>1, <1>2, <1>4, <1>5
<1>7. Tracks(v, c) /\ Exact(v, c)
  BY <1>1, <1>2, <1>4, <1>6 DEF Tracks, Exact
<1>. QED
  BY <1>7 DEF v

Answered == \E r \in Runs : pc[r] = "answered"

Opening == \E r \in Runs : pc[r] \in {"request", "stream"}

(* The text due on the screen: between a turn and the next the segment is  *)
(* already on its way, and its message not yet stored.                     *)
Due == IF Answered THEN Append(Texts(s.messages), <<>>) ELSE Texts(s.messages)

OnlyLastOpens ==
    \A i \in DOMAIN s.messages :
        s.messages[i].streaming = TRUE => i = Len(s.messages) /\ Opening

(* Once the queue has been executed the transcript will show what is due;  *)
(* of a message that can still grow, exactly what is stored.               *)
Comes ==
    \E w : /\ Leads(posted, Texts(view), w) /\ Tracks(w, Due)
           /\ Answered \/ LastOpen(s.messages) => Exact(w, Due)

Written == OnlyLastOpens /\ Comes

WrittenInv == FlowInv /\ (Clean => Written)

SaidKept(q, t) ==
    /\ t \in Ledgers /\ Len(t.messages) = Len(q.messages)
    /\ \A i \in DOMAIN q.messages :
          /\ t.messages[i].role = q.messages[i].role
          /\ t.messages[i].content = q.messages[i].content
          /\ t.messages[i].streaming = TRUE => q.messages[i].streaming = TRUE

LEMMA NewText ==
    ASSUME NEW t, t = AddSystemMessage(New)
    PROVE  Texts(t.messages) = <<>> /\ \A i \in DOMAIN t.messages : ~(t.messages[i].streaming = TRUE)
<1>1. New \in Ledgers /\ New.messages = <<>>
  BY DEF New, Ledgers
<1>2. /\ DOMAIN t.messages = 1 .. Len(New.messages) + 1
      /\ t.messages[Len(New.messages) + 1].streaming = FALSE
      /\ Texts(t.messages) = Texts(New.messages)
  <2>1. t = AddMessage(New, "system", <<>>, NoCall, FALSE)
    BY DEF AddSystemMessage
  <2>2. MessageAdded(New, t, "system", FALSE)
    BY <1>1, <2>1, TextsAdded, Zenon DEF Roles
  <2>. QED
    BY <2>2 DEF MessageAdded
<1>3. Len(New.messages) = 0
  BY <1>1
<1>4. DOMAIN t.messages = 1 .. 1 /\ t.messages[1].streaming = FALSE
  BY <1>2, <1>3
<1>. QED
  BY <1>1, <1>2, <1>4, TextsEmpty

LEMMA WrittenInit == Init => Written
<1>. SUFFICES ASSUME Init PROVE Written
  OBVIOUS
<1>1. /\ view = <<>> /\ posted = <<>> /\ pc = [r \in Runs |-> "none"]
      /\ s = AddSystemMessage(New)
  BY DEF Init
<1>2. Texts(s.messages) = <<>> /\ OnlyLastOpens
  BY <1>1, NewText DEF OnlyLastOpens
<1>3. ~Answered
  BY <1>1 DEF Answered
<1>4. Due = <<>> /\ Texts(view) = <<>>
  BY <1>1, <1>2, <1>3, TextsEmpty DEF Due
<1>. DEFINE x == <<>>
<1>6. x \in Seq(Words)
  BY EmptySeq
<1>. HIDE DEF x
<1>7. Leads(posted, x, x) /\ Tracks(x, x) /\ Exact(x, x)
  BY <1>1, <1>6, LeadsNowhere, TracksItself
<1>. QED
  BY <1>2, <1>4, <1>7 DEF Written, Comes, x

LEMMA SaidKeptText ==
    ASSUME NEW q \in Ledgers, q.messages # <<>>, NEW t, SaidKept(q, t)
    PROVE  /\ Texts(t.messages) = Texts(q.messages)
           /\ LastOpen(t.messages) => LastOpen(q.messages)
<1>1. Texts(t.messages) = Texts(q.messages)
  BY TextsRewritten DEF SaidKept
<1>2. Len(q.messages) \in DOMAIN q.messages /\ Len(t.messages) = Len(q.messages)
  BY LastOf DEF SaidKept
<1>. QED
  BY <1>1, <1>2 DEF SaidKept, LastOpen

LEMMA OpensKept ==
    ASSUME s \in Ledgers, OnlyLastOpens, s' \in Ledgers, Len(s'.messages) = Len(s.messages),
           \A i \in DOMAIN s.messages :
              s'.messages[i].streaming = TRUE => s.messages[i].streaming = TRUE,
           (Opening => Opening') \/ ~LastOpen(s'.messages)
    PROVE  OnlyLastOpens'
<1>1. DOMAIN s'.messages = DOMAIN s.messages
  BY DEF Ledgers
<1>. QED
  BY <1>1 DEF OnlyLastOpens, LastOpen

(* A step that says nothing new.                                           *)
LEMMA WrittenKept ==
    ASSUME FlowInv, Written, SaidKept(s, s'), UNCHANGED view,
           \/ UNCHANGED posted
           \/ \E e \in Closures : /\ posted' = Append(posted, e)
                                  /\ e.kind # "stream" /\ e.kind # "turn",
           Answered' <=> Answered,
           (Opening => Opening') \/ ~LastOpen(s'.messages)
    PROVE  Written'
<1>0. s \in Ledgers /\ s.messages # <<>> /\ posted \in Seq(Closures)
  BY DEF FlowInv, TextInv, TextFits, LoopInv, QueueType
<1>1. OnlyLastOpens'
  BY <1>0, OpensKept DEF Written, SaidKept
<1>2. Texts(s'.messages) = Texts(s.messages) /\ (LastOpen(s'.messages) => LastOpen(s.messages))
  BY <1>0, SaidKeptText
<1>3. Due' = Due
  BY <1>2 DEF Due
<1>4. PICK w : /\ Leads(posted, Texts(view), w) /\ Tracks(w, Due)
               /\ Answered \/ LastOpen(s.messages) => Exact(w, Due)
  BY DEF Written, Comes
<1>5. Leads(posted', Texts(view), w)
  <2>1. CASE UNCHANGED posted
    BY <1>4, <2>1
  <2>2. ASSUME NEW e \in Closures, posted' = Append(posted, e),
               e.kind # "stream", e.kind # "turn"
        PROVE  Leads(posted', Texts(view), w)
    <3>1. Leads(posted', Texts(view), Heard(e, w))
      BY <1>0, <1>4, <2>2, LeadsFurther
    <3>. QED
      BY <2>2, <3>1 DEF Heard
  <2>. QED
    BY <2>1, <2>2
<1>6. Comes'
  BY <1>2, <1>3, <1>4, <1>5 DEF Comes
<1>. QED
  BY <1>1, <1>6 DEF Written

LEMMA WrittenClosure ==
    ASSUME FlowInv, Flow, Written, RunClosure
    PROVE  Written'
<1>1. /\ posted # <<>> /\ posted \in Seq(Closures) /\ posted' = Tail(posted)
      /\ posted[1] = Head(posted) /\ UNCHANGED <<s, pc>>
  BY DEF FlowInv, TextInv, LoopInv, QueueType, RunClosure
<1>2. PICK w : /\ Leads(posted, Texts(view), w) /\ Tracks(w, Due)
               /\ Answered \/ LastOpen(s.messages) => Exact(w, Due)
  BY DEF Written, Comes
<1>3. Texts(view') = Heard(posted[1], Texts(view))
  BY <1>1, ClosureIsHeard
<1>4. Leads(posted', Texts(view'), w)
  BY <1>1, <1>2, <1>3, LeadsOn
<1>5. (Answered' <=> Answered) /\ (Opening' <=> Opening) /\ Due' = Due
  BY <1>1 DEF Answered, Opening, Due
<1>6. OnlyLastOpens'
  BY <1>1, <1>5 DEF Written, OnlyLastOpens
<1>7. Comes'
  BY <1>1, <1>2, <1>4, <1>5 DEF Comes
<1>. QED
  BY <1>6, <1>7 DEF Written

(* While no run is in its loop no message is open.                         *)
LEMMA NobodyWrites ==
    ASSUME FlowInv, ~streaming, ~cancelling
    PROVE  /\ \A r \in Runs : ~InLoop(r)
           /\ ~Answered /\ ~Opening /\ ~Following
           /\ Flow => \A j \in DOMAIN posted : posted[j].kind = "last"
<1>1. \A r \in Runs : ~InLoop(r)
  BY DEF FlowInv, TextInv, LoopInv, OneLoopAtATime
<1>2. ~Following
  BY Zenon DEF Following
<1>3. Flow => \A j \in DOMAIN posted : posted[j].kind = "last"
  BY <1>2, IdleQueue
<1>. QED
  BY <1>1, <1>2, <1>3 DEF InLoop, Answered, Opening

LEMMA WrittenNew ==
    ASSUME FlowInv, Flow, Written, NewSession
    PROVE  Written'
<1>1. /\ UNCHANGED <<posted, pc>> /\ s' = AddSystemMessage(New) /\ view' = <<>>
      /\ ~streaming /\ ~cancelling /\ posted \in Seq(Closures)
  BY DEF NewSession, FlowInv, TextInv, LoopInv, QueueType
<1>2. ~Answered' /\ \A j \in DOMAIN posted : posted[j].kind = "last"
  <2>1. ~Answered
    BY <1>1, NobodyWrites
  <2>. QED
    BY <1>1, <2>1, NobodyWrites DEF Answered
<1>3. Texts(s'.messages) = <<>> /\ \A i \in DOMAIN s'.messages : ~(s'.messages[i].streaming = TRUE)
  BY <1>1, NewText
<1>4. Due' = <<>> /\ Texts(view') = <<>> /\ OnlyLastOpens'
  BY <1>1, <1>2, <1>3, TextsEmpty DEF Due, OnlyLastOpens
<1>. DEFINE x == <<>>
<1>6. x \in Seq(Words)
  BY EmptySeq
<1>. HIDE DEF x
<1>7. Leads(posted', x, x) /\ Tracks(x, x) /\ Exact(x, x)
  BY <1>1, <1>2, <1>6, LeadsIdle, TracksItself
<1>8. Comes'
  BY <1>4, <1>7 DEF Comes, x
<1>. QED
  BY <1>4, <1>8 DEF Written

LEMMA WrittenStart ==
    ASSUME FlowInv, Flow, Written, StartSubmission
    PROVE  Written'
<1>. DEFINE q == AddUserMessage(s)
            u == ViewMessage("user", runID + 1, FALSE)
            a == ViewMessage("assistant", runID + 1, TRUE)
            v == Append(view, u)
            n == Len(s.messages)
            x == Texts(s.messages)
            y == Texts(view)
<1>1. /\ LoopInv /\ s \in Ledgers /\ s.messages # <<>> /\ view \in Seq(ViewMessages)
      /\ posted \in Seq(Closures) /\ pc \in [Runs -> Positions] /\ Worded(ViewMessages)
  BY MessagesAreWorded
     DEF FlowInv, TextInv, TextFits, ShownText, LoopInv, QueueType, ControlType
<1>2. runID + 1 \in Runs /\ pc' = [pc EXCEPT ![runID + 1] = "request"]
  BY <1>1, AgentRunAssumption DEF StartSubmission, LoopInv, ControlType, Runs
<1>3. UNCHANGED posted /\ ~streaming /\ ~cancelling /\ s' = StartAssistantMessage(q)
  BY DEF StartSubmission
<1>4. /\ ~Answered /\ ~Opening /\ \A r \in Runs : ~InLoop(r)
      /\ \A j \in DOMAIN posted : posted[j].kind = "last"
  BY <1>3, NobodyWrites
<1>5. ~Answered' /\ Opening'
  <2>1. pc'[runID + 1] = "request" /\ \A r \in Runs : r # runID + 1 => pc'[r] = pc[r]
    BY <1>1, <1>2
  <2>. QED
    BY <1>2, <1>4, <2>1 DEF Answered, Opening
<1>6. /\ q \in Ledgers /\ Len(q.messages) = n + 1 /\ n \in Nat
      /\ DOMAIN q.messages = 1 .. n + 1 /\ DOMAIN s.messages = 1 .. n
      /\ \A i \in DOMAIN s.messages : q.messages[i] = s.messages[i]
      /\ q.messages[n + 1].streaming = FALSE /\ Texts(q.messages) = x
  <2>1. q = AddMessage(s, "user", <<>>, NoCall, FALSE)
    BY DEF AddUserMessage
  <2>. HIDE DEF q
  <2>2. MessageAdded(s, q, "user", FALSE)
    BY <1>1, <2>1, TextsAdded, Zenon DEF Roles
  <2>. QED
    BY <2>2 DEF MessageAdded
<1>7. /\ Len(s'.messages) = n + 2 /\ DOMAIN s'.messages = 1 .. n + 2
      /\ \A i \in DOMAIN q.messages : s'.messages[i] = q.messages[i]
      /\ Texts(s'.messages) = Append(x, <<>>)
  <2>. HIDE DEF q, x
  <2>1. s' = AddMessage(q, "assistant", <<>>, NoCall, TRUE)
    BY <1>3 DEF StartAssistantMessage
  <2>2. /\ Len(s'.messages) = Len(q.messages) + 1
        /\ DOMAIN s'.messages = 1 .. Len(q.messages) + 1
        /\ \A i \in DOMAIN q.messages : s'.messages[i] = q.messages[i]
        /\ Texts(s'.messages) = Append(Texts(q.messages), <<>>)
    <3>1. MessageAdded(q, s', "assistant", TRUE)
      BY <1>6, <2>1, TextsAdded, Zenon DEF Roles
    <3>. QED
      BY <3>1 DEF MessageAdded
  <2>. QED
    BY <1>6, <2>2
<1>. HIDE DEF q, n
<1>8. OnlyLastOpens'
  <2>1. ASSUME NEW i \in DOMAIN s'.messages, s'.messages[i].streaming = TRUE
        PROVE  i = Len(s'.messages)
    <3>1. CASE i \in 1 .. n
      BY <1>4, <1>6, <1>7, <2>1, <3>1 DEF Written, OnlyLastOpens
    <3>2. CASE i = n + 1
      BY <1>6, <1>7, <2>1, <3>2
    <3>. QED
      BY <1>6, <1>7, <3>1, <3>2
  <2>. QED
    BY <1>5, <2>1 DEF OnlyLastOpens
<1>9. PICK w : /\ Leads(posted, y, w) /\ Tracks(w, Due)
  BY DEF Written, Comes
<1>10. w = y /\ Due = x /\ Tracks(y, x)
  <2>1. w = y
    BY <1>1, <1>4, <1>9, LeadsIdle
  <2>. QED
    BY <1>4, <1>9, <2>1 DEF Due
<1>11. Texts(view') = Append(y, <<>>)
  <2>1. u \in ViewMessages /\ u.role = "user"
    BY <1>2, FreshSegment
  <2>2. a \in ViewMessages /\ a.role = "assistant" /\ a.content = <<>>
    BY <1>2, FreshSegment
  <2>3. view' = view \o <<u, a>>
    BY DEF StartSubmission
  <2>. HIDE DEF u, a, y
  <2>4. v \in Seq(ViewMessages) /\ view' = Append(v, a)
    BY <1>1, <2>1, <2>2, <2>3
  <2>5. Texts(v) = With(u, Texts(view))
    BY <1>1, <2>1, TextsAppended
  <2>. HIDE DEF v
  <2>6. Texts(view') = With(a, Texts(v))
    BY <1>1, <2>2, <2>4, TextsAppended
  <2>. QED
    BY <2>1, <2>2, <2>5, <2>6 DEF With, y
<1>. HIDE DEF x, y
<1>12. Tracks(Append(y, <<>>), Append(x, <<>>)) /\ Exact(Append(y, <<>>), Append(x, <<>>))
  BY <1>10, TracksOpened
<1>. DEFINE z == Append(y, <<>>)
<1>13. z \in Seq(Words)
  BY <1>12 DEF Tracks
<1>. HIDE DEF z
<1>14. Leads(posted', z, z)
  BY <1>1, <1>3, <1>4, <1>13, LeadsIdle
<1>15. Due' = Append(x, <<>>)
  BY <1>5, <1>7 DEF Due
<1>16. Comes'
  BY <1>11, <1>12, <1>14, <1>15 DEF Comes, z
<1>. QED
  BY <1>8, <1>16 DEF Written

LEMMA WrittenDelta ==
    ASSUME FlowInv, Written, NEW r \in Runs, s' = AppendDelta(s, r), ~Answered,
           UNCHANGED <<view, pc>>, NEW e \in Closures, e.kind = "stream", e.run = r,
           posted' = Append(posted, e)
    PROVE  Written'
<1>1. /\ s \in Ledgers /\ s.messages # <<>> /\ posted \in Seq(Closures)
      /\ s.messages \in Seq(LedgerMessages)
      /\ LastOpen(s.messages) => s.messages[Len(s.messages)].role = "assistant"
  BY LastOf DEF FlowInv, TextInv, TextFits, LoopInv, QueueType, LastOpen, Ledgers
<1>2. (Opening' <=> Opening) /\ ~Answered'
  BY DEF Opening, Answered
<1>3. OnlyLastOpens'
  <2>1. /\ s' \in Ledgers /\ Len(s'.messages) = Len(s.messages)
        /\ \A i \in DOMAIN s.messages :
              \/ Same(s.messages[i], s'.messages[i])
              \/ s'.messages[i] = [s.messages[i] EXCEPT !.content = Append(@, r)]
    BY <1>1, DeltaAppended
  <2>2. ASSUME NEW i \in DOMAIN s.messages, s'.messages[i].streaming = TRUE
        PROVE  s.messages[i].streaming = TRUE
    <3>1. s.messages[i] \in LedgerMessages
      BY <1>1
    <3>. QED
      BY <2>1, <2>2, <3>1 DEF Same, LedgerMessages
  <2>. QED
    BY <1>1, <1>2, <2>1, <2>2, OpensKept DEF Written
<1>. DEFINE x == Texts(s.messages)
            y == Texts(s'.messages)
<1>4. Due = x /\ Due' = y
  BY <1>2 DEF Due
<1>5. \/ ~LastOpen(s.messages) /\ s' = s
      \/ /\ LastOpen(s.messages) /\ x \in Seq(Words) /\ x # <<>>
         /\ y = [x EXCEPT ![Len(x)] = Append(x[Len(x)], r)]
  BY <1>1, TextsSaid
<1>6. PICK w : /\ Leads(posted, Texts(view), w) /\ Tracks(w, x)
               /\ LastOpen(s.messages) => Exact(w, x)
  BY <1>4 DEF Written, Comes
<1>. HIDE DEF x, y
<1>. DEFINE v == Heard(e, w)
<1>7. Leads(posted', Texts(view), v)
  BY <1>1, <1>6, LeadsFurther
<1>8. Tracks(v, y) /\ (LastOpen(s'.messages) => Exact(v, y))
  <2>1. CASE ~LastOpen(s.messages) /\ s' = s
    <3>1. y = x /\ ~LastOpen(s'.messages)
      BY <2>1 DEF x, y
    <3>. QED
      BY <1>6, <3>1, TracksHeard
  <2>2. CASE /\ LastOpen(s.messages) /\ x # <<>>
             /\ y = [x EXCEPT ![Len(x)] = Append(x[Len(x)], r)]
    BY <1>6, <2>2, TracksSaid
  <2>. QED
    BY <1>5, <2>1, <2>2
<1>. HIDE DEF v
<1>9. Comes'
  BY <1>2, <1>4, <1>7, <1>8 DEF Comes
<1>. QED
  BY <1>3, <1>9 DEF Written

(* The end of a turn: the next segment is on its way.                      *)
LEMMA WrittenTurn ==
    ASSUME FlowInv, Written, NEW r \in Runs, ~Answered, ~Opening, Answered', UNCHANGED view,
           UNCHANGED s \/ s' = AddToolResultMessage(s, CallID(r), <<>>),
           NEW q \in Seq(Closures),
           q = posted \/ \E e \in Closures : e.kind = "toolresult" /\ q = Append(posted, e),
           NEW f \in Closures, f.kind = "turn", posted' = Append(q, f)
    PROVE  Written'
<1>1. s \in Ledgers /\ s.messages # <<>> /\ posted \in Seq(Closures) /\ CallID(r) \in CallIDs
  BY DEF FlowInv, TextInv, TextFits, LoopInv, QueueType, CallID, CallIDs
<1>2. /\ Texts(s'.messages) = Texts(s.messages)
      /\ \A i \in DOMAIN s'.messages : ~(s'.messages[i].streaming = TRUE)
  <2>1. \A i \in DOMAIN s.messages : ~(s.messages[i].streaming = TRUE)
    BY DEF Written, OnlyLastOpens
  <2>2. CASE UNCHANGED s
    BY <2>1, <2>2
  <2>3. CASE s' = AddToolResultMessage(s, CallID(r), <<>>)
    <3>. DEFINE call == CallID(r)
    <3>1. call \in CallIDs \cup {NoCall} /\ s' = AddMessage(s, "tool", <<>>, call, FALSE)
      BY <1>1, <2>3 DEF AddToolResultMessage
    <3>. HIDE DEF call
    <3>2. MessageAdded(s, s', "tool", FALSE)
      BY <1>1, <3>1, TextsAdded, Zenon DEF Roles
    <3>3. /\ DOMAIN s'.messages = 1 .. Len(s.messages) + 1 /\ Len(s.messages) \in Nat
          /\ DOMAIN s.messages = 1 .. Len(s.messages)
          /\ \A i \in DOMAIN s.messages : s'.messages[i] = s.messages[i]
          /\ s'.messages[Len(s.messages) + 1].streaming = FALSE
          /\ Texts(s'.messages) = Texts(s.messages)
      BY <3>2 DEF MessageAdded
    <3>4. \A i \in DOMAIN s'.messages : i \in DOMAIN s.messages \/ i = Len(s.messages) + 1
      BY <3>3
    <3>. QED
      BY <2>1, <3>3, <3>4
  <2>. QED
    BY <2>2, <2>3
<1>3. OnlyLastOpens'
  BY <1>2 DEF OnlyLastOpens
<1>. DEFINE x == Texts(s.messages)
<1>4. Due = x /\ Due' = Append(x, <<>>)
  BY <1>2 DEF Due
<1>5. PICK w : Leads(posted, Texts(view), w) /\ Tracks(w, x)
  BY <1>4 DEF Written, Comes
<1>. HIDE DEF x
<1>6. Leads(q, Texts(view), w)
  <2>1. CASE q = posted
    BY <1>5, <2>1
  <2>2. ASSUME NEW e \in Closures, e.kind = "toolresult", q = Append(posted, e)
        PROVE  Leads(q, Texts(view), w)
    <3>1. Leads(q, Texts(view), Heard(e, w))
      BY <1>1, <1>5, <2>2, LeadsFurther
    <3>. QED
      BY <2>2, <3>1 DEF Heard
  <2>. QED
    BY <2>1, <2>2
<1>7. Leads(posted', Texts(view), Append(w, <<>>))
  <2>1. Leads(posted', Texts(view), Heard(f, w))
    BY <1>6, LeadsFurther
  <2>. QED
    BY <2>1 DEF Heard
<1>8. Tracks(Append(w, <<>>), Append(x, <<>>)) /\ Exact(Append(w, <<>>), Append(x, <<>>))
  BY <1>5, TracksOpened
<1>9. Comes'
  BY <1>4, <1>7, <1>8 DEF Comes
<1>. QED
  BY <1>3, <1>9 DEF Written

(* The message of the next response is stored.                             *)
LEMMA WrittenNext ==
    ASSUME FlowInv, Written, Answered, ~Opening, ~Answered', Opening', UNCHANGED <<view, posted>>,
           s' = StartAssistantMessage(s)
    PROVE  Written'
<1>1. s \in Ledgers
  BY DEF FlowInv, TextInv, TextFits
<1>2. /\ DOMAIN s'.messages = 1 .. Len(s.messages) + 1 /\ Len(s.messages) \in Nat
      /\ DOMAIN s.messages = 1 .. Len(s.messages) /\ Len(s'.messages) = Len(s.messages) + 1
      /\ \A i \in DOMAIN s.messages : s'.messages[i] = s.messages[i]
      /\ Texts(s'.messages) = Append(Texts(s.messages), <<>>)
  <2>1. s' = AddMessage(s, "assistant", <<>>, NoCall, TRUE)
    BY DEF StartAssistantMessage
  <2>2. MessageAdded(s, s', "assistant", TRUE)
    BY <1>1, <2>1, TextsAdded, Zenon DEF Roles
  <2>. QED
    BY <2>2 DEF MessageAdded
<1>3. \A i \in DOMAIN s'.messages : i \in DOMAIN s.messages \/ i = Len(s'.messages)
  BY <1>2
<1>4. OnlyLastOpens'
  BY <1>2, <1>3 DEF Written, OnlyLastOpens
<1>5. Due' = Due
  BY <1>2 DEF Due
<1>6. Comes'
  BY <1>5 DEF Written, Comes
<1>. QED
  BY <1>4, <1>6 DEF Written

LEMMA KeptMeansSaid ==
    ASSUME NEW q \in Ledgers, q.messages # <<>>, NEW call \in CallIDs
    PROVE  /\ SaidKept(q, q)
           /\ SaidKept(q, FinishAssistantMessage(q)) /\ ~LastOpen(FinishAssistantMessage(q).messages)
           /\ SaidKept(q, UpdateToolCallInput(q, call))
           /\ SaidKept(q, AddToolCallToAssistant(q, call))
<1>1. ASSUME NEW t, Rewritten(q, t) PROVE SaidKept(q, t)
  BY <1>1 DEF Rewritten, Same, SaidKept
<1>2. SaidKept(q, FinishAssistantMessage(q)) /\ ~LastOpen(FinishAssistantMessage(q).messages)
  BY <1>1, FinishCloses
<1>3. SaidKept(q, UpdateToolCallInput(q, call))
  BY <1>1, InputUpdated
<1>4. SaidKept(q, AddToolCallToAssistant(q, call))
  <2>. DEFINE t == AddToolCallToAssistant(q, call)
  <2>1. /\ t \in Ledgers /\ Len(t.messages) = Len(q.messages)
        /\ \A i \in DOMAIN q.messages :
              /\ t.messages[i].role = q.messages[i].role
              /\ t.messages[i].content = q.messages[i].content
              /\ t.messages[i].streaming = q.messages[i].streaming
    BY CallAdded
  <2>. HIDE DEF t
  <2>2. SaidKept(q, t)
    BY <2>1 DEF SaidKept
  <2>. QED
    BY <2>2 DEF t
<1>. QED
  BY <1>2, <1>3, <1>4 DEF SaidKept

LEMMA WrittenGoroutine ==
    ASSUME FlowInv, Flow, Written, NEW r \in Runs, Goroutine(r), Clean, Clean'
    PROVE  Written'
<1>. DEFINE call == CallID(r)
<1>1. /\ LoopInv /\ s \in Ledgers /\ s.messages # <<>>
      /\ posted \in Seq(Closures) /\ iter \in [Runs -> Nat] /\ call \in CallIDs
      /\ pc \in [Runs -> Positions]
  BY DEF FlowInv, TextInv, TextFits, LoopInv, QueueType, ControlType, CallID, CallIDs
<1>2. UNCHANGED view
  BY GoroutineShowsNothing DEF uiVars
<1>3. /\ pc[r] # "failed" /\ r \notin ctxDone /\ \A from : ~ReturnError(r, from)
      /\ \A q \in Runs : InLoop(q) /\ InLoop(r) => q = r
      /\ \A q \in Runs : InLoop(q)' => InLoop(q)
  BY <1>1, CleanRun, GoroutineIsRunStep DEF RunStep
<1>4. \A k \in Kinds : Closure(k, r) \in Closures /\ Closure(k, r).kind = k
                       /\ Closure(k, r).run = r
  BY <1>1 DEF Closure, Closures, CallIDs
<1>. HIDE DEF call
<1>5. InLoop(r) => /\ Answered <=> pc[r] = "answered"
                   /\ Answered' <=> pc'[r] = "answered"
                   /\ Opening <=> pc[r] \in {"request", "stream"}
                   /\ Opening' <=> pc'[r] \in {"request", "stream"}
  BY <1>3 DEF InLoop, Answered, Opening
<1>6. /\ SaidKept(s, s)
      /\ SaidKept(s, FinishAssistantMessage(s)) /\ ~LastOpen(FinishAssistantMessage(s).messages)
      /\ SaidKept(s, UpdateToolCallInput(s, call))
      /\ SaidKept(s, AddToolCallToAssistant(s, call))
  BY <1>1, KeptMeansSaid
<1>7. ASSUME SaidKept(s, s'),
             \/ UNCHANGED posted
             \/ \E k \in Kinds \ {"stream", "turn"} : posted' = Append(posted, Closure(k, r)),
             Answered' <=> Answered, (Opening => Opening') \/ ~LastOpen(s'.messages)
      PROVE  Written'
  <2>1. \/ UNCHANGED posted
        \/ \E e \in Closures : /\ posted' = Append(posted, e)
                               /\ e.kind # "stream" /\ e.kind # "turn"
    BY <1>4, <1>7
  <2>. QED
    BY <1>2, <1>7, <2>1, WrittenKept
<1>10. CASE Request(r)
  <2>1. Go(r, "request", "stream") /\ UNCHANGED <<s, posted>>
    BY <1>3, <1>10 DEF Request
  <2>2. InLoop(r) /\ pc[r] = "request" /\ pc'[r] = "stream"
    BY <1>1, <2>1 DEF Go, InLoop
  <2>. QED
    BY <1>5, <1>6, <1>7, <2>1, <2>2
<1>11. CASE VisitMessage(r)
  <2>1. /\ pc[r] = "stream" /\ UNCHANGED pc /\ s' = AppendDelta(s, r) /\ InLoop(r)
        /\ posted' = Append(posted, Closure("stream", r))
    BY <1>1, <1>3, <1>11, CleanPost DEF VisitMessage, InLoop
  <2>2. /\ Closure("stream", r) \in Closures /\ Closure("stream", r).kind = "stream"
        /\ Closure("stream", r).run = r
    BY <1>4 DEF Kinds
  <2>3. ~Answered
    BY <1>5, <2>1
  <2>. QED
    BY <1>2, <2>1, <2>2, <2>3, WrittenDelta
<1>12. CASE VisitToolCallStart(r)
  <2>1. /\ pc[r] = "stream" /\ UNCHANGED pc /\ s' = AddToolCallToAssistant(s, call)
        /\ posted' = Append(posted, Closure("toolcall", r)) /\ InLoop(r)
    BY <1>1, <1>3, <1>12, CleanPost DEF VisitToolCallStart, InLoop, call
  <2>. QED
    BY <1>5, <1>6, <1>7, <2>1 DEF Kinds
<1>13. CASE StopForTools(r)
  <2>1. /\ pc[r] = "stream" /\ pc'[r] = "stopped" /\ UNCHANGED posted /\ InLoop(r)
        /\ s' = FinishAssistantMessage(s)
    BY <1>1, <1>13 DEF StopForTools, Go, InLoop
  <2>. QED
    BY <1>5, <1>6, <1>7, <2>1
<1>14. CASE Complete(r)
  <2>1. /\ pc[r] = "stream" /\ pc'[r] = "deferred" /\ InLoop(r)
        /\ s' = FinishAssistantMessage(s) /\ posted' = Append(posted, Closure("complete", r))
    BY <1>1, <1>3, <1>14, CleanPost DEF Complete, ReturnNil, Go, InLoop
  <2>. QED
    BY <1>5, <1>6, <1>7, <2>1 DEF Kinds
<1>15. CASE DispatchTools(r)
  <2>1. /\ pc[r] = "stopped" /\ pc'[r] = "tools" /\ InLoop(r)
        /\ s' = UpdateToolCallInput(s, call)
        /\ UNCHANGED posted \/ posted' = Append(posted, Closure("toolcall", r))
    BY <1>1, <1>3, <1>15, CleanPost DEF DispatchTools, Go, InLoop, call
  <2>. QED
    BY <1>5, <1>6, <1>7, <2>1 DEF Kinds
<1>16. CASE StoreResults(r)
  <2>. DEFINE q == Append(posted, Closure("toolresult", r))
  <2>1. pc[r] = "tools" /\ pc'[r] = "answered" /\ InLoop(r)
    BY <1>1, <1>16 DEF StoreResults, Go, InLoop
  <2>2. /\ Closure("turn", r) \in Closures /\ Closure("turn", r).kind = "turn"
        /\ Closure("toolresult", r) \in Closures /\ Closure("toolresult", r).kind = "toolresult"
    BY <1>4 DEF Kinds
  <2>3. \/ UNCHANGED s /\ posted' = Append(posted, Closure("turn", r))
        \/ s' = AddToolResultMessage(s, CallID(r), <<>>) /\ posted' = Append(q, Closure("turn", r))
    BY <1>1, <1>3, <1>16, CleanPost DEF StoreResults
  <2>4. ~Answered /\ ~Opening /\ Answered'
    BY <1>5, <2>1
  <2>5. q \in Seq(Closures)
    BY <1>1, <2>2
  <2>6. CASE UNCHANGED s /\ posted' = Append(posted, Closure("turn", r))
    BY <1>1, <1>2, <2>2, <2>4, <2>6, WrittenTurn
  <2>7. CASE s' = AddToolResultMessage(s, CallID(r), <<>>) /\ posted' = Append(q, Closure("turn", r))
    <3>1. \E e \in Closures : e.kind = "toolresult" /\ q = Append(posted, e)
      BY <2>2
    <3>. HIDE DEF q
    <3>. QED
      BY <1>2, <2>2, <2>4, <2>5, <2>7, <3>1, WrittenTurn
  <2>. QED
    BY <2>3, <2>6, <2>7
<1>17. CASE NextIteration(r)
  <2>1. /\ pc[r] = "answered" /\ pc'[r] = "request" /\ InLoop(r) /\ UNCHANGED posted
        /\ s' = StartAssistantMessage(s)
    BY <1>1, <1>17 DEF NextIteration, Go, InLoop
  <2>2. Answered /\ ~Opening /\ ~Answered' /\ Opening'
    BY <1>5, <2>1
  <2>. QED
    BY <1>2, <2>1, <2>2, WrittenNext
<1>18. CASE DeferredFinish(r) \/ DeferredPost(r)
  <2>1. /\ s' \in {s, FinishAssistantMessage(s)}
        /\ UNCHANGED posted \/ posted' = Append(posted, Closure("last", r))
        /\ \A q \in Runs : \/ pc'[q] = pc[q]
                           \/ /\ pc[q] \notin {"answered", "request", "stream"}
                              /\ pc'[q] \notin {"answered", "request", "stream"}
    BY <1>1, <1>18 DEF DeferredFinish, DeferredPost, Go
  <2>2. (Answered' <=> Answered) /\ (Opening' <=> Opening)
    BY <2>1 DEF Answered, Opening
  <2>. QED
    BY <1>6, <1>7, <2>1, <2>2 DEF Kinds
<1>19. CASE SeeCancelled(r) \/ StreamFails(r) \/ PostError(r)
  BY <1>3, <1>19 DEF SeeCancelled, StreamFails, PostError, Go
<1>. QED
  BY <1>10, <1>11, <1>12, <1>13, <1>14, <1>15, <1>16, <1>17, <1>18, <1>19 DEF Goroutine

LEMMA WrittenStep == WrittenInv /\ [Next]_vars => WrittenInv'
<1>. SUFFICES ASSUME WrittenInv, [Next]_vars PROVE WrittenInv'
  OBVIOUS
<1>1. FlowInv /\ FlowInv' /\ (Clean' => Clean)
  BY FlowStep, OutcomesStep DEF WrittenInv, FlowInv, TextInv
<1>2. ASSUME Clean', Clean, Flow, Written PROVE Written'
  <2>1. CASE StartSubmission
    BY <1>1, <1>2, <2>1, WrittenStart
  <2>2. CASE Cancel
    BY <1>1, <1>2, <2>2, CancelIsNotClean
  <2>3. CASE NewSession
    BY <1>1, <1>2, <2>3, WrittenNew
  <2>4. CASE RunClosure
    BY <1>1, <1>2, <2>4, WrittenClosure
  <2>5. CASE \E r \in Runs : Goroutine(r)
    BY <1>1, <1>2, <2>5, WrittenGoroutine
  <2>6. CASE UNCHANGED vars
    <3>1. UNCHANGED <<s, view, posted, pc>>
      BY <2>6 DEF vars, uiVars
    <3>. QED
      BY <1>2, <3>1 DEF Written, OnlyLastOpens, Comes, Due, Answered, Opening
  <2>. QED
    BY <2>1, <2>2, <2>3, <2>4, <2>5, <2>6 DEF Next
<1>. QED
  BY <1>1, <1>2 DEF WrittenInv, FlowInv, CleanFlow

LEMMA BeginsIsPrefix ==
    ASSUME NEW a \in Words, NEW b \in Words, Begins(a, b) PROVE IsPrefix(a, b)
<1>1. a \in Seq(Runs) /\ b \in Seq(Runs) /\ Len(a) <= Len(b)
      /\ \A j \in 1 .. Len(a) : b[j] = a[j]
  BY DEF Begins, Words
<1>2. a = SubSeq(b, 1, Len(a))
  <2>. DEFINE n == Len(a)
              c == SubSeq(b, 1, n)
  <2>1. n \in Nat /\ a = [j \in 1 .. n |-> a[j]]
    BY <1>1
  <2>2. c = [j \in 1 .. n |-> b[j]]
    BY <1>1
  <2>3. c = a
    BY <1>1, <2>1, <2>2
  <2>. QED
    BY <2>3
<1>. QED
  BY <1>1, <1>2 DEF IsPrefix

(* When all is quiet after runs that completed, the transcript has a       *)
(* segment for each assistant message of the ledger, and the segment shows *)
(* all the text that is stored: no event was dropped or went astray.       *)
THEOREM TranscriptIsComplete == Spec => []TranscriptShowsLedger
<1>1. WrittenInv => TranscriptShowsLedger
  <2>. DEFINE segments == Texts(view)
              stored == Texts(s.messages)
  <2>. SUFFICES ASSUME WrittenInv, Quiet,
                       \A r \in 1 .. runID : returned[r] = "nil" /\ r \notin ctxDone
                PROVE  /\ Len(segments) = Len(stored)
                       /\ \A i \in DOMAIN stored : IsPrefix(stored[i], segments[i])
    BY DEF TranscriptShowsLedger
  <2>1. Written /\ posted = <<>>
    BY DEF WrittenInv, Clean, Quiet
  <2>2. ~Answered
    BY DEF Quiet, Answered
  <2>3. PICK w : Leads(posted, segments, w) /\ Tracks(w, stored)
    BY <2>1, <2>2 DEF Written, Comes, Due
  <2>4. Tracks(segments, stored)
    BY <2>1, <2>3, LeadsNowhere
  <2>. HIDE DEF segments, stored
  <2>5. ASSUME NEW i \in DOMAIN stored PROVE IsPrefix(stored[i], segments[i])
    <3>1. i \in 1 .. Len(stored) /\ stored[i] \in Words /\ segments[i] \in Words
      BY <2>4 DEF Tracks
    <3>. QED
      BY <2>4, <3>1, BeginsIsPrefix DEF Tracks
  <2>. QED
    BY <2>4, <2>5 DEF Tracks
<1>2. Init => WrittenInv
  BY FlowInit, WrittenInit DEF WrittenInv
<1>. QED
  BY <1>1, <1>2, WrittenStep, PTL DEF Spec
=============================================================================
