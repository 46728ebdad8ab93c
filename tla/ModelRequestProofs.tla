------------------------- MODULE ModelRequestProofs -------------------------
(***************************************************************************)
(* Why a request fits into the window of every configuration, why the      *)
(* driver, its two channels and its readers keep the promise of a response *)
(* (module Response), and why the calls the agent collects are those of    *)
(* the provider, for any responses of the providers, any limits, any       *)
(* estimates and any room in the channel.                                  *)
(***************************************************************************)
EXTENDS ModelRequest, SequenceTheorems, FiniteSetTheorems, WellFoundedInduction, TLAPS

(***************************************************************************)
(* The budget                                                              *)
(***************************************************************************)
Phases == {"prepare", "summarize", "respond", "refused"}

Limits == [windowTokens : Int, maxOutputTokens : Int]

BudgetInv ==
    /\ config \in Limits /\ Valid(config)
    /\ estimate \in Nat
    /\ phase \in Phases
    /\ phase = "respond" =>
          SoftEnough(estimate) \/ ~OverContextLimit(estimate, contextHardLimitRatio)

LEMMA EstimatesAreNumbers == \A e \in Estimates : e \in Nat
  BY ModelRequestAssumption, Zenon

LEMMA BudgetInit == Init => BudgetInv
<1>. SUFFICES ASSUME Init PROVE BudgetInv
  OBVIOUS
<1>1. config \in Limits /\ Valid(config)
  BY ModelRequestAssumption, Zenon DEF Init, Limits
<1>. QED
  BY <1>1 DEF Init, BudgetInv, Phases

LEMMA BudgetStep == BudgetInv /\ [Next]_vars => BudgetInv'
<1>. SUFFICES ASSUME BudgetInv, [Next]_vars PROVE BudgetInv'
  OBVIOUS
<1>1. ASSUME UNCHANGED <<config, estimate, phase>> PROVE BudgetInv'
  BY <1>1 DEF BudgetInv, Valid, SoftEnough, OverContextLimit, UsableInputTokens,
              ContextWindowTokens, MaxOutputTokens
<1>2. ASSUME UNCHANGED config, estimate' \in Estimates, phase' \in Phases,
             phase' = "respond" =>
                SoftEnough(estimate') \/ ~OverContextLimit(estimate', contextHardLimitRatio)
      PROVE  BudgetInv'
  BY <1>2, EstimatesAreNumbers
     DEF BudgetInv, Valid, SoftEnough, OverContextLimit, UsableInputTokens,
         ContextWindowTokens, MaxOutputTokens
<1>3. CASE PrepareAsItIs \/ CachedSummary \/ UseSummary
  <2>1. /\ UNCHANGED config /\ estimate' \in Estimates /\ phase' \in {"respond", "refused"}
        /\ \/ SoftEnough(estimate') /\ phase' = "respond"
           \/ IF OverContextLimit(estimate', contextHardLimitRatio)
              THEN phase' = "refused" ELSE phase' = "respond"
    BY <1>3 DEF PrepareAsItIs, CachedSummary, UseSummary, AfterSummary, Respond, Refuse
  <2>. QED
    BY <1>2, <2>1 DEF Phases
<1>4. CASE Summarize
  BY <1>2, <1>4 DEF Summarize, Phases
<1>5. CASE Driver
  BY <1>1, <1>5 DEF Driver, DriverStep, Convert, SendDelta, SendCancelled, Sent, CloseErr,
                    CloseDeltas, StreamFails, NextEvent, EndOfEvents, driverUnchanged
<1>6. CASE Reader
  BY <1>1, <1>6 DEF Reader, ReceiveDelta, ReceiveError, SeeCancelled, EndOfDeltas,
                    readerUnchanged
<1>7. CASE Cancel \/ UNCHANGED vars
  BY <1>1, <1>7 DEF Cancel, vars
<1>. QED
  BY <1>3, <1>4, <1>5, <1>6, <1>7 DEF Next

(* A request and the answer reserved for it fit into the window, for all   *)
(* limits conf.Load accepts that leave room for input: after a summary as  *)
(* well, which may be of any size.                                         *)
THEOREM EveryRequestFits == Spec => []RequestsFit
<1>1. BudgetInv => RequestsFit
  <2>. SUFFICES ASSUME BudgetInv, phase = "respond", UsableInputTokens > 0
                PROVE  estimate + MaxOutputTokens < ContextWindowTokens
    BY DEF RequestsFit
  <2>1. /\ config.windowTokens \in Int /\ config.maxOutputTokens \in Int
        /\ estimate \in Nat
    BY DEF BudgetInv, Limits
  <2>2. ContextWindowTokens \in Int /\ MaxOutputTokens \in Int
    BY <2>1 DEF ContextWindowTokens, MaxOutputTokens
  <2>3. UsableInputTokens = ContextWindowTokens - MaxOutputTokens
    BY <2>2 DEF UsableInputTokens
  <2>4. estimate * 100 < UsableInputTokens * 70 \/ estimate * 100 < UsableInputTokens * 82
    BY <2>1, <2>2, <2>3 DEF BudgetInv, SoftEnough, OverContextLimit,
       contextSoftLimitRatio, contextHardLimitRatio
  <2>. HIDE DEF UsableInputTokens, ContextWindowTokens, MaxOutputTokens
  <2>. QED
    BY <2>1, <2>2, <2>3, <2>4
<1>. QED
  BY <1>1, BudgetInit, BudgetStep, PTL DEF Spec

(***************************************************************************)
(* Recursion over the natural numbers                                      *)
(***************************************************************************)
(* A set of numbers that is not empty has a least one.                     *)
LEMMA NatLeast ==
    ASSUME NEW T, T \subseteq Nat, T # {}
    PROVE  \E x \in T : \A y \in T : x <= y
<1>. DEFINE S == {0 .. k - 1 : k \in T}
            Within == StrictSubsetOrdering(Nat)
<1>1. S \subseteq FiniteSubsetsOf(Nat)
  <2>1. ASSUME NEW k \in T
        PROVE  0 .. k - 1 \subseteq Nat /\ IsFiniteSet(0 .. k - 1)
    <3>1. 0 \in Int /\ k - 1 \in Int
      OBVIOUS
    <3>2. IsFiniteSet(0 .. k - 1)
      BY <3>1, FS_Interval, Zenon
    <3>. QED
      BY <3>2
  <2>. QED
    BY <2>1, Zenon DEF FiniteSubsetsOf
<1>2. PICK U \in S : \A V \in S : ~ (<<V, U>> \in Within)
  <2>1. IsWellFoundedOn(Within, FiniteSubsetsOf(Nat))
    BY FS_StrictSubsetOrderingWellFounded
  <2>2. S # {}
    OBVIOUS
  <2>. HIDE DEF Within, S
  <2>. QED
    BY <1>1, <2>1, <2>2, WFMin
<1>3. PICK x \in T : U = 0 .. x - 1
  OBVIOUS
<1>4. ASSUME NEW y \in T, y < x PROVE FALSE
  <2>1. 0 .. y - 1 \in S /\ 0 .. y - 1 \subseteq U /\ 0 .. y - 1 # U
    BY <1>3, <1>4
  <2>2. <<0 .. y - 1, U>> \in Within
    BY <2>1, <1>1 DEF StrictSubsetOrdering, FiniteSubsetsOf
  <2>. QED
    BY <2>1, <2>2, <1>2
<1>. QED
  BY <1>4

(* What holds of 0, and of every number up to n whose predecessor it holds *)
(* of, holds of all of them.                                               *)
LEMMA Climb ==
    ASSUME NEW n \in Nat, NEW P, 0 \in P, \A k \in 1 .. n : k - 1 \in P => k \in P
    PROVE  \A k \in 0 .. n : k \in P
<1>. DEFINE Bad == {k \in 0 .. n : k \notin P}
<1>. SUFFICES ASSUME Bad # {} PROVE FALSE
  OBVIOUS
<1>1. Bad \subseteq Nat
  OBVIOUS
<1>2. PICK k \in Bad : \A j \in Bad : k <= j
  <2>. HIDE DEF Bad
  <2>. QED
    BY <1>1, NatLeast
<1>3. k \in 1 .. n /\ k \notin P /\ k - 1 \in 0 .. n /\ ~(k <= k - 1)
  OBVIOUS
<1>4. k - 1 \in P
  BY <1>2, <1>3
<1>. QED
  BY <1>3, <1>4

Unfolds(f, n, x0, step) == f[0] = x0 /\ \A k \in 1 .. n : f[k] = step[k][f[k - 1]]

(* A recursive definition over a sequence's positions has a solution.      *)
LEMMA Recursion ==
    ASSUME NEW X, NEW n \in Nat, NEW x0 \in X, NEW step \in [1 .. n -> [X -> X]]
    PROVE  \E f \in [0 .. n -> X] : Unfolds(f, n, x0, step)
<1>. DEFINE Solves(f, k) == /\ f \in [0 .. k -> X] /\ f[0] = x0
                            /\ \A i \in 1 .. k : f[i] = step[i][f[i - 1]]
            P == {k \in 0 .. n : \E f : Solves(f, k)}
<1>1. 0 \in P
  <2>. DEFINE f == [i \in 0 .. 0 |-> x0]
  <2>1. Solves(f, 0)
    OBVIOUS
  <2>. HIDE DEF Solves
  <2>. QED
    BY <2>1
<1>2. ASSUME NEW k \in 1 .. n, k - 1 \in P PROVE k \in P
  <2>1. PICK f : Solves(f, k - 1)
    BY <1>2
  <2>2. f \in [0 .. k - 1 -> X] /\ k - 1 \in 0 .. k - 1 /\ 0 \in 0 .. k - 1
    BY <2>1
  <2>. DEFINE x == step[k][f[k - 1]]
              g == [i \in 0 .. k |-> IF i = k THEN x ELSE f[i]]
  <2>3. x \in X
    BY <2>2
  <2>4. \A i \in 0 .. k : i # k => i \in 0 .. k - 1
    OBVIOUS
  <2>5. \A i \in 0 .. k - 1 : i \in 0 .. k /\ i # k
    OBVIOUS
  <2>6. g \in [0 .. k -> X] /\ g[k] = x /\ \A i \in 0 .. k - 1 : g[i] = f[i]
    <3>. HIDE DEF x
    <3>. QED
      BY <2>2, <2>3, <2>4, <2>5
  <2>7. ASSUME NEW i \in 1 .. k PROVE g[i] = step[i][g[i - 1]]
    <3>. HIDE DEF g
    <3>1. CASE i = k
      BY <2>2, <2>6, <3>1
    <3>2. CASE i # k
      <4>1. i \in 1 .. k - 1 /\ i \in 0 .. k - 1 /\ i - 1 \in 0 .. k - 1
        BY <3>2
      <4>. QED
        BY <2>1, <2>6, <4>1
    <3>. QED
      BY <3>1, <3>2
  <2>8. Solves(g, k)
    <3>. HIDE DEF g
    <3>. QED
      BY <2>1, <2>2, <2>6, <2>7
  <2>. HIDE DEF Solves, g
  <2>. QED
    BY <2>8
<1>3. n \in P
  <2>. HIDE DEF P
  <2>1. \A k \in 0 .. n : k \in P
    BY <1>1, <1>2, Climb
  <2>. QED
    BY <2>1
<1>. QED
  BY <1>3 DEF Unfolds

(***************************************************************************)
(* Joining sequences                                                       *)
(***************************************************************************)
LEMMA JoinsType ==
    ASSUME NEW S, NEW q \in Seq(Seq(S))
    PROVE  /\ Joins(q) \in [0 .. Len(q) -> Seq(S)]
           /\ Joins(q)[0] = <<>>
           /\ \A k \in 1 .. Len(q) : Joins(q)[k] = Joins(q)[k - 1] \o q[k]
<1>. DEFINE X == Seq(S)
            E == Seq(S)
<1>. DEFINE n == Len(q)
            step == [k \in 1 .. n |-> [x \in X |-> x \o q[k]]]
            Body(f, k) == IF k = 0 THEN <<>> ELSE f[k - 1] \o q[k]
<1>0. n \in Nat /\ \A k \in 1 .. n : q[k] \in E
  BY LenProperties, ElementOfSeq
<1>1. step \in [1 .. n -> [X -> X]]
  <2>1. ASSUME NEW k \in 1 .. n, NEW x \in X PROVE x \o q[k] \in X
    BY <1>0
  <2>. QED
    BY <2>1
<1>2. PICK f \in [0 .. n -> X] :
          f[0] = <<>> /\ \A k \in 1 .. n : f[k] = step[k][f[k - 1]]
  <2>. DEFINE x0 == <<>>
  <2>1. x0 \in X /\ n \in Nat /\ step \in [1 .. n -> [X -> X]]
    BY <1>0, <1>1
  <2>. HIDE DEF step, n, X, x0
  <2>2. \E f \in [0 .. n -> X] : Unfolds(f, n, x0, step)
    BY <2>1, Recursion, Zenon
  <2>. QED
    BY <2>2 DEF x0, Unfolds
<1>3. \A k \in 1 .. n : f[k] = f[k - 1] \o q[k]
  <2>. SUFFICES ASSUME NEW k \in 1 .. n PROVE f[k] = f[k - 1] \o q[k]
    OBVIOUS
  <2>1. k - 1 \in 0 .. n
    BY <1>0
  <2>2. f[k - 1] \in X
    BY <2>1
  <2>. HIDE DEF X
  <2>. QED
    BY <1>2, <2>2
<1>4. f = [k \in 0 .. n |-> Body(f, k)]
  <2>1. ASSUME NEW k \in 0 .. n PROVE f[k] = Body(f, k)
    <3>1. CASE k = 0
      BY <1>2, <3>1
    <3>2. CASE k # 0
      <4>1. k \in 1 .. n
        BY <1>0, <3>2
      <4>. QED
        BY <1>3, <3>2, <4>1
    <3>. QED
      BY <3>1, <3>2
  <2>. HIDE DEF n, Body, X
  <2>. QED
    BY <1>2, <2>1
<1>. DEFINE joined[k \in 0 .. n] == IF k = 0 THEN <<>> ELSE joined[k - 1] \o q[k]
<1>5. joined = [k \in 0 .. n |-> Body(joined, k)]
  <2>. HIDE DEF X
  <2>. QED
    BY <1>4
<1>6. Joins(q) = joined
  BY DEF Joins
<1>. HIDE DEF joined, X
<1>7. \A k \in 0 .. n : joined[k] = f[k]
  <2>. DEFINE P == {k \in 0 .. n : joined[k] = f[k]}
  <2>1. 0 \in P
    BY <1>0, <1>2, <1>5
  <2>2. ASSUME NEW k \in 1 .. n, k - 1 \in P PROVE k \in P
    <3>1. k \in 0 .. n /\ k # 0 /\ joined[k - 1] = f[k - 1]
      BY <2>2
    <3>2. joined[k] = Body(joined, k)
      <4>. HIDE DEF Body, n
      <4>. QED
        BY <1>5, <3>1
    <3>3. f[k] = Body(f, k)
      BY <1>3, <3>1
    <3>4. Body(joined, k) = Body(f, k)
      BY <3>1
    <3>. QED
      BY <3>1, <3>2, <3>3, <3>4
  <2>. HIDE DEF P, n
  <2>3. \A k \in 0 .. n : k \in P
    BY <1>0, <2>1, <2>2, Climb
  <2>. QED
    BY <2>3 DEF P
<1>8. Joins(q) = f
  <2>1. DOMAIN joined = 0 .. n
    <3>. HIDE DEF n
    <3>. QED
      BY <1>5
  <2>. HIDE DEF n
  <2>2. joined = [k \in 0 .. n |-> joined[k]]
    BY <1>5, <2>1
  <2>. QED
    BY <1>2, <1>6, <1>7, <2>2
<1>. QED
  BY <1>2, <1>3, <1>8 DEF X

LEMMA JoinType ==
    ASSUME NEW S, NEW q \in Seq(Seq(S))
    PROVE  Join(q) \in Seq(S)
<1>1. Joins(q) \in [0 .. Len(q) -> Seq(S)]
  BY JoinsType
<1>2. Len(q) \in 0 .. Len(q)
  BY LenProperties
<1>. QED
  BY <1>1, <1>2 DEF Join

(***************************************************************************)
(* The deltas of an event                                                  *)
(***************************************************************************)
LEMMA DeltaTypes ==
    /\ \A x \in Texts : Message(x) \in Delta
    /\ Message("text") \in Delta /\ Stop("tool_use") \in Delta /\ Stop("end_turn") \in Delta
    /\ \A i \in Int, c \in Calls \cup {Nothing} : Start(i, c) \in Delta
    /\ \A i \in Int : Input(i) \in Delta
    /\ Usage \in Delta
BY DEF Message, Stop, Start, Input, Usage, D, Delta, Texts

LEMMA AnthropicType ==
    ASSUME NEW e \in Events, toolCallIdx \in Nat
    PROVE  AnthropicDeltas(e) \in Seq(Delta)
<1>1. /\ Message("text") \in Delta /\ Start(toolCallIdx, e.call) \in Delta
      /\ Input(toolCallIdx - 1) \in Delta /\ Usage \in Delta
  BY DeltaTypes DEF Events
<1>. HIDE DEF Message, Start, Input, Usage
<1>. QED
  BY <1>1 DEF AnthropicDeltas, Events

LEMMA PieceType ==
    ASSUME NEW p \in Pieces
    PROVE  PieceDeltas(p) \in Seq(Delta)
<1>1. Start(p.index, p.call) \in Delta /\ Input(p.index) \in Delta
  BY DeltaTypes DEF Pieces
<1>2. /\ (IF p.first THEN <<Start(p.index, p.call)>> ELSE <<>>) \in Seq(Delta)
      /\ (IF p.args THEN <<Input(p.index)>> ELSE <<>>) \in Seq(Delta)
  BY <1>1
<1>. QED
  BY <1>2 DEF PieceDeltas

LEMMA ChunkType ==
    ASSUME NEW e \in Chunks
    PROVE  OpenAIDeltas(e) \in Seq(Delta)
<1>. DEFINE q == [i \in DOMAIN e.pieces |-> PieceDeltas(e.pieces[i])]
            text == <<Message(e.text)>>
            usage == IF e.usage THEN <<Usage>> ELSE <<>>
            finish == CASE e.finish = Nothing -> <<>>
                        [] e.finish = "tool_calls" -> <<Stop("tool_use")>>
                        [] OTHER -> <<Stop("end_turn")>>
<1>1. e.pieces \in Seq(Pieces) /\ e.text \in Texts
  BY DEF Chunks
<1>2. q \in Seq(Seq(Delta))
  <2>1. \A i \in 1 .. Len(e.pieces) : PieceDeltas(e.pieces[i]) \in Seq(Delta)
    BY <1>1, PieceType
  <2>. QED
    BY <1>1, <2>1
<1>. HIDE DEF q
<1>3. Join(q) \in Seq(Delta)
  BY <1>2, JoinType
<1>4. text \in Seq(Delta)
  BY <1>1, DeltaTypes
<1>5. usage \in Seq(Delta)
  BY DeltaTypes
<1>6. finish \in Seq(Delta)
  <2>1. Stop("tool_use") \in Delta /\ Stop("end_turn") \in Delta
    BY DeltaTypes
  <2>. QED
    BY <2>1
<1>. HIDE DEF text, usage, finish
<1>7. text \o Join(q) \o usage \o finish \in Seq(Delta)
  BY <1>3, <1>4, <1>5, <1>6
<1>. QED
  BY <1>7 DEF OpenAIDeltas, q, text, usage, finish

(***************************************************************************)
(* The stream                                                              *)
(***************************************************************************)
Spoken == IF protocol = "anthropic" THEN Events ELSE Chunks

Drivers == {"none", "converting", "reading", "sending", "stopping", "closing",
            "closingDeltas", "closed"}

(* What the driver has said is with the reader, in the channel, or about   *)
(* to be sent; and the deltas are closed last.                             *)
StreamInv ==
    /\ protocol \in DOMAIN Scripts
    /\ script \in Seq(Spoken) /\ at \in Nat /\ toolCallIdx \in Nat
    /\ meant \in Seq(Delta) /\ out \in Seq(Delta) /\ deltas \in Seq(Delta)
    /\ got \in Seq(Delta)
    /\ (got \o deltas) \o out = meant
    /\ driver \in Drivers
    /\ driver \in {"none", "converting", "reading"} \/ Ended => out = <<>>
    /\ deltasClosed => driver = "closed"
    /\ phase = "prepare" => NoStream

LEMMA StreamInit == Init => StreamInv /\ R!Init
<1>. SUFFICES ASSUME Init PROVE StreamInv /\ R!Init
  OBVIOUS
<1>1. ~Ended
  BY DEF Init, NoStream, Ended
<1>2. StreamInv
  BY <1>1 DEF Init, NoStream, StreamInv, Drivers
<1>3. R!Init
  BY <1>1 DEF R!Init, Init, NoStream
<1>. QED
  BY <1>2, <1>3

(* Fresh channels.                                                         *)
LEMMA StreamFresh ==
    ASSUME StreamInv, Stream, UNCHANGED protocol, phase' # "prepare"
    PROVE  StreamInv' /\ meant' = <<>> /\ got' = <<>> /\ ~Ended' /\ outcome' = "none"
<1>1. script' \in Seq(Spoken)
  BY ModelRequestAssumption, Zenon DEF StreamInv, Stream, Spoken
<1>2. ~Ended'
  BY DEF Stream, Ended
<1>3. /\ meant' = <<>> /\ out' = <<>> /\ deltas' = <<>> /\ got' = <<>> /\ at' = 0
      /\ toolCallIdx' = 0 /\ driver' = "converting" /\ ~deltasClosed' /\ outcome' = "none"
      /\ protocol' \in DOMAIN Scripts /\ Spoken' = Spoken
  BY DEF Stream, StreamInv, Spoken
<1>. QED
  BY <1>1, <1>2, <1>3 DEF StreamInv, Drivers

(* The queue of deltas moves on.                                           *)
LEMMA Moved ==
    ASSUME NEW S, NEW a \in Seq(S), NEW b \in Seq(S), b # <<>>
    PROVE  /\ Head(b) \in S /\ Tail(b) \in Seq(S)
           /\ Append(a, Head(b)) \o Tail(b) = a \o b
           /\ Len(a) < Len(a \o b) /\ (a \o b)[Len(a) + 1] = Head(b)
<1>1. Head(b) \in S /\ Tail(b) \in Seq(S) /\ Append(a, Head(b)) \in Seq(S)
  OBVIOUS
<1>2. Append(a, Head(b)) \o Tail(b) = a \o b
  <2>. DEFINE x == Append(a, Head(b)) \o Tail(b)
              y == a \o b
  <2>1. x \in Seq(S) /\ y \in Seq(S) /\ Len(x) = Len(a) + Len(b) /\ Len(y) = Len(a) + Len(b)
    BY <1>1
  <2>2. \A i \in 1 .. Len(a) + Len(b) : x[i] = y[i]
    BY <1>1
  <2>. HIDE DEF x, y
  <2>. QED
    BY <2>1, <2>2
<1>3. Len(a) < Len(a \o b) /\ (a \o b)[Len(a) + 1] = Head(b)
  OBVIOUS
<1>. QED
  BY <1>1, <1>2, <1>3

LEMMA Longer ==
    ASSUME NEW S, NEW a \in Seq(S), NEW b \in Seq(S)
    PROVE  a \o b \in Seq(S) /\ R!IsPrefix(a, a \o b) /\ R!IsPrefix(a, a) /\ a \o <<>> = a
<1>1. a \o b \in Seq(S) /\ Len(a) <= Len(a \o b) /\ Len(a) \in Nat
  OBVIOUS
<1>2. SubSeq(a, 1, Len(a)) = SubSeq(a \o b, 1, Len(a))
  OBVIOUS
<1>. QED
  BY <1>1, <1>2 DEF R!IsPrefix

LEMMA Within ==
    ASSUME NEW S, NEW a \in Seq(S), NEW b \in Seq(S), NEW i \in 1 .. Len(a)
    PROVE  Len(a) <= Len(a \o b) /\ (a \o b)[i] = a[i]
OBVIOUS

SameWhole(x, y) == x = y

LEMMA Handed ==
    ASSUME NEW S, NEW a \in Seq(S), NEW b \in Seq(S), NEW c \in Seq(S), c # <<>>
    PROVE  /\ Append(b, Head(c)) \in Seq(S) /\ Tail(c) \in Seq(S)
           /\ SameWhole((a \o Append(b, Head(c))) \o Tail(c), (a \o b) \o c)
<1>. DEFINE x == Append(b, Head(c))
            y == Tail(c)
<1>0. x \in Seq(S) /\ y \in Seq(S)
  BY Moved
<1>1. x \o y = b \o c
  BY Moved
<1>. HIDE DEF x, y
<1>2. (a \o x) \o y = a \o (x \o y)
  BY <1>0
<1>3. (a \o b) \o c = a \o (b \o c)
  OBVIOUS
<1>4. (a \o x) \o y = (a \o b) \o c
  BY <1>1, <1>2, <1>3
<1>. QED
  BY <1>0, <1>4 DEF x, y, SameWhole

Kept == UNCHANGED <<meant, Ended, got, outcome>>

LEMMA DriverKeeps ==
    ASSUME StreamInv, Driver
    PROVE  StreamInv' /\ (R!Say \/ Kept)
<1>0. /\ UNCHANGED <<protocol, phase, script, got, outcome>> /\ Spoken' = Spoken
      /\ script \in Seq(Spoken) /\ at \in Nat /\ toolCallIdx \in Nat
      /\ meant \in Seq(Delta) /\ out \in Seq(Delta) /\ deltas \in Seq(Delta) /\ got \in Seq(Delta)
      /\ got \o deltas \in Seq(Delta) /\ (got \o deltas) \o out = meant
      /\ driver # "none" /\ driver' # "none" /\ driver' \in Drivers
      /\ phase # "prepare" /\ protocol \in DOMAIN Scripts
      /\ driver \in {"none", "converting", "reading"} \/ Ended => out = <<>>
      /\ deltasClosed => driver = "closed"
  BY DEF StreamInv, Driver, DriverStep, Convert, SendDelta, SendCancelled, Sent, CloseErr,
         CloseDeltas, StreamFails, NextEvent, EndOfEvents, Go, driverUnchanged, NoStream,
         Drivers, Spoken
<1>1. ASSUME at' \in Nat, toolCallIdx' \in Nat, meant' \in Seq(Delta), out' \in Seq(Delta),
             deltas' \in Seq(Delta), (got \o deltas') \o out' = meant',
             driver' \in {"converting", "reading"} \/ Ended' => out' = <<>>,
             deltasClosed' => driver' = "closed"
      PROVE  StreamInv'
  BY <1>0, <1>1 DEF StreamInv
<1>2. CASE StreamFails \/ SendCancelled
  <2>1. /\ UNCHANGED <<at, toolCallIdx, meant, out, deltas, deltasClosed>> /\ err' = TRUE
        /\ driver \in {"converting", "reading", "sending", "stopping"} /\ driver' = "closing"
    BY <1>2 DEF StreamFails, SendCancelled
  <2>2. Ended = FALSE /\ Ended' = FALSE
    BY <2>1 DEF Ended
  <2>. QED
    BY <1>0, <1>1, <2>1, <2>2 DEF Kept
<1>3. CASE Convert
  <2>1. /\ UNCHANGED <<at, toolCallIdx, meant, out, deltas, deltasClosed>>
        /\ driver = "converting" /\ driver' = "reading"
    BY <1>3 DEF Convert, Go
  <2>2. Ended = FALSE /\ Ended' = FALSE
    BY <2>1 DEF Ended
  <2>. QED
    BY <1>0, <1>1, <2>1, <2>2 DEF Kept
<1>4. ASSUME UNCHANGED <<deltas, deltasClosed>>, out' \in Seq(Delta), meant' = meant \o out',
             at' \in Nat, toolCallIdx' \in Nat, driver = "reading",
             driver' \in {"sending", "stopping"}
      PROVE  StreamInv' /\ (R!Say \/ Kept)
  <2>1. Ended = FALSE /\ Ended' = FALSE /\ out = <<>>
    BY <1>0, <1>4 DEF Ended
  <2>2. meant = got \o deltas
    <3>. DEFINE q == got \o deltas
    <3>1. q \in Seq(Delta) /\ q \o out = meant
      BY <1>0
    <3>. HIDE DEF q
    <3>2. q = meant
      BY <2>1, <3>1, Longer
    <3>. QED
      BY <3>2 DEF q
  <2>3. meant' \in Seq(Delta) /\ R!IsPrefix(meant, meant')
    BY <1>0, <1>4, Longer
  <2>4. R!Say
    BY <1>0, <2>1, <2>3 DEF R!Say
  <2>. QED
    BY <1>0, <1>1, <1>4, <2>1, <2>2, <2>3, <2>4
<1>5. CASE NextEvent
  <2>1. /\ UNCHANGED <<deltas, deltasClosed>> /\ meant' = meant \o out' /\ at' = at + 1
        /\ toolCallIdx' \in {toolCallIdx, toolCallIdx + 1}
        /\ driver = "reading" /\ driver' = "sending"
        /\ out' = DeltasOf(script[at + 1]) /\ at < Len(script)
    BY <1>5 DEF NextEvent, Go
  <2>2. script[at + 1] \in Spoken
    BY <1>0, <2>1
  <2>3. out' \in Seq(Delta)
    BY <1>0, <2>1, <2>2, AnthropicType, ChunkType DEF DeltasOf, Spoken
  <2>. QED
    BY <1>0, <1>4, <2>1, <2>3
<1>6. CASE EndOfEvents
  <2>1. /\ UNCHANGED <<deltas, deltasClosed, at, toolCallIdx>> /\ meant' = meant \o out'
        /\ driver = "reading" /\ driver' = "stopping" /\ out' = LastDeltas
    BY <1>6 DEF EndOfEvents, Go
  <2>2. out' \in Seq(Delta)
    BY <2>1, DeltaTypes DEF LastDeltas
  <2>. QED
    BY <1>0, <1>4, <2>1, <2>2
<1>7. CASE SendDelta
  <2>1. /\ UNCHANGED <<at, toolCallIdx, meant, driver, err, deltasClosed>> /\ out # <<>>
        /\ deltas' = Append(deltas, Head(out)) /\ out' = Tail(out)
    BY <1>7 DEF SendDelta
  <2>2. /\ out' \in Seq(Delta) /\ deltas' \in Seq(Delta)
        /\ (got \o deltas') \o out' = (got \o deltas) \o out
    <3>0. got \in Seq(Delta) /\ deltas \in Seq(Delta) /\ out \in Seq(Delta)
      BY <1>0
    <3>1. out # <<>>
      BY <2>1
    <3>2. Append(deltas, Head(out)) \in Seq(Delta) /\ Tail(out) \in Seq(Delta)
      BY <3>0, <3>1, Handed, Zenon
    <3>3. SameWhole((got \o Append(deltas, Head(out))) \o Tail(out), (got \o deltas) \o out)
      BY <3>0, <3>1, Handed, Zenon
    <3>. QED
      BY <2>1, <3>2, <3>3, Zenon DEF SameWhole
  <2>3. (got \o deltas') \o out' = meant
    BY <1>0, <2>2
  <2>4. Ended' = Ended
    BY <2>1 DEF Ended
  <2>5. ~(driver \in {"none", "converting", "reading"} \/ Ended)
    BY <1>0, <2>1
  <2>. QED
    BY <1>0, <1>1, <2>1, <2>2, <2>3, <2>4, <2>5 DEF Kept
<1>8. CASE Sent
  <2>1. /\ UNCHANGED <<at, toolCallIdx, meant, out, deltas, err, deltasClosed>> /\ out = <<>>
        /\ driver \in {"sending", "stopping"} /\ driver' \in {"reading", "closing"}
    BY <1>8 DEF Sent, Go
  <2>2. ~Ended /\ Ended' \in BOOLEAN
    BY <2>1 DEF Ended
  <2>3. R!Say
    BY <1>0, <2>1, <2>2, Longer DEF R!Say
  <2>. QED
    BY <1>0, <1>1, <2>1, <2>3
<1>9. CASE CloseErr \/ CloseDeltas
  <2>1. /\ UNCHANGED <<at, toolCallIdx, meant, out, deltas, err>>
        /\ driver \in {"closing", "closingDeltas"} /\ driver' \in {"closingDeltas", "closed"}
        /\ deltasClosed' => driver' = "closed"
    BY <1>0, <1>9 DEF CloseErr, CloseDeltas, Go
  <2>2. Ended' = Ended
    BY <2>1 DEF Ended
  <2>. QED
    BY <1>0, <1>1, <2>1, <2>2 DEF Kept
<1>. QED
  BY <1>2, <1>3, <1>5, <1>6, <1>7, <1>8, <1>9 DEF Driver, DriverStep

LEMMA ReaderKeeps ==
    ASSUME StreamInv, Reader
    PROVE  StreamInv' /\ (R!Hear \/ R!Complete \/ R!GiveUp)
<1>0. /\ UNCHANGED <<protocol, phase, script, at, toolCallIdx, meant, driver, out, err,
                     deltasClosed, Ended>>
      /\ Spoken' = Spoken /\ phase # "prepare" /\ outcome = "none"
      /\ meant \in Seq(Delta) /\ out \in Seq(Delta) /\ deltas \in Seq(Delta) /\ got \in Seq(Delta)
      /\ (got \o deltas) \o out = meant
  BY DEF StreamInv, Reader, ReceiveDelta, ReceiveError, SeeCancelled, EndOfDeltas, Reading,
         readerUnchanged, Spoken, Ended
<1>1. CASE ReceiveDelta
  <2>1. /\ deltas # <<>> /\ got' = Append(got, Head(deltas)) /\ deltas' = Tail(deltas)
        /\ UNCHANGED outcome
    BY <1>1 DEF ReceiveDelta
  <2>a. /\ Head(deltas) \in Delta /\ Tail(deltas) \in Seq(Delta)
        /\ Append(got, Head(deltas)) \o Tail(deltas) = got \o deltas
        /\ Len(got) < Len(got \o deltas) /\ (got \o deltas)[Len(got) + 1] = Head(deltas)
    BY <1>0, <2>1, Moved, Zenon
  <2>2. /\ got' \in Seq(Delta) /\ deltas' \in Seq(Delta) /\ got' \o deltas' = got \o deltas
    BY <1>0, <2>1, <2>a
  <2>3. Len(got) < Len(meant) /\ meant[Len(got) + 1] = Head(deltas)
    <3>. DEFINE q == got \o deltas
    <3>2. q \in Seq(Delta) /\ q \o out = meant /\ Len(got) \in Nat
      BY <1>0
    <3>3. Len(got) < Len(q) /\ q[Len(got) + 1] = Head(deltas)
      BY <2>a
    <3>. HIDE DEF q
    <3>4. Len(q) <= Len(q \o out) /\ (q \o out)[Len(got) + 1] = q[Len(got) + 1]
      <4>1. Len(got) + 1 \in 1 .. Len(q) /\ out \in Seq(Delta)
        BY <1>0, <3>2, <3>3
      <4>. QED
        BY <3>2, <4>1, Within, Zenon
    <3>. QED
      <4>1. Len(q) \in Nat /\ Len(q \o out) \in Nat
        BY <1>0, <3>2
      <4>. QED
        BY <3>2, <3>3, <3>4, <4>1
  <2>4. R!Hear
    BY <1>0, <2>1, <2>3 DEF R!Hear
  <2>5. StreamInv'
    BY <1>0, <2>2 DEF StreamInv
  <2>. QED
    BY <2>4, <2>5
<1>2. CASE ReceiveError \/ SeeCancelled
  <2>1. UNCHANGED <<got, deltas>> /\ outcome' \in {"failed", "cancelled"}
    BY <1>2 DEF ReceiveError, SeeCancelled
  <2>2. StreamInv'
    BY <1>0, <2>1 DEF StreamInv
  <2>. QED
    BY <1>0, <2>1, <2>2 DEF R!GiveUp
<1>3. CASE EndOfDeltas
  <2>1. /\ UNCHANGED <<got, deltas>> /\ outcome' \in {"failed", "complete"}
        /\ deltasClosed /\ deltas = <<>> /\ ~err
    BY <1>3 DEF EndOfDeltas
  <2>2. StreamInv'
    BY <1>0, <2>1 DEF StreamInv
  <2>3. Ended /\ out = <<>>
    BY <2>1 DEF StreamInv, Ended
  <2>4. got = meant
    BY <1>0, <2>1, <2>3, Longer
  <2>. QED
    BY <1>0, <2>1, <2>2, <2>3, <2>4 DEF R!GiveUp, R!Complete
<1>. QED
  BY <1>1, <1>2, <1>3 DEF Reader

LEMMA StreamStep == StreamInv /\ [Next]_vars => StreamInv' /\ [R!Next]_(R!vars)
<1>. SUFFICES ASSUME StreamInv, [Next]_vars PROVE StreamInv' /\ (R!Next \/ Kept)
  BY DEF R!vars, Kept
<1>1. ASSUME UNCHANGED <<protocol, stream>>, phase' # "prepare" \/ UNCHANGED phase
      PROVE  StreamInv' /\ Kept
  <2>1. Ended' = Ended
    BY <1>1 DEF Ended, stream
  <2>2. Spoken' = Spoken /\ (phase' = "prepare" => NoStream')
    BY <1>1 DEF Spoken, stream, StreamInv, NoStream
  <2>. QED
    BY <1>1, <2>1, <2>2 DEF StreamInv, Kept, stream
<1>2. ASSUME phase = "prepare", Stream, UNCHANGED protocol, phase' # "prepare"
      PROVE  StreamInv' /\ Kept
  <2>1. meant = <<>> /\ got = <<>> /\ ~Ended /\ outcome = "none"
    BY <1>2 DEF StreamInv, NoStream, Ended
  <2>2. StreamInv' /\ meant' = <<>> /\ got' = <<>> /\ ~Ended' /\ outcome' = "none"
    BY <1>2, StreamFresh
  <2>3. Ended = FALSE /\ Ended' = FALSE
    BY <2>1, <2>2 DEF Ended
  <2>. QED
    BY <2>1, <2>2, <2>3 DEF Kept
<1>3. CASE PrepareAsItIs \/ Summarize \/ CachedSummary
  <2>1. /\ phase = "prepare" /\ phase' # "prepare" /\ UNCHANGED protocol
        /\ Stream \/ UNCHANGED stream
    BY <1>3 DEF PrepareAsItIs, Summarize, CachedSummary, AfterSummary, Respond, Refuse
  <2>. QED
    BY <1>1, <1>2, <2>1
<1>4. CASE UseSummary
  <2>1. /\ outcome = "complete" /\ phase' # "prepare" /\ UNCHANGED protocol
        /\ Stream \/ UNCHANGED stream
    BY <1>4 DEF UseSummary, AfterSummary, Respond, Refuse
  <2>2. CASE Stream
    <3>1. StreamInv' /\ meant' = <<>> /\ got' = <<>> /\ ~Ended' /\ outcome' = "none"
      BY <2>1, <2>2, StreamFresh
    <3>2. R!Again
      BY <2>1, <3>1 DEF R!Again
    <3>. QED
      BY <3>1, <3>2 DEF R!Next
  <2>. QED
    BY <1>1, <2>1, <2>2
<1>5. CASE Driver
  BY <1>5, DriverKeeps DEF R!Next
<1>6. CASE Reader
  BY <1>6, ReaderKeeps DEF R!Next
<1>7. CASE Cancel \/ UNCHANGED vars
  BY <1>1, <1>7 DEF Cancel, vars
<1>. QED
  BY <1>3, <1>4, <1>5, <1>6, <1>7 DEF Next

(* The driver's goroutine, its two channels and the readers implement a    *)
(* response: nothing is lost, doubled or out of order, and what is taken   *)
(* for complete is all of a response that ended without an error.          *)
THEOREM ResponsesAreKept == Spec => ImplementsResponse
<1>1. Init => StreamInv /\ R!Init
  BY StreamInit
<1>2. StreamInv /\ [Next]_vars => StreamInv' /\ [R!Next]_(R!vars)
  BY StreamStep
<1>. QED
  BY <1>1, <1>2, PTL DEF Spec, ImplementsResponse, R!Spec

(***************************************************************************)
(* The collector                                                           *)
(***************************************************************************)
CallSet == [id : Calls \cup Texts \cup {"tool_use", "end_turn"}, input : Nat]

LEMMA CollectType ==
    ASSUME NEW c \in Seq(CallSet), NEW d \in Delta
    PROVE  Collect(c, d) \in Seq(CallSet)
<1>1. CASE d.kind = "toolCallStart"
  <2>1. [id |-> d.data, input |-> 0] \in CallSet
    BY DEF Delta, CallSet
  <2>2. Append(c, [id |-> d.data, input |-> 0]) \in Seq(CallSet)
    BY <2>1, AppendProperties
  <2>. QED
    BY <1>1, <2>2 DEF Collect
<1>2. CASE d.kind # "toolCallStart" /\ d.kind = "toolCallInput" /\ d.index + 1 \in DOMAIN c
  <2>. DEFINE i == d.index + 1
              e == [c[i] EXCEPT !.input = @ + 1]
  <2>1. i \in 1 .. Len(c) /\ c[i] \in CallSet
    BY <1>2, LenProperties, ElementOfSeq
  <2>2. e \in CallSet
    <3>. HIDE DEF i
    <3>. QED
      BY <2>1 DEF CallSet
  <2>3. Collect(c, d) = [c EXCEPT ![i] = e]
    BY <1>2 DEF Collect
  <2>. HIDE DEF e, i
  <2>. QED
    BY <2>1, <2>2, <2>3, ExceptSeq
<1>3. CASE /\ d.kind # "toolCallStart"
           /\ ~(d.kind = "toolCallInput" /\ d.index + 1 \in DOMAIN c)
  BY <1>3 DEF Collect
<1>. QED
  BY <1>1, <1>2, <1>3

CollectsAll(f, c, q) ==
    /\ f[0] = c
    /\ \A k \in 1 .. Len(q) : f[k] = Collect(f[k - 1], q[k])

LEMMA Collected ==
    ASSUME NEW c \in Seq(CallSet), NEW q \in Seq(Delta)
    PROVE  \E f \in [0 .. Len(q) -> Seq(CallSet)] :
              CollectsAll(f, c, q) /\ CollectFrom(c, q) = f[Len(q)]
<1>. DEFINE X == Seq(CallSet)
            E == Delta
<1>. DEFINE n == Len(q)
            step == [k \in 1 .. n |-> [x \in X |-> Collect(x, q[k])]]
            Body(f, k) == IF k = 0 THEN c ELSE Collect(f[k - 1], q[k])
<1>0. n \in Nat /\ \A k \in 1 .. n : q[k] \in E
  BY LenProperties, ElementOfSeq
<1>1. step \in [1 .. n -> [X -> X]]
  <2>1. ASSUME NEW k \in 1 .. n, NEW x \in X PROVE Collect(x, q[k]) \in X
    BY <1>0, CollectType
  <2>. QED
    BY <2>1
<1>2. PICK f \in [0 .. n -> X] :
          f[0] = c /\ \A k \in 1 .. n : f[k] = step[k][f[k - 1]]
  <2>. DEFINE x0 == c
  <2>1. x0 \in X /\ n \in Nat /\ step \in [1 .. n -> [X -> X]]
    BY <1>0, <1>1
  <2>. HIDE DEF step, n, X, x0
  <2>2. \E f \in [0 .. n -> X] : Unfolds(f, n, x0, step)
    BY <2>1, Recursion, Zenon
  <2>. QED
    BY <2>2 DEF x0, Unfolds
<1>3. \A k \in 1 .. n : f[k] = Collect(f[k - 1], q[k])
  <2>. SUFFICES ASSUME NEW k \in 1 .. n PROVE f[k] = Collect(f[k - 1], q[k])
    OBVIOUS
  <2>1. k - 1 \in 0 .. n
    BY <1>0
  <2>2. f[k - 1] \in X
    BY <2>1
  <2>. HIDE DEF X
  <2>. QED
    BY <1>2, <2>2
<1>4. f = [k \in 0 .. n |-> Body(f, k)]
  <2>1. ASSUME NEW k \in 0 .. n PROVE f[k] = Body(f, k)
    <3>1. CASE k = 0
      BY <1>2, <3>1
    <3>2. CASE k # 0
      <4>1. k \in 1 .. n
        BY <1>0, <3>2
      <4>. QED
        BY <1>3, <3>2, <4>1
    <3>. QED
      BY <3>1, <3>2
  <2>. HIDE DEF n, Body, X
  <2>. QED
    BY <1>2, <2>1
<1>. DEFINE collected[k \in 0 .. n] == IF k = 0 THEN c ELSE Collect(collected[k - 1], q[k])
<1>5. collected = [k \in 0 .. n |-> Body(collected, k)]
  <2>. HIDE DEF X
  <2>. QED
    BY <1>4
<1>6. CollectFrom(c, q) = collected[n]
  BY DEF CollectFrom
<1>. HIDE DEF collected, X
<1>7. \A k \in 0 .. n : collected[k] = f[k]
  <2>. DEFINE P == {k \in 0 .. n : collected[k] = f[k]}
  <2>1. 0 \in P
    BY <1>0, <1>2, <1>5
  <2>2. ASSUME NEW k \in 1 .. n, k - 1 \in P PROVE k \in P
    <3>1. k \in 0 .. n /\ k # 0 /\ collected[k - 1] = f[k - 1]
      BY <2>2
    <3>2. collected[k] = Body(collected, k)
      <4>. HIDE DEF Body, n
      <4>. QED
        BY <1>5, <3>1
    <3>3. f[k] = Body(f, k)
      BY <1>3, <3>1
    <3>4. Body(collected, k) = Body(f, k)
      BY <3>1
    <3>. QED
      BY <3>1, <3>2, <3>3, <3>4
  <2>. HIDE DEF P, n
  <2>3. \A k \in 0 .. n : k \in P
    BY <1>0, <2>1, <2>2, Climb
  <2>. QED
    BY <2>3 DEF P
<1>8. CollectFrom(c, q) = f[n] /\ CollectsAll(f, c, q)
  BY <1>0, <1>2, <1>3, <1>6, <1>7 DEF CollectsAll
<1>. QED
  BY <1>2, <1>8 DEF X

LEMMA CollectFromType ==
    ASSUME NEW c \in Seq(CallSet), NEW q \in Seq(Delta)
    PROVE  CollectFrom(c, q) \in Seq(CallSet)
<1>1. PICK f \in [0 .. Len(q) -> Seq(CallSet)] :
         CollectsAll(f, c, q) /\ CollectFrom(c, q) = f[Len(q)]
  BY Collected
<1>2. Len(q) \in 0 .. Len(q)
  BY LenProperties
<1>. HIDE DEF CallSet
<1>. QED
  BY <1>1, <1>2

LEMMA CollectNothing ==
    ASSUME NEW c \in Seq(CallSet)
    PROVE  CollectFrom(c, <<>>) = c
<1>. DEFINE q == <<>>
<1>1. q \in Seq(Delta) /\ Len(q) = 0
  OBVIOUS
<1>. HIDE DEF q
<1>2. PICK f \in [0 .. Len(q) -> Seq(CallSet)] :
         CollectsAll(f, c, q) /\ CollectFrom(c, q) = f[Len(q)]
  BY <1>1, Collected
<1>3. CollectFrom(c, q) = c
  BY <1>1, <1>2 DEF CollectsAll
<1>. QED
  BY <1>3 DEF q

LEMMA CollectOne ==
    ASSUME NEW c \in Seq(CallSet), NEW d \in Delta
    PROVE  CollectFrom(c, <<d>>) = Collect(c, d)
<1>. DEFINE q == <<d>>
<1>1. q \in Seq(Delta) /\ Len(q) = 1 /\ q[1] = d
  OBVIOUS
<1>. HIDE DEF q
<1>2. PICK f \in [0 .. Len(q) -> Seq(CallSet)] :
         CollectsAll(f, c, q) /\ CollectFrom(c, q) = f[Len(q)]
  BY <1>1, Collected
<1>3. f[1] = Collect(f[0], q[1]) /\ f[0] = c
  <2>1. 1 \in 1 .. Len(q) /\ 1 - 1 = 0
    BY <1>1
  <2>. QED
    BY <1>2, <2>1 DEF CollectsAll
<1>4. CollectFrom(c, q) = Collect(c, d)
  BY <1>1, <1>2, <1>3
<1>. QED
  BY <1>4 DEF q

(* A collector that goes on where another one stopped.                     *)
LEMMA CollectJoined ==
    ASSUME NEW c \in Seq(CallSet), NEW a \in Seq(Delta), NEW b \in Seq(Delta)
    PROVE  CollectFrom(c, a \o b) = CollectFrom(CollectFrom(c, a), b)
<1>. DEFINE m == Len(a)
            n == Len(b)
            q == a \o b
            x == CollectFrom(c, a)
<1>1. /\ q \in Seq(Delta) /\ Len(q) = m + n /\ m \in Nat /\ n \in Nat
      /\ \A i \in 1 .. m + n : q[i] = IF i <= m THEN a[i] ELSE b[i - m]
  BY ConcatProperties, LenProperties
<1>2. x \in Seq(CallSet)
  BY CollectFromType
<1>3. PICK f \in [0 .. m -> Seq(CallSet)] : CollectsAll(f, c, a) /\ x = f[m]
  BY Collected
<1>. HIDE DEF x, q
<1>4. PICK g \in [0 .. n -> Seq(CallSet)] : CollectsAll(g, x, b) /\ CollectFrom(x, b) = g[n]
  BY <1>2, Collected
<1>5. PICK h \in [0 .. Len(q) -> Seq(CallSet)] :
         CollectsAll(h, c, q) /\ CollectFrom(c, q) = h[Len(q)]
  BY <1>1, Collected
<1>6. /\ h[0] = c /\ f[0] = c /\ g[0] = x
      /\ \A k \in 1 .. m + n : h[k] = Collect(h[k - 1], q[k])
      /\ \A k \in 1 .. m : f[k] = Collect(f[k - 1], a[k])
      /\ \A k \in 1 .. n : g[k] = Collect(g[k - 1], b[k])
  BY <1>1, <1>3, <1>4, <1>5 DEF CollectsAll
<1>. HIDE DEF m, n
<1>7. h[m] = f[m]
  <2>. DEFINE P == {k \in 0 .. m : h[k] = f[k]}
  <2>1. 0 \in P
    BY <1>1, <1>6
  <2>2. ASSUME NEW k \in 1 .. m, k - 1 \in P PROVE k \in P
    <3>1. k \in 0 .. m /\ k \in 1 .. m + n /\ k <= m /\ h[k - 1] = f[k - 1]
      BY <1>1, <2>2
    <3>2. q[k] = a[k]
      BY <1>1, <3>1
    <3>3. h[k] = Collect(h[k - 1], q[k]) /\ f[k] = Collect(f[k - 1], a[k])
      BY <1>6, <3>1
    <3>. QED
      BY <3>1, <3>2, <3>3
  <2>. HIDE DEF P
  <2>3. \A k \in 0 .. m : k \in P
    BY <1>1, <2>1, <2>2, Climb
  <2>4. m \in 0 .. m
    BY <1>1
  <2>. QED
    BY <2>3, <2>4 DEF P
<1>8. h[m + n] = g[n]
  <2>. DEFINE P == {k \in 0 .. n : h[m + k] = g[k]}
  <2>1. 0 \in P
    <3>1. m + 0 = m /\ 0 \in 0 .. n
      BY <1>1
    <3>. QED
      BY <1>3, <1>6, <1>7, <3>1
  <2>2. ASSUME NEW k \in 1 .. n, k - 1 \in P PROVE k \in P
    <3>1. /\ k \in 0 .. n /\ m + k \in 1 .. m + n /\ ~(m + k <= m)
          /\ (m + k) - m = k /\ (m + k) - 1 = m + (k - 1)
      BY <1>1
    <3>2. q[m + k] = b[k]
      BY <1>1, <3>1
    <3>3. h[m + k] = Collect(h[(m + k) - 1], q[m + k]) /\ g[k] = Collect(g[k - 1], b[k])
      BY <1>6, <3>1
    <3>4. h[m + (k - 1)] = g[k - 1]
      BY <2>2
    <3>. QED
      BY <3>1, <3>2, <3>3, <3>4
  <2>. HIDE DEF P
  <2>3. \A k \in 0 .. n : k \in P
    BY <1>1, <2>1, <2>2, Climb
  <2>4. n \in 0 .. n
    BY <1>1
  <2>. QED
    BY <2>3, <2>4 DEF P
<1>9. CollectFrom(c, q) = CollectFrom(x, b)
  BY <1>1, <1>4, <1>5, <1>8
<1>. QED
  BY <1>9 DEF x, q

Inert(d) == d.kind \notin {"toolCallStart", "toolCallInput"}

LEMMA InertAdds ==
    ASSUME NEW c \in Seq(CallSet), NEW d \in Delta, Inert(d)
    PROVE  CollectFrom(c, <<d>>) = c
BY CollectOne DEF Collect, Inert

(***************************************************************************)
(* What the parts of a response tell of its calls                          *)
(***************************************************************************)
LEMMA Counted ==
    ASSUME NEW n \in Nat, NEW F
    PROVE  /\ Cardinality({m \in 1 .. n : m \in F}) \in Nat
           /\ Cardinality({m \in 1 .. n + 1 : m \in F}) =
                Cardinality({m \in 1 .. n : m \in F}) + (IF n + 1 \in F THEN 1 ELSE 0)
<1>. DEFINE A == {m \in 1 .. n : m \in F}
            B == {m \in 1 .. n + 1 : m \in F}
<1>1. IsFiniteSet(A) /\ Cardinality(A) \in Nat
  <2>1. IsFiniteSet(1 .. n) /\ A \subseteq 1 .. n
    <3>1. 1 \in Int /\ n \in Int
      OBVIOUS
    <3>. QED
      BY <3>1, FS_Interval
  <2>. HIDE DEF A
  <2>. QED
    BY <2>1, FS_Subset, FS_CardinalityType
<1>2. CASE n + 1 \in F
  <2>1. B = A \cup {n + 1} /\ n + 1 \notin A
    BY <1>2
  <2>. HIDE DEF A, B
  <2>2. Cardinality(A \cup {n + 1}) = Cardinality(A) + 1
    BY <1>1, <2>1, FS_AddElement
  <2>. QED
    BY <1>1, <1>2, <2>1, <2>2 DEF A, B
<1>3. CASE n + 1 \notin F
  <2>1. B = A
    BY <1>3
  <2>. HIDE DEF A, B
  <2>2. Cardinality(B) = Cardinality(A) + 0
    BY <1>1, <2>1
  <2>. QED
    BY <1>1, <1>3, <2>2 DEF A, B
<1>. QED
  BY <1>2, <1>3

(* How many parts with input of a call there are up to the nth.            *)
Inputs(parts, n, call) == Cardinality({m \in 1 .. n : parts[m].args /\ parts[m].call = call})

LEMMA PlaceGrows ==
    ASSUME NEW parts, NEW n \in Nat
    PROVE  /\ Place(parts, n) \in Nat
           /\ Place(parts, n + 1) = Place(parts, n) + (IF parts[n + 1].first THEN 1 ELSE 0)
<1>. DEFINE F == {m \in 1 .. n + 1 : parts[m].first}
<1>1. /\ {m \in 1 .. n : m \in F} = {m \in 1 .. n : parts[m].first}
      /\ {m \in 1 .. n + 1 : m \in F} = {m \in 1 .. n + 1 : parts[m].first}
      /\ n + 1 \in F <=> parts[n + 1].first
  OBVIOUS
<1>. HIDE DEF F
<1>. QED
  BY <1>1, Counted DEF Place

LEMMA InputsGrow ==
    ASSUME NEW parts, NEW n \in Nat, NEW call
    PROVE  /\ Inputs(parts, n, call) \in Nat
           /\ Inputs(parts, n + 1, call) =
                Inputs(parts, n, call)
                + (IF parts[n + 1].args /\ parts[n + 1].call = call THEN 1 ELSE 0)
<1>. DEFINE F == {m \in 1 .. n + 1 : parts[m].args /\ parts[m].call = call}
<1>1. /\ {m \in 1 .. n : m \in F} = {m \in 1 .. n : parts[m].args /\ parts[m].call = call}
      /\ {m \in 1 .. n + 1 : m \in F} =
            {m \in 1 .. n + 1 : parts[m].args /\ parts[m].call = call}
      /\ n + 1 \in F <=> parts[n + 1].args /\ parts[n + 1].call = call
  OBVIOUS
<1>. HIDE DEF F
<1>. QED
  BY <1>1, Counted DEF Inputs

(* The calls are those the first n parts begin, in their order, each with  *)
(* all of its input.                                                       *)
Tells(calls, parts, n) ==
    /\ Len(calls) = Place(parts, n)
    /\ \A m \in 1 .. n : parts[m].first =>
          Place(parts, m) \in 1 .. Len(calls) /\ calls[Place(parts, m)].id = parts[m].call
    /\ \A i \in 1 .. Len(calls) : \E m \in 1 .. n : parts[m].first /\ Place(parts, m) = i
    /\ \A i \in 1 .. Len(calls) : calls[i].input = Inputs(parts, n, calls[i].id)

LEMMA TellsNothing ==
    ASSUME NEW parts
    PROVE  Tells(<<>>, parts, 0)
<1>1. {m \in 1 .. 0 : parts[m].first} = {}
  OBVIOUS
<1>2. Place(parts, 0) = 0
  BY <1>1, FS_EmptySet DEF Place
<1>. QED
  BY <1>2 DEF Tells

LEMMA BegunOnce ==
    ASSUME NEW T, NEW parts \in Seq(T), NEW p, WellFormed(p, parts),
           NEW m \in DOMAIN parts, NEW k \in DOMAIN parts,
           parts[m].first, parts[k].first, parts[m].call = parts[k].call
    PROVE  m = k
<1>1. DOMAIN parts = 1 .. Len(parts) /\ Len(parts) \in Nat
  BY LenProperties
<1>2. CASE m < k
  <2>1. m \in 1 .. k - 1
    BY <1>1, <1>2
  <2>. QED
    BY <2>1 DEF WellFormed
<1>3. CASE k < m
  <2>1. k \in 1 .. m - 1
    BY <1>1, <1>3
  <2>. QED
    BY <2>1 DEF WellFormed
<1>. QED
  BY <1>1, <1>2, <1>3

Begun(calls, part) ==
    IF part.first THEN Append(calls, [id |-> part.call, input |-> 0]) ELSE calls

(* What a part adds, at the place its protocol tells.                      *)
More(calls, part, i) ==
    IF part.args THEN [Begun(calls, part) EXCEPT ![i].input = @ + 1] ELSE Begun(calls, part)

LEMMA TellsMore ==
    ASSUME NEW T, NEW parts \in Seq(T), NEW p, WellFormed(p, parts),
           NEW calls \in Seq(CallSet), NEW n \in Nat, n + 1 \in DOMAIN parts,
           Tells(calls, parts, n), parts[n + 1].call \in Calls \cup Texts
    PROVE  /\ Slot(p, parts, n + 1) \in DOMAIN Begun(calls, parts[n + 1])
           /\ More(calls, parts[n + 1], Slot(p, parts, n + 1)) \in Seq(CallSet)
           /\ Tells(More(calls, parts[n + 1], Slot(p, parts, n + 1)), parts, n + 1)
<1>. DEFINE part == parts[n + 1]
            i == Slot(p, parts, n + 1)
            b == Begun(calls, part)
            x == More(calls, part, i)
            L == Len(calls)
<1>0. /\ DOMAIN parts = 1 .. Len(parts) /\ Len(parts) \in Nat
      /\ \A m \in 1 .. n + 1 : m \in DOMAIN parts
      /\ L \in Nat /\ DOMAIN calls = 1 .. L /\ L = Place(parts, n)
  BY LenProperties DEF Tells
<1>1. PICK m \in 1 .. n + 1 : /\ parts[m].first /\ parts[m].call = part.call
                              /\ Place(parts, m) = i
  BY DEF WellFormed
<1>2. /\ Place(parts, n + 1) = L + (IF part.first THEN 1 ELSE 0)
      /\ \A call : /\ Inputs(parts, n, call) \in Nat
                   /\ Inputs(parts, n + 1, call) = Inputs(parts, n, call)
                         + (IF part.args /\ part.call = call THEN 1 ELSE 0)
  BY <1>0, PlaceGrows, InputsGrow
<1>3. \A k \in 1 .. n + 1 : parts[k].first /\ parts[k].call = part.call => k = m
  BY <1>0, <1>1, BegunOnce
<1>4. \A k \in 1 .. n : k \in 1 .. n + 1 /\ k # n + 1
  OBVIOUS
<1>5. \A k \in 1 .. n + 1 : k # n + 1 => k \in 1 .. n
  OBVIOUS
<1>6. CASE part.first
  <2>. DEFINE new == [id |-> part.call, input |-> 0]
  <2>1. m = n + 1
    BY <1>1, <1>3, <1>6
  <2>2. i = L + 1
    BY <1>1, <1>2, <1>6, <2>1
  <2>3. new \in CallSet /\ b = Append(calls, new)
    BY <1>6 DEF Begun, CallSet
  <2>. HIDE DEF new
  <2>4. /\ b \in Seq(CallSet) /\ Len(b) = L + 1 /\ DOMAIN b = 1 .. L + 1
        /\ b[L + 1] = new /\ \A j \in 1 .. L : b[j] = calls[j]
    BY <2>3, AppendProperties, LenProperties
  <2>5. Inputs(parts, n, part.call) = 0
    <3>1. ASSUME NEW k \in 1 .. n, parts[k].args, parts[k].call = part.call PROVE FALSE
      <4>1. PICK o \in 1 .. k : parts[o].first /\ parts[o].call = parts[k].call
        BY <1>0, <1>4 DEF WellFormed
      <4>2. o \in 1 .. n /\ o \in 1 .. n + 1
        OBVIOUS
      <4>. QED
        BY <1>3, <1>4, <2>1, <3>1, <4>1, <4>2
    <3>2. {k \in 1 .. n : parts[k].args /\ parts[k].call = part.call} = {}
      BY <3>1
    <3>. QED
      BY <3>2, FS_EmptySet DEF Inputs
  <2>6. \A j \in 1 .. L : calls[j].id # part.call
    <3>. SUFFICES ASSUME NEW j \in 1 .. L PROVE calls[j].id # part.call
      OBVIOUS
    <3>1. PICK k \in 1 .. n : parts[k].first /\ Place(parts, k) = j
      BY DEF Tells
    <3>2. calls[j].id = parts[k].call
      BY <3>1 DEF Tells
    <3>. QED
      BY <1>3, <1>4, <2>1, <3>1, <3>2
  <2>7. /\ x \in Seq(CallSet) /\ Len(x) = L + 1 /\ \A j \in 1 .. L : x[j] = calls[j]
        /\ x[L + 1].id = part.call /\ x[L + 1].input = IF part.args THEN 1 ELSE 0
    <3>1. b[L + 1].id = part.call /\ b[L + 1].input = 0
      BY <2>4 DEF new
    <3>2. CASE ~part.args
      <4>1. x = b
        BY <3>2 DEF More
      <4>. HIDE DEF x, b, L, part
      <4>. QED
        BY <2>4, <3>1, <3>2, <4>1
    <3>3. CASE part.args
      <4>. DEFINE e == [b[L + 1] EXCEPT !.input = @ + 1]
      <4>1. x = [b EXCEPT ![L + 1] = e]
        BY <2>2, <3>3 DEF More
      <4>2. e \in CallSet /\ e.id = part.call /\ e.input = 1
        <5>1. e = [id |-> part.call, input |-> 1]
          BY <2>4, <3>1 DEF new
        <5>. QED
          BY <5>1 DEF CallSet
      <4>3. L + 1 \in 1 .. Len(b) /\ \A j \in 1 .. L : j # L + 1 /\ j \in 1 .. L + 1
        BY <1>0, <2>4
      <4>. HIDE DEF x, b, L, part, e
      <4>4. x \in Seq(CallSet) /\ Len(x) = L + 1
        BY <2>4, <4>1, <4>2, <4>3, ExceptSeq
      <4>5. x[L + 1] = e /\ \A j \in 1 .. L : x[j] = b[j]
        BY <2>4, <4>1, <4>3
      <4>. QED
        BY <2>4, <3>3, <4>2, <4>4, <4>5
    <3>. QED
      BY <3>2, <3>3
  <2>. HIDE DEF x, b, i
  <2>8. Len(x) = Place(parts, n + 1)
    BY <1>2, <1>6, <2>7
  <2>9. ASSUME NEW k \in 1 .. n + 1, parts[k].first
        PROVE  Place(parts, k) \in 1 .. Len(x) /\ x[Place(parts, k)].id = parts[k].call
    <3>1. CASE k = n + 1
      <4>1. Place(parts, k) = L + 1 /\ L + 1 \in 1 .. L + 1
        BY <1>0, <1>2, <1>6, <3>1
      <4>. QED
        BY <2>7, <3>1, <4>1
    <3>2. CASE k \in 1 .. n
      <4>1. Place(parts, k) \in 1 .. L /\ calls[Place(parts, k)].id = parts[k].call
        BY <2>9, <3>2 DEF Tells
      <4>2. \A j \in 1 .. L : j \in 1 .. L + 1
        BY <1>0
      <4>. QED
        BY <2>7, <4>1, <4>2
    <3>. QED
      BY <1>5, <3>1, <3>2
  <2>10. ASSUME NEW j \in 1 .. Len(x)
         PROVE  \E k \in 1 .. n + 1 : parts[k].first /\ Place(parts, k) = j
    <3>1. CASE j = L + 1
      <4>1. n + 1 \in 1 .. n + 1 /\ Place(parts, n + 1) = L + 1
        BY <1>2, <1>6
      <4>. QED
        BY <1>6, <3>1, <4>1
    <3>2. CASE j \in 1 .. L
      BY <1>4, <3>2 DEF Tells
    <3>. QED
      BY <1>0, <2>7, <3>1, <3>2
  <2>11. ASSUME NEW j \in 1 .. Len(x) PROVE x[j].input = Inputs(parts, n + 1, x[j].id)
    <3>1. CASE j = L + 1
      BY <1>2, <2>5, <2>7, <3>1
    <3>2. CASE j \in 1 .. L
      <4>1. x[j] = calls[j] /\ calls[j].id # part.call
            /\ calls[j].input = Inputs(parts, n, calls[j].id)
        BY <2>6, <2>7, <3>2 DEF Tells
      <4>2. Inputs(parts, n + 1, calls[j].id) = Inputs(parts, n, calls[j].id)
        BY <1>2, <4>1
      <4>. QED
        BY <4>1, <4>2
    <3>. QED
      BY <1>0, <2>7, <3>1, <3>2
  <2>12. Tells(x, parts, n + 1)
    BY <2>8, <2>9, <2>10, <2>11 DEF Tells
  <2>13. i \in DOMAIN b
    BY <1>0, <2>2, <2>4
  <2>. QED
    BY <2>7, <2>12, <2>13 DEF x, b, i
<1>7. CASE ~part.first
  <2>1. m \in 1 .. n
    BY <1>1, <1>5, <1>7
  <2>2. i \in 1 .. L /\ calls[i].id = part.call
    BY <1>1, <2>1 DEF Tells
  <2>3. b = calls
    BY <1>7 DEF Begun
  <2>4. \A j \in 1 .. L : calls[j].id = part.call => j = i
    <3>. SUFFICES ASSUME NEW j \in 1 .. L, calls[j].id = part.call PROVE j = i
      OBVIOUS
    <3>1. PICK k \in 1 .. n : parts[k].first /\ Place(parts, k) = j
      BY DEF Tells
    <3>2. parts[k].call = part.call
      BY <3>1 DEF Tells
    <3>. QED
      BY <1>1, <1>3, <1>4, <3>1, <3>2
  <2>5. /\ x \in Seq(CallSet) /\ Len(x) = L /\ \A j \in 1 .. L : x[j].id = calls[j].id
        /\ \A j \in 1 .. L : x[j].input = calls[j].input + (IF part.args /\ j = i THEN 1 ELSE 0)
    <3>0. \A j \in 1 .. L : calls[j] \in CallSet /\ calls[j].input \in Nat
      <4>1. \A j \in 1 .. L : calls[j] \in CallSet
        BY ElementOfSeq
      <4>. QED
        BY <4>1 DEF CallSet
    <3>1. CASE ~part.args
      <4>1. x = calls
        BY <2>3, <3>1 DEF More
      <4>. HIDE DEF x, i, part
      <4>. QED
        BY <3>0, <3>1, <4>1
    <3>2. CASE part.args
      <4>. DEFINE e == [calls[i] EXCEPT !.input = @ + 1]
      <4>1. x = [calls EXCEPT ![i] = e]
        BY <2>3, <3>2 DEF More
      <4>. HIDE DEF i, x
      <4>2. e \in CallSet /\ e.id = calls[i].id /\ e.input = calls[i].input + 1
        BY <2>2, <3>0 DEF CallSet
      <4>. HIDE DEF e, part
      <4>3. x \in Seq(CallSet) /\ Len(x) = L
        BY <2>2, <4>1, <4>2, ExceptSeq
      <4>4. \A j \in 1 .. L : x[j] = IF j = i THEN e ELSE calls[j]
        BY <1>0, <4>1
      <4>. HIDE DEF L
      <4>5. \A j \in 1 .. L : x[j].id = calls[j].id
        BY <4>2, <4>4
      <4>6. \A j \in 1 .. L : x[j].input = calls[j].input + (IF j = i THEN 1 ELSE 0)
        BY <3>0, <4>2, <4>4
      <4>. QED
        BY <3>2, <4>3, <4>5, <4>6
    <3>. QED
      BY <3>1, <3>2
  <2>. HIDE DEF x, b, i
  <2>6. Len(x) = Place(parts, n + 1)
    BY <1>0, <1>2, <1>7, <2>5
  <2>7. ASSUME NEW k \in 1 .. n + 1, parts[k].first
        PROVE  Place(parts, k) \in 1 .. Len(x) /\ x[Place(parts, k)].id = parts[k].call
    <3>1. k \in 1 .. n
      BY <1>5, <1>7, <2>7
    <3>2. Place(parts, k) \in 1 .. L /\ calls[Place(parts, k)].id = parts[k].call
      BY <2>7, <3>1 DEF Tells
    <3>. QED
      BY <2>5, <3>2
  <2>8. ASSUME NEW j \in 1 .. Len(x)
        PROVE  \E k \in 1 .. n + 1 : parts[k].first /\ Place(parts, k) = j
    BY <1>4, <2>5 DEF Tells
  <2>9. ASSUME NEW j \in 1 .. Len(x) PROVE x[j].input = Inputs(parts, n + 1, x[j].id)
    <3>1. /\ calls[j].input = Inputs(parts, n, calls[j].id)
          /\ x[j].id = calls[j].id
          /\ x[j].input = calls[j].input + (IF part.args /\ j = i THEN 1 ELSE 0)
      BY <2>5 DEF Tells
    <3>2. (part.call = calls[j].id) <=> (j = i)
      BY <2>2, <2>4, <2>5
    <3>3. Inputs(parts, n + 1, calls[j].id) = Inputs(parts, n, calls[j].id)
             + (IF part.args /\ part.call = calls[j].id THEN 1 ELSE 0)
      BY <1>2
    <3>. QED
      BY <3>1, <3>2, <3>3
  <2>10. Tells(x, parts, n + 1)
    BY <2>6, <2>7, <2>8, <2>9 DEF Tells
  <2>11. i \in DOMAIN b
    BY <1>0, <2>2, <2>3
  <2>. QED
    BY <2>5, <2>10, <2>11 DEF x, b, i
<1>. QED
  BY <1>6, <1>7

(***************************************************************************)
(* The beginnings of joined sequences                                      *)
(***************************************************************************)
Begins(a, b) == Len(a) <= Len(b) /\ \A i \in 1 .. Len(a) : a[i] = b[i]

LEMMA JoinsGrow ==
    ASSUME NEW S, NEW q \in Seq(Seq(S)), NEW k \in 0 .. Len(q)
    PROVE  Begins(Joins(q)[k], Joins(q)[Len(q)])
<1>. DEFINE n == Len(q)
            J == Joins(q)
            P == {j \in 0 .. n : j < k \/ Begins(J[k], J[j])}
<1>1. /\ n \in Nat /\ J \in [0 .. n -> Seq(S)] /\ J[0] = <<>>
      /\ \A j \in 1 .. n : J[j] = J[j - 1] \o q[j] /\ q[j] \in Seq(S)
  BY JoinsType, LenProperties, ElementOfSeq
<1>. HIDE DEF J, n
<1>2. \A j \in 0 .. n : J[j] \in Seq(S) /\ Len(J[j]) \in Nat
  BY <1>1, LenProperties
<1>3. k \in 0 .. n /\ Begins(J[k], J[k])
  BY <1>2 DEF Begins, n
<1>4. 0 \in P
  BY <1>1, <1>3
<1>5. ASSUME NEW j \in 1 .. n, j - 1 \in P PROVE j \in P
  <2>1. j - 1 \in 0 .. n /\ j \in 0 .. n
    BY <1>1
  <2>2. CASE j < k \/ j = k
    BY <1>3, <2>1, <2>2
  <2>3. CASE ~(j - 1 < k)
    <3>1. Begins(J[k], J[j - 1])
      BY <1>5, <2>3
    <3>2. /\ Len(J[j]) = Len(J[j - 1]) + Len(q[j]) /\ Len(q[j]) \in Nat
          /\ \A i \in 1 .. Len(J[j - 1]) : J[j][i] = J[j - 1][i]
      <4>. DEFINE x == J[j - 1]
                  y == q[j]
      <4>1. x \in Seq(S) /\ y \in Seq(S) /\ J[j] = x \o y
        BY <1>1, <1>2, <2>1
      <4>. HIDE DEF x, y
      <4>2. /\ Len(x \o y) = Len(x) + Len(y) /\ Len(x) \in Nat /\ Len(y) \in Nat
            /\ \A i \in 1 .. Len(x) : (x \o y)[i] = x[i]
        BY <4>1, ConcatProperties, LenProperties
      <4>. QED
        BY <4>1, <4>2 DEF x, y
    <3>. DEFINE x == J[k]
                y == J[j - 1]
                z == J[j]
    <3>3. /\ Len(x) \in Nat /\ Len(y) \in Nat
          /\ Len(x) <= Len(y) /\ \A i \in 1 .. Len(x) : x[i] = y[i]
          /\ \A i \in 1 .. Len(y) : z[i] = y[i]
      BY <1>2, <1>3, <2>1, <3>1, <3>2 DEF Begins
    <3>4. Len(z) = Len(y) + Len(q[j]) /\ Len(q[j]) \in Nat
      BY <3>2
    <3>. HIDE DEF x, y, z
    <3>5. Len(x) <= Len(z)
      BY <3>3, <3>4
    <3>6. \A i \in 1 .. Len(x) : i \in 1 .. Len(y)
      BY <3>3
    <3>7. Begins(x, z)
      BY <3>3, <3>5, <3>6 DEF Begins
    <3>8. Begins(J[k], J[j])
      BY <3>7 DEF x, z
    <3>. QED
      BY <2>1, <3>8
  <2>. QED
    BY <1>1, <1>3, <2>1, <2>2, <2>3
<1>. HIDE DEF P
<1>6. \A j \in 0 .. n : j \in P
  BY <1>1, <1>4, <1>5, Climb
<1>7. n \in P /\ ~(n < k)
  BY <1>1, <1>3, <1>6
<1>. QED
  BY <1>7 DEF P, J, n

(***************************************************************************)
(* The parts of a response                                                 *)
(***************************************************************************)
Part == Pieces \cup [call : Calls \cup {Nothing}, first : BOOLEAN, args : BOOLEAN]

LEMMA PartFields ==
    ASSUME NEW part \in Part
    PROVE  part.call \in Calls \cup Texts /\ part.first \in BOOLEAN /\ part.args \in BOOLEAN
BY DEF Part, Pieces, Texts

LEMMA PartsOfType ==
    ASSUME NEW p \in {"anthropic", "openai"},
           NEW e \in (IF p = "anthropic" THEN Events ELSE Chunks)
    PROVE  PartsOf(p, e) \in Seq(Part)
<1>1. CASE p = "openai"
  <2>1. e \in Chunks /\ PartsOf(p, e) = e.pieces
    BY <1>1 DEF PartsOf
  <2>2. e.pieces \in Seq(Pieces)
    BY <2>1 DEF Chunks
  <2>3. e.pieces \in Seq(Part)
    BY <2>2 DEF Part
  <2>. QED
    BY <2>1, <2>3
<1>2. CASE p = "anthropic" /\ e.kind \in {"start", "input"}
  <2>. DEFINE x == [call |-> e.call, first |-> e.kind = "start", args |-> e.kind = "input"]
  <2>1. PartsOf(p, e) = <<x>>
    BY <1>2 DEF PartsOf
  <2>2. x \in Part
    BY <1>2 DEF Events, Part
  <2>. HIDE DEF x
  <2>. QED
    BY <2>1, <2>2
<1>3. CASE p = "anthropic" /\ ~(e.kind \in {"start", "input"})
  BY <1>3 DEF PartsOf
<1>. QED
  BY <1>1, <1>2, <1>3

LEMMA PartsType ==
    ASSUME NEW p \in DOMAIN Scripts, NEW s \in Scripts[p]
    PROVE  /\ p \in {"anthropic", "openai"}
           /\ s \in Seq(IF p = "anthropic" THEN Events ELSE Chunks)
           /\ Parts(p, s) \in [0 .. Len(s) -> Seq(Part)]
           /\ Parts(p, s)[0] = <<>>
           /\ \A k \in 1 .. Len(s) : /\ Parts(p, s)[k] = Parts(p, s)[k - 1] \o PartsOf(p, s[k])
                                     /\ PartsOf(p, s[k]) \in Seq(Part)
           /\ \A k \in 0 .. Len(s) : Begins(Parts(p, s)[k], Parts(p, s)[Len(s)])
<1>. DEFINE E == IF p = "anthropic" THEN Events ELSE Chunks
            q == [i \in DOMAIN s |-> PartsOf(p, s[i])]
<1>1. p \in {"anthropic", "openai"} /\ s \in Seq(E)
  BY ModelRequestAssumption, Zenon
<1>2. DOMAIN s = 1 .. Len(s) /\ Len(s) \in Nat /\ \A i \in 1 .. Len(s) : s[i] \in E
  <2>. HIDE DEF E
  <2>. QED
    BY <1>1, LenProperties, ElementOfSeq
<1>3. \A i \in 1 .. Len(s) : PartsOf(p, s[i]) \in Seq(Part)
  BY <1>1, <1>2, PartsOfType
<1>4. /\ q \in Seq(Seq(Part)) /\ Len(q) = Len(s)
      /\ \A i \in 1 .. Len(s) : q[i] = PartsOf(p, s[i])
  <2>. HIDE DEF E
  <2>. QED
    BY <1>2, <1>3
<1>. HIDE DEF q, E
<1>5. /\ Joins(q) \in [0 .. Len(q) -> Seq(Part)] /\ Joins(q)[0] = <<>>
      /\ \A k \in 1 .. Len(q) : Joins(q)[k] = Joins(q)[k - 1] \o q[k]
      /\ \A k \in 0 .. Len(q) : Begins(Joins(q)[k], Joins(q)[Len(q)])
  <2>. HIDE DEF Part
  <2>. QED
    BY <1>4, JoinsType, JoinsGrow
<1>6. Parts(p, s) = Joins(q)
  BY DEF Parts, q
<1>. HIDE DEF Part
<1>. QED
  BY <1>1, <1>3, <1>4, <1>5, <1>6 DEF E

(***************************************************************************)
(* What the collector makes of an event                                    *)
(***************************************************************************)
LEMMA PieceCollected ==
    ASSUME NEW c \in Seq(CallSet), NEW p \in Pieces, p.index + 1 \in DOMAIN Begun(c, p)
    PROVE  CollectFrom(c, PieceDeltas(p)) = More(c, p, p.index + 1)
<1>. DEFINE a == IF p.first THEN <<Start(p.index, p.call)>> ELSE <<>>
            b == IF p.args THEN <<Input(p.index)>> ELSE <<>>
            s == Start(p.index, p.call)
            t == Input(p.index)
            g == Begun(c, p)
<1>1. s \in Delta /\ t \in Delta
  BY DeltaTypes DEF Pieces
<1>2. /\ s.kind = "toolCallStart" /\ s.data = p.call
      /\ t.kind = "toolCallInput" /\ t.index = p.index
  BY DEF Start, Input, D
<1>3. (p.first => a = <<s>>) /\ (~p.first => a = <<>>)
  OBVIOUS
<1>4. (p.args => b = <<t>>) /\ (~p.args => b = <<>>)
  OBVIOUS
<1>5. PieceDeltas(p) = a \o b
  BY DEF PieceDeltas
<1>. HIDE DEF a, b, s, t
<1>6. a \in Seq(Delta) /\ b \in Seq(Delta)
  <2>1. <<s>> \in Seq(Delta) /\ <<t>> \in Seq(Delta) /\ <<>> \in Seq(Delta)
    BY <1>1
  <2>. QED
    BY <1>3, <1>4, <2>1, Zenon
<1>7. CollectFrom(c, a) = g /\ g \in Seq(CallSet)
  <2>1. CASE p.first
    <3>1. CollectFrom(c, a) = Collect(c, s) /\ Collect(c, s) \in Seq(CallSet)
      BY <1>1, <1>3, <2>1, CollectOne, CollectType
    <3>2. Collect(c, s) = g
      BY <1>2, <2>1 DEF Collect, Begun
    <3>. QED
      BY <3>1, <3>2
  <2>2. CASE ~p.first
    BY <1>3, <2>2, CollectNothing DEF Begun
  <2>. QED
    BY <2>1, <2>2
<1>8. CollectFrom(c, a \o b) = CollectFrom(g, b)
  BY <1>6, <1>7, CollectJoined
<1>9. p.index + 1 \in DOMAIN g
  OBVIOUS
<1>. HIDE DEF g
<1>10. CASE p.args
  <2>1. CollectFrom(g, b) = Collect(g, t)
    BY <1>1, <1>4, <1>7, <1>10, CollectOne
  <2>2. Collect(g, t) = [g EXCEPT ![p.index + 1].input = @ + 1]
    BY <1>2, <1>9 DEF Collect
  <2>. QED
    BY <1>5, <1>8, <1>10, <2>1, <2>2 DEF More, g
<1>11. CASE ~p.args
  BY <1>4, <1>5, <1>7, <1>8, <1>11, CollectNothing DEF More, g
<1>. QED
  BY <1>10, <1>11

(* The pieces of a chunk, of whichever calls.                              *)
LEMMA PiecesCollected ==
    ASSUME NEW parts \in Seq(Part), WellFormed("openai", parts), NEW c \in Seq(CallSet),
           NEW n \in Nat, NEW pieces \in Seq(Pieces), n + Len(pieces) <= Len(parts),
           \A j \in 1 .. Len(pieces) : parts[n + j] = pieces[j],
           Tells(c, parts, n),
           NEW q, q = [i \in DOMAIN pieces |-> PieceDeltas(pieces[i])]
    PROVE  /\ q \in Seq(Seq(Delta))
           /\ Tells(CollectFrom(c, Join(q)), parts, n + Len(pieces))
<1>. DEFINE l == Len(pieces)
            J == Joins(q)
            P == {j \in 0 .. l : Tells(CollectFrom(c, J[j]), parts, n + j)}
<1>1. /\ l \in Nat /\ DOMAIN pieces = 1 .. l /\ Len(parts) \in Nat
      /\ DOMAIN parts = 1 .. Len(parts)
      /\ \A j \in 1 .. l : pieces[j] \in Pieces /\ PieceDeltas(pieces[j]) \in Seq(Delta)
  <2>1. \A j \in 1 .. l : pieces[j] \in Pieces
    BY ElementOfSeq
  <2>. QED
    BY <2>1, PieceType, LenProperties
<1>2. q \in Seq(Seq(Delta)) /\ Len(q) = l /\ \A j \in 1 .. l : q[j] = PieceDeltas(pieces[j])
  <2>. HIDE DEF l
  <2>. QED
    BY <1>1
<1>3. /\ J \in [0 .. l -> Seq(Delta)] /\ J[0] = <<>> /\ Join(q) = J[l]
      /\ \A j \in 1 .. l : J[j] = J[j - 1] \o PieceDeltas(pieces[j])
  <2>1. /\ J \in [0 .. Len(q) -> Seq(Delta)] /\ J[0] = <<>>
        /\ \A j \in 1 .. Len(q) : J[j] = J[j - 1] \o q[j]
    <3>. HIDE DEF Delta
    <3>. QED
      BY <1>2, JoinsType
  <2>2. Join(q) = J[Len(q)]
    BY DEF Join
  <2>. HIDE DEF l, J
  <2>. QED
    BY <1>2, <2>1, <2>2
<1>. HIDE DEF J, l
<1>4. 0 \in P
  <2>1. CollectFrom(c, J[0]) = c /\ n + 0 = n /\ 0 \in 0 .. l
    BY <1>1, <1>3, CollectNothing
  <2>. QED
    BY <2>1
<1>5. ASSUME NEW j \in 1 .. l, j - 1 \in P PROVE j \in P
  <2>. DEFINE x == CollectFrom(c, J[j - 1])
              p == pieces[j]
              m == n + (j - 1)
  <2>1. /\ j \in 0 .. l /\ j - 1 \in 0 .. l /\ m \in Nat /\ m + 1 = n + j
        /\ m + 1 \in 1 .. Len(parts)
    BY <1>1 DEF l
  <2>2. J[j - 1] \in Seq(Delta) /\ x \in Seq(CallSet) /\ Tells(x, parts, m)
    BY <1>3, <1>5, <2>1, CollectFromType
  <2>3. parts[m + 1] = p /\ p \in Pieces /\ p.call \in Calls \cup Texts
    <3>1. parts[m + 1] = p
      BY <2>1 DEF l
    <3>2. p \in Pieces
      BY <1>1
    <3>. QED
      BY <3>1, <3>2 DEF Pieces
  <2>4. Slot("openai", parts, m + 1) = p.index + 1
    BY <2>3 DEF Slot
  <2>. HIDE DEF x, p, m
  <2>5. /\ p.index + 1 \in DOMAIN Begun(x, p)
        /\ Tells(More(x, p, p.index + 1), parts, m + 1)
    <3>1. m + 1 \in DOMAIN parts
      BY <1>1, <2>1
    <3>. HIDE DEF Part
    <3>. QED
      BY <2>1, <2>2, <2>3, <2>4, <3>1, TellsMore
  <2>6. CollectFrom(x, PieceDeltas(p)) = More(x, p, p.index + 1)
    BY <2>2, <2>3, <2>5, PieceCollected
  <2>7. CollectFrom(c, J[j]) = CollectFrom(x, PieceDeltas(p))
    <3>1. J[j] = J[j - 1] \o PieceDeltas(p) /\ PieceDeltas(p) \in Seq(Delta)
      BY <1>1, <1>3 DEF p
    <3>. QED
      BY <2>2, <3>1, CollectJoined DEF x
  <2>. QED
    BY <2>1, <2>5, <2>6, <2>7
<1>. HIDE DEF P
<1>6. \A j \in 0 .. l : j \in P
  BY <1>1, <1>4, <1>5, Climb
<1>7. l \in P
  BY <1>1, <1>6
<1>. QED
  BY <1>2, <1>3, <1>7 DEF P, l

LEMMA ChunkCollected ==
    ASSUME NEW parts \in Seq(Part), WellFormed("openai", parts), NEW c \in Seq(CallSet),
           NEW n \in Nat, NEW e \in Chunks, n + Len(e.pieces) <= Len(parts),
           \A j \in 1 .. Len(e.pieces) : parts[n + j] = e.pieces[j],
           Tells(c, parts, n)
    PROVE  Tells(CollectFrom(c, OpenAIDeltas(e)), parts, n + Len(e.pieces))
<1>. DEFINE q == [i \in DOMAIN e.pieces |-> PieceDeltas(e.pieces[i])]
            text == <<Message(e.text)>>
            usage == IF e.usage THEN <<Usage>> ELSE <<>>
            finish == CASE e.finish = Nothing -> <<>>
                        [] e.finish = "tool_calls" -> <<Stop("tool_use")>>
                        [] OTHER -> <<Stop("end_turn")>>
            x == CollectFrom(c, Join(q))
<1>1. e.pieces \in Seq(Pieces) /\ e.text \in Texts
  BY DEF Chunks
<1>2. q \in Seq(Seq(Delta)) /\ Tells(x, parts, n + Len(e.pieces))
  <2>. HIDE DEF Part
  <2>. QED
    BY <1>1, PiecesCollected
<1>3. Join(q) \in Seq(Delta)
  <2>. HIDE DEF q, Delta
  <2>. QED
    BY <1>2, JoinType
<1>4. /\ Message(e.text) \in Delta /\ Usage \in Delta
      /\ Stop("tool_use") \in Delta /\ Stop("end_turn") \in Delta
      /\ Inert(Message(e.text)) /\ Inert(Usage)
      /\ Inert(Stop("tool_use")) /\ Inert(Stop("end_turn"))
  BY <1>1, DeltaTypes DEF Inert, Message, Usage, Stop, D
<1>5. /\ text \in Seq(Delta) /\ usage \in Seq(Delta) /\ finish \in Seq(Delta)
      /\ \A k \in Seq(CallSet) : /\ CollectFrom(k, text) = k /\ CollectFrom(k, usage) = k
                                 /\ CollectFrom(k, finish) = k
  <2>. DEFINE a == Message(e.text)
              b == Usage
              u == Stop("tool_use")
              v == Stop("end_turn")
  <2>1. /\ text = <<a>> /\ (usage = <<>> \/ usage = <<b>>)
        /\ (finish = <<>> \/ finish = <<u>> \/ finish = <<v>>)
    OBVIOUS
  <2>. HIDE DEF a, b, u, v, text, usage, finish
  <2>2. /\ <<a>> \in Seq(Delta) /\ <<b>> \in Seq(Delta) /\ <<u>> \in Seq(Delta)
        /\ <<v>> \in Seq(Delta) /\ <<>> \in Seq(Delta)
    BY <1>4 DEF a, b, u, v
  <2>3. \A k \in Seq(CallSet) :
           /\ CollectFrom(k, <<a>>) = k /\ CollectFrom(k, <<b>>) = k /\ CollectFrom(k, <<u>>) = k
           /\ CollectFrom(k, <<v>>) = k /\ CollectFrom(k, <<>>) = k
    BY <1>4, InertAdds, CollectNothing DEF a, b, u, v
  <2>4. text \in Seq(Delta) /\ usage \in Seq(Delta) /\ finish \in Seq(Delta)
    BY <2>1, <2>2, Zenon
  <2>5. ASSUME NEW k \in Seq(CallSet)
        PROVE  /\ CollectFrom(k, text) = k /\ CollectFrom(k, usage) = k
               /\ CollectFrom(k, finish) = k
    <3>1. /\ CollectFrom(k, <<a>>) = k /\ CollectFrom(k, <<b>>) = k /\ CollectFrom(k, <<u>>) = k
          /\ CollectFrom(k, <<v>>) = k /\ CollectFrom(k, <<>>) = k
      BY <2>3
    <3>. QED
      BY <2>1, <3>1, Zenon
  <2>. QED
    BY <2>4, <2>5
<1>. DEFINE j == Join(q)
<1>6. OpenAIDeltas(e) = text \o j \o usage \o finish
  BY DEF OpenAIDeltas
<1>7. j \in Seq(Delta) /\ x = CollectFrom(c, j)
  BY <1>3
<1>. HIDE DEF text, usage, finish, q, x, j, Delta, CallSet
<1>8. text \o j \in Seq(Delta) /\ text \o j \o usage \in Seq(Delta)
  BY <1>5, <1>7
<1>9. CollectFrom(c, text \o j) = x /\ x \in Seq(CallSet)
  BY <1>5, <1>7, CollectJoined, CollectFromType
<1>10. CollectFrom(c, text \o j \o usage) = x
  BY <1>5, <1>8, <1>9, CollectJoined
<1>11. CollectFrom(c, text \o j \o usage \o finish) = x
  BY <1>5, <1>8, <1>9, <1>10, CollectJoined
<1>. QED
  BY <1>2, <1>6, <1>11

LEMMA BlockCollected ==
    ASSUME NEW parts \in Seq(Part), WellFormed("anthropic", parts), NEW c \in Seq(CallSet),
           NEW n \in Nat, NEW e \in Events,
           n + Len(PartsOf("anthropic", e)) <= Len(parts),
           \A j \in 1 .. Len(PartsOf("anthropic", e)) :
              parts[n + j] = PartsOf("anthropic", e)[j],
           Tells(c, parts, n), toolCallIdx = Place(parts, n)
    PROVE  /\ Tells(CollectFrom(c, AnthropicDeltas(e)), parts,
                    n + Len(PartsOf("anthropic", e)))
           /\ Place(parts, n + Len(PartsOf("anthropic", e))) =
                 (IF e.kind = "start" THEN toolCallIdx + 1 ELSE toolCallIdx)
<1>. DEFINE l == Len(PartsOf("anthropic", e))
            a == toolCallIdx
<1>1. /\ a \in Nat /\ Place(parts, n + 1) = a + (IF parts[n + 1].first THEN 1 ELSE 0)
      /\ DOMAIN parts = 1 .. Len(parts) /\ Len(parts) \in Nat
  BY PlaceGrows, LenProperties
<1>2. CASE e.kind \in {"text", "usage"}
  <2>1. l = 0 /\ n + l = n
    BY <1>2 DEF PartsOf
  <2>2. /\ Message("text") \in Delta /\ Usage \in Delta
        /\ Inert(Message("text")) /\ Inert(Usage)
    BY DeltaTypes DEF Inert, Message, Usage, D
  <2>3. AnthropicDeltas(e) = <<Message("text")>> \/ AnthropicDeltas(e) = <<Usage>>
    BY <1>2 DEF AnthropicDeltas
  <2>4. CollectFrom(c, AnthropicDeltas(e)) = c
    <3>1. /\ CollectFrom(c, <<Message("text")>>) = c
          /\ CollectFrom(c, <<Usage>>) = c
      BY <2>2, InertAdds
    <3>. QED
      BY <2>3, <3>1, Zenon
  <2>. HIDE DEF l
  <2>. QED
    BY <1>2, <2>1, <2>4 DEF l
<1>3. CASE e.kind \in {"start", "input"}
  <2>. DEFINE part == [call |-> e.call, first |-> e.kind = "start", args |-> e.kind = "input"]
              i == Slot("anthropic", parts, n + 1)
              d == IF e.kind = "start" THEN Start(a, e.call) ELSE Input(a - 1)
  <2>1. PartsOf("anthropic", e) = <<part>>
    BY <1>3 DEF PartsOf
  <2>2. l = 1 /\ parts[n + 1] = part /\ n + 1 \in DOMAIN parts
    <3>1. l = 1 /\ PartsOf("anthropic", e)[1] = part /\ 1 \in 1 .. l
      BY <2>1
    <3>2. parts[n + 1] = PartsOf("anthropic", e)[1]
      BY <3>1
    <3>. QED
      BY <1>1, <3>1, <3>2
  <2>3. /\ part.call = e.call /\ (part.first <=> e.kind = "start")
        /\ (part.args <=> e.kind = "input") /\ e.call \in Calls \cup Texts
    BY DEF Events, Texts
  <2>4. /\ i \in DOMAIN Begun(c, part)
        /\ Tells(More(c, part, i), parts, n + 1)
    <3>1. parts[n + 1].call \in Calls \cup Texts
      BY <2>2, <2>3
    <3>. HIDE DEF Part, part, i
    <3>2. /\ i \in DOMAIN Begun(c, parts[n + 1])
          /\ Tells(More(c, parts[n + 1], i), parts, n + 1)
      BY <2>2, <3>1, TellsMore DEF i
    <3>. QED
      BY <2>2, <3>2
  <2>5. i = Place(parts, n + 1)
    BY DEF Slot
  <2>6. AnthropicDeltas(e) = <<d>> /\ d \in Delta
    <3>1. Start(a, e.call) \in Delta /\ Input(a - 1) \in Delta
      BY <1>1, DeltaTypes DEF Events
    <3>. QED
      BY <1>3, <3>1 DEF AnthropicDeltas
  <2>7. CollectFrom(c, AnthropicDeltas(e)) = Collect(c, d)
    <3>. HIDE DEF d
    <3>. QED
      BY <2>6, CollectOne
  <2>8. CASE e.kind = "start"
    <3>1. d.kind = "toolCallStart" /\ d.data = e.call
      BY <2>8 DEF Start, D
    <3>2. Collect(c, d) = More(c, part, i)
      <4>. HIDE DEF d, part, i
      <4>. QED
        BY <2>3, <2>8, <3>1 DEF Collect, More, Begun
    <3>3. Place(parts, n + 1) = a + 1
      BY <1>1, <2>2, <2>3, <2>8
    <3>. HIDE DEF i, part, l, d
    <3>. QED
      BY <2>2, <2>4, <2>7, <2>8, <3>2, <3>3 DEF l
  <2>9. CASE e.kind = "input"
    <3>1. d.kind = "toolCallInput" /\ d.index + 1 = a
      BY <1>1, <2>9 DEF Input, D
    <3>2. Place(parts, n + 1) = a /\ i = a
      BY <1>1, <2>2, <2>3, <2>5, <2>9
    <3>. HIDE DEF i, part, l, d, a
    <3>3. Begun(c, part) = c /\ a \in DOMAIN c
      BY <2>3, <2>4, <2>9, <3>2 DEF Begun
    <3>4. Collect(c, d) = More(c, part, i)
      BY <2>3, <2>9, <3>1, <3>2, <3>3 DEF Collect, More
    <3>. QED
      BY <2>2, <2>4, <2>7, <2>9, <3>2, <3>4 DEF l, a
  <2>. QED
    BY <1>3, <2>8, <2>9
<1>. QED
  BY <1>2, <1>3 DEF Events

(***************************************************************************)
(* What the driver says of the reason for the end                          *)
(***************************************************************************)
ToolUse == Stop("tool_use")

LEMMA RangeJoined ==
    ASSUME NEW S, NEW a \in Seq(S), NEW b \in Seq(S)
    PROVE  Range(a \o b) = Range(a) \cup Range(b)
<1>1. /\ DOMAIN a = 1 .. Len(a) /\ DOMAIN b = 1 .. Len(b) /\ Len(a) \in Nat /\ Len(b) \in Nat
      /\ DOMAIN (a \o b) = 1 .. Len(a) + Len(b)
      /\ \A i \in 1 .. Len(a) + Len(b) : (a \o b)[i] = IF i <= Len(a) THEN a[i] ELSE b[i - Len(a)]
  BY ConcatProperties, LenProperties
<1>2. ASSUME NEW x \in Range(a \o b) PROVE x \in Range(a) \cup Range(b)
  <2>1. PICK i \in 1 .. Len(a) + Len(b) : x = (a \o b)[i]
    BY <1>1, <1>2 DEF Range
  <2>2. CASE i <= Len(a)
    <3>1. i \in 1 .. Len(a) /\ x = a[i]
      BY <1>1, <2>1, <2>2
    <3>. QED
      BY <1>1, <3>1 DEF Range
  <2>3. CASE ~(i <= Len(a))
    <3>1. i - Len(a) \in 1 .. Len(b) /\ x = b[i - Len(a)]
      BY <1>1, <2>1, <2>3
    <3>. QED
      BY <1>1, <3>1 DEF Range
  <2>. QED
    BY <2>2, <2>3
<1>3. ASSUME NEW x \in Range(a) PROVE x \in Range(a \o b)
  <2>1. PICK i \in 1 .. Len(a) : x = a[i]
    BY <1>1, <1>3 DEF Range
  <2>2. i \in 1 .. Len(a) + Len(b) /\ (a \o b)[i] = a[i]
    BY <1>1
  <2>. QED
    BY <1>1, <2>1, <2>2 DEF Range
<1>4. ASSUME NEW x \in Range(b) PROVE x \in Range(a \o b)
  <2>1. PICK i \in 1 .. Len(b) : x = b[i]
    BY <1>1, <1>4 DEF Range
  <2>2. Len(a) + i \in 1 .. Len(a) + Len(b) /\ (a \o b)[Len(a) + i] = b[i]
    BY <1>1
  <2>. QED
    BY <1>1, <2>1, <2>2 DEF Range
<1>. QED
  BY <1>2, <1>3, <1>4

(* Deltas without the one that asks for tools.                             *)
Quiet == Delta \ {ToolUse}

LEMMA QuietSays ==
    ASSUME NEW a \in Seq(Quiet)
    PROVE  a \in Seq(Delta) /\ ToolUse \notin Range(a)
<1>1. DOMAIN a = 1 .. Len(a) /\ \A i \in 1 .. Len(a) : a[i] \in Quiet
  <2>. HIDE DEF Quiet
  <2>. QED
    BY LenProperties, ElementOfSeq
<1>2. a \in Seq(Delta)
  BY DEF Quiet
<1>3. \A i \in DOMAIN a : a[i] # ToolUse
  BY <1>1 DEF Quiet
<1>. QED
  BY <1>2, <1>3 DEF Range

LEMMA QuietDeltas ==
    /\ \A x \in Texts : Message(x) \in Quiet
    /\ Message("text") \in Quiet /\ Stop("end_turn") \in Quiet /\ Usage \in Quiet
    /\ \A i \in Int, c \in Calls \cup {Nothing} : Start(i, c) \in Quiet
    /\ \A i \in Int : Input(i) \in Quiet
<1>1. /\ \A x : Message(x).kind = "message"
      /\ Stop("end_turn").data = "end_turn" /\ Usage.kind = "usage"
      /\ \A i, c : Start(i, c).kind = "toolCallStart"
      /\ \A i : Input(i).kind = "toolCallInput"
      /\ ToolUse.kind = "streamStop" /\ ToolUse.data = "tool_use"
  BY DEF Message, Stop, Start, Input, Usage, D, ToolUse
<1>. HIDE DEF Message, Stop, Start, Input, Usage, D, ToolUse
<1>. QED
  BY <1>1, DeltaTypes DEF Quiet

LEMMA BlockQuiet ==
    ASSUME NEW e \in Events, toolCallIdx \in Nat
    PROVE  AnthropicDeltas(e) \in Seq(Quiet)
<1>1. /\ Message("text") \in Quiet /\ Start(toolCallIdx, e.call) \in Quiet
      /\ Input(toolCallIdx - 1) \in Quiet /\ Usage \in Quiet
  BY QuietDeltas DEF Events
<1>. HIDE DEF Message, Start, Input, Usage, Quiet
<1>. QED
  BY <1>1 DEF AnthropicDeltas, Events

LEMMA ChunkSays ==
    ASSUME NEW e \in Chunks
    PROVE  ToolUse \in Range(OpenAIDeltas(e)) <=> e.finish = "tool_calls"
<1>. DEFINE q == [i \in DOMAIN e.pieces |-> PieceDeltas(e.pieces[i])]
            text == <<Message(e.text)>>
            usage == IF e.usage THEN <<Usage>> ELSE <<>>
            finish == CASE e.finish = Nothing -> <<>>
                        [] e.finish = "tool_calls" -> <<Stop("tool_use")>>
                        [] OTHER -> <<Stop("end_turn")>>
            j == Join(q)
<1>1. e.pieces \in Seq(Pieces) /\ e.text \in Texts
  BY DEF Chunks
<1>2. ASSUME NEW p \in Pieces PROVE PieceDeltas(p) \in Seq(Quiet)
  <2>1. Start(p.index, p.call) \in Quiet /\ Input(p.index) \in Quiet
    BY QuietDeltas DEF Pieces
  <2>2. /\ (IF p.first THEN <<Start(p.index, p.call)>> ELSE <<>>) \in Seq(Quiet)
        /\ (IF p.args THEN <<Input(p.index)>> ELSE <<>>) \in Seq(Quiet)
    <3>. HIDE DEF Quiet
    <3>. QED
      BY <2>1
  <2>. HIDE DEF Quiet
  <2>. QED
    BY <2>2 DEF PieceDeltas
<1>3. q \in Seq(Seq(Quiet))
  <2>1. \A i \in 1 .. Len(e.pieces) : PieceDeltas(e.pieces[i]) \in Seq(Quiet)
    <3>1. \A i \in 1 .. Len(e.pieces) : e.pieces[i] \in Pieces
      BY <1>1, ElementOfSeq
    <3>. QED
      BY <1>2, <3>1
  <2>. HIDE DEF Quiet
  <2>. QED
    BY <1>1, <2>1
<1>. HIDE DEF q
<1>4. j \in Seq(Quiet)
  BY <1>3, JoinType
<1>5. text \in Seq(Quiet) /\ usage \in Seq(Quiet)
  <2>1. Message(e.text) \in Quiet /\ Usage \in Quiet
    BY <1>1, QuietDeltas
  <2>. HIDE DEF Quiet
  <2>. QED
    BY <2>1
<1>6. finish \in Seq(Delta) /\ (ToolUse \in Range(finish) <=> e.finish = "tool_calls")
  <2>1. CASE e.finish = "tool_calls"
    <3>1. finish = <<ToolUse>> /\ ToolUse \in Delta
      BY <2>1, DeltaTypes DEF ToolUse, Nothing
    <3>. HIDE DEF finish
    <3>2. 1 \in DOMAIN finish /\ finish[1] = ToolUse
      BY <3>1
    <3>. QED
      BY <2>1, <3>1, <3>2 DEF Range
  <2>2. CASE e.finish # "tool_calls"
    <3>1. finish \in Seq(Quiet)
      <4>1. Stop("end_turn") \in Quiet
        BY QuietDeltas
      <4>. HIDE DEF Quiet
      <4>. QED
        BY <2>2, <4>1
    <3>. HIDE DEF finish
    <3>. QED
      BY <2>2, <3>1, QuietSays
  <2>. QED
    BY <2>1, <2>2
<1>7. OpenAIDeltas(e) = text \o j \o usage \o finish
  BY DEF OpenAIDeltas, q
<1>. HIDE DEF text, usage, finish, j
<1>8. text \o j \o usage \in Seq(Quiet)
  <2>. HIDE DEF Quiet
  <2>. QED
    BY <1>4, <1>5
<1>. DEFINE before == text \o j \o usage
<1>9. before \in Seq(Delta) /\ ToolUse \notin Range(before)
  BY <1>8, QuietSays
<1>10. OpenAIDeltas(e) = before \o finish
  BY <1>7
<1>. HIDE DEF before
<1>11. Range(before \o finish) = Range(before) \cup Range(finish)
  BY <1>6, <1>9, RangeJoined
<1>. QED
  BY <1>6, <1>9, <1>10, <1>11

(***************************************************************************)
(* The calls of a response                                                 *)
(***************************************************************************)
Whole == Parts(protocol, script)[Len(script)]

Finishing == {"stopping", "closing", "closingDeltas", "closed"}

(* What was meant so far tells the parts of the events so far.             *)
CallsMeant ==
    /\ script \in Scripts[protocol] /\ at \in 0 .. Len(script)
    /\ Tells(CollectFrom(<<>>, meant), Whole, Len(Told))
    /\ protocol = "anthropic" => toolCallIdx = Place(Whole, Len(Told))
    /\ protocol = "openai" =>
          (ToolUse \in Range(meant) <=> \E i \in 1 .. at : script[i].finish = "tool_calls")

(* Anthropic's driver tells at the end whether there were calls.           *)
EndMeant ==
    protocol = "anthropic" =>
        /\ driver \in {"converting", "reading", "sending"} => ToolUse \notin Range(meant)
        /\ driver \in Finishing /\ ~err => (ToolUse \in Range(meant) <=> toolCallIdx > 0)

CallInv ==
    phase \in {"summarize", "respond"} =>
        /\ CallsMeant /\ EndMeant
        /\ outcome = "complete" => driver = "closed" /\ ~err /\ got = meant

LEMMA EventTold ==
    ASSUME NEW p \in DOMAIN Scripts, NEW s \in Scripts[p], NEW k \in 0 .. Len(s) - 1
    PROVE  /\ Parts(p, s)[Len(s)] \in Seq(Part)
           /\ WellFormed(p, Parts(p, s)[Len(s)])
           /\ Len(Parts(p, s)[k]) \in Nat
           /\ Len(Parts(p, s)[k + 1]) = Len(Parts(p, s)[k]) + Len(PartsOf(p, s[k + 1]))
           /\ Len(Parts(p, s)[k + 1]) <= Len(Parts(p, s)[Len(s)])
           /\ \A j \in 1 .. Len(PartsOf(p, s[k + 1])) :
                 Parts(p, s)[Len(s)][Len(Parts(p, s)[k]) + j] = PartsOf(p, s[k + 1])[j]
<1>. DEFINE x == Parts(p, s)[k]
            y == PartsOf(p, s[k + 1])
            z == Parts(p, s)[k + 1]
            w == Parts(p, s)[Len(s)]
<1>1. k \in 0 .. Len(s) /\ k + 1 \in 1 .. Len(s) /\ k + 1 \in 0 .. Len(s) /\ (k + 1) - 1 = k
      /\ Len(s) \in 0 .. Len(s)
  <2>1. Len(s) \in Nat
    BY PartsType, LenProperties
  <2>. QED
    BY <2>1
<1>2. /\ x \in Seq(Part) /\ y \in Seq(Part) /\ w \in Seq(Part)
      /\ z = x \o y /\ Begins(z, w)
  <2>1. /\ Parts(p, s) \in [0 .. Len(s) -> Seq(Part)]
        /\ \A j \in 1 .. Len(s) : /\ Parts(p, s)[j] = Parts(p, s)[j - 1] \o PartsOf(p, s[j])
                                  /\ PartsOf(p, s[j]) \in Seq(Part)
        /\ \A j \in 0 .. Len(s) : Begins(Parts(p, s)[j], Parts(p, s)[Len(s)])
    BY PartsType
  <2>. HIDE DEF Part
  <2>. QED
    BY <1>1, <2>1
<1>3. WellFormed(p, w)
  BY ResponsesAssumption
<1>. HIDE DEF x, y, z, w, Part
<1>4. /\ Len(x) \in Nat /\ Len(y) \in Nat /\ Len(x \o y) = Len(x) + Len(y)
      /\ \A j \in 1 .. Len(y) : (x \o y)[Len(x) + j] = y[j] /\ Len(x) + j \in 1 .. Len(x) + Len(y)
  BY <1>2, ConcatProperties, LenProperties
<1>5. \A j \in 1 .. Len(y) : w[Len(x) + j] = y[j]
  BY <1>2, <1>4 DEF Begins
<1>6. Len(z) = Len(x) + Len(y) /\ Len(z) <= Len(w)
  BY <1>2, <1>4 DEF Begins
<1>. QED
  BY <1>2, <1>3, <1>4, <1>5, <1>6 DEF x, y, z, w

LEMMA CallsFresh ==
    ASSUME StreamInv, Stream, UNCHANGED protocol
    PROVE  CallInv'
<1>1. /\ script' \in Scripts[protocol'] /\ protocol' \in DOMAIN Scripts
      /\ at' = 0 /\ toolCallIdx' = 0 /\ meant' = <<>> /\ driver' = "converting"
      /\ outcome' = "none"
  BY DEF Stream, StreamInv
<1>2. Told' = <<>>
  BY <1>1, PartsType DEF Told
<1>3. Len(Told') = 0 /\ Len(script') \in Nat
  <2>1. Len(script') \in Nat
    BY <1>1, PartsType, LenProperties
  <2>. QED
    BY <1>2, <2>1
<1>4. Tells(<<>>, Whole', 0)
  BY TellsNothing
<1>5. CollectFrom(<<>>, meant') = <<>>
  <2>1. <<>> \in Seq(CallSet)
    OBVIOUS
  <2>. QED
    BY <1>1, <2>1, CollectNothing
<1>6. Place(Whole', 0) = 0
  BY <1>4 DEF Tells
<1>7. ToolUse \notin Range(meant')
  BY <1>1 DEF Range
<1>8. CallsMeant'
  <2>1. ~ \E i \in 1 .. at' : script'[i].finish = "tool_calls"
    BY <1>1
  <2>2. /\ Tells(CollectFrom(<<>>, meant'), Whole', Len(Told'))
        /\ toolCallIdx' = Place(Whole', Len(Told')) /\ at' \in 0 .. Len(script')
    BY <1>1, <1>3, <1>4, <1>5, <1>6
  <2>. QED
    BY <1>1, <1>7, <2>1, <2>2 DEF CallsMeant
<1>9. EndMeant'
  BY <1>1, <1>7 DEF EndMeant, Finishing
<1>. QED
  BY <1>1, <1>8, <1>9 DEF CallInv

(* What tells the calls does not change.                                   *)
LEMMA CallsStay ==
    ASSUME CallsMeant, UNCHANGED <<protocol, script, at, toolCallIdx, meant>>
    PROVE  CallsMeant'
BY DEF CallsMeant, Whole, Told

(* The driver takes the next event of the provider.                        *)
LEMMA CallsGrow ==
    ASSUME StreamInv, CallsMeant, EndMeant, NextEvent
    PROVE  CallsMeant' /\ EndMeant'
<1>. DEFINE k == at
            e == script[k + 1]
            w == Whole
            n == Len(Told)
            l == Len(PartsOf(protocol, e))
            m == meant
            q == DeltasOf(e)
            c == CollectFrom(<<>>, m)
<1>1. /\ UNCHANGED <<protocol, script, err>> /\ at' = k + 1 /\ meant' = m \o q
      /\ driver = "reading" /\ driver' = "sending"
      /\ toolCallIdx' = IF protocol = "anthropic" /\ e.kind = "start"
                        THEN toolCallIdx + 1 ELSE toolCallIdx
  BY DEF NextEvent, Go, driverUnchanged
<1>2. /\ protocol \in DOMAIN Scripts /\ script \in Scripts[protocol]
      /\ k \in 0 .. Len(script) - 1 /\ toolCallIdx \in Nat /\ m \in Seq(Delta)
      /\ k + 1 \in 0 .. Len(script) /\ k + 1 \in 1 .. Len(script)
  BY DEF NextEvent, StreamInv, CallsMeant
<1>3. /\ protocol \in {"anthropic", "openai"}
      /\ e \in IF protocol = "anthropic" THEN Events ELSE Chunks
  <2>. DEFINE E == IF protocol = "anthropic" THEN Events ELSE Chunks
  <2>1. protocol \in {"anthropic", "openai"} /\ script \in Seq(E)
    BY <1>2, PartsType
  <2>. HIDE DEF E
  <2>2. e \in E
    BY <1>2, <2>1, ElementOfSeq
  <2>. QED
    BY <2>1, <2>2 DEF E
<1>4. /\ w \in Seq(Part) /\ WellFormed(protocol, w) /\ n \in Nat
      /\ Len(Told') = n + l /\ n + l <= Len(w) /\ w = Whole'
      /\ \A j \in 1 .. l : w[n + j] = PartsOf(protocol, e)[j]
  <2>1. /\ w = Parts(protocol, script)[Len(script)] /\ Told = Parts(protocol, script)[k]
        /\ Told' = Parts(protocol, script)[k + 1] /\ Whole' = w
    BY <1>1 DEF Whole, Told
  <2>. HIDE DEF w, Part
  <2>. QED
    BY <1>2, <2>1, EventTold
<1>5. c \in Seq(CallSet) /\ Tells(c, w, n)
  <2>1. <<>> \in Seq(CallSet)
    OBVIOUS
  <2>. QED
    BY <1>2, <2>1, CollectFromType DEF CallsMeant
<1>6. q \in Seq(Delta)
  BY <1>2, <1>3, AnthropicType, ChunkType DEF DeltasOf
<1>. HIDE DEF k, e, w, n, m, q, c, Part
<1>7. CollectFrom(<<>>, meant') = CollectFrom(c, q)
  <2>1. <<>> \in Seq(CallSet)
    OBVIOUS
  <2>. QED
    BY <1>1, <1>2, <1>6, <2>1, CollectJoined DEF c
<1>8. Range(meant') = Range(m) \cup Range(q)
  BY <1>1, <1>2, <1>6, RangeJoined
<1>9. CASE protocol = "anthropic"
  <2>1. e \in Events /\ q = AnthropicDeltas(e) /\ l = Len(PartsOf("anthropic", e))
        /\ toolCallIdx = Place(w, n)
    BY <1>3, <1>9 DEF DeltasOf, q, w, n, CallsMeant
  <2>2. /\ Tells(CollectFrom(c, q), w, n + l)
        /\ Place(w, n + l) = IF e.kind = "start" THEN toolCallIdx + 1 ELSE toolCallIdx
    <3>. HIDE DEF l
    <3>1. /\ w \in Seq(Part) /\ WellFormed("anthropic", w) /\ n \in Nat
          /\ n + Len(PartsOf("anthropic", e)) <= Len(w)
          /\ \A j \in 1 .. Len(PartsOf("anthropic", e)) :
                w[n + j] = PartsOf("anthropic", e)[j]
      BY <1>4, <1>9, <2>1
    <3>2. /\ Tells(CollectFrom(c, AnthropicDeltas(e)), w, n + Len(PartsOf("anthropic", e)))
          /\ Place(w, n + Len(PartsOf("anthropic", e))) =
                (IF e.kind = "start" THEN toolCallIdx + 1 ELSE toolCallIdx)
      BY <1>5, <2>1, <3>1, BlockCollected
    <3>. QED
      BY <2>1, <3>2
  <2>3. ToolUse \notin Range(q)
    BY <1>2, <2>1, BlockQuiet, QuietSays
  <2>4. ToolUse \notin Range(meant')
    BY <1>1, <1>8, <1>9, <2>3 DEF EndMeant, m
  <2>. HIDE DEF l
  <2>5. CallsMeant'
    BY <1>1, <1>2, <1>4, <1>7, <1>9, <2>2 DEF CallsMeant
  <2>. QED
    BY <1>1, <2>4, <2>5 DEF EndMeant, Finishing
<1>10. CASE protocol = "openai"
  <2>1. e \in Chunks /\ q = OpenAIDeltas(e) /\ PartsOf("openai", e) = e.pieces
    BY <1>3, <1>10 DEF DeltasOf, q, PartsOf
  <2>2. Tells(CollectFrom(c, q), w, n + l)
    <3>1. /\ w \in Seq(Part) /\ WellFormed("openai", w) /\ n \in Nat
          /\ n + Len(e.pieces) <= Len(w)
          /\ \A j \in 1 .. Len(e.pieces) : w[n + j] = e.pieces[j]
      BY <1>4, <1>10, <2>1
    <3>2. Tells(CollectFrom(c, OpenAIDeltas(e)), w, n + Len(e.pieces))
      BY <1>5, <2>1, <3>1, ChunkCollected
    <3>. QED
      BY <1>10, <2>1, <3>2
  <2>3. ToolUse \in Range(q) <=> e.finish = "tool_calls"
    BY <2>1, ChunkSays
  <2>4. ToolUse \in Range(meant') <=> \E i \in 1 .. at' : script'[i].finish = "tool_calls"
    <3>1. ToolUse \in Range(m) <=> \E i \in 1 .. k : script[i].finish = "tool_calls"
      BY <1>10 DEF CallsMeant, m, k
    <3>2. \A i : i \in 1 .. k + 1 <=> (i \in 1 .. k \/ i = k + 1)
      BY <1>2
    <3>3. (\E i \in 1 .. k + 1 : script[i].finish = "tool_calls")
             <=> (\E i \in 1 .. k : script[i].finish = "tool_calls")
                 \/ script[k + 1].finish = "tool_calls"
      BY <3>2
    <3>. QED
      BY <1>1, <1>8, <2>3, <3>1, <3>3 DEF e
  <2>. HIDE DEF l
  <2>5. CallsMeant'
    BY <1>1, <1>2, <1>4, <1>7, <1>10, <2>2, <2>4 DEF CallsMeant
  <2>. QED
    BY <1>1, <1>10, <2>5 DEF EndMeant
<1>. QED
  BY <1>3, <1>9, <1>10

(* No more events: only Anthropic's driver adds a delta, and no call.      *)
LEMMA CallsEnd ==
    ASSUME StreamInv, CallsMeant, EndMeant, EndOfEvents
    PROVE  CallsMeant' /\ EndMeant'
<1>. DEFINE c == CollectFrom(<<>>, meant)
            q == LastDeltas
<1>1. /\ UNCHANGED <<protocol, script, err, at, toolCallIdx>> /\ meant' = meant \o q
      /\ driver = "reading" /\ driver' = "stopping"
      /\ meant \in Seq(Delta) /\ toolCallIdx \in Nat
      /\ protocol \in DOMAIN Scripts /\ script \in Scripts[protocol]
  BY DEF EndOfEvents, Go, driverUnchanged, StreamInv, CallsMeant
<1>2. protocol \in {"anthropic", "openai"}
  BY <1>1, PartsType
<1>3. CASE protocol = "openai"
  <2>1. meant' = meant
    BY <1>1, <1>3 DEF LastDeltas
  <2>. QED
    BY <1>1, <1>3, <2>1, CallsStay DEF EndMeant
<1>4. CASE protocol = "anthropic"
  <2>. DEFINE d == IF toolCallIdx > 0 THEN Stop("tool_use") ELSE Stop("end_turn")
  <2>1. q = <<d>> /\ d \in Delta /\ Inert(d) /\ (d = ToolUse <=> toolCallIdx > 0)
    <3>1. q = <<d>> /\ d \in Delta
      BY <1>4, DeltaTypes DEF LastDeltas
    <3>2. Inert(d) /\ (d = ToolUse <=> toolCallIdx > 0)
      BY DEF Inert, Stop, D, ToolUse
    <3>. QED
      BY <3>1, <3>2
  <2>2. c \in Seq(CallSet) /\ <<>> \in Seq(CallSet)
    <3>1. <<>> \in Seq(CallSet)
      OBVIOUS
    <3>. QED
      BY <1>1, <3>1, CollectFromType
  <2>. HIDE DEF q, d
  <2>3. CollectFrom(<<>>, meant') = c
    <3>1. q \in Seq(Delta)
      BY <2>1
    <3>2. CollectFrom(<<>>, meant \o q) = CollectFrom(c, q)
      BY <1>1, <2>2, <3>1, CollectJoined
    <3>3. CollectFrom(c, q) = c
      BY <2>1, <2>2, InertAdds
    <3>. QED
      BY <1>1, <3>2, <3>3
  <2>4. CallsMeant'
    <3>. HIDE DEF c
    <3>1. Whole' = Whole /\ Told' = Told
      BY <1>1 DEF Whole, Told
    <3>. QED
      BY <1>1, <1>4, <2>3, <3>1 DEF CallsMeant, c
  <2>5. ToolUse \in Range(meant') <=> toolCallIdx > 0
    <3>1. Range(meant') = Range(meant) \cup Range(q)
      <4>1. q \in Seq(Delta)
        BY <2>1
      <4>. QED
        BY <1>1, <4>1, RangeJoined
    <3>2. Range(q) = {d}
      BY <2>1 DEF Range
    <3>3. ToolUse \notin Range(meant)
      BY <1>1, <1>4 DEF EndMeant
    <3>. QED
      BY <2>1, <3>1, <3>2, <3>3
  <2>. QED
    BY <1>1, <2>4, <2>5 DEF EndMeant, Finishing
<1>. QED
  BY <1>2, <1>3, <1>4

LEMMA CallInit == Init => CallInv
BY DEF Init, CallInv

LEMMA CallStep == StreamInv /\ CallInv /\ [Next]_vars => CallInv'
<1>. SUFFICES ASSUME StreamInv, CallInv, [Next]_vars PROVE CallInv'
  OBVIOUS
<1>1. CASE PrepareAsItIs \/ Summarize \/ CachedSummary \/ UseSummary
  <2>1. /\ UNCHANGED protocol
        /\ Stream \/ phase' = "refused"
    BY <1>1 DEF PrepareAsItIs, Summarize, CachedSummary, UseSummary, AfterSummary, Respond,
                Refuse
  <2>2. CASE Stream
    BY <2>1, <2>2, CallsFresh
  <2>3. CASE phase' = "refused"
    BY <2>3 DEF CallInv
  <2>. QED
    BY <2>1, <2>2, <2>3
<1>2. ASSUME UNCHANGED <<protocol, phase, script, at, toolCallIdx, meant>>,
             EndMeant => EndMeant',
             outcome' = "complete" =>
                \/ outcome = "complete" /\ UNCHANGED <<driver, err, got>>
                \/ driver' = "closed" /\ ~err' /\ got' = meant'
      PROVE  CallInv'
  <2>1. CallsMeant => CallsMeant'
    BY <1>2, CallsStay
  <2>. QED
    BY <1>2, <2>1 DEF CallInv
<1>3. CASE Driver
  <2>0. /\ UNCHANGED <<protocol, phase, script, got, outcome>>
        /\ phase \in {"summarize", "respond"} => driver # "closed"
    BY <1>3 DEF Driver, DriverStep, Convert, SendDelta, SendCancelled, Sent, CloseErr,
                CloseDeltas, StreamFails, NextEvent, EndOfEvents, Go, driverUnchanged
  <2>1. phase \in {"summarize", "respond"} => outcome # "complete"
    BY <2>0 DEF CallInv
  <2>2. CASE NextEvent
    BY <2>0, <2>1, <2>2, CallsGrow DEF CallInv
  <2>3. CASE EndOfEvents
    BY <2>0, <2>1, <2>3, CallsEnd DEF CallInv
  <2>4. CASE StreamFails \/ SendCancelled \/ DriverStep
    <3>1. UNCHANGED <<at, toolCallIdx, meant>>
      BY <2>4 DEF DriverStep, Convert, SendDelta, SendCancelled, Sent, CloseErr, CloseDeltas,
                  StreamFails
    <3>2. EndMeant => EndMeant'
      <4>1. \/ err' = TRUE /\ driver' = "closing"
            \/ UNCHANGED err /\ driver' \in {"converting", "reading", "sending"}
                  /\ driver \in {"converting", "reading", "sending"}
            \/ UNCHANGED err /\ driver' \in Finishing /\ driver \in Finishing
        BY <2>4 DEF DriverStep, Convert, SendDelta, SendCancelled, Sent, CloseErr,
                    CloseDeltas, StreamFails, Go, Finishing
      <4>. QED
        BY <2>0, <3>1, <4>1 DEF EndMeant, Finishing
    <3>3. CallsMeant => CallsMeant'
      BY <2>0, <3>1, CallsStay
    <3>. QED
      BY <2>0, <2>1, <3>2, <3>3 DEF CallInv
  <2>. QED
    BY <1>3, <2>2, <2>3, <2>4 DEF Driver
<1>4. CASE Reader
  <2>1. /\ UNCHANGED <<protocol, phase, script, at, toolCallIdx, meant, driver, err>>
        /\ outcome = "none"
    BY <1>4 DEF Reader, ReceiveDelta, ReceiveError, SeeCancelled, EndOfDeltas, Reading,
                readerUnchanged
  <2>2. EndMeant => EndMeant'
    BY <2>1 DEF EndMeant
  <2>3. outcome' = "complete" => driver = "closed" /\ ~err /\ got' = meant
    <3>1. SUFFICES ASSUME EndOfDeltas PROVE driver = "closed" /\ ~err /\ got' = meant
      BY <1>4, <2>1 DEF Reader, ReceiveDelta, ReceiveError, SeeCancelled
    <3>2. driver = "closed" /\ ~err /\ deltas = <<>> /\ got' = got
      BY <3>1 DEF EndOfDeltas, StreamInv
    <3>3. out = <<>> /\ got \in Seq(Delta) /\ (got \o deltas) \o out = meant
      BY <3>2 DEF StreamInv, Ended
    <3>4. got = meant
      BY <3>2, <3>3, Longer
    <3>. QED
      BY <3>2, <3>4
  <2>. QED
    BY <1>2, <2>1, <2>2, <2>3
<1>5. CASE Cancel \/ UNCHANGED vars
  <2>1. UNCHANGED <<protocol, phase, stream>>
    BY <1>5 DEF Cancel, vars
  <2>2. EndMeant => EndMeant'
    BY <2>1 DEF EndMeant, stream
  <2>. QED
    BY <1>2, <2>1, <2>2 DEF stream
<1>. QED
  BY <1>1, <1>3, <1>4, <1>5 DEF Next

LEMMA CallsFollow == StreamInv /\ CallInv => CallsAreTheProviders
<1>. SUFFICES ASSUME StreamInv, CallInv, phase = "respond", outcome = "complete"
              PROVE  /\ {ToolCalls[i].id : i \in DOMAIN ToolCalls} = Announced
                     /\ \A i, j \in DOMAIN ToolCalls :
                           ToolCalls[i].id = ToolCalls[j].id => i = j
                     /\ \A i \in DOMAIN ToolCalls :
                           ToolCalls[i].input = Said(ToolCalls[i].id)
                     /\ at = Len(script) => (HasToolUse <=> ToolCalls # <<>>)
  BY DEF CallsAreTheProviders
<1>. DEFINE c == ToolCalls
            w == Whole
            n == Len(Told)
<1>1. CallsMeant /\ EndMeant /\ driver = "closed" /\ ~err /\ got = meant
  BY DEF CallInv
<1>2. /\ protocol \in DOMAIN Scripts /\ script \in Scripts[protocol] /\ at \in 0 .. Len(script)
      /\ got \in Seq(Delta) /\ Len(script) \in 0 .. Len(script)
  BY <1>1 DEF StreamInv, CallsMeant
<1>3. c \in Seq(CallSet) /\ Tells(c, w, n)
  <2>1. <<>> \in Seq(CallSet)
    OBVIOUS
  <2>2. c = CollectFrom(<<>>, meant)
    BY <1>1 DEF ToolCalls
  <2>3. c \in Seq(CallSet)
    BY <1>1, <1>2, <2>1, <2>2, CollectFromType
  <2>. QED
    BY <1>1, <2>2, <2>3 DEF CallsMeant
<1>4. w \in Seq(Part) /\ Told \in Seq(Part) /\ Begins(Told, w) /\ WellFormed(protocol, w)
  <2>1. /\ Parts(protocol, script) \in [0 .. Len(script) -> Seq(Part)]
        /\ \A k \in 0 .. Len(script) :
              Begins(Parts(protocol, script)[k], Parts(protocol, script)[Len(script)])
    BY <1>2, PartsType
  <2>. HIDE DEF Part
  <2>2. WellFormed(protocol, w)
    BY <1>2, ResponsesAssumption DEF Whole
  <2>. QED
    BY <1>2, <2>1, <2>2 DEF Whole, Told
<1>. HIDE DEF c, w, Part
<1>5. /\ n \in Nat /\ n <= Len(w) /\ DOMAIN Told = 1 .. n /\ DOMAIN c = 1 .. Len(c)
      /\ \A m \in 1 .. n : Told[m] = w[m] /\ m \in DOMAIN w
  <2>1. /\ n \in Nat /\ Len(w) \in Nat /\ DOMAIN Told = 1 .. n /\ DOMAIN w = 1 .. Len(w)
        /\ DOMAIN c = 1 .. Len(c)
    BY <1>3, <1>4, LenProperties
  <2>. QED
    BY <1>4, <2>1 DEF Begins
<1>6. Announced = {w[m].call : m \in {k \in 1 .. n : w[k].first}}
  BY <1>5 DEF Announced
<1>. HIDE DEF n
<1>7. {c[i].id : i \in DOMAIN c} = Announced
  <2>1. ASSUME NEW i \in 1 .. Len(c) PROVE c[i].id \in Announced
    <3>1. PICK m \in 1 .. n : w[m].first /\ Place(w, m) = i
      BY <1>3 DEF Tells
    <3>2. c[i].id = w[m].call
      BY <1>3, <3>1 DEF Tells
    <3>. QED
      BY <1>6, <3>1, <3>2
  <2>2. ASSUME NEW m \in 1 .. n, w[m].first PROVE w[m].call \in {c[i].id : i \in DOMAIN c}
    <3>1. Place(w, m) \in 1 .. Len(c) /\ c[Place(w, m)].id = w[m].call
      BY <1>3, <2>2 DEF Tells
    <3>. QED
      BY <1>5, <3>1
  <2>. QED
    BY <1>5, <1>6, <2>1, <2>2
<1>8. ASSUME NEW i \in DOMAIN c, NEW j \in DOMAIN c, c[i].id = c[j].id PROVE i = j
  <2>1. PICK m \in 1 .. n : w[m].first /\ Place(w, m) = i
    BY <1>3, <1>5 DEF Tells
  <2>2. PICK k \in 1 .. n : w[k].first /\ Place(w, k) = j
    BY <1>3, <1>5 DEF Tells
  <2>3. w[m].call = w[k].call
    BY <1>3, <1>8, <2>1, <2>2 DEF Tells
  <2>4. m = k
    BY <1>4, <1>5, <2>1, <2>2, <2>3, BegunOnce
  <2>. QED
    BY <2>1, <2>2, <2>4
<1>9. ASSUME NEW i \in DOMAIN c PROVE c[i].input = Said(c[i].id)
  <2>1. \A call : {m \in DOMAIN Told : Told[m].args /\ Told[m].call = call}
                    = {m \in 1 .. n : w[m].args /\ w[m].call = call}
    BY <1>5
  <2>2. Said(c[i].id) = Inputs(w, n, c[i].id)
    BY <2>1 DEF Said, Inputs
  <2>. QED
    BY <1>3, <1>5, <2>2 DEF Tells
<1>10. ASSUME at = Len(script) PROVE HasToolUse <=> c # <<>>
  <2>1. HasToolUse <=> ToolUse \in Range(meant)
    BY <1>1 DEF HasToolUse, ToolUse
  <2>2. c # <<>> <=> Len(c) > 0
    BY <1>3, EmptySeq, LenProperties
  <2>3. protocol \in {"anthropic", "openai"}
    BY <1>2, PartsType
  <2>4. CASE protocol = "anthropic"
    <3>1. toolCallIdx = Len(c)
      BY <1>1, <1>3, <2>4 DEF CallsMeant, Tells, w, n
    <3>2. ToolUse \in Range(meant) <=> toolCallIdx > 0
      BY <1>1, <2>4 DEF EndMeant, Finishing
    <3>. QED
      BY <2>1, <2>2, <3>1, <3>2
  <2>5. CASE protocol = "openai"
    <3>1. Told = w /\ DOMAIN script = 1 .. at
      BY <1>2, <1>10, PartsType, LenProperties DEF Told, Whole, w
    <3>2. DOMAIN w = 1 .. n
      BY <1>5, <3>1
    <3>3. (\E i \in DOMAIN script : script[i].finish = "tool_calls")
             <=> \E m \in DOMAIN w : w[m].first
      BY <1>2, <2>5, ResponsesAssumption DEF Whole, w
    <3>4. ToolUse \in Range(meant) <=> \E m \in 1 .. n : w[m].first
      BY <1>1, <2>5, <3>1, <3>2, <3>3 DEF CallsMeant
    <3>5. Len(c) > 0 <=> \E m \in 1 .. n : w[m].first
      <4>1. Len(c) \in Nat
        BY <1>3, LenProperties
      <4>2. ASSUME Len(c) > 0 PROVE \E m \in 1 .. n : w[m].first
        <5>1. 1 \in 1 .. Len(c)
          BY <4>1, <4>2
        <5>. QED
          BY <1>3, <5>1 DEF Tells
      <4>3. ASSUME NEW m \in 1 .. n, w[m].first PROVE Len(c) > 0
        <5>1. Place(w, m) \in 1 .. Len(c)
          BY <1>3, <4>3 DEF Tells
        <5>. QED
          BY <4>1, <5>1
      <4>. QED
        BY <4>2, <4>3
    <3>. QED
      BY <2>1, <2>2, <3>4, <3>5
  <2>. QED
    BY <2>3, <2>4, <2>5
<1>. QED
  BY <1>7, <1>8, <1>9, <1>10 DEF c

(* A complete response has the calls the provider announced, each once and *)
(* with all of its own input, in any order of the pieces and whichever     *)
(* protocol; and when its events have all come, the loop runs tools        *)
(* exactly if there are calls.                                             *)
THEOREM CallsAreKept == Spec => []CallsAreTheProviders
<1>1. Init => StreamInv /\ CallInv
  BY StreamInit, CallInit
<1>2. StreamInv /\ CallInv /\ [Next]_vars => StreamInv' /\ CallInv'
  BY StreamStep, CallStep
<1>3. StreamInv /\ CallInv => CallsAreTheProviders
  BY CallsFollow
<1>. QED
  BY <1>1, <1>2, <1>3, PTL DEF Spec
=============================================================================
