------------------------ MODULE ConversationProofs ------------------------
(***************************************************************************)
(* Why the session ledger, the view the model sees and the log agree, for  *)
(* any number of messages, deltas, tool calls, compactions and loads: IDs  *)
(* are never given twice, what is finished is on disk, the view follows    *)
(* the ledger and keeps its system message, a tool round is answered in    *)
(* order, and no message but the last is open or changed.                  *)
(*                                                                         *)
(* ConversationInv is the inductive invariant.  Its middle part is about   *)
(* the log: what every prefix of it loads is a ledger, and no newer than   *)
(* what a longer one loads or than the session, so a crash that takes the  *)
(* end of the log leaves a ledger with a counter that IDs can go on from.  *)
(***************************************************************************)
EXTENDS Conversation, SequenceTheorems, FiniteSetTheorems, WellFoundedInduction, TLAPS

(***************************************************************************)
(* Recursion                                                               *)
(***************************************************************************)

(* A set of numbers that is not empty has a least one.                     *)
LEMMA NatLeast ==
    ASSUME NEW T, T \subseteq Nat, T # {}
    PROVE  \E x \in T : \A y \in T : x <= y
<1>. DEFINE S == {0 .. k - 1 : k \in T}
            R == StrictSubsetOrdering(Nat)
<1>1. S \subseteq FiniteSubsetsOf(Nat)
  <2>1. ASSUME NEW k \in T
        PROVE  0 .. k - 1 \subseteq Nat /\ IsFiniteSet(0 .. k - 1)
    <3>1. 0 \in Int /\ k - 1 \in Int
      OBVIOUS
    <3>2. IsFiniteSet(0 .. k - 1)
      BY <3>1, FS_Interval, Zenon
    <3>. QED
      BY <3>2
  <2>. QED
    BY <2>1, Zenon DEF FiniteSubsetsOf
<1>2. PICK U \in S : \A V \in S : ~ (<<V, U>> \in R)
  <2>1. IsWellFoundedOn(R, FiniteSubsetsOf(Nat))
    BY FS_StrictSubsetOrderingWellFounded
  <2>2. S # {}
    OBVIOUS
  <2>. HIDE DEF R, S
  <2>. QED
    BY <1>1, <2>1, <2>2, WFMin
<1>3. PICK x \in T : U = 0 .. x - 1
  OBVIOUS
<1>4. ASSUME NEW y \in T, y < x PROVE FALSE
  <2>1. 0 .. y - 1 \in S /\ 0 .. y - 1 \subseteq U /\ 0 .. y - 1 # U
    BY <1>3, <1>4
  <2>2. <<0 .. y - 1, U>> \in R
    BY <2>1, <1>1 DEF StrictSubsetOrdering, FiniteSubsetsOf
  <2>. QED
    BY <2>1, <2>2, <1>2
<1>. QED
  BY <1>4

(* What holds of 0, and of every number up to n whose predecessor it holds *)
(* of, holds of all of them.                                               *)
LEMMA Climb ==
    ASSUME NEW n \in Nat, NEW P, 0 \in P, \A k \in 1 .. n : k - 1 \in P => k \in P
    PROVE  \A k \in 0 .. n : k \in P
<1>. DEFINE Bad == {k \in 0 .. n : k \notin P}
<1>. SUFFICES ASSUME Bad # {} PROVE FALSE
  OBVIOUS
<1>1. Bad \subseteq Nat
  OBVIOUS
<1>2. PICK k \in Bad : \A j \in Bad : k <= j
  <2>. HIDE DEF Bad
  <2>. QED
    BY <1>1, NatLeast
<1>3. k \in 1 .. n /\ k \notin P /\ k - 1 \in 0 .. n /\ ~(k <= k - 1)
  OBVIOUS
<1>4. k - 1 \in P
  BY <1>2, <1>3
<1>. QED
  BY <1>3, <1>4

Unfolds(f, n, x0, step) == f[0] = x0 /\ \A k \in 1 .. n : f[k] = step[k][f[k - 1]]

(* A recursive definition over a sequence's positions has a solution.      *)
LEMMA Recursion ==
    ASSUME NEW X, NEW n \in Nat, NEW x0 \in X, NEW step \in [1 .. n -> [X -> X]]
    PROVE  \E f \in [0 .. n -> X] : Unfolds(f, n, x0, step)
<1>. DEFINE Solves(f, k) == /\ f \in [0 .. k -> X] /\ f[0] = x0
                            /\ \A i \in 1 .. k : f[i] = step[i][f[i - 1]]
            P == {k \in 0 .. n : \E f : Solves(f, k)}
<1>1. 0 \in P
  <2>. DEFINE f == [i \in 0 .. 0 |-> x0]
  <2>1. Solves(f, 0)
    OBVIOUS
  <2>. HIDE DEF Solves
  <2>. QED
    BY <2>1
<1>2. ASSUME NEW k \in 1 .. n, k - 1 \in P PROVE k \in P
  <2>1. PICK f : Solves(f, k - 1)
    BY <1>2
  <2>2. f \in [0 .. k - 1 -> X] /\ k - 1 \in 0 .. k - 1 /\ 0 \in 0 .. k - 1
    BY <2>1
  <2>. DEFINE x == step[k][f[k - 1]]
              g == [i \in 0 .. k |-> IF i = k THEN x ELSE f[i]]
  <2>3. x \in X
    BY <2>2
  <2>4. \A i \in 0 .. k : i # k => i \in 0 .. k - 1
    OBVIOUS
  <2>5. \A i \in 0 .. k - 1 : i \in 0 .. k /\ i # k
    OBVIOUS
  <2>6. g \in [0 .. k -> X] /\ g[k] = x /\ \A i \in 0 .. k - 1 : g[i] = f[i]
    <3>. HIDE DEF x
    <3>. QED
      BY <2>2, <2>3, <2>4, <2>5
  <2>7. ASSUME NEW i \in 1 .. k PROVE g[i] = step[i][g[i - 1]]
    <3>. HIDE DEF g
    <3>1. CASE i = k
      BY <2>2, <2>6, <3>1
    <3>2. CASE i # k
      <4>1. i \in 1 .. k - 1 /\ i \in 0 .. k - 1 /\ i - 1 \in 0 .. k - 1
        BY <3>2
      <4>. QED
        BY <2>1, <2>6, <4>1
    <3>. QED
      BY <3>1, <3>2
  <2>8. Solves(g, k)
    <3>. HIDE DEF g
    <3>. QED
      BY <2>1, <2>2, <2>6, <2>7
  <2>. HIDE DEF Solves, g
  <2>. QED
    BY <2>8
<1>3. n \in P
  <2>. HIDE DEF P
  <2>1. \A k \in 0 .. n : k \in P
    BY <1>1, <1>2, Climb
  <2>. QED
    BY <2>1
<1>. QED
  BY <1>3 DEF Unfolds

(* Every sequence is in a set that has the empty one, and with a sequence  *)
(* every longer one.                                                       *)
LEMMA AppendInduction ==
    ASSUME NEW S, NEW Q, <<>> \in Q,
           \A q \in Seq(S), e \in S : q \in Q => Append(q, e) \in Q
    PROVE  \A q \in Seq(S) : q \in Q
<1>. SUFFICES ASSUME NEW q \in Seq(S) PROVE q \in Q
  OBVIOUS
<1>. DEFINE n == Len(q)
            P == {k \in 0 .. n : SubSeq(q, 1, k) \in Q}
<1>0. n \in Nat
  OBVIOUS
<1>1. 0 \in P
  <2>1. SubSeq(q, 1, 0) = <<>>
    OBVIOUS
  <2>2. 0 \in 0 .. n
    BY <1>0
  <2>. QED
    BY <2>1, <2>2, Zenon
<1>2. ASSUME NEW k \in 1 .. n, k - 1 \in P PROVE k \in P
  <2>. DEFINE a == SubSeq(q, 1, k - 1)
              e == q[k]
  <2>1. a \in Seq(S) /\ e \in S /\ SubSeq(q, 1, k) = Append(a, e)
    OBVIOUS
  <2>2. a \in Q
    BY <1>2
  <2>3. k \in 0 .. n
    OBVIOUS
  <2>. HIDE DEF a, e
  <2>4. SubSeq(q, 1, k) \in Q
    BY <2>1, <2>2
  <2>. QED
    BY <2>3, <2>4
<1>3. n \in P
  <2>. HIDE DEF P
  <2>1. \A k \in 0 .. n : k \in P
    <3>. HIDE DEF n
    <3>. QED
      BY <1>0, <1>1, <1>2, Climb
  <2>. QED
    BY <1>0, <2>1
<1>4. SubSeq(q, 1, n) = q
  OBVIOUS
<1>. QED
  BY <1>3, <1>4

(***************************************************************************)
(* Selections                                                              *)
(***************************************************************************)
SelectsTo(f, q, kept) ==
    /\ f[0] = <<>>
    /\ \A k \in 1 .. Len(q) :
          f[k] = IF q[k] \in kept THEN Append(f[k - 1], q[k]) ELSE f[k - 1]

LEMMA WhereSelects ==
    ASSUME NEW S, NEW q \in Seq(S), NEW kept
    PROVE  \E f \in [0 .. Len(q) -> Seq(S)] :
              SelectsTo(f, q, kept) /\ Where(q, kept) = f[Len(q)]
<1>. DEFINE n == Len(q)
            step == [k \in 1 .. n |-> [x \in Seq(S) |->
                        IF q[k] \in kept THEN Append(x, q[k]) ELSE x]]
            Body(f, k) == IF k = 0 THEN <<>>
                          ELSE IF q[k] \in kept THEN Append(f[k - 1], q[k]) ELSE f[k - 1]
<1>0. n \in Nat /\ \A k \in 1 .. n : q[k] \in S
  OBVIOUS
<1>1. step \in [1 .. n -> [Seq(S) -> Seq(S)]]
  BY <1>0
<1>2. PICK f \in [0 .. n -> Seq(S)] :
          f[0] = <<>> /\ \A k \in 1 .. n : f[k] = step[k][f[k - 1]]
  <2>. DEFINE X == Seq(S)
              x0 == <<>>
  <2>1. x0 \in X /\ n \in Nat /\ step \in [1 .. n -> [X -> X]]
    BY <1>1
  <2>. HIDE DEF step, n, X, x0
  <2>2. \E f \in [0 .. n -> X] : Unfolds(f, n, x0, step)
    BY <2>1, Recursion, Zenon
  <2>. QED
    BY <2>2 DEF X, x0, Unfolds
<1>3. \A k \in 1 .. n :
         f[k] = IF q[k] \in kept THEN Append(f[k - 1], q[k]) ELSE f[k - 1]
  <2>. SUFFICES ASSUME NEW k \in 1 .. n
                PROVE f[k] = IF q[k] \in kept THEN Append(f[k - 1], q[k]) ELSE f[k - 1]
    OBVIOUS
  <2>1. k - 1 \in 0 .. n
    BY <1>0
  <2>2. f[k - 1] \in Seq(S)
    BY <2>1
  <2>. QED
    BY <1>2, <2>2
<1>4. f = [k \in 0 .. n |-> Body(f, k)]
  <2>1. ASSUME NEW k \in 0 .. n PROVE f[k] = Body(f, k)
    <3>1. CASE k = 0
      BY <1>2, <3>1
    <3>2. CASE k # 0
      <4>1. k \in 1 .. n
        BY <1>0, <3>2
      <4>. QED
        BY <1>3, <3>2, <4>1
    <3>. QED
      BY <3>1, <3>2
  <2>. HIDE DEF n, Body
  <2>. QED
    BY <1>2, <2>1
<1>. DEFINE selected[k \in 0 .. n] ==
                IF k = 0 THEN <<>>
                ELSE IF q[k] \in kept THEN Append(selected[k - 1], q[k]) ELSE selected[k - 1]
<1>5. selected = [k \in 0 .. n |-> Body(selected, k)]
  BY <1>4
<1>6. Where(q, kept) = selected[n]
  BY DEF Where
<1>. HIDE DEF selected
<1>7. \A k \in 0 .. n : selected[k] = f[k]
  <2>. DEFINE P == {k \in 0 .. n : selected[k] = f[k]}
  <2>1. 0 \in P
    BY <1>0, <1>2, <1>5
  <2>2. ASSUME NEW k \in 1 .. n, k - 1 \in P PROVE k \in P
    <3>1. k \in 0 .. n /\ k # 0 /\ selected[k - 1] = f[k - 1]
      BY <2>2
    <3>2. selected[k] = Body(selected, k)
      <4>. HIDE DEF Body, n
      <4>. QED
        BY <1>5, <3>1
    <3>3. f[k] = Body(f, k)
      BY <1>3, <3>1
    <3>4. Body(selected, k) = Body(f, k)
      BY <3>1
    <3>. QED
      BY <3>1, <3>2, <3>3, <3>4
  <2>. HIDE DEF P, n
  <2>3. \A k \in 0 .. n : k \in P
    BY <1>0, <2>1, <2>2, Climb
  <2>. QED
    BY <2>3 DEF P
<1>8. Where(q, kept) = f[n] /\ SelectsTo(f, q, kept)
  BY <1>0, <1>2, <1>3, <1>6, <1>7 DEF SelectsTo
<1>. QED
  BY <1>8

LEMMA WhereEmpty == \A kept : Where(<<>>, kept) = <<>>
<1>. SUFFICES ASSUME NEW kept PROVE Where(<<>>, kept) = <<>>
  OBVIOUS
<1>1. <<>> \in Seq({}) /\ Len(<<>>) = 0
  OBVIOUS
<1>2. PICK f \in [0 .. Len(<<>>) -> Seq({})] :
          SelectsTo(f, <<>>, kept) /\ Where(<<>>, kept) = f[Len(<<>>)]
  BY <1>1, WhereSelects, Zenon
<1>. QED
  BY <1>1, <1>2 DEF SelectsTo

LEMMA WhereAppend ==
    ASSUME NEW S, NEW q \in Seq(S), NEW e \in S, NEW kept
    PROVE  /\ Where(q, kept) \in Seq(S)
           /\ e \in kept => Where(Append(q, e), kept) = Append(Where(q, kept), e)
           /\ e \notin kept => Where(Append(q, e), kept) = Where(q, kept)
<1>. DEFINE n == Len(q)
            r == Append(q, e)
<1>0. /\ n \in Nat /\ r \in Seq(S) /\ Len(r) = n + 1 /\ r[n + 1] = e
      /\ \A k \in 1 .. n : r[k] = q[k]
  OBVIOUS
<1>1. PICK f \in [0 .. n -> Seq(S)] : SelectsTo(f, q, kept) /\ Where(q, kept) = f[n]
  BY WhereSelects
<1>2. PICK g \in [0 .. Len(r) -> Seq(S)] :
          SelectsTo(g, r, kept) /\ Where(r, kept) = g[Len(r)]
  <2>. HIDE DEF r
  <2>. QED
    BY <1>0, WhereSelects, Zenon
<1>. HIDE DEF r
<1>3. \A k \in 0 .. n : g[k] = f[k]
  <2>. DEFINE P == {k \in 0 .. n : g[k] = f[k]}
  <2>1. 0 \in P
    BY <1>0, <1>1, <1>2 DEF SelectsTo
  <2>2. ASSUME NEW k \in 1 .. n, k - 1 \in P PROVE k \in P
    BY <1>0, <1>1, <1>2, <2>2 DEF SelectsTo
  <2>. HIDE DEF P, n
  <2>3. \A k \in 0 .. n : k \in P
    BY <1>0, <2>1, <2>2, Climb
  <2>. QED
    BY <2>3 DEF P
<1>4. n + 1 \in 1 .. Len(r) /\ g[n] = f[n] /\ f[n] \in Seq(S)
  BY <1>0, <1>3
<1>5. g[n + 1] = IF e \in kept THEN Append(f[n], e) ELSE f[n]
  BY <1>0, <1>2, <1>4 DEF SelectsTo
<1>. HIDE DEF n
<1>. QED
  BY <1>0, <1>1, <1>2, <1>4, <1>5 DEF r

(* How a selection grows with the sequence.                                *)
Selected(p, q, e, kept) ==
    /\ e \in kept => q = Append(p, e)
    /\ e \notin kept => q = p

LEMMA WhereGrows ==
    ASSUME NEW S, NEW q \in Seq(S), NEW e \in S, NEW kept
    PROVE  Selected(Where(q, kept), Where(Append(q, e), kept), e, kept)
<1>1. e \in kept => Where(Append(q, e), kept) = Append(Where(q, kept), e)
  BY WhereAppend
<1>2. e \notin kept => Where(Append(q, e), kept) = Where(q, kept)
  BY WhereAppend
<1>. QED
  BY <1>1, <1>2 DEF Selected

LEMMA WhereTypes ==
    ASSUME NEW S, NEW kept
    PROVE  \A q \in Seq(S) : Where(q, kept) \in Seq(S)
<1>. SUFFICES ASSUME NEW q \in Seq(S) PROVE Where(q, kept) \in Seq(S)
  OBVIOUS
<1>1. PICK f \in [0 .. Len(q) -> Seq(S)] : Where(q, kept) = f[Len(q)]
  BY WhereSelects
<1>2. Len(q) \in 0 .. Len(q)
  OBVIOUS
<1>. QED
  BY <1>1, <1>2

LEMMA WhereSame ==
    ASSUME NEW S, NEW a, NEW b, \A e \in S : e \in a <=> e \in b
    PROVE  \A q \in Seq(S) : Where(q, a) = Where(q, b)
<1>. DEFINE Q == {q \in Seq(S) : Where(q, a) = Where(q, b)}
<1>1. <<>> \in Q
  BY WhereEmpty
<1>2. ASSUME NEW q \in Seq(S), NEW e \in S, q \in Q PROVE Append(q, e) \in Q
  <2>1. Where(q, a) = Where(q, b) /\ (e \in a <=> e \in b)
    BY <1>2
  <2>2. /\ e \in a => Where(Append(q, e), a) = Append(Where(q, a), e)
        /\ e \notin a => Where(Append(q, e), a) = Where(q, a)
    BY WhereAppend
  <2>3. /\ e \in b => Where(Append(q, e), b) = Append(Where(q, b), e)
        /\ e \notin b => Where(Append(q, e), b) = Where(q, b)
    BY WhereAppend
  <2>4. Where(Append(q, e), a) = Where(Append(q, e), b)
    BY <2>1, <2>2, <2>3, Zenon
  <2>. QED
    BY <2>4
<1>3. \A q \in Seq(S) : q \in Q
  <2>. HIDE DEF Q
  <2>. QED
    BY <1>1, <1>2, AppendInduction
<1>. QED
  BY <1>3

Elements(q) == {q[i] : i \in 1 .. Len(q)}

LEMMA RangeIsElements ==
    ASSUME NEW S, NEW q \in Seq(S)
    PROVE  Range(q) = Elements(q) /\ q \in Seq(Range(q)) /\ Range(q) \subseteq S
BY DEF Range, Elements

LEMMA WhereKeeps ==
    ASSUME NEW S, NEW kept
    PROVE  \A q \in Seq(S) : Elements(Where(q, kept)) = Elements(q) \cap kept
<1>. DEFINE Q == {q \in Seq(S) : Elements(Where(q, kept)) = Elements(q) \cap kept}
<1>0. ASSUME NEW q \in Seq(S), NEW e \in S
      PROVE  Elements(Append(q, e)) = Elements(q) \cup {e}
  <2>1. /\ Len(Append(q, e)) = Len(q) + 1 /\ Len(q) \in Nat
        /\ \A i \in 1 .. Len(q) : Append(q, e)[i] = q[i]
        /\ Append(q, e)[Len(q) + 1] = e
    OBVIOUS
  <2>. QED
    BY <2>1 DEF Elements
<1>1. <<>> \in Q
  BY WhereEmpty DEF Elements
<1>2. ASSUME NEW q \in Seq(S), NEW e \in S, q \in Q PROVE Append(q, e) \in Q
  <2>1. Elements(Append(q, e)) = Elements(q) \cup {e}
    BY <1>0
  <2>2. Where(q, kept) \in Seq(S) /\ Append(q, e) \in Seq(S)
    BY WhereAppend
  <2>3. Elements(Append(Where(q, kept), e)) = Elements(Where(q, kept)) \cup {e}
    BY <1>0, <2>2
  <2>. HIDE DEF Elements
  <2>4. Elements(Where(q, kept)) = Elements(q) \cap kept
    BY <1>2
  <2>5. /\ e \in kept => Where(Append(q, e), kept) = Append(Where(q, kept), e)
        /\ e \notin kept => Where(Append(q, e), kept) = Where(q, kept)
    BY WhereGrows DEF Selected
  <2>6. Elements(Where(Append(q, e), kept)) = Elements(Append(q, e)) \cap kept
    <3>1. CASE e \in kept
      BY <2>1, <2>3, <2>4, <2>5, <3>1
    <3>2. CASE e \notin kept
      BY <2>1, <2>4, <2>5, <3>2
    <3>. QED
      BY <3>1, <3>2
  <2>. QED
    BY <2>2, <2>6
<1>3. \A q \in Seq(S) : q \in Q
  <2>. HIDE DEF Q
  <2>. QED
    BY <1>1, <1>2, AppendInduction
<1>. QED
  BY <1>3

(***************************************************************************)
(* Types                                                                   *)
(***************************************************************************)
(* What texts are made of.                                                 *)
Pieces ==
    {"text", "thought", "summary", "truncated"} \cup UNION {Range(output) : output \in Outputs}

Entry == [id : Calls, input : BOOLEAN]

Msgs ==
    [seq : Nat, role : Roles, content : Seq(Pieces), thinking : Seq(Pieces),
     signed : BOOLEAN, calls : Seq(Entry), answers : Calls \cup {NoCall},
     streaming : BOOLEAN]

(* Only the assistant's messages are ever open.                            *)
Msg == {m \in Msgs : m.streaming = TRUE => m.role = "assistant"}

MessageLines == [kind : {"message"}, message : Msg]
ContextLines == [kind : {"provider_context"}, provider : Seq(Msg)]

Line == MessageLines \cup ContextLines \cup [kind : {"unreadable"}]

Sess ==
    [messages : Seq(Msg), provider : Seq(Msg), msgSeq : Nat, persisted : BOOLEAN,
     log : Seq(Line), eol : BOOLEAN]

LEMMA OutputTypes == \A output \in Outputs : output \in Seq(Pieces)
<1>. SUFFICES ASSUME NEW o \in Outputs PROVE o \in Seq(Pieces)
  OBVIOUS
<1>. DEFINE R == Range(o)
<1>1. o \in Seq(R)
  BY ConversationAssumption
<1>2. R \subseteq Pieces
  BY DEF Pieces
<1>. HIDE DEF R
<1>. QED
  BY <1>1, <1>2

LEMMA LineTypes ==
    /\ \A m \in Msg : MessageRecord(m) \in Line
    /\ \A p \in Seq(Msg) : ContextRecord(p) \in Line
    /\ Unreadable \in Line
BY DEF MessageRecord, ContextRecord, Unreadable, Line, MessageLines, ContextLines

(***************************************************************************)
(* Loading a log                                                           *)
(***************************************************************************)
LEMMA NewType == New \in Sess
BY DEF New, Sess

Known(q, m) == {i \in DOMAIN q : SameID(q[i], m)}

LEMMA ReplayCases ==
    ASSUME NEW t, NEW r \in Line
    PROVE  /\ r.kind = "provider_context" =>
                 /\ r \in ContextLines
                 /\ Replay(t, r) = [t EXCEPT !.provider = r.provider]
           /\ r.kind = "message" =>
                 /\ r \in MessageLines
                 /\ Replay(t, r) =
                       [t EXCEPT
                          !.messages =
                             IF Known(t.messages, r.message) = {}
                             THEN Append(t.messages, r.message)
                             ELSE [t.messages EXCEPT
                                      ![CHOOSE i \in Known(t.messages, r.message) : TRUE] =
                                          r.message],
                          !.msgSeq = IF r.message.seq > t.msgSeq
                                     THEN r.message.seq ELSE t.msgSeq]
           /\ r.kind = "unreadable" => Replay(t, r) = t
           /\ r.kind \in {"message", "provider_context", "unreadable"}
<1>1. r.kind \in {"message", "provider_context", "unreadable"}
  BY DEF Line, MessageLines, ContextLines
<1>2. r.kind = "provider_context" => r \in ContextLines
  BY DEF Line, MessageLines, ContextLines
<1>3. r.kind = "message" => r \in MessageLines
  BY DEF Line, MessageLines, ContextLines
<1>4. r.kind = "provider_context" => Replay(t, r) = [t EXCEPT !.provider = r.provider]
  BY DEF Replay
<1>5. r.kind = "unreadable" => Replay(t, r) = t
  BY DEF Replay
<1>6. r.kind = "message" =>
          Replay(t, r) =
             [t EXCEPT
                !.messages =
                   IF Known(t.messages, r.message) = {}
                   THEN Append(t.messages, r.message)
                   ELSE [t.messages EXCEPT
                            ![CHOOSE i \in Known(t.messages, r.message) : TRUE] =
                                r.message],
                !.msgSeq = IF r.message.seq > t.msgSeq
                           THEN r.message.seq ELSE t.msgSeq]
  BY DEF Replay, Known
<1>. QED
  BY <1>1, <1>2, <1>3, <1>4, <1>5, <1>6

LEMMA ExceptType ==
    ASSUME NEW S, NEW q \in Seq(S), NEW e \in S, NEW i
    PROVE  [q EXCEPT ![i] = e] \in Seq(S) /\ Len([q EXCEPT ![i] = e]) = Len(q)
<1>1. q \in [1 .. Len(q) -> S] /\ Len(q) \in Nat
  OBVIOUS
<1>2. [q EXCEPT ![i] = e] \in [1 .. Len(q) -> S]
  BY <1>1
<1>. QED
  BY <1>1, <1>2

LEMMA ReplayType ==
    ASSUME NEW t \in Sess, NEW r \in Line
    PROVE  Replay(t, r) \in Sess
<1>1. CASE r.kind = "provider_context"
  <2>1. r.provider \in Seq(Msg) /\ Replay(t, r) = [t EXCEPT !.provider = r.provider]
    <3>1. r \in ContextLines /\ Replay(t, r) = [t EXCEPT !.provider = r.provider]
      BY <1>1, ReplayCases, Zenon
    <3>. QED
      BY <3>1 DEF ContextLines
  <2>. QED
    BY <2>1 DEF Sess
<1>2. CASE r.kind = "message"
  <2>. DEFINE m == r.message
              K == Known(t.messages, m)
              q == IF K = {} THEN Append(t.messages, m)
                   ELSE [t.messages EXCEPT ![CHOOSE i \in K : TRUE] = m]
              n == IF m.seq > t.msgSeq THEN m.seq ELSE t.msgSeq
  <2>1. m \in Msg /\ Replay(t, r) = [t EXCEPT !.messages = q, !.msgSeq = n]
    <3>1. r \in MessageLines /\ Replay(t, r) = [t EXCEPT !.messages = q, !.msgSeq = n]
      BY <1>2, ReplayCases, Zenon
    <3>. QED
      BY <3>1 DEF MessageLines
  <2>2. t.messages \in Seq(Msg) /\ t.msgSeq \in Nat
    BY DEF Sess
  <2>3. n \in Nat
    BY <2>1, <2>2 DEF Msg, Msgs
  <2>4. q \in Seq(Msg)
    <3>. DEFINE x == CHOOSE i \in K : TRUE
                p == t.messages
    <3>. HIDE DEF K, m, x, p
    <3>1. [p EXCEPT ![x] = m] \in Seq(Msg) /\ Append(p, m) \in Seq(Msg)
      <4>1. p \in Seq(Msg)
        BY <2>2 DEF p
      <4>. QED
        BY <2>1, <4>1, ExceptType
    <3>. QED
      BY <3>1 DEF x, p
  <2>. HIDE DEF m, q, n
  <2>. QED
    BY <2>1, <2>3, <2>4 DEF Sess
<1>3. CASE r.kind = "unreadable"
  BY <1>3, ReplayCases, Zenon
<1>4. r.kind \in {"message", "provider_context", "unreadable"}
  BY ReplayCases, Zenon
<1>. QED
  BY <1>1, <1>2, <1>3, <1>4

ReplaysTo(f, log) ==
    f[0] = New /\ \A k \in 1 .. Len(log) : f[k] = Replay(f[k - 1], log[k])

LEMMA LogReplays ==
    ASSUME NEW log \in Seq(Line)
    PROVE  \E f \in [0 .. Len(log) -> Sess] :
              ReplaysTo(f, log) /\ Replayed(log) = f[Len(log)]
<1>. DEFINE n == Len(log)
            step == [k \in 1 .. n |-> [x \in Sess |-> Replay(x, log[k])]]
            Body(f, k) == IF k = 0 THEN New ELSE Replay(f[k - 1], log[k])
<1>0. n \in Nat /\ \A k \in 1 .. n : log[k] \in Line
  OBVIOUS
<1>1. step \in [1 .. n -> [Sess -> Sess]]
  BY <1>0, ReplayType
<1>2. PICK f \in [0 .. n -> Sess] : Unfolds(f, n, New, step)
  <2>1. New \in Sess /\ n \in Nat
    BY NewType
  <2>. HIDE DEF step, n
  <2>. QED
    BY <1>1, <2>1, Recursion, Zenon
<1>3. f[0] = New /\ \A k \in 1 .. n : f[k] = Replay(f[k - 1], log[k])
  <2>1. ASSUME NEW k \in 1 .. n PROVE f[k] = Replay(f[k - 1], log[k])
    <3>1. k - 1 \in 0 .. n
      BY <1>0
    <3>2. f[k - 1] \in Sess
      BY <3>1
    <3>. QED
      BY <1>2, <3>2 DEF Unfolds
  <2>. QED
    BY <1>2, <2>1 DEF Unfolds
<1>4. f = [k \in 0 .. n |-> Body(f, k)]
  <2>1. ASSUME NEW k \in 0 .. n PROVE f[k] = Body(f, k)
    <3>1. CASE k = 0
      BY <1>3, <3>1
    <3>2. CASE k # 0
      <4>1. k \in 1 .. n
        BY <1>0, <3>2
      <4>. QED
        BY <1>3, <3>2, <4>1
    <3>. QED
      BY <3>1, <3>2
  <2>. HIDE DEF n, Body
  <2>. QED
    BY <1>2, <2>1
<1>. DEFINE replayed[k \in 0 .. n] == IF k = 0 THEN New ELSE Replay(replayed[k - 1], log[k])
<1>5. replayed = [k \in 0 .. n |-> Body(replayed, k)]
  BY <1>4
<1>6. Replayed(log) = replayed[n]
  BY DEF Replayed
<1>. HIDE DEF replayed
<1>7. \A k \in 0 .. n : replayed[k] = f[k]
  <2>. DEFINE P == {k \in 0 .. n : replayed[k] = f[k]}
  <2>1. 0 \in P
    BY <1>0, <1>3, <1>5
  <2>2. ASSUME NEW k \in 1 .. n, k - 1 \in P PROVE k \in P
    <3>1. k \in 0 .. n /\ k # 0 /\ replayed[k - 1] = f[k - 1]
      BY <2>2
    <3>2. replayed[k] = Body(replayed, k)
      <4>. HIDE DEF Body, n
      <4>. QED
        BY <1>5, <3>1
    <3>3. f[k] = Body(f, k)
      BY <1>3, <3>1
    <3>4. Body(replayed, k) = Body(f, k)
      BY <3>1
    <3>. QED
      BY <3>1, <3>2, <3>3, <3>4
  <2>. HIDE DEF P, n
  <2>3. \A k \in 0 .. n : k \in P
    BY <1>0, <2>1, <2>2, Climb
  <2>. QED
    BY <2>3 DEF P
<1>8. Replayed(log) = f[n] /\ ReplaysTo(f, log)
  BY <1>0, <1>2, <1>3, <1>6, <1>7 DEF ReplaysTo
<1>. QED
  BY <1>8

LEMMA ReplayedEmpty == Replayed(<<>>) = New
<1>1. <<>> \in Seq(Line) /\ Len(<<>>) = 0
  OBVIOUS
<1>2. PICK f \in [0 .. Len(<<>>) -> Sess] :
          ReplaysTo(f, <<>>) /\ Replayed(<<>>) = f[Len(<<>>)]
  BY <1>1, LogReplays, Zenon
<1>. QED
  BY <1>1, <1>2 DEF ReplaysTo

LEMMA ReplayedAppend ==
    ASSUME NEW q \in Seq(Line), NEW r \in Line
    PROVE  Replayed(q) \in Sess /\ Replayed(Append(q, r)) = Replay(Replayed(q), r)
<1>. DEFINE n == Len(q)
            z == Append(q, r)
<1>0. /\ n \in Nat /\ z \in Seq(Line) /\ Len(z) = n + 1 /\ z[n + 1] = r
      /\ \A k \in 1 .. n : z[k] = q[k]
  OBVIOUS
<1>1. PICK f \in [0 .. n -> Sess] : ReplaysTo(f, q) /\ Replayed(q) = f[n]
  BY LogReplays
<1>. HIDE DEF z
<1>2. PICK g \in [0 .. Len(z) -> Sess] : ReplaysTo(g, z) /\ Replayed(z) = g[Len(z)]
  BY <1>0, LogReplays, Zenon
<1>3. \A k \in 0 .. n : g[k] = f[k]
  <2>. DEFINE P == {k \in 0 .. n : g[k] = f[k]}
  <2>1. 0 \in P
    BY <1>0, <1>1, <1>2 DEF ReplaysTo
  <2>2. ASSUME NEW k \in 1 .. n, k - 1 \in P PROVE k \in P
    BY <1>0, <1>1, <1>2, <2>2 DEF ReplaysTo
  <2>. HIDE DEF P, n
  <2>3. \A k \in 0 .. n : k \in P
    BY <1>0, <2>1, <2>2, Climb
  <2>. QED
    BY <2>3 DEF P
<1>4. n + 1 \in 1 .. Len(z) /\ g[n] = f[n] /\ f[n] \in Sess /\ (n + 1) - 1 = n
  BY <1>0, <1>3
<1>5. g[n + 1] = Replay(f[n], r)
  BY <1>0, <1>2, <1>4 DEF ReplaysTo
<1>. HIDE DEF n
<1>. QED
  BY <1>0, <1>1, <1>2, <1>4, <1>5 DEF z

(***************************************************************************)
(* What the methods of a session do                                        *)
(***************************************************************************)
SameLog(x, t) == t.persisted = x.persisted /\ t.log = x.log /\ t.eol = x.eol

Logged(x, t, r) ==
    /\ t.persisted = x.persisted
    /\ x.persisted = FALSE => SameLog(x, t)
    /\ x.persisted = TRUE =>
          /\ t.eol = TRUE
          /\ x.eol = TRUE => t.log = Append(x.log, r)
          /\ x.eol = FALSE => t.log = SetLast(x.log, Unreadable)

LEMMA WriteLogs ==
    ASSUME NEW x \in Sess, NEW r \in Line, NEW t, t = Write(x, r)
    PROVE  /\ t \in Sess /\ Logged(x, t, r)
           /\ t.messages = x.messages /\ t.provider = x.provider /\ t.msgSeq = x.msgSeq
<1>1. CASE x.persisted = FALSE
  BY <1>1 DEF Write, Logged, SameLog, Sess
<1>2. CASE x.persisted = TRUE
  <2>. DEFINE l == IF x.eol THEN Append(x.log, r) ELSE SetLast(x.log, Unreadable)
  <2>1. x.log \in Seq(Line) /\ x.eol \in BOOLEAN
    BY DEF Sess
  <2>2. /\ x.eol = TRUE => l = Append(x.log, r)
        /\ x.eol = FALSE => l = SetLast(x.log, Unreadable)
    OBVIOUS
  <2>3. l \in Seq(Line)
    <3>1. Unreadable \in Line
      BY LineTypes
    <3>2. SetLast(x.log, Unreadable) \in Seq(Line)
      BY <2>1, <3>1, ExceptType DEF SetLast
    <3>3. Append(x.log, r) \in Seq(Line)
      BY <2>1
    <3>. QED
      BY <2>1, <2>2, <3>2, <3>3
  <2>4. t = [x EXCEPT !.log = l, !.eol = TRUE]
    BY <1>2 DEF Write
  <2>. HIDE DEF l
  <2>. QED
    BY <1>2, <2>2, <2>3, <2>4 DEF Logged, Sess
<1>. QED
  BY <1>1, <1>2 DEF Sess

Adds(x, t, m) ==
    /\ m \in Msg /\ m.seq = x.msgSeq + 1
    /\ t \in Sess /\ t.msgSeq = x.msgSeq + 1
    /\ t.messages = Append(x.messages, m)
    /\ x.provider = <<>> => t.provider = <<>>
    /\ x.provider # <<>> => t.provider = Append(x.provider, m)
    /\ Logged(x, t, MessageRecord(m))

Added(x, t, role, call, streaming) ==
    \E m \in Msg : /\ Adds(x, t, m) /\ m.role = role /\ m.streaming = streaming
                   /\ m.calls = <<>> /\ m.answers = call

LEMMA AddMessageAdds ==
    ASSUME NEW x \in Sess, NEW role \in Roles, NEW call \in Calls \cup {NoCall},
           NEW streaming \in BOOLEAN, streaming = TRUE => role = "assistant",
           NEW content \in Seq(Pieces),
           NEW t, t = AddMessage(x, role, content, call, streaming)
    PROVE  Added(x, t, role, call, streaming)
<1>. DEFINE m == Message(x.msgSeq + 1, role, content, call, streaming)
            p == IF x.provider = <<>> THEN x.provider ELSE Append(x.provider, m)
            y == [x EXCEPT !.msgSeq = @ + 1, !.messages = Append(@, m), !.provider = p]
<1>1. /\ m \in Msg /\ m.seq = x.msgSeq + 1 /\ m.role = role /\ m.streaming = streaming
      /\ m.calls = <<>> /\ m.answers = call
  <2>1. x.msgSeq + 1 \in Nat
    BY DEF Sess
  <2>. QED
    BY <2>1 DEF Message, Msg, Msgs
<1>. HIDE DEF m
<1>2. /\ y \in Sess /\ y.msgSeq = x.msgSeq + 1 /\ y.messages = Append(x.messages, m)
      /\ y.provider = p /\ y.persisted = x.persisted /\ y.log = x.log /\ y.eol = x.eol
  <2>1. x.messages \in Seq(Msg) /\ x.provider \in Seq(Msg) /\ x.msgSeq \in Nat
    BY DEF Sess
  <2>2. Append(x.messages, m) \in Seq(Msg) /\ p \in Seq(Msg) /\ x.msgSeq + 1 \in Nat
    BY <1>1, <2>1
  <2>. HIDE DEF p
  <2>. QED
    BY <2>2 DEF Sess
<1>3. /\ x.provider = <<>> => p = <<>>
      /\ x.provider # <<>> => p = Append(x.provider, m)
  OBVIOUS
<1>4. t = Write(y, MessageRecord(m))
  BY DEF AddMessage, persistLocked, m
<1>. HIDE DEF y, p
<1>5. MessageRecord(m) \in Line
  BY <1>1, LineTypes
<1>6. /\ t \in Sess /\ Logged(y, t, MessageRecord(m))
      /\ t.messages = y.messages /\ t.provider = y.provider /\ t.msgSeq = y.msgSeq
  BY <1>2, <1>4, <1>5, WriteLogs
<1>7. Logged(x, t, MessageRecord(m))
  BY <1>2, <1>6 DEF Logged, SameLog
<1>8. Adds(x, t, m)
  BY <1>1, <1>2, <1>3, <1>6, <1>7 DEF Adds
<1>. QED
  BY <1>1, <1>8 DEF Added

(* The view's copy of a message says what the message says.                *)
Follows(p, m) ==
    /\ SameID(p, m)
    /\ p.content = m.content /\ p.thinking = m.thinking
    /\ p.streaming = m.streaming
    /\ CallIDs(p) = CallIDs(m)

Mirror(x) == x.provider # <<>> => Follows(Last(x.provider), Last(x.messages))

(* A method replaces the last message; in the view it replaces the copy of *)
(* that message, or nothing.                                               *)
Amends(x, t, m, p) ==
    /\ m \in Msg /\ SameID(m, Last(x.messages)) /\ m.answers = Last(x.messages).answers
    /\ t \in Sess /\ t.msgSeq = x.msgSeq
    /\ t.messages = SetLast(x.messages, m)
    /\ x.provider = <<>> => t.provider = <<>>
    /\ x.provider # <<>> =>
          /\ p \in Msg /\ t.provider = SetLast(x.provider, p)
          /\ \/ p = Last(x.provider)
             \/ SameID(p, m) /\ SameID(Last(x.provider), m)

(* And the view goes on saying what the ledger says.                       *)
Keeps(x, m, p) == x.provider # <<>> => Follows(p, m)

LEMMA LastType ==
    ASSUME NEW S, NEW q \in Seq(S), q # <<>>
    PROVE  Last(q) \in S /\ Last(q) = q[Len(q)] /\ Len(q) \in 1 .. Len(q)
BY DEF Last

LEMMA SetLastType ==
    ASSUME NEW S, NEW q \in Seq(S), NEW e \in S, q # <<>>
    PROVE  /\ SetLast(q, e) \in Seq(S) /\ Len(SetLast(q, e)) = Len(q)
           /\ Last(SetLast(q, e)) = e /\ SetLast(q, e) # <<>>
           /\ \A i \in 1 .. Len(q) : i # Len(q) => SetLast(q, e)[i] = q[i]
<1>1. Len(q) \in 1 .. Len(q) /\ SetLast(q, e) = [q EXCEPT ![Len(q)] = e]
  BY DEF SetLast
<1>2. SetLast(q, e) \in Seq(S) /\ Len(SetLast(q, e)) = Len(q)
  BY <1>1, ExceptType
<1>3. /\ SetLast(q, e)[Len(q)] = e
      /\ \A i \in 1 .. Len(q) : i # Len(q) => SetLast(q, e)[i] = q[i]
  BY <1>1
<1>4. SetLast(q, e) # <<>> /\ Last(SetLast(q, e)) = e
  <2>. DEFINE r == SetLast(q, e)
  <2>1. r \in Seq(S) /\ Len(r) = Len(q) /\ r[Len(q)] = e
    BY <1>2, <1>3
  <2>2. Len(q) \in Nat /\ Len(q) # 0
    OBVIOUS
  <2>. HIDE DEF r
  <2>3. r # <<>>
    BY <2>1, <2>2
  <2>4. Last(r) = e
    BY <2>1 DEF Last
  <2>. QED
    BY <2>3, <2>4 DEF r
<1>. QED
  BY <1>2, <1>3, <1>4

LEMMA SetLastSame ==
    ASSUME NEW S, NEW q \in Seq(S), q # <<>>
    PROVE  SetLast(q, Last(q)) = q
BY DEF SetLast, Last

(* What the parts of such a method come to.                                *)
LEMMA Amending ==
    ASSUME NEW x \in Sess, x.messages # <<>>,
           NEW m \in Msg, SameID(m, Last(x.messages)), m.answers = Last(x.messages).answers,
           NEW copied \in BOOLEAN, NEW p,
           copied => /\ x.provider # <<>> /\ p \in Msg
                     /\ SameID(p, m) /\ SameID(Last(x.provider), m),
           NEW t, t = Amend(x, copied, m, p)
    PROVE  \E z : /\ Amends(x, t, m, z) /\ SameLog(x, t)
                  /\ copied => z = p
                  /\ ~copied => z = Last(x.provider)
<1>. DEFINE q == SetLast(x.messages, m)
            r == IF copied THEN SetLast(x.provider, p) ELSE x.provider
            z == IF copied THEN p ELSE Last(x.provider)
<1>1. x.messages \in Seq(Msg) /\ x.provider \in Seq(Msg)
  BY DEF Sess
<1>2. q \in Seq(Msg)
  BY <1>1, SetLastType
<1>3. x.provider = <<>> => r = <<>>
  OBVIOUS
<1>4. ASSUME x.provider # <<>>
      PROVE  /\ z \in Msg /\ r = SetLast(x.provider, z)
             /\ z = Last(x.provider) \/ (SameID(z, m) /\ SameID(Last(x.provider), m))
  <2>1. Last(x.provider) \in Msg /\ SetLast(x.provider, Last(x.provider)) = x.provider
    BY <1>1, <1>4, LastType, SetLastSame
  <2>2. CASE copied
    BY <2>2
  <2>3. CASE ~copied
    BY <1>4, <2>1, <2>3
  <2>. QED
    BY <2>2, <2>3
<1>5. r \in Seq(Msg)
  <2>1. CASE x.provider = <<>>
    BY <1>3, <2>1
  <2>2. CASE x.provider # <<>>
    BY <1>1, <1>4, <2>2, SetLastType
  <2>. QED
    BY <2>1, <2>2
<1>6. t = [x EXCEPT !.messages = q, !.provider = r]
  BY DEF Amend
<1>6a. (copied => z = p) /\ (~copied => z = Last(x.provider))
  OBVIOUS
<1>. HIDE DEF q, r, z
<1>7. /\ t \in Sess /\ t.messages = q /\ t.provider = r /\ t.msgSeq = x.msgSeq
      /\ t.persisted = x.persisted /\ t.log = x.log /\ t.eol = x.eol
  BY <1>2, <1>5, <1>6 DEF Sess
<1>8. Amends(x, t, m, z) /\ SameLog(x, t)
  BY <1>3, <1>4, <1>7 DEF Amends, SameLog, q
<1>. QED
  BY <1>6a, <1>8

(* The same, written to the log.                                           *)
LEMMA AmendingLogged ==
    ASSUME NEW x \in Sess, NEW y, NEW t, NEW m \in Msg, NEW z,
           Amends(x, y, m, z), SameLog(x, y), t = persistLocked(y, m)
    PROVE  Amends(x, t, m, z) /\ Logged(x, t, MessageRecord(m))
<1>1. y \in Sess /\ MessageRecord(m) \in Line
  BY LineTypes DEF Amends
<1>2. t = Write(y, MessageRecord(m))
  BY DEF persistLocked
<1>3. /\ t \in Sess /\ Logged(y, t, MessageRecord(m))
      /\ t.messages = y.messages /\ t.provider = y.provider /\ t.msgSeq = y.msgSeq
  BY <1>1, <1>2, WriteLogs
<1>. QED
  BY <1>3 DEF Amends, Logged, SameLog

(* A message with one field changed.                                       *)
LEMMA NewDelta ==
    ASSUME NEW m \in Msg, NEW d \in Pieces, NEW n, n = WithDelta(m, d)
    PROVE  /\ n \in Msg /\ SameID(n, m) /\ n.answers = m.answers /\ n.role = m.role
           /\ n.content = Append(m.content, d) /\ n.thinking = m.thinking /\ CallIDs(n) = CallIDs(m) /\ n.streaming = m.streaming
<1>. DEFINE c == Append(m.content, d)
<1>1. c \in Seq(Pieces)
  BY DEF Msg, Msgs
<1>2. n = [m EXCEPT !.content = c]
  BY DEF WithDelta
<1>. HIDE DEF c
<1>3. /\ n \in Msg /\ SameID(n, m) /\ n.answers = m.answers /\ n.role = m.role
      /\ n.content = c /\ n.thinking = m.thinking /\ CallIDs(n) = CallIDs(m) /\ n.streaming = m.streaming
  BY <1>1, <1>2 DEF Msg, Msgs, SameID, CallIDs
<1>. QED
  BY <1>3 DEF c

LEMMA NewThought ==
    ASSUME NEW m \in Msg, NEW d \in Pieces, NEW n, n = WithThought(m, d)
    PROVE  /\ n \in Msg /\ SameID(n, m) /\ n.answers = m.answers /\ n.role = m.role
           /\ n.content = m.content /\ n.thinking = Append(m.thinking, d) /\ CallIDs(n) = CallIDs(m) /\ n.streaming = m.streaming
<1>. DEFINE c == Append(m.thinking, d)
<1>1. c \in Seq(Pieces)
  BY DEF Msg, Msgs
<1>2. n = [m EXCEPT !.thinking = c]
  BY DEF WithThought
<1>. HIDE DEF c
<1>3. /\ n \in Msg /\ SameID(n, m) /\ n.answers = m.answers /\ n.role = m.role
      /\ n.content = m.content /\ n.thinking = c /\ CallIDs(n) = CallIDs(m) /\ n.streaming = m.streaming
  BY <1>1, <1>2 DEF Msg, Msgs, SameID, CallIDs
<1>. QED
  BY <1>3 DEF c

LEMMA NewCall ==
    ASSUME NEW m \in Msg, NEW d \in Calls, NEW n, n = WithToolCall(m, d)
    PROVE  /\ n \in Msg /\ SameID(n, m) /\ n.answers = m.answers /\ n.role = m.role
           /\ n.content = m.content /\ n.thinking = m.thinking /\ n.calls = Append(m.calls, [id |-> d, input |-> FALSE]) /\ n.streaming = m.streaming
<1>. DEFINE c == Append(m.calls, [id |-> d, input |-> FALSE])
<1>1. c \in Seq(Entry)
  BY DEF Msg, Msgs, Entry
<1>2. n = [m EXCEPT !.calls = c]
  BY DEF WithToolCall
<1>. HIDE DEF c
<1>3. /\ n \in Msg /\ SameID(n, m) /\ n.answers = m.answers /\ n.role = m.role
      /\ n.content = m.content /\ n.thinking = m.thinking /\ n.calls = c /\ n.streaming = m.streaming
  BY <1>1, <1>2 DEF Msg, Msgs, SameID, CallIDs
<1>. QED
  BY <1>3 DEF c

LEMMA Closed ==
    ASSUME NEW m \in Msg, NEW n, n = Completed(m)
    PROVE  /\ n \in Msg /\ SameID(n, m) /\ n.answers = m.answers /\ n.role = m.role
           /\ n.content = m.content /\ n.thinking = m.thinking /\ CallIDs(n) = CallIDs(m) /\ n.streaming = FALSE
BY DEF Msg, Msgs, SameID, CallIDs, Completed

LEMMA Signed ==
    ASSUME NEW m \in Msg, NEW n, n = [m EXCEPT !.signed = TRUE]
    PROVE  /\ n \in Msg /\ SameID(n, m) /\ n.answers = m.answers /\ n.role = m.role
           /\ n.content = m.content /\ n.thinking = m.thinking /\ CallIDs(n) = CallIDs(m) /\ n.streaming = m.streaming
BY DEF Msg, Msgs, SameID, CallIDs

(* What filling in an input leaves as it was.                              *)
Alike(n, m) ==
    /\ n \in Msg /\ SameID(n, m) /\ n.answers = m.answers /\ n.role = m.role
    /\ n.content = m.content /\ n.thinking = m.thinking
    /\ CallIDs(n) = CallIDs(m) /\ n.streaming = m.streaming

LEMMA NewInput ==
    ASSUME NEW m \in Msg, NEW i, NEW n, n = [m EXCEPT !.calls[i].input = TRUE]
    PROVE  Alike(n, m)
<1>. DEFINE c == [m.calls EXCEPT ![i].input = TRUE]
<1>1. m.calls \in Seq(Entry)
  BY DEF Msg, Msgs
<1>2. m.calls \in [1 .. Len(m.calls) -> Entry] /\ Len(m.calls) \in Nat
  BY <1>1
<1>3. /\ c \in [1 .. Len(m.calls) -> Entry]
      /\ \A k \in 1 .. Len(m.calls) : c[k].id = m.calls[k].id
  <2>1. \A e \in Entry : [e EXCEPT !.input = TRUE] \in Entry /\ [e EXCEPT !.input = TRUE].id = e.id
    BY DEF Entry
  <2>. QED
    BY <1>2, <2>1
<1>4. n = [m EXCEPT !.calls = c]
  OBVIOUS
<1>. HIDE DEF c
<1>5. c \in Seq(Entry) /\ DOMAIN c = DOMAIN m.calls
  BY <1>2, <1>3, SeqDef
<1>6. /\ n \in Msg /\ SameID(n, m) /\ n.answers = m.answers /\ n.role = m.role
      /\ n.content = m.content /\ n.thinking = m.thinking /\ n.calls = c /\ n.streaming = m.streaming
  BY <1>4, <1>5 DEF Msg, Msgs, SameID
<1>7. CallIDs(n) = CallIDs(m)
  BY <1>2, <1>3, <1>5, <1>6 DEF CallIDs
<1>. QED
  BY <1>6, <1>7 DEF Alike

LEMMA Extended ==
    ASSUME NEW x \in Sess, LastStreams(x.messages), Mirror(x)
    PROVE  /\ x.messages # <<>> /\ Last(x.messages) \in Msg
           /\ Last(x.messages).streaming = TRUE
           /\ x.provider # <<>> =>
                 /\ Last(x.provider) \in Msg /\ Follows(Last(x.provider), Last(x.messages))
                 /\ LastStreams(x.provider)
           /\ x.provider = <<>> => ~LastStreams(x.provider)
           /\ LastStreams(x.provider) \in BOOLEAN
<1>1. x.messages \in Seq(Msg) /\ x.provider \in Seq(Msg) /\ x.messages # <<>>
  BY DEF Sess, LastStreams
<1>2. Last(x.messages) \in Msg
  BY <1>1, LastType
<1>3. Last(x.messages).streaming = TRUE
  BY <1>2 DEF LastStreams, Msg, Msgs
<1>4. ASSUME x.provider # <<>>
      PROVE /\ Last(x.provider) \in Msg /\ Follows(Last(x.provider), Last(x.messages))
            /\ LastStreams(x.provider) = TRUE
  <2>1. Last(x.provider) \in Msg /\ Follows(Last(x.provider), Last(x.messages))
    BY <1>1, <1>4, LastType DEF Mirror
  <2>. QED
    BY <1>3, <1>4, <2>1 DEF Follows, LastStreams
<1>5. ASSUME x.provider = <<>> PROVE LastStreams(x.provider) = FALSE
  BY <1>5 DEF LastStreams
<1>. QED
  BY <1>1, <1>2, <1>3, <1>4, <1>5

(* A message changed in what its log line may lack.                        *)
Lengthens(n, m) == n = [m EXCEPT !.calls = n.calls, !.signed = n.signed]

LEMMA AppendDeltaAmends ==
    ASSUME NEW x \in Sess, LastStreams(x.messages), Mirror(x), NEW d \in Pieces,
           NEW t, t = AppendDelta(x, d)
    PROVE  \E m, z : /\ Amends(x, t, m, z) /\ Keeps(x, m, z)
                      /\ SameLog(x, t) /\ m.streaming = TRUE
<1>. DEFINE old == Last(x.messages)
            copy == Last(x.provider)
            m == WithDelta(old, d)
            p == WithDelta(copy, d)
            copied == LastStreams(x.provider)
<1>1. /\ x.messages # <<>> /\ old \in Msg /\ old.streaming = TRUE
      /\ x.provider # <<>> => copy \in Msg /\ Follows(copy, old) /\ copied
      /\ x.provider = <<>> => ~copied
      /\ copied \in BOOLEAN
  BY Extended
<1>2. t = Amend(x, copied, m, p)
  BY DEF AppendDelta
<1>. HIDE DEF old, copy, copied
<1>4. /\ m \in Msg /\ SameID(m, old) /\ m.answers = old.answers
      /\ m.content = Append(old.content, d) /\ m.thinking = old.thinking
      /\ CallIDs(m) = CallIDs(old) /\ m.streaming = old.streaming
  BY <1>1, NewDelta
<1>5. ASSUME x.provider # <<>> PROVE p \in Msg /\ Follows(p, m)
  <2>1. copy \in Msg /\ Follows(copy, old)
    BY <1>1, <1>5
  <2>2. copy.content = old.content
    BY <2>1 DEF Follows
  <2>3. /\ p \in Msg /\ SameID(p, copy)
        /\ p.content = Append(old.content, d) /\ p.thinking = copy.thinking
        /\ CallIDs(p) = CallIDs(copy) /\ p.streaming = copy.streaming
    <3>1. /\ p \in Msg /\ SameID(p, copy)
          /\ p.content = Append(copy.content, d) /\ p.thinking = copy.thinking
          /\ CallIDs(p) = CallIDs(copy) /\ p.streaming = copy.streaming
      BY <2>1, NewDelta
    <3>. QED
      BY <2>2, <3>1
  <2>. HIDE DEF p, m
  <2>. QED
    BY <1>4, <2>1, <2>3 DEF Follows, SameID
<1>. HIDE DEF m, p
<1>5a. copied => x.provider # <<>> /\ p \in Msg /\ SameID(p, m) /\ SameID(copy, m)
  BY <1>1, <1>4, <1>5 DEF Follows, SameID
<1>6. PICK z : /\ Amends(x, t, m, z) /\ SameLog(x, t)
               /\ copied => z = p
               /\ ~copied => z = Last(x.provider)
  BY <1>1, <1>2, <1>4, <1>5a, Amending DEF old, copy
<1>7. Keeps(x, m, z)
  BY <1>1, <1>5, <1>6 DEF Keeps
<1>. QED
  BY <1>1, <1>4, <1>6, <1>7

LEMMA AppendThinkingDeltaAmends ==
    ASSUME NEW x \in Sess, LastStreams(x.messages), Mirror(x), NEW d \in Pieces,
           NEW t, t = AppendThinkingDelta(x, d)
    PROVE  \E m, z : /\ Amends(x, t, m, z) /\ Keeps(x, m, z)
                      /\ SameLog(x, t) /\ m.streaming = TRUE
<1>. DEFINE old == Last(x.messages)
            copy == Last(x.provider)
            m == WithThought(old, d)
            p == WithThought(copy, d)
            copied == LastStreams(x.provider)
<1>1. /\ x.messages # <<>> /\ old \in Msg /\ old.streaming = TRUE
      /\ x.provider # <<>> => copy \in Msg /\ Follows(copy, old) /\ copied
      /\ x.provider = <<>> => ~copied
      /\ copied \in BOOLEAN
  BY Extended
<1>2. t = Amend(x, copied, m, p)
  BY DEF AppendThinkingDelta
<1>. HIDE DEF old, copy, copied
<1>4. /\ m \in Msg /\ SameID(m, old) /\ m.answers = old.answers
      /\ m.content = old.content /\ m.thinking = Append(old.thinking, d)
      /\ CallIDs(m) = CallIDs(old) /\ m.streaming = old.streaming
  BY <1>1, NewThought
<1>5. ASSUME x.provider # <<>> PROVE p \in Msg /\ Follows(p, m)
  <2>1. copy \in Msg /\ Follows(copy, old)
    BY <1>1, <1>5
  <2>2. copy.thinking = old.thinking
    BY <2>1 DEF Follows
  <2>3. /\ p \in Msg /\ SameID(p, copy)
        /\ p.content = copy.content /\ p.thinking = Append(old.thinking, d)
        /\ CallIDs(p) = CallIDs(copy) /\ p.streaming = copy.streaming
    <3>1. /\ p \in Msg /\ SameID(p, copy)
          /\ p.content = copy.content /\ p.thinking = Append(copy.thinking, d)
          /\ CallIDs(p) = CallIDs(copy) /\ p.streaming = copy.streaming
      BY <2>1, NewThought
    <3>. QED
      BY <2>2, <3>1
  <2>. HIDE DEF p, m
  <2>. QED
    BY <1>4, <2>1, <2>3 DEF Follows, SameID
<1>. HIDE DEF m, p
<1>5a. copied => x.provider # <<>> /\ p \in Msg /\ SameID(p, m) /\ SameID(copy, m)
  BY <1>1, <1>4, <1>5 DEF Follows, SameID
<1>6. PICK z : /\ Amends(x, t, m, z) /\ SameLog(x, t)
               /\ copied => z = p
               /\ ~copied => z = Last(x.provider)
  BY <1>1, <1>2, <1>4, <1>5a, Amending DEF old, copy
<1>7. Keeps(x, m, z)
  BY <1>1, <1>5, <1>6 DEF Keeps
<1>. QED
  BY <1>1, <1>4, <1>6, <1>7

LEMMA CallAdded ==
    ASSUME NEW m \in Msg, NEW d \in Calls, NEW n \in Msg,
           n.calls = Append(m.calls, [id |-> d, input |-> FALSE])
    PROVE  CallIDs(m) \in Seq(Calls) /\ CallIDs(n) = Append(CallIDs(m), d)
<1>. DEFINE e == [id |-> d, input |-> FALSE]
            q == m.calls
            k == Len(q)
<1>1. q \in Seq(Entry) /\ k \in Nat /\ e \in Entry /\ e.id = d
  BY DEF Msg, Msgs, Entry
<1>. HIDE DEF e
<1>2. n.calls = Append(q, e)
  BY DEF e
<1>3. CallIDs(m) = [i \in 1 .. k |-> q[i].id]
  BY <1>1 DEF CallIDs
<1>. HIDE DEF q, k
<1>4. CallIDs(m) \in Seq(Calls) /\ Len(CallIDs(m)) = k
  <2>1. \A i \in 1 .. k : q[i] \in Entry
    BY <1>1 DEF k
  <2>2. \A i \in 1 .. k : q[i].id \in Calls
    BY <2>1 DEF Entry
  <2>. QED
    BY <1>1, <1>3, <2>2
<1>5. /\ DOMAIN n.calls = 1 .. k + 1 /\ n.calls[k + 1] = e
      /\ \A i \in 1 .. k : n.calls[i] = q[i]
  BY <1>1, <1>2 DEF k
<1>6. CallIDs(n) = [i \in 1 .. k + 1 |-> n.calls[i].id]
  BY <1>5 DEF CallIDs
<1>7. /\ Append(CallIDs(m), d) \in Seq(Calls) /\ Len(Append(CallIDs(m), d)) = k + 1
      /\ \A i \in 1 .. k + 1 : Append(CallIDs(m), d)[i] = IF i = k + 1 THEN d ELSE CallIDs(m)[i]
  <2>. DEFINE c == CallIDs(m)
  <2>1. c \in Seq(Calls) /\ Len(c) = k
    BY <1>4
  <2>. HIDE DEF c
  <2>2. /\ Append(c, d) \in Seq(Calls) /\ Len(Append(c, d)) = k + 1
        /\ \A i \in 1 .. k + 1 : Append(c, d)[i] = IF i = k + 1 THEN d ELSE c[i]
    BY <1>1, <2>1
  <2>. QED
    BY <2>2 DEF c
<1>8. \A i \in 1 .. k + 1 : n.calls[i].id = IF i = k + 1 THEN d ELSE CallIDs(m)[i]
  <2>. TAKE i \in 1 .. k + 1
  <2>1. CASE i = k + 1
    BY <1>1, <1>5, <2>1
  <2>2. CASE i # k + 1
    <3>1. i \in 1 .. k
      BY <1>1, <2>2
    <3>. QED
      BY <1>3, <1>5, <2>2, <3>1
  <2>. QED
    BY <2>1, <2>2
<1>9. CallIDs(n) = Append(CallIDs(m), d)
  <2>. DEFINE b == Append(CallIDs(m), d)
  <2>1. b = [i \in 1 .. k + 1 |-> b[i]]
    <3>1. b \in Seq(Calls) /\ Len(b) = k + 1
      BY <1>7
    <3>. HIDE DEF b
    <3>. QED
      BY <3>1
  <2>2. \A i \in 1 .. k + 1 : b[i] = n.calls[i].id
    BY <1>7, <1>8
  <2>. HIDE DEF b
  <2>3. CallIDs(n) = b
    BY <1>6, <2>1, <2>2
  <2>. QED
    BY <2>3 DEF b
<1>. QED
  BY <1>4, <1>9

LEMMA AddToolCallAmends ==
    ASSUME NEW x \in Sess, x.messages # <<>>, Mirror(x), NEW d \in Calls,
           NEW t, t = AddToolCallToAssistant(x, d)
    PROVE  \E m, z : /\ Amends(x, t, m, z) /\ Keeps(x, m, z)
                      /\ SameLog(x, t) /\ Lengthens(m, Last(x.messages))
<1>. DEFINE old == Last(x.messages)
            copy == Last(x.provider)
            m == WithToolCall(old, d)
            p == WithToolCall(copy, d)
            copied == Mirrored(x)
<1>1. /\ old \in Msg
      /\ x.provider # <<>> => copy \in Msg /\ Follows(copy, old)
  BY LastType DEF Mirror, Sess
<1>2. /\ x.provider # <<>> => copied
      /\ x.provider = <<>> => ~copied
      /\ copied \in BOOLEAN
  BY <1>1 DEF Mirrored, Follows
<1>3. t = Amend(x, copied, m, p)
  BY <1>1 DEF AddToolCallToAssistant
<1>. HIDE DEF old, copy, copied
<1>4. /\ m \in Msg /\ SameID(m, old) /\ m.answers = old.answers
      /\ m.content = old.content /\ m.thinking = old.thinking /\ m.streaming = old.streaming
      /\ m.calls = Append(old.calls, [id |-> d, input |-> FALSE])
  BY <1>1, NewCall
<1>4a. CallIDs(m) = Append(CallIDs(old), d)
  BY <1>1, <1>4, CallAdded
<1>4b. Lengthens(m, old)
  BY <1>1 DEF Lengthens, WithToolCall, Msg, Msgs
<1>5. ASSUME x.provider # <<>> PROVE p \in Msg /\ Follows(p, m)
  <2>1. copy \in Msg /\ Follows(copy, old)
    BY <1>1, <1>5
  <2>2. CallIDs(copy) = CallIDs(old)
    BY <2>1 DEF Follows
  <2>3. /\ p \in Msg /\ SameID(p, copy)
        /\ p.content = copy.content /\ p.thinking = copy.thinking /\ p.streaming = copy.streaming
        /\ p.calls = Append(copy.calls, [id |-> d, input |-> FALSE])
    BY <2>1, NewCall
  <2>4. CallIDs(p) = Append(CallIDs(copy), d)
    BY <2>1, <2>3, CallAdded
  <2>. HIDE DEF p, m
  <2>5. CallIDs(p) = CallIDs(m)
    BY <1>4a, <2>2, <2>4
  <2>. QED
    BY <1>4, <2>1, <2>3, <2>5 DEF Follows, SameID
<1>. HIDE DEF m, p
<1>5a. copied => x.provider # <<>> /\ p \in Msg /\ SameID(p, m) /\ SameID(copy, m)
  BY <1>1, <1>2, <1>4, <1>5 DEF Follows, SameID
<1>6. PICK z : /\ Amends(x, t, m, z) /\ SameLog(x, t)
               /\ copied => z = p
               /\ ~copied => z = Last(x.provider)
  BY <1>1, <1>2, <1>3, <1>4, <1>5a, Amending DEF old, copy
<1>7. Keeps(x, m, z)
  BY <1>1, <1>2, <1>5, <1>6 DEF Keeps
<1>. QED
  BY <1>4b, <1>6, <1>7 DEF old

LEMMA SignatureAmends ==
    ASSUME NEW x \in Sess, x.messages # <<>>, Mirror(x),
           NEW t, t = SetThinkingSignature(x)
    PROVE  \E m, z : /\ Amends(x, t, m, z) /\ Keeps(x, m, z)
                      /\ SameLog(x, t) /\ Lengthens(m, Last(x.messages))
<1>. DEFINE old == Last(x.messages)
            m == [old EXCEPT !.signed = TRUE]
            copied == FALSE
<1>1. /\ old \in Msg
      /\ x.provider # <<>> => Follows(Last(x.provider), old)
  BY LastType DEF Mirror, Sess
<1>2. t = Amend(x, copied, m, old)
  BY DEF SetThinkingSignature
<1>2a. Lengthens(m, old)
  BY <1>1 DEF Lengthens, Msg, Msgs
<1>. HIDE DEF old
<1>3. /\ m \in Msg /\ SameID(m, old) /\ m.answers = old.answers
      /\ m.content = old.content /\ m.thinking = old.thinking /\ CallIDs(m) = CallIDs(old)
      /\ m.streaming = old.streaming
  BY <1>1, Signed
<1>. HIDE DEF m
<1>4. x.provider # <<>> => Follows(Last(x.provider), m)
  BY <1>1, <1>3 DEF Follows, SameID
<1>5. copied \in BOOLEAN /\ ~copied
  OBVIOUS
<1>. HIDE DEF copied
<1>6. PICK z : /\ Amends(x, t, m, z) /\ SameLog(x, t)
               /\ ~copied => z = Last(x.provider)
  BY <1>1, <1>2, <1>3, <1>5, Amending DEF old
<1>7. Keeps(x, m, z)
  BY <1>4, <1>5, <1>6 DEF Keeps
<1>. QED
  BY <1>2a, <1>6, <1>7 DEF old

(* A message is finished, or an input of a finished one is filled in.      *)
Closes(x, t) ==
    \E m, z : /\ Amends(x, t, m, z) /\ Logged(x, t, MessageRecord(m))
              /\ Mirror(x) => Keeps(x, m, z)
              /\ m.streaming = FALSE /\ CallIDs(m) = CallIDs(Last(x.messages))

(* A message is finished wherever the view ends.                           *)
LEMMA FinishAmends ==
    ASSUME NEW x \in Sess, LastStreams(x.messages),
           NEW t, t = FinishAssistantMessage(x)
    PROVE  Closes(x, t)
<1>. DEFINE old == Last(x.messages)
            copy == Last(x.provider)
            m == Completed(old)
            p == Completed(copy)
            copied == Mirrored(x)
            y == Amend(x, copied, m, p)
<1>1. /\ x.messages # <<>> /\ old \in Msg /\ old.streaming = TRUE /\ old.role = "assistant"
      /\ x.provider # <<>> => copy \in Msg
  <2>1. x.messages \in Seq(Msg) /\ x.provider \in Seq(Msg)
    BY DEF Sess
  <2>2. x.messages # <<>> /\ old \in Msg /\ (x.provider # <<>> => copy \in Msg)
    BY <2>1, LastType DEF LastStreams
  <2>. QED
    BY <2>2 DEF LastStreams, Msg, Msgs
<1>2. /\ copied => x.provider # <<>> /\ SameID(copy, old)
      /\ x.provider # <<>> /\ ~copied => ~SameID(copy, old)
      /\ copied \in BOOLEAN
  BY DEF Mirrored
<1>3. t = persistLocked(y, m)
  BY DEF FinishAssistantMessage
<1>. HIDE DEF old, copy, copied
<1>4. /\ m \in Msg /\ SameID(m, old) /\ m.answers = old.answers /\ m.role = old.role
      /\ m.content = old.content /\ m.thinking = old.thinking /\ m.streaming = FALSE
      /\ CallIDs(m) = CallIDs(old)
  BY <1>1, Closed
<1>5. ASSUME x.provider # <<>>
      PROVE  /\ p \in Msg /\ SameID(p, copy)
             /\ p.content = copy.content /\ p.thinking = copy.thinking /\ p.streaming = FALSE
             /\ CallIDs(p) = CallIDs(copy)
  BY <1>1, <1>5, Closed
<1>. HIDE DEF m, p
<1>6. PICK z : /\ Amends(x, y, m, z) /\ SameLog(x, y)
               /\ copied => z = p
               /\ ~copied => z = Last(x.provider)
  <2>1. y = Amend(x, copied, m, p)
    OBVIOUS
  <2>2. copied => /\ x.provider # <<>> /\ p \in Msg
                  /\ SameID(p, m) /\ SameID(Last(x.provider), m)
    BY <1>2, <1>4, <1>5 DEF SameID, copy
  <2>. HIDE DEF y
  <2>. QED
    BY <1>1, <1>2, <1>4, <2>1, <2>2, Amending DEF old
<1>7. Amends(x, t, m, z) /\ Logged(x, t, MessageRecord(m))
  <2>. HIDE DEF y
  <2>. QED
    BY <1>3, <1>4, <1>6, AmendingLogged
<1>8. ASSUME Mirror(x) PROVE Keeps(x, m, z)
  <2>1. x.provider # <<>> => Follows(copy, old)
    BY <1>8 DEF Mirror, copy, old
  <2>2. x.provider # <<>> => copied
    BY <1>2, <2>1 DEF Follows
  <2>. QED
    BY <1>4, <1>5, <1>6, <2>1, <2>2 DEF Keeps, Follows, SameID
<1>. QED
  BY <1>4, <1>7, <1>8 DEF Closes, old

LEMMA FinishIdle ==
    ASSUME NEW x \in Sess, ~LastStreams(x.messages)
    PROVE  FinishAssistantMessage(x) = x
BY DEF FinishAssistantMessage

LEMMA UpdateAmends ==
    ASSUME NEW x \in Sess, x.messages # <<>>, Mirror(x), NEW c,
           NEW t, t = UpdateToolCallInput(x, c), t # x
    PROVE  \E m, z : /\ Amends(x, t, m, z) /\ Keeps(x, m, z)
                             /\ Logged(x, t, MessageRecord(m))
                             /\ m.streaming = Last(x.messages).streaming
                             /\ CallIDs(m) = CallIDs(Last(x.messages))
<1>. DEFINE old == Last(x.messages)
            matches == {i \in DOMAIN old.calls : old.calls[i].id = c}
            first == CHOOSE i \in matches : \A j \in matches : i <= j
            m == [old EXCEPT !.calls[first].input = TRUE]
            copied == FALSE
            y == Amend(x, copied, m, m)
<1>1. /\ x.messages \in Seq(Msg) /\ old \in Msg
      /\ x.provider # <<>> => Follows(Last(x.provider), old)
  <2>1. x.messages \in Seq(Msg)
    BY DEF Sess
  <2>. QED
    BY <2>1, LastType DEF Mirror
<1>2. t = persistLocked(y, m)
  BY DEF UpdateToolCallInput
<1>. HIDE DEF old, first
<1>3. /\ m \in Msg /\ SameID(m, old) /\ m.answers = old.answers
      /\ m.content = old.content /\ m.thinking = old.thinking /\ CallIDs(m) = CallIDs(old)
      /\ m.streaming = old.streaming
  <2>1. m = [old EXCEPT !.calls[first].input = TRUE]
    OBVIOUS
  <2>. HIDE DEF m
  <2>2. Alike(m, old)
    BY <1>1, <2>1, NewInput, Zenon
  <2>. QED
    BY <2>2 DEF Alike
<1>. HIDE DEF m
<1>4. x.provider # <<>> => Follows(Last(x.provider), m)
  BY <1>1, <1>3 DEF Follows, SameID
<1>5. copied \in BOOLEAN /\ ~copied
  OBVIOUS
<1>6. PICK z : /\ Amends(x, y, m, z) /\ SameLog(x, y)
               /\ ~copied => z = Last(x.provider)
  <2>1. y = Amend(x, copied, m, m)
    OBVIOUS
  <2>. HIDE DEF y, copied
  <2>. QED
    BY <1>1, <1>3, <1>4, <1>5, <2>1, Amending DEF old
<1>7. Amends(x, t, m, z) /\ Logged(x, t, MessageRecord(m))
  <2>. HIDE DEF y
  <2>. QED
    BY <1>2, <1>3, <1>6, AmendingLogged
<1>8. Keeps(x, m, z)
  BY <1>4, <1>5, <1>6 DEF Keeps
<1>. QED
  BY <1>3, <1>7, <1>8 DEF old

(* A set of sessions that no single update leaves is left by no series.    *)
LEMMA UpdatesStay ==
    ASSUME NEW Q, NEW x \in Q, NEW calls \in Seq(Calls),
           \A y \in Q, c \in Calls : UpdateToolCallInput(y, c) \in Q
    PROVE  UpdateToolCallInputs(x, calls) \in Q
<1>. DEFINE n == Len(calls)
            step == [k \in 1 .. n |-> [y \in Q |-> UpdateToolCallInput(y, calls[k])]]
            Body(f, k) == IF k = 0 THEN x ELSE UpdateToolCallInput(f[k - 1], calls[k])
<1>0. n \in Nat /\ \A k \in 1 .. n : calls[k] \in Calls
  OBVIOUS
<1>1. step \in [1 .. n -> [Q -> Q]]
  BY <1>0
<1>2. PICK f \in [0 .. n -> Q] : Unfolds(f, n, x, step)
  <2>1. x \in Q /\ n \in Nat
    OBVIOUS
  <2>. HIDE DEF step, n
  <2>. QED
    BY <1>1, <2>1, Recursion, Zenon
<1>3. f[0] = x /\ \A k \in 1 .. n : f[k] = UpdateToolCallInput(f[k - 1], calls[k])
  <2>1. ASSUME NEW k \in 1 .. n PROVE f[k] = UpdateToolCallInput(f[k - 1], calls[k])
    <3>1. k - 1 \in 0 .. n
      BY <1>0
    <3>2. f[k - 1] \in Q
      BY <3>1
    <3>. QED
      BY <1>2, <3>2 DEF Unfolds
  <2>. QED
    BY <1>2, <2>1 DEF Unfolds
<1>4. f = [k \in 0 .. n |-> Body(f, k)]
  <2>1. ASSUME NEW k \in 0 .. n PROVE f[k] = Body(f, k)
    <3>1. CASE k = 0
      BY <1>3, <3>1
    <3>2. CASE k # 0
      <4>1. k \in 1 .. n
        BY <1>0, <3>2
      <4>. QED
        BY <1>3, <3>2, <4>1
    <3>. QED
      BY <3>1, <3>2
  <2>. HIDE DEF n, Body
  <2>. QED
    BY <1>2, <2>1
<1>. DEFINE updated[k \in 0 .. n] ==
                IF k = 0 THEN x ELSE UpdateToolCallInput(updated[k - 1], calls[k])
<1>5. updated = [k \in 0 .. n |-> Body(updated, k)]
  BY <1>4
<1>6. UpdateToolCallInputs(x, calls) = updated[n]
  BY DEF UpdateToolCallInputs
<1>. HIDE DEF updated
<1>7. \A k \in 0 .. n : updated[k] = f[k]
  <2>. DEFINE P == {k \in 0 .. n : updated[k] = f[k]}
  <2>1. 0 \in P
    BY <1>0, <1>3, <1>5
  <2>2. ASSUME NEW k \in 1 .. n, k - 1 \in P PROVE k \in P
    <3>1. k \in 0 .. n /\ k # 0 /\ updated[k - 1] = f[k - 1]
      BY <2>2
    <3>2. updated[k] = Body(updated, k)
      <4>. HIDE DEF Body, n
      <4>. QED
        BY <1>5, <3>1
    <3>3. f[k] = Body(f, k)
      BY <1>3, <3>1
    <3>4. Body(updated, k) = Body(f, k)
      BY <3>1
    <3>. QED
      BY <3>1, <3>2, <3>3, <3>4
  <2>. HIDE DEF P, n
  <2>3. \A k \in 0 .. n : k \in P
    BY <1>0, <2>1, <2>2, Climb
  <2>. QED
    BY <2>3 DEF P
<1>8. n \in 0 .. n
  BY <1>0
<1>. HIDE DEF n
<1>. QED
  BY <1>2, <1>6, <1>7, <1>8

(***************************************************************************)
(* A ledger and its view                                                   *)
(***************************************************************************)
Increasing(q) == \A i, j \in 1 .. Len(q) : i < j => q[i].seq < q[j].seq

(* The system message a conversation begins with.                          *)
Instruction(m) == m.role = "system" /\ m.seq = 1 /\ m.streaming = FALSE

Instructs(q) == \E i \in 1 .. Len(q) : Instruction(q[i])

Ledger(x) ==
    /\ x \in Sess /\ x.messages # <<>>
    /\ Increasing(x.messages) /\ Last(x.messages).seq = x.msgSeq
    /\ Instruction(x.messages[1])
    /\ \A i \in 2 .. Len(x.messages) : x.messages[i].role # "system"
    /\ x.provider # <<>> => Instructs(x.provider)

LEMMA NotEmpty ==
    ASSUME NEW S, NEW q \in Seq(S)
    PROVE  /\ q # <<>> => Len(q) \in Nat /\ Len(q) >= 1
           /\ q = <<>> => Len(q) = 0
OBVIOUS

LEMMA AppendParts ==
    ASSUME NEW S, NEW q \in Seq(S), NEW e \in S, NEW r, r = Append(q, e)
    PROVE  /\ r \in Seq(S) /\ r # <<>> /\ Len(r) = Len(q) + 1 /\ Last(r) = e
           /\ r[Len(q) + 1] = e /\ \A i \in 1 .. Len(q) : r[i] = q[i]
<1>1. /\ r \in Seq(S) /\ Len(r) = Len(q) + 1 /\ Len(q) \in Nat
      /\ r[Len(q) + 1] = e /\ \A i \in 1 .. Len(q) : r[i] = q[i]
  OBVIOUS
<1>2. r # <<>>
  BY <1>1
<1>3. Last(r) = e
  BY <1>1 DEF Last
<1>. QED
  BY <1>1, <1>2, <1>3

LEMMA IncreasingAppend ==
    ASSUME NEW q \in Seq(Msg), NEW m \in Msg, Increasing(q),
           q # <<>> => Last(q).seq < m.seq, NEW r, r = Append(q, m)
    PROVE  Increasing(r)
<1>1. /\ Len(r) = Len(q) + 1 /\ Len(q) \in Nat
      /\ r[Len(q) + 1] = m /\ \A i \in 1 .. Len(q) : r[i] = q[i]
  BY AppendParts
<1>2. ASSUME NEW i \in 1 .. Len(q) PROVE q[i].seq < m.seq
  <2>1. q # <<>> /\ Last(q) = q[Len(q)] /\ Len(q) \in 1 .. Len(q)
    BY <1>1, LastType
  <2>2. q[i] \in Msg /\ q[Len(q)] \in Msg
    BY <2>1
  <2>3. q[i].seq \in Nat /\ q[Len(q)].seq \in Nat /\ m.seq \in Nat
    BY <2>2 DEF Msg, Msgs
  <2>4. CASE i = Len(q)
    BY <2>1, <2>4
  <2>5. CASE i # Len(q)
    <3>1. i < Len(q)
      BY <1>1, <2>5
    <3>2. q[i].seq < q[Len(q)].seq
      BY <2>1, <3>1 DEF Increasing
    <3>. QED
      BY <2>1, <2>3, <3>2
  <2>. QED
    BY <2>4, <2>5
<1>3. ASSUME NEW i \in 1 .. Len(r), NEW j \in 1 .. Len(r), i < j
      PROVE  r[i].seq < r[j].seq
  <2>1. i \in 1 .. Len(q)
    BY <1>1, <1>3
  <2>2. CASE j = Len(q) + 1
    BY <1>1, <1>2, <2>1, <2>2
  <2>3. CASE j # Len(q) + 1
    <3>1. j \in 1 .. Len(q)
      BY <1>1, <2>3
    <3>2. q[i].seq < q[j].seq
      BY <1>3, <2>1, <3>1 DEF Increasing
    <3>. QED
      BY <1>1, <2>1, <3>1, <3>2
  <2>. QED
    BY <2>2, <2>3
<1>. QED
  BY <1>3 DEF Increasing

LEMMA IncreasingSetLast ==
    ASSUME NEW q \in Seq(Msg), NEW m \in Msg, Increasing(q), q # <<>>,
           m.seq = Last(q).seq, NEW r, r = SetLast(q, m)
    PROVE  Increasing(r)
<1>1. /\ Len(r) = Len(q) /\ Len(q) \in Nat /\ Last(r) = m /\ r \in Seq(Msg) /\ r # <<>>
      /\ \A i \in 1 .. Len(q) : i # Len(q) => r[i] = q[i]
  <2>1. Len(q) \in Nat
    OBVIOUS
  <2>2. /\ r \in Seq(Msg) /\ Len(r) = Len(q) /\ Last(r) = m /\ r # <<>>
        /\ \A i \in 1 .. Len(q) : i # Len(q) => r[i] = q[i]
    BY SetLastType
  <2>. QED
    BY <2>1, <2>2
<1>2. Last(q) = q[Len(q)] /\ Last(r) = r[Len(r)]
  BY <1>1, LastType
<1>3. \A i \in 1 .. Len(q) : r[i].seq = q[i].seq
  BY <1>1, <1>2
<1>. QED
  BY <1>1, <1>3 DEF Increasing

LEMMA InstructsAppend ==
    ASSUME NEW q \in Seq(Msg), NEW m \in Msg, Instructs(q), NEW r, r = Append(q, m)
    PROVE  Instructs(r)
BY AppendParts DEF Instructs

LEMMA InstructsSetLast ==
    ASSUME NEW q \in Seq(Msg), NEW m \in Msg, Instructs(q), q # <<>>,
           Last(q).role # "system", NEW r, r = SetLast(q, m)
    PROVE  Instructs(r)
<1>1. /\ Len(r) = Len(q) /\ \A i \in 1 .. Len(q) : i # Len(q) => r[i] = q[i]
  BY SetLastType
<1>2. PICK i \in 1 .. Len(q) : Instruction(q[i])
  BY DEF Instructs
<1>3. i # Len(q)
  BY <1>2 DEF Instruction, Last
<1>. QED
  BY <1>1, <1>2, <1>3 DEF Instructs

LEMMA AddsLedger ==
    ASSUME NEW x, NEW t, NEW m, Ledger(x), Adds(x, t, m), m.role # "system"
    PROVE  Ledger(t) /\ Last(t.messages) = m
<1>. DEFINE q == x.messages
            p == x.provider
<1>1. /\ q \in Seq(Msg) /\ p \in Seq(Msg) /\ x.msgSeq \in Nat /\ m \in Msg
      /\ q # <<>> /\ Increasing(q) /\ Last(q).seq = x.msgSeq
      /\ t.messages = Append(q, m) /\ t.msgSeq = m.seq /\ m.seq = x.msgSeq + 1 /\ t \in Sess
  BY DEF Ledger, Sess, Adds
<1>2. /\ t.messages # <<>> /\ Len(t.messages) = Len(q) + 1 /\ Last(t.messages) = m
      /\ t.messages[Len(q) + 1] = m /\ \A i \in 1 .. Len(q) : t.messages[i] = q[i]
  <2>. DEFINE u == t.messages
  <2>1. u = Append(q, m) /\ q \in Seq(Msg) /\ m \in Msg
    BY <1>1
  <2>. HIDE DEF q, u
  <2>2. /\ u # <<>> /\ Len(u) = Len(q) + 1 /\ Last(u) = m
        /\ u[Len(q) + 1] = m /\ \A i \in 1 .. Len(q) : u[i] = q[i]
    <3>1. u[Len(q) + 1] = m
      BY <2>1, AppendParts
    <3>2. u # <<>> /\ Len(u) = Len(q) + 1 /\ Last(u) = m
      <4>1. u # <<>>
        BY <2>1, AppendParts
      <4>2. Len(u) = Len(q) + 1
        BY <2>1, AppendParts
      <4>. QED
        BY <3>1, <4>1, <4>2 DEF Last
    <3>3. \A i \in 1 .. Len(q) : u[i] = q[i]
      BY <2>1, AppendParts
    <3>. QED
      BY <3>1, <3>2, <3>3
  <2>. QED
    BY <2>2 DEF u
<1>3. Increasing(t.messages)
  <2>1. Last(q).seq < m.seq
    BY <1>1
  <2>. QED
    BY <1>1, <2>1, IncreasingAppend
<1>4. Len(q) \in Nat /\ Len(q) >= 1
  BY <1>1, NotEmpty
<1>5. Instruction(t.messages[1])
  BY <1>2, <1>4 DEF Ledger
<1>6. \A i \in 2 .. Len(t.messages) : t.messages[i].role # "system"
  <2>. SUFFICES ASSUME NEW i \in 2 .. Len(t.messages) PROVE t.messages[i].role # "system"
    OBVIOUS
  <2>1. CASE i = Len(q) + 1
    BY <1>2, <2>1
  <2>2. CASE i # Len(q) + 1
    <3>1. i \in 2 .. Len(q) /\ i \in 1 .. Len(q)
      BY <1>2, <1>4, <2>2
    <3>. QED
      BY <1>2, <3>1 DEF Ledger
  <2>. QED
    BY <2>1, <2>2
<1>7. ASSUME t.provider # <<>> PROVE Instructs(t.provider)
  <2>1. p # <<>> /\ t.provider = Append(p, m)
    BY <1>7 DEF Adds
  <2>2. Instructs(p)
    BY <2>1 DEF Ledger
  <2>. QED
    BY <1>1, <2>1, <2>2, InstructsAppend
<1>. HIDE DEF q, p
<1>. QED
  BY <1>1, <1>2, <1>3, <1>5, <1>6, <1>7 DEF Ledger

LEMMA AmendsLedger ==
    ASSUME NEW x, NEW t, NEW m, NEW z, Ledger(x), Amends(x, t, m, z),
           Last(x.messages).role = "assistant"
    PROVE  /\ Ledger(t) /\ Last(t.messages) = m /\ m.role = "assistant"
           /\ Keeps(x, m, z) => Mirror(t)
<1>. DEFINE q == x.messages
            p == x.provider
<1>1. /\ q \in Seq(Msg) /\ p \in Seq(Msg) /\ x.msgSeq \in Nat /\ m \in Msg
      /\ q # <<>> /\ Increasing(q) /\ Last(q).seq = x.msgSeq
      /\ t.messages = SetLast(q, m) /\ t.msgSeq = m.seq /\ m.seq = Last(q).seq
      /\ m.role = "assistant" /\ t \in Sess
  BY DEF Ledger, Sess, Amends, SameID
<1>2. /\ t.messages # <<>> /\ Len(t.messages) = Len(q) /\ Last(t.messages) = m
      /\ \A i \in 1 .. Len(q) : i # Len(q) => t.messages[i] = q[i]
  <2>. DEFINE u == t.messages
  <2>1. u = SetLast(q, m) /\ q \in Seq(Msg) /\ m \in Msg /\ q # <<>>
    BY <1>1
  <2>. HIDE DEF q, u
  <2>2. /\ u # <<>> /\ Len(u) = Len(q) /\ Last(u) = m
        /\ \A i \in 1 .. Len(q) : i # Len(q) => u[i] = q[i]
    BY <2>1, SetLastType
  <2>. QED
    BY <2>2 DEF u
<1>3. Increasing(t.messages)
  BY <1>1, IncreasingSetLast
<1>4. Len(q) \in Nat /\ Len(q) >= 1 /\ Last(q) = q[Len(q)] /\ Len(q) # 1
  <2>1. Len(q) \in Nat /\ Len(q) >= 1 /\ Last(q) = q[Len(q)]
    BY <1>1, NotEmpty, LastType
  <2>2. q[1].role = "system"
    BY DEF Ledger, Instruction
  <2>. QED
    BY <2>1, <2>2
<1>5. Instruction(t.messages[1])
  <2>1. 1 \in 1 .. Len(q) /\ 1 # Len(q)
    BY <1>4
  <2>2. t.messages[1] = x.messages[1]
    BY <1>2, <2>1
  <2>. QED
    BY <2>2 DEF Ledger
<1>5a. t.messages[Len(q)] = m
  BY <1>2 DEF Last
<1>6. \A i \in 2 .. Len(t.messages) : t.messages[i].role # "system"
  <2>. SUFFICES ASSUME NEW i \in 2 .. Len(t.messages) PROVE t.messages[i].role # "system"
    OBVIOUS
  <2>1. CASE i = Len(q)
    BY <1>1, <1>5a, <2>1
  <2>2. CASE i # Len(q)
    <3>1. i \in 2 .. Len(q) /\ i \in 1 .. Len(q)
      BY <1>2, <1>4, <2>2
    <3>. QED
      BY <1>2, <2>2, <3>1 DEF Ledger
  <2>. QED
    BY <2>1, <2>2
<1>7. ASSUME t.provider # <<>> PROVE Instructs(t.provider) /\ p # <<>> /\ Last(t.provider) = z
  <2>1. /\ p # <<>> /\ z \in Msg /\ t.provider = SetLast(p, z)
        /\ z = Last(p) \/ SameID(Last(p), m)
    BY <1>7 DEF Amends
  <2>2. Instructs(p)
    BY <2>1 DEF Ledger
  <2>3. Last(t.provider) = z
    BY <1>1, <2>1, SetLastType
  <2>4. Instructs(t.provider)
    <3>1. CASE z = Last(p)
      BY <1>1, <2>1, <2>2, <3>1, SetLastSame
    <3>2. CASE SameID(Last(p), m)
      BY <1>1, <2>1, <2>2, <3>2, InstructsSetLast DEF SameID
    <3>. QED
      BY <2>1, <3>1, <3>2
  <2>. QED
    BY <2>1, <2>3, <2>4
<1>8. ASSUME Keeps(x, m, z) PROVE Mirror(t)
  BY <1>2, <1>7, <1>8 DEF Mirror, Keeps
<1>. HIDE DEF q, p
<1>. QED
  BY <1>1, <1>2, <1>3, <1>5, <1>6, <1>7, <1>8 DEF Ledger

(***************************************************************************)
(* Replaying a message                                                     *)
(***************************************************************************)
LEMMA RecordKinds ==
    /\ \A m : MessageRecord(m).kind = "message" /\ MessageRecord(m).message = m
    /\ \A p : ContextRecord(p).kind = "provider_context" /\ ContextRecord(p).provider = p
    /\ Unreadable.kind = "unreadable"
BY DEF MessageRecord, ContextRecord, Unreadable

LEMMA ReplayMessage ==
    ASSUME NEW t, NEW m \in Msg, NEW u, u = Replay(t, MessageRecord(m))
    PROVE  u = [t EXCEPT
                  !.messages = IF Known(t.messages, m) = {} THEN Append(t.messages, m)
                               ELSE [t.messages EXCEPT
                                        ![CHOOSE i \in Known(t.messages, m) : TRUE] = m],
                  !.msgSeq = IF m.seq > t.msgSeq THEN m.seq ELSE t.msgSeq]
<1>. DEFINE r == MessageRecord(m)
<1>1. r \in Line /\ r.kind = "message" /\ r.message = m
  BY LineTypes, RecordKinds
<1>. HIDE DEF r
<1>2. u = Replay(t, r)
  BY DEF r
<1>3. u = [t EXCEPT
             !.messages = IF Known(t.messages, r.message) = {} THEN Append(t.messages, r.message)
                          ELSE [t.messages EXCEPT
                                   ![CHOOSE i \in Known(t.messages, r.message) : TRUE] = r.message],
             !.msgSeq = IF r.message.seq > t.msgSeq THEN r.message.seq ELSE t.msgSeq]
  BY <1>1, <1>2, ReplayCases, Zenon
<1>. QED
  BY <1>1, <1>3

LEMMA ReplayUnreadable == \A t : Replay(t, Unreadable) = t
<1>1. Unreadable \in Line /\ Unreadable.kind = "unreadable"
  BY LineTypes, RecordKinds
<1>. QED
  BY <1>1, ReplayCases, Zenon

LEMMA ReplayContext ==
    ASSUME NEW t, NEW p \in Seq(Msg), NEW u, u = Replay(t, ContextRecord(p))
    PROVE  u = [t EXCEPT !.provider = p]
<1>. DEFINE r == ContextRecord(p)
<1>1. r \in Line /\ r.kind = "provider_context" /\ r.provider = p
  BY LineTypes, RecordKinds
<1>. HIDE DEF r
<1>2. u = Replay(t, r)
  BY DEF r
<1>. QED
  BY <1>1, <1>2, ReplayCases, Zenon

(* A message with a new ID.                                                *)
LEMMA ReplayNewer ==
    ASSUME NEW t \in Sess, NEW m \in Msg, m.seq > t.msgSeq,
           \A i \in 1 .. Len(t.messages) : t.messages[i].seq <= t.msgSeq,
           NEW u, u = Replay(t, MessageRecord(m))
    PROVE  /\ u \in Sess /\ u.messages = Append(t.messages, m) /\ u.msgSeq = m.seq
           /\ u.provider = t.provider
<1>1. t.messages \in Seq(Msg) /\ t.msgSeq \in Nat /\ m.seq \in Nat
  BY DEF Sess, Msg, Msgs
<1>2. Known(t.messages, m) = {}
  <2>1. ASSUME NEW i \in DOMAIN t.messages PROVE t.messages[i].seq # m.seq
    <3>1. i \in 1 .. Len(t.messages) /\ t.messages[i] \in Msg
      BY <1>1
    <3>2. t.messages[i].seq <= t.msgSeq /\ t.messages[i].seq \in Nat
      BY <3>1 DEF Msg, Msgs
    <3>. QED
      BY <1>1, <3>2
  <2>. QED
    BY <2>1 DEF Known, SameID
<1>. DEFINE q == Append(t.messages, m)
<1>3. q \in Seq(Msg)
  BY <1>1
<1>4. u = [t EXCEPT !.messages = q, !.msgSeq = m.seq]
  BY <1>2, ReplayMessage, Zenon
<1>. HIDE DEF q
<1>5. u \in Sess /\ u.messages = q /\ u.msgSeq = m.seq /\ u.provider = t.provider
  BY <1>1, <1>3, <1>4 DEF Sess
<1>. QED
  BY <1>5 DEF q

(* A later checkpoint of the last message.                                 *)
LEMMA ReplayAgain ==
    ASSUME NEW t \in Sess, NEW m \in Msg, t.messages # <<>>, Increasing(t.messages),
           Last(t.messages).seq = t.msgSeq, SameID(m, Last(t.messages)),
           NEW u, u = Replay(t, MessageRecord(m))
    PROVE  /\ u \in Sess /\ u.messages = SetLast(t.messages, m) /\ u.msgSeq = m.seq
           /\ u.provider = t.provider
<1>. DEFINE q == t.messages
            k == Len(q)
<1>1. /\ q \in Seq(Msg) /\ t.msgSeq \in Nat /\ m.seq \in Nat /\ m.seq = t.msgSeq
      /\ k \in 1 .. k /\ Last(q) = q[k] /\ DOMAIN q = 1 .. k
  BY LastType DEF Sess, Msg, Msgs, SameID
<1>2. Known(q, m) = {k}
  <2>1. k \in Known(q, m)
    BY <1>1 DEF Known, SameID
  <2>2. ASSUME NEW i \in Known(q, m) PROVE i = k
    <3>1. i \in 1 .. k /\ q[i].seq = m.seq
      BY <1>1 DEF Known, SameID
    <3>2. i < k => q[i].seq < q[k].seq
      BY <1>1, <3>1 DEF Increasing
    <3>3. q[k].seq = m.seq
      BY <1>1
    <3>. QED
      BY <1>1, <3>1, <3>2, <3>3
  <2>. QED
    BY <2>1, <2>2
<1>3. (CHOOSE i \in Known(q, m) : TRUE) = k
  BY <1>2
<1>. DEFINE r == SetLast(q, m)
<1>4. r \in Seq(Msg)
  BY <1>1, SetLastType
<1>5. u = [t EXCEPT !.messages = r, !.msgSeq = m.seq]
  <2>1. [q EXCEPT ![CHOOSE i \in Known(q, m) : TRUE] = m] = r
    BY <1>3 DEF SetLast
  <2>2. Known(q, m) # {}
    BY <1>2
  <2>3. u = [t EXCEPT
                  !.messages = IF Known(q, m) = {} THEN Append(q, m)
                               ELSE [q EXCEPT ![CHOOSE i \in Known(q, m) : TRUE] = m],
                  !.msgSeq = IF m.seq > t.msgSeq THEN m.seq ELSE t.msgSeq]
    BY ReplayMessage, Zenon
  <2>4. (IF m.seq > t.msgSeq THEN m.seq ELSE t.msgSeq) = m.seq
    BY <1>1
  <2>. HIDE DEF q, r
  <2>. QED
    BY <2>1, <2>2, <2>3, <2>4
<1>. HIDE DEF r
<1>6. u \in Sess /\ u.messages = r /\ u.msgSeq = m.seq /\ u.provider = t.provider
  BY <1>1, <1>4, <1>5 DEF Sess
<1>. QED
  BY <1>6 DEF r

(***************************************************************************)
(* What a log loads                                                        *)
(***************************************************************************)

(* Nothing in t is newer than x, and what is as new has the same ID.       *)
Behind(t, x) ==
    /\ t.msgSeq <= x.msgSeq
    /\ t.msgSeq = x.msgSeq => SameID(Last(t.messages), Last(x.messages))

LEMMA BehindOrder ==
    ASSUME NEW a, NEW b, NEW c, a.msgSeq \in Nat, b.msgSeq \in Nat, c.msgSeq \in Nat
    PROVE  /\ Behind(a, a)
           /\ Behind(a, b) /\ Behind(b, c) => Behind(a, c)
BY DEF Behind, SameID

(* The last message of x, stored after all that t has.                     *)
LEMMA ReplayLast ==
    ASSUME NEW t, Ledger(t), NEW x, Ledger(x), Behind(t, x), Last(x.messages).role # "system",
           NEW u, u = Replay(t, MessageRecord(Last(x.messages)))
    PROVE  /\ Ledger(u) /\ Behind(t, u) /\ Behind(u, x)
           /\ u.provider = t.provider /\ Last(u.messages) = Last(x.messages)
           /\ t.msgSeq # x.msgSeq => u.messages = Append(t.messages, Last(x.messages))
           /\ t.msgSeq = x.msgSeq => u.messages = SetLast(t.messages, Last(x.messages))
<1>. DEFINE m == Last(x.messages)
            q == t.messages
<1>1. /\ t \in Sess /\ x \in Sess /\ m \in Msg /\ q \in Seq(Msg) /\ q # <<>>
      /\ t.msgSeq \in Nat /\ x.msgSeq \in Nat /\ m.seq = x.msgSeq /\ m.seq \in Nat
      /\ Increasing(q) /\ Last(q).seq = t.msgSeq
  <2>1. /\ t \in Sess /\ x \in Sess /\ x.messages \in Seq(Msg) /\ x.messages # <<>>
        /\ q \in Seq(Msg) /\ q # <<>> /\ t.msgSeq \in Nat /\ x.msgSeq \in Nat /\ m.seq = x.msgSeq
        /\ Increasing(q) /\ Last(q).seq = t.msgSeq
    BY DEF Ledger, Sess
  <2>2. m \in Msg
    BY <2>1, LastType
  <2>. QED
    BY <2>1, <2>2
<1>2. Len(q) \in Nat /\ Len(q) >= 1 /\ Last(q) = q[Len(q)]
  BY <1>1, NotEmpty, LastType
<1>3. CASE t.msgSeq # x.msgSeq
  <2>1. m.seq > t.msgSeq
    BY <1>1, <1>3 DEF Behind
  <2>2. \A i \in 1 .. Len(q) : q[i].seq <= t.msgSeq
    <3>. SUFFICES ASSUME NEW i \in 1 .. Len(q) PROVE q[i].seq <= t.msgSeq
      OBVIOUS
    <3>0. q[i] \in Msg
      BY <1>1
    <3>1. q[i].seq \in Nat
      BY <3>0 DEF Msg, Msgs
    <3>2. i < Len(q) => q[i].seq < q[Len(q)].seq
      <4>1. Len(q) \in 1 .. Len(q)
        BY <1>2
      <4>. QED
        BY <1>1, <4>1 DEF Increasing
    <3>. QED
      BY <1>1, <1>2, <3>1, <3>2
  <2>3. /\ u \in Sess /\ u.messages = Append(q, m) /\ u.msgSeq = m.seq
        /\ u.provider = t.provider
    BY <1>1, <2>1, <2>2, ReplayNewer
  <2>. DEFINE v == u.messages
  <2>4. v = Append(q, m)
    BY <2>3
  <2>5. /\ v # <<>> /\ Len(v) = Len(q) + 1 /\ v[Len(q) + 1] = m
        /\ \A i \in 1 .. Len(q) : v[i] = q[i]
    <3>. HIDE DEF v, q
    <3>. QED
      BY <1>1, <2>4, AppendParts
  <2>6. Last(v) = m
    BY <2>5 DEF Last
  <2>7. Increasing(v)
    <3>1. Last(q).seq < m.seq
      BY <1>1, <2>1
    <3>. HIDE DEF v, q
    <3>. QED
      BY <1>1, <2>4, <3>1, IncreasingAppend
  <2>8. Instruction(v[1])
    BY <1>2, <2>5 DEF Ledger
  <2>9. \A i \in 2 .. Len(v) : v[i].role # "system"
    <3>. SUFFICES ASSUME NEW i \in 2 .. Len(v) PROVE v[i].role # "system"
      OBVIOUS
    <3>1. CASE i = Len(q) + 1
      BY <2>5, <3>1
    <3>2. CASE i # Len(q) + 1
      <4>1. i \in 2 .. Len(q) /\ i \in 1 .. Len(q)
        BY <1>2, <2>5, <3>2
      <4>. QED
        BY <2>5, <4>1 DEF Ledger
    <3>. QED
      BY <3>1, <3>2
  <2>10. u.provider # <<>> => Instructs(u.provider)
    BY <2>3 DEF Ledger
  <2>. HIDE DEF m, q
  <2>11. Ledger(u)
    BY <1>1, <2>3, <2>5, <2>6, <2>7, <2>8, <2>9, <2>10 DEF Ledger
  <2>12. Behind(t, u) /\ Behind(u, x)
    BY <1>1, <2>1, <2>3, <2>6 DEF Behind, SameID, m
  <2>. QED
    BY <1>3, <2>3, <2>6, <2>11, <2>12 DEF m, q
<1>4. CASE t.msgSeq = x.msgSeq
  <2>1. SameID(m, Last(q))
    BY <1>4 DEF Behind, SameID
  <2>2. /\ u \in Sess /\ u.messages = SetLast(q, m) /\ u.msgSeq = m.seq
        /\ u.provider = t.provider
    BY <1>1, <2>1, ReplayAgain
  <2>. DEFINE v == u.messages
  <2>3. v = SetLast(q, m)
    BY <2>2
  <2>4. /\ v # <<>> /\ Len(v) = Len(q) /\ Last(v) = m
        /\ \A i \in 1 .. Len(q) : i # Len(q) => v[i] = q[i]
    <3>. HIDE DEF v, q
    <3>. QED
      BY <1>1, <2>3, SetLastType
  <2>5. v[Len(q)] = m
    BY <2>4 DEF Last
  <2>6. Increasing(v)
    <3>1. Last(q).seq = m.seq
      BY <1>1, <1>4
    <3>. HIDE DEF v, q
    <3>. QED
      BY <1>1, <2>3, <3>1, IncreasingSetLast
  <2>7. Instruction(v[1])
    <3>1. Len(q) # 1
      <4>1. q[1].role = "system" /\ Last(q).role # "system"
        BY <2>1 DEF Ledger, Instruction, SameID
      <4>. QED
        BY <1>2, <4>1
    <3>2. 1 \in 1 .. Len(q) /\ 1 # Len(q)
      BY <1>2, <3>1
    <3>3. v[1] = q[1]
      BY <2>4, <3>2
    <3>. QED
      BY <3>3 DEF Ledger
  <2>8. \A i \in 2 .. Len(v) : v[i].role # "system"
    <3>. SUFFICES ASSUME NEW i \in 2 .. Len(v) PROVE v[i].role # "system"
      OBVIOUS
    <3>1. CASE i = Len(q)
      BY <2>5, <3>1
    <3>2. CASE i # Len(q)
      <4>1. i \in 2 .. Len(q) /\ i \in 1 .. Len(q)
        BY <1>2, <2>4, <3>2
      <4>. QED
        BY <2>4, <3>2, <4>1 DEF Ledger
    <3>. QED
      BY <3>1, <3>2
  <2>9. u.provider # <<>> => Instructs(u.provider)
    BY <2>2 DEF Ledger
  <2>. HIDE DEF m, q
  <2>10. Ledger(u)
    BY <1>1, <2>2, <2>4, <2>6, <2>7, <2>8, <2>9 DEF Ledger
  <2>11. Behind(t, u) /\ Behind(u, x)
    <3>1. t.msgSeq = u.msgSeq /\ u.msgSeq = x.msgSeq
      BY <1>1, <1>4, <2>2
    <3>2. SameID(Last(q), Last(u.messages)) /\ SameID(Last(u.messages), Last(x.messages))
      BY <2>1, <2>4 DEF SameID, m
    <3>. QED
      BY <1>1, <3>1, <3>2 DEF Behind, q
  <2>. QED
    BY <1>4, <2>2, <2>4, <2>10, <2>11 DEF m, q
<1>. QED
  BY <1>3, <1>4

LEMMA FrontParts ==
    ASSUME NEW S, NEW q \in Seq(S), q # <<>>, NEW e \in S
    PROVE  /\ Front(q) \in Seq(S) /\ Len(Front(q)) = Len(q) - 1
           /\ q = Append(Front(q), Last(q)) /\ SetLast(q, e) = Append(Front(q), e)
           /\ \A i \in 1 .. Len(q) - 1 : Front(q)[i] = q[i]
<1>. DEFINE n == Len(q)
            f == SubSeq(q, 1, n - 1)
<1>1. n \in Nat /\ n >= 1 /\ q \in [1 .. n -> S]
  OBVIOUS
<1>2. /\ f \in Seq(S) /\ Len(f) = n - 1 /\ \A i \in 1 .. n - 1 : f[i] = q[i]
  BY <1>1
<1>3. Front(q) = f
  BY DEF Front
<1>. HIDE DEF f
<1>4. \A d \in S : /\ Append(f, d) \in Seq(S) /\ Len(Append(f, d)) = n
                   /\ Append(f, d)[n] = d
                   /\ \A i \in 1 .. n - 1 : Append(f, d)[i] = q[i]
  <2>. SUFFICES ASSUME NEW d \in S
                PROVE  /\ Append(f, d) \in Seq(S) /\ Len(Append(f, d)) = n
                       /\ Append(f, d)[n] = d
                       /\ \A i \in 1 .. n - 1 : Append(f, d)[i] = q[i]
    OBVIOUS
  <2>. DEFINE r == Append(f, d)
  <2>1. /\ r \in Seq(S) /\ Len(r) = Len(f) + 1
        /\ r[Len(f) + 1] = d /\ \A i \in 1 .. Len(f) : r[i] = f[i]
    BY <1>2
  <2>2. Len(f) = n - 1 /\ (n - 1) + 1 = n
    BY <1>1, <1>2
  <2>. HIDE DEF n, r
  <2>3. \A i \in 1 .. n - 1 : r[i] = q[i]
    BY <1>2, <2>1, <2>2
  <2>. QED
    BY <2>1, <2>2, <2>3 DEF r
<1>5. q[n] \in S /\ Last(q) = q[n]
  BY <1>1 DEF Last
<1>6. q = Append(f, q[n])
  <2>. DEFINE r == Append(f, q[n])
  <2>1. /\ r \in Seq(S) /\ Len(r) = n /\ r[n] = q[n] /\ \A i \in 1 .. n - 1 : r[i] = q[i]
    BY <1>4, <1>5
  <2>. HIDE DEF r
  <2>2. \A i \in 1 .. n : r[i] = q[i]
    BY <1>1, <2>1
  <2>3. r = q
    BY <1>1, <2>1, <2>2
  <2>. QED
    BY <2>3 DEF r
<1>7. SetLast(q, e) = Append(f, e)
  <2>. DEFINE r == Append(f, e)
              u == SetLast(q, e)
  <2>1. /\ r \in Seq(S) /\ Len(r) = n /\ r[n] = e /\ \A i \in 1 .. n - 1 : r[i] = q[i]
    BY <1>4
  <2>2. u \in [1 .. n -> S] /\ u[n] = e /\ \A i \in 1 .. n - 1 : u[i] = q[i]
    <3>1. u = [q EXCEPT ![n] = e] /\ n \in 1 .. n
      BY <1>1 DEF SetLast
    <3>. HIDE DEF u, n
    <3>2. \A i \in 1 .. n - 1 : i \in 1 .. n /\ i # n
      BY <1>1
    <3>3. u \in [1 .. n -> S] /\ u[n] = e
      BY <1>1, <3>1
    <3>4. \A i \in 1 .. n - 1 : u[i] = q[i]
      BY <1>1, <3>1, <3>2
    <3>. QED
      BY <3>3, <3>4
  <2>. HIDE DEF r, u
  <2>3. \A i \in 1 .. n : r[i] = u[i]
    BY <1>1, <2>1, <2>2
  <2>4. r = u
    BY <1>1, <2>1, <2>2, <2>3
  <2>. QED
    BY <2>4 DEF r, u
<1>. QED
  BY <1>2, <1>3, <1>5, <1>6, <1>7

(* What the first k lines of a log load.                                   *)
At(log, k) == Replayed(SubSeq(log, 1, k))

LEMMA AtAppend ==
    ASSUME NEW log \in Seq(Line), NEW r \in Line, NEW longer, longer = Append(log, r)
    PROVE  /\ \A k \in 0 .. Len(log) : At(longer, k) = At(log, k)
           /\ At(longer, Len(log) + 1) = Replay(Replayed(log), r)
           /\ Replayed(longer) = Replay(Replayed(log), r)
           /\ At(log, Len(log)) = Replayed(log)
<1>. DEFINE n == Len(log)
<1>1. n \in Nat /\ longer \in Seq(Line) /\ Len(longer) = n + 1
  OBVIOUS
<1>2. \A k \in 0 .. n : SubSeq(longer, 1, k) = SubSeq(log, 1, k)
  OBVIOUS
<1>3. SubSeq(longer, 1, n + 1) = longer
  BY <1>1
<1>4. SubSeq(log, 1, n) = log
  OBVIOUS
<1>5. Replayed(longer) = Replay(Replayed(log), r)
  BY ReplayedAppend
<1>. QED
  BY <1>2, <1>3, <1>4, <1>5 DEF At

Loads(log) ==
    /\ log # <<>>
    /\ \A k \in 1 .. Len(log) : Ledger(At(log, k))
    /\ \A k, l \in 1 .. Len(log) : k <= l => Behind(At(log, k), At(log, l))

LEMMA LoadsAll ==
    ASSUME NEW log \in Seq(Line), Loads(log)
    PROVE  Ledger(Replayed(log)) /\ \A k \in 1 .. Len(log) : Behind(At(log, k), Replayed(log))
<1>1. At(log, Len(log)) = Replayed(log)
  <2>1. SubSeq(log, 1, Len(log)) = log
    OBVIOUS
  <2>. QED
    BY <2>1 DEF At
<1>2. Len(log) \in 1 .. Len(log) /\ Len(log) \in Nat
  BY DEF Loads
<1>3. \A k \in 1 .. Len(log) : Behind(At(log, k), At(log, Len(log)))
  BY <1>2 DEF Loads
<1>4. Ledger(At(log, Len(log)))
  BY <1>2 DEF Loads
<1>. QED
  BY <1>1, <1>3, <1>4

LEMMA LedgerCounter ==
    ASSUME NEW x, Ledger(x)
    PROVE  x.msgSeq \in Nat /\ x \in Sess
BY DEF Ledger, Sess

LEMMA LoadsAppend ==
    ASSUME NEW log \in Seq(Line), NEW r \in Line, Loads(log),
           Ledger(Replay(Replayed(log), r)), Behind(Replayed(log), Replay(Replayed(log), r)),
           NEW longer, longer = Append(log, r)
    PROVE  Loads(longer)
<1>. DEFINE n == Len(log)
            u == Replay(Replayed(log), r)
<1>1. n \in Nat /\ Len(longer) = n + 1 /\ longer # <<>>
  BY AppendParts
<1>2. /\ \A k \in 1 .. n : At(longer, k) = At(log, k)
      /\ At(longer, n + 1) = u
  <2>1. /\ \A k \in 0 .. n : At(longer, k) = At(log, k)
        /\ At(longer, n + 1) = u
    BY AtAppend
  <2>2. \A k \in 1 .. n : k \in 0 .. n
    BY <1>1
  <2>. HIDE DEF n, u
  <2>. QED
    BY <2>1, <2>2
<1>3. /\ Ledger(u) /\ Behind(Replayed(log), u) /\ Ledger(Replayed(log))
      /\ \A k \in 1 .. n : Behind(At(log, k), Replayed(log))
  BY LoadsAll
<1>4. \A k \in 1 .. n : Ledger(At(log, k))
  BY DEF Loads
<1>5. \A k, l \in 1 .. n : k <= l => Behind(At(log, k), At(log, l))
  BY DEF Loads
<1>. HIDE DEF n, u
<1>6. \A k \in 1 .. n + 1 : k # n + 1 => k \in 1 .. n
  BY <1>1
<1>7. \A k \in 1 .. n + 1 : Ledger(At(longer, k))
  BY <1>2, <1>3, <1>4, <1>6, Zenon
<1>8. ASSUME NEW k \in 1 .. n + 1, NEW l \in 1 .. n + 1, k <= l
      PROVE  Behind(At(longer, k), At(longer, l))
  <2>1. CASE l # n + 1
    <3>1. k \in 1 .. n /\ l \in 1 .. n
      BY <1>1, <1>8, <2>1
    <3>. QED
      BY <1>2, <1>5, <1>8, <3>1
  <2>2. CASE l = n + 1 /\ k = n + 1
    BY <1>2, <1>3, <2>2, BehindOrder, LedgerCounter
  <2>3. CASE l = n + 1 /\ k # n + 1
    <3>1. k \in 1 .. n
      BY <1>6, <2>3
    <3>. DEFINE a == At(log, k)
                b == Replayed(log)
    <3>2. Ledger(a) /\ Ledger(b) /\ Ledger(u) /\ Behind(a, b) /\ Behind(b, u)
      BY <1>3, <1>4, <3>1
    <3>3. a = At(longer, k) /\ u = At(longer, l)
      BY <1>2, <2>3, <3>1
    <3>. HIDE DEF a, b
    <3>4. a.msgSeq \in Nat /\ b.msgSeq \in Nat /\ u.msgSeq \in Nat
      BY <3>2, LedgerCounter
    <3>5. Behind(a, u)
      BY <3>2, <3>4, BehindOrder
    <3>. QED
      BY <3>3, <3>5
  <2>. QED
    BY <2>1, <2>2, <2>3
<1>. QED
  BY <1>1, <1>7, <1>8 DEF Loads

LEMMA LoadsFront ==
    ASSUME NEW log \in Seq(Line), Loads(log), Len(log) >= 2
    PROVE  Loads(Front(log)) /\ Behind(Replayed(Front(log)), Replayed(log))
<1>. DEFINE n == Len(log)
            f == Front(log)
            e == Last(log)
<1>1. n \in Nat /\ f \in Seq(Line) /\ Len(f) = n - 1 /\ log = Append(f, e) /\ e \in Line
  BY FrontParts, LastType DEF Loads
<1>. HIDE DEF f, e
<1>2. \A k \in 0 .. n - 1 : At(log, k) = At(f, k)
  <2>1. \A k \in 0 .. Len(f) : At(log, k) = At(f, k)
    BY <1>1, AtAppend
  <2>. QED
    BY <1>1, <2>1
<1>3. \A k \in 1 .. n - 1 : k \in 0 .. n - 1 /\ k \in 1 .. n
  BY <1>1
<1>4. f # <<>> /\ n - 1 \in 1 .. n - 1
  BY <1>1
<1>5. Loads(f)
  <2>1. \A k \in 1 .. Len(f) : Ledger(At(f, k))
    BY <1>1, <1>2, <1>3 DEF Loads
  <2>2. \A k, l \in 1 .. Len(f) : k <= l => Behind(At(f, k), At(f, l))
    BY <1>1, <1>2, <1>3 DEF Loads
  <2>. QED
    BY <1>4, <2>1, <2>2 DEF Loads
<1>6. Behind(At(log, n - 1), Replayed(log))
  BY <1>3, <1>4, LoadsAll
<1>7. At(log, n - 1) = Replayed(f)
  <2>1. At(f, Len(f)) = Replayed(f)
    BY <1>1, AtAppend
  <2>2. n - 1 \in 0 .. n - 1
    BY <1>3, <1>4
  <2>. QED
    BY <1>1, <1>2, <2>1, <2>2
<1>. QED
  BY <1>5, <1>6, <1>7 DEF f

LogKept(x) ==
    /\ x.persisted = FALSE => x.log = <<>> /\ x.eol = TRUE
    /\ x.persisted = TRUE =>
          /\ Loads(x.log) /\ Behind(Replayed(x.log), x)
          /\ x.eol = FALSE => Len(x.log) >= 2

(* A record that takes whatever is behind t to a ledger behind t.          *)
Extending(t, r) ==
    \A y : Ledger(y) /\ Behind(y, t) =>
              /\ Ledger(Replay(y, r))
              /\ Behind(y, Replay(y, r)) /\ Behind(Replay(y, r), t)

LEMMA UnreadableKept ==
    ASSUME NEW log \in Seq(Line), Loads(log), NEW longer, longer = Append(log, Unreadable)
    PROVE  longer \in Seq(Line) /\ Loads(longer) /\ Replayed(longer) = Replayed(log)
<1>1. Unreadable \in Line /\ Replay(Replayed(log), Unreadable) = Replayed(log)
  BY LineTypes, ReplayUnreadable
<1>2. Ledger(Replayed(log))
  BY LoadsAll
<1>3. Behind(Replayed(log), Replayed(log))
  BY <1>2, LedgerCounter, BehindOrder
<1>4. Loads(longer)
  BY <1>1, <1>2, <1>3, LoadsAppend
<1>5. Replayed(longer) = Replayed(log)
  BY <1>1, ReplayedAppend
<1>. QED
  BY <1>1, <1>4, <1>5

LEMMA LoggedKept ==
    ASSUME NEW x \in Sess, NEW t \in Sess, NEW r \in Line, LogKept(x), Logged(x, t, r),
           Behind(x, t), Extending(t, r)
    PROVE  LogKept(t)
<1>1. CASE x.persisted = FALSE
  BY <1>1 DEF LogKept, Logged, SameLog
<1>2. CASE x.persisted = TRUE /\ x.eol = TRUE
  <2>. DEFINE l == x.log
              y == Replayed(l)
              u == Replay(y, r)
  <2>1. l \in Seq(Line) /\ Loads(l) /\ Behind(y, x) /\ t.log = Append(l, r) /\ t.eol = TRUE
        /\ t.persisted = TRUE
    BY <1>2 DEF LogKept, Logged, Sess
  <2>2. Ledger(y)
    BY <2>1, LoadsAll
  <2>. HIDE DEF l
  <2>3. Behind(y, t)
    <3>1. y.msgSeq \in Nat /\ x.msgSeq \in Nat /\ t.msgSeq \in Nat
      BY <2>2, LedgerCounter DEF Sess
    <3>. HIDE DEF y
    <3>. QED
      BY <2>1, <3>1, BehindOrder
  <2>4. Ledger(u) /\ Behind(y, u) /\ Behind(u, t)
    <3>. HIDE DEF y
    <3>. QED
      BY <2>2, <2>3 DEF Extending
  <2>5. Loads(t.log)
    BY <2>1, <2>4, LoadsAppend
  <2>6. Replayed(t.log) = u
    BY <2>1, ReplayedAppend
  <2>. HIDE DEF y, u
  <2>. QED
    BY <2>1, <2>4, <2>5, <2>6 DEF LogKept
<1>3. CASE x.persisted = TRUE /\ x.eol = FALSE
  <2>. DEFINE l == x.log
              f == Front(l)
  <2>1. /\ l \in Seq(Line) /\ Loads(l) /\ Behind(Replayed(l), x) /\ Len(l) >= 2
        /\ t.log = SetLast(l, Unreadable) /\ t.eol = TRUE /\ t.persisted = TRUE
    BY <1>3 DEF LogKept, Logged, Sess
  <2>2. Unreadable \in Line /\ l # <<>>
    BY <2>1, LineTypes DEF Loads
  <2>. HIDE DEF l
  <2>3. f \in Seq(Line) /\ t.log = Append(f, Unreadable)
    BY <2>1, <2>2, FrontParts
  <2>4. Loads(f) /\ Behind(Replayed(f), Replayed(l))
    BY <2>1, LoadsFront
  <2>. HIDE DEF f
  <2>5. Loads(t.log) /\ Replayed(t.log) = Replayed(f)
    BY <2>3, <2>4, UnreadableKept
  <2>6. Behind(Replayed(f), t)
    <3>. DEFINE a == Replayed(f)
                b == Replayed(l)
    <3>1. Ledger(a) /\ Ledger(b)
      BY <2>1, <2>3, <2>4, LoadsAll
    <3>2. Behind(a, b) /\ Behind(b, x)
      BY <2>1, <2>4
    <3>. HIDE DEF a, b
    <3>3. a.msgSeq \in Nat /\ b.msgSeq \in Nat /\ x.msgSeq \in Nat /\ t.msgSeq \in Nat
      BY <3>1, LedgerCounter DEF Sess
    <3>4. Behind(a, x)
      BY <3>2, <3>3, BehindOrder
    <3>5. Behind(a, t)
      BY <3>3, <3>4, BehindOrder
    <3>. QED
      BY <3>5 DEF a
  <2>. QED
    BY <2>1, <2>5, <2>6 DEF LogKept
<1>. QED
  BY <1>1, <1>2, <1>3 DEF Sess

LEMMA MessageExtends ==
    ASSUME NEW t, Ledger(t), NEW m, m = Last(t.messages), m.role # "system"
    PROVE  Extending(t, MessageRecord(m))
BY ReplayLast DEF Extending

LEMMA ContextExtends ==
    ASSUME NEW t, Ledger(t), NEW p \in Seq(Msg), Instructs(p)
    PROVE  Extending(t, ContextRecord(p))
<1>. SUFFICES ASSUME NEW y, Ledger(y), Behind(y, t)
              PROVE  /\ Ledger(Replay(y, ContextRecord(p)))
                     /\ Behind(y, Replay(y, ContextRecord(p)))
                     /\ Behind(Replay(y, ContextRecord(p)), t)
  BY DEF Extending
<1>. DEFINE u == Replay(y, ContextRecord(p))
<1>1. u = [y EXCEPT !.provider = p]
  BY ReplayContext
<1>. HIDE DEF u
<1>2. y \in Sess /\ y.msgSeq \in Nat
  BY LedgerCounter
<1>3. u \in Sess /\ u.messages = y.messages /\ u.provider = p /\ u.msgSeq = y.msgSeq
  BY <1>1, <1>2 DEF Sess
<1>4. Ledger(u)
  BY <1>3 DEF Ledger
<1>5. Behind(y, u) /\ Behind(u, t)
  <2>1. Behind(y, y)
    BY <1>2, BehindOrder
  <2>. QED
    BY <1>3, <2>1 DEF Behind
<1>. QED
  BY <1>4, <1>5 DEF u

(***************************************************************************)
(* What the log has of the ledger                                          *)
(***************************************************************************)
(* n is what the log has of m; Z are the messages it may lack calls of.    *)
Tells(n, m, Z) ==
    /\ SameID(n, m)
    /\ \/ m.streaming = TRUE
       \/ n = m
       \/ m.seq \in Z /\ Lengthens(n, m)

Stored(t, x, Z) ==
    /\ Len(t.messages) = Len(x.messages)
    /\ \A i \in 1 .. Len(x.messages) : Tells(t.messages[i], x.messages[i], Z)

Durable(x, Z) == x.eol = TRUE /\ (x.persisted = TRUE => Stored(Replayed(x.log), x, Z))

LEMMA DurableGrows ==
    ASSUME NEW x, NEW Z, NEW W, Z \subseteq W, Durable(x, Z)
    PROVE  Durable(x, W)
BY DEF Durable, Stored, Tells

LEMMA LengthensFields ==
    ASSUME NEW n \in Msg, NEW m \in Msg
    PROVE  Lengthens(n, m) <=>
              /\ n.seq = m.seq /\ n.role = m.role /\ n.content = m.content
              /\ n.thinking = m.thinking /\ n.answers = m.answers
              /\ n.streaming = m.streaming
<1>. DEFINE k == [m EXCEPT !.calls = n.calls, !.signed = n.signed]
<1>1. n \in Msgs /\ m \in Msgs
  BY DEF Msg
<1>2. /\ k \in Msgs /\ k.seq = m.seq /\ k.role = m.role /\ k.content = m.content
      /\ k.thinking = m.thinking /\ k.answers = m.answers /\ k.streaming = m.streaming
      /\ k.calls = n.calls /\ k.signed = n.signed
  BY <1>1 DEF Msgs
<1>. HIDE DEF k
<1>3. ASSUME /\ n.seq = k.seq /\ n.role = k.role /\ n.content = k.content
             /\ n.thinking = k.thinking /\ n.answers = k.answers
             /\ n.streaming = k.streaming /\ n.calls = k.calls /\ n.signed = k.signed
      PROVE  n = k
  <2>1. ASSUME NEW r \in Msgs
        PROVE  r = [seq |-> r.seq, role |-> r.role, content |-> r.content,
                    thinking |-> r.thinking, signed |-> r.signed, calls |-> r.calls,
                    answers |-> r.answers, streaming |-> r.streaming]
    BY DEF Msgs
  <2>2. n = [seq |-> n.seq, role |-> n.role, content |-> n.content,
             thinking |-> n.thinking, signed |-> n.signed, calls |-> n.calls,
             answers |-> n.answers, streaming |-> n.streaming]
    BY <1>1, <2>1
  <2>3. k = [seq |-> k.seq, role |-> k.role, content |-> k.content,
             thinking |-> k.thinking, signed |-> k.signed, calls |-> k.calls,
             answers |-> k.answers, streaming |-> k.streaming]
    BY <1>2, <2>1
  <2>. QED
    BY <1>3, <2>2, <2>3
<1>. QED
  BY <1>2, <1>3 DEF Lengthens, k

LEMMA LengthensTwice ==
    ASSUME NEW n \in Msg, NEW m \in Msg, NEW k \in Msg, Lengthens(n, m), Lengthens(k, m)
    PROVE  Lengthens(n, k) /\ k.streaming = m.streaming
BY LengthensFields

LEMMA StoredLast ==
    ASSUME NEW t, Ledger(t), NEW x, Ledger(x), NEW Z, Stored(t, x, Z)
    PROVE  t.msgSeq = x.msgSeq /\ SameID(Last(t.messages), Last(x.messages))
<1>1. /\ t.messages \in Seq(Msg) /\ x.messages \in Seq(Msg)
      /\ t.messages # <<>> /\ x.messages # <<>>
      /\ Last(t.messages).seq = t.msgSeq /\ Last(x.messages).seq = x.msgSeq
  BY DEF Ledger, Sess
<1>2. /\ Len(x.messages) \in 1 .. Len(x.messages)
      /\ Last(t.messages) = t.messages[Len(t.messages)]
      /\ Last(x.messages) = x.messages[Len(x.messages)]
  BY <1>1, LastType
<1>3. SameID(Last(t.messages), Last(x.messages))
  BY <1>2 DEF Stored, Tells
<1>. QED
  BY <1>1, <1>3 DEF SameID

(* Adding and amending a message.                                          *)
LEMMA StoredAppend ==
    ASSUME NEW t \in Sess, NEW x \in Sess, NEW Z, Stored(t, x, Z), NEW m \in Msg,
           NEW u, u.messages = Append(t.messages, m), NEW y, y.messages = Append(x.messages, m)
    PROVE  Stored(u, y, Z)
<1>. DEFINE a == t.messages
            b == x.messages
            c == u.messages
            d == y.messages
<1>1. a \in Seq(Msg) /\ b \in Seq(Msg) /\ c = Append(a, m) /\ d = Append(b, m)
  BY DEF Sess
<1>2. /\ Len(a) = Len(b)
      /\ \A i \in 1 .. Len(b) : Tells(a[i], b[i], Z)
  BY DEF Stored
<1>. HIDE DEF a, b, c, d
<1>3. /\ Len(c) = Len(a) + 1 /\ c[Len(a) + 1] = m /\ \A i \in 1 .. Len(a) : c[i] = a[i]
  BY <1>1, AppendParts
<1>4. /\ Len(d) = Len(b) + 1 /\ d[Len(b) + 1] = m /\ \A i \in 1 .. Len(b) : d[i] = b[i]
  BY <1>1, AppendParts
<1>5. Len(b) \in Nat
  BY <1>1
<1>6. ASSUME NEW i \in 1 .. Len(d)
      PROVE  Tells(c[i], d[i], Z)
  <2>1. CASE i = Len(b) + 1
    BY <1>2, <1>3, <1>4, <2>1 DEF Tells, SameID
  <2>2. CASE i # Len(b) + 1
    <3>1. i \in 1 .. Len(b)
      BY <1>4, <1>5, <2>2
    <3>. QED
      BY <1>2, <1>3, <1>4, <3>1
  <2>. QED
    BY <2>1, <2>2
<1>. QED
  BY <1>2, <1>3, <1>4, <1>6 DEF Stored, c, d

LEMMA StoredSetLast ==
    ASSUME NEW t \in Sess, NEW x \in Sess, NEW Z, Stored(t, x, Z), x.messages # <<>>,
           NEW m \in Msg, NEW n \in Msg, Tells(n, m, Z),
           NEW u, u.messages = SetLast(t.messages, n), NEW y, y.messages = SetLast(x.messages, m)
    PROVE  Stored(u, y, Z)
<1>. DEFINE a == t.messages
            b == x.messages
            c == u.messages
            d == y.messages
<1>1. a \in Seq(Msg) /\ b \in Seq(Msg) /\ c = SetLast(a, n) /\ d = SetLast(b, m) /\ b # <<>>
  BY DEF Sess
<1>2. /\ Len(a) = Len(b)
      /\ \A i \in 1 .. Len(b) : Tells(a[i], b[i], Z)
  BY DEF Stored
<1>. HIDE DEF a, b, c, d
<1>3. a # <<>>
  BY <1>1, <1>2, NotEmpty
<1>4. /\ Len(c) = Len(a) /\ Last(c) = n /\ \A i \in 1 .. Len(a) : i # Len(a) => c[i] = a[i]
  BY <1>1, <1>3, SetLastType
<1>5. /\ Len(d) = Len(b) /\ Last(d) = m /\ \A i \in 1 .. Len(b) : i # Len(b) => d[i] = b[i]
  BY <1>1, SetLastType
<1>6. ASSUME NEW i \in 1 .. Len(d)
      PROVE  Tells(c[i], d[i], Z)
  <2>1. CASE i = Len(b)
    <3>1. c[i] = n /\ d[i] = m
      BY <1>2, <1>4, <1>5, <2>1 DEF Last
    <3>. QED
      BY <3>1
  <2>2. CASE i # Len(b)
    BY <1>2, <1>4, <1>5, <2>2
  <2>. QED
    BY <2>1, <2>2
<1>. QED
  BY <1>2, <1>4, <1>5, <1>6 DEF Stored, c, d

LEMMA AddsKept ==
    ASSUME NEW x, NEW t, NEW m, Ledger(x), LogKept(x), Adds(x, t, m), m.role # "system"
    PROVE  /\ Ledger(t) /\ LogKept(t) /\ Last(t.messages) = m
           /\ \A Z : Durable(x, Z) => Durable(t, Z)
<1>1. /\ x \in Sess /\ t \in Sess /\ m \in Msg /\ x.msgSeq \in Nat /\ t.msgSeq = x.msgSeq + 1
      /\ t.messages = Append(x.messages, m) /\ Logged(x, t, MessageRecord(m))
  BY LedgerCounter DEF Adds
<1>2. Ledger(t) /\ Last(t.messages) = m
  BY AddsLedger
<1>3. Behind(x, t)
  BY <1>1 DEF Behind
<1>4. MessageRecord(m) \in Line
  BY <1>1, LineTypes
<1>5. Extending(t, MessageRecord(m))
  BY <1>2, MessageExtends
<1>6. LogKept(t)
  BY <1>1, <1>3, <1>4, <1>5, LoggedKept
<1>7. ASSUME NEW Z, Durable(x, Z) PROVE Durable(t, Z)
  <2>1. CASE x.persisted = FALSE
    BY <1>1, <1>7, <2>1 DEF Logged, SameLog, Durable
  <2>2. CASE x.persisted = TRUE
    <3>. DEFINE l == x.log
                y == Replayed(l)
                u == Replay(y, MessageRecord(m))
    <3>1. /\ l \in Seq(Line) /\ t.log = Append(l, MessageRecord(m)) /\ t.eol = TRUE
          /\ Loads(l) /\ Behind(y, x) /\ Stored(y, x, Z)
      BY <1>1, <1>7, <2>2 DEF Logged, Durable, LogKept, Sess
    <3>2. Ledger(y)
      BY <3>1, LoadsAll
    <3>3. Replayed(t.log) = u
      BY <1>4, <3>1, ReplayedAppend
    <3>. HIDE DEF y, l
    <3>4. y.msgSeq = x.msgSeq /\ y \in Sess
      BY <3>1, <3>2, StoredLast, LedgerCounter
    <3>5. Behind(y, t) /\ y.msgSeq # t.msgSeq
      BY <1>1, <3>4 DEF Behind
    <3>6. u.messages = Append(y.messages, m)
      BY <1>2, <3>2, <3>5, ReplayLast
    <3>. HIDE DEF u
    <3>7. Stored(u, t, Z)
      BY <1>1, <3>1, <3>4, <3>6, StoredAppend
    <3>. QED
      BY <3>1, <3>3, <3>7 DEF Durable
  <2>. QED
    BY <1>1, <2>1, <2>2 DEF Sess
<1>. QED
  BY <1>2, <1>6, <1>7

(* Where an amendment leaves the ledger.                                   *)
LEMMA AmendsBehind ==
    ASSUME NEW x, NEW t, NEW m, NEW z, Ledger(x), Amends(x, t, m, z),
           Last(x.messages).role = "assistant"
    PROVE  /\ x \in Sess /\ t \in Sess /\ m \in Msg /\ x.msgSeq \in Nat /\ t.msgSeq = x.msgSeq
           /\ t.messages = SetLast(x.messages, m) /\ x.messages # <<>>
           /\ Ledger(t) /\ Last(t.messages) = m /\ m.role = "assistant"
           /\ Keeps(x, m, z) => Mirror(t)
           /\ SameID(Last(x.messages), m) /\ SameID(m, Last(x.messages))
           /\ Behind(x, t)
<1>1. /\ x \in Sess /\ t \in Sess /\ m \in Msg /\ x.msgSeq \in Nat /\ t.msgSeq = x.msgSeq
      /\ t.messages = SetLast(x.messages, m) /\ x.messages # <<>>
      /\ SameID(Last(x.messages), m) /\ SameID(m, Last(x.messages))
  BY LedgerCounter DEF Amends, Ledger, SameID
<1>2. /\ Ledger(t) /\ Last(t.messages) = m /\ m.role = "assistant"
      /\ Keeps(x, m, z) => Mirror(t)
  BY AmendsLedger
<1>3. Behind(x, t)
  BY <1>1, <1>2 DEF Behind
<1>. QED
  BY <1>1, <1>2, <1>3

LEMMA AmendsKept ==
    ASSUME NEW x, NEW t, NEW m, NEW z, Ledger(x), LogKept(x),
           Last(x.messages).role = "assistant",
           Amends(x, t, m, z), Logged(x, t, MessageRecord(m))
    PROVE  /\ Ledger(t) /\ LogKept(t) /\ Last(t.messages) = m /\ m.role = "assistant"
           /\ Keeps(x, m, z) => Mirror(t)
           /\ \A Z : Durable(x, Z) => Durable(t, Z)
<1>1. /\ x \in Sess /\ t \in Sess /\ m \in Msg /\ x.msgSeq \in Nat /\ t.msgSeq = x.msgSeq
      /\ t.messages = SetLast(x.messages, m) /\ x.messages # <<>>
      /\ Ledger(t) /\ Last(t.messages) = m /\ m.role = "assistant"
      /\ Keeps(x, m, z) => Mirror(t)
      /\ SameID(Last(x.messages), m) /\ Behind(x, t)
  BY AmendsBehind
<1>2. MessageRecord(m) \in Line
  BY <1>1, LineTypes
<1>3. Extending(t, MessageRecord(m))
  <2>1. m.role # "system"
    BY <1>1
  <2>. QED
    BY <1>1, <2>1, MessageExtends
<1>4. LogKept(t)
  BY <1>1, <1>2, <1>3, LoggedKept
<1>5. ASSUME NEW Z, Durable(x, Z) PROVE Durable(t, Z)
  <2>1. CASE x.persisted = FALSE
    BY <1>1, <1>5, <2>1 DEF Logged, SameLog, Durable
  <2>2. CASE x.persisted = TRUE
    <3>. DEFINE l == x.log
                y == Replayed(l)
                u == Replay(y, MessageRecord(m))
    <3>1. /\ l \in Seq(Line) /\ t.log = Append(l, MessageRecord(m)) /\ t.eol = TRUE
          /\ Loads(l) /\ Behind(y, x) /\ Stored(y, x, Z)
      BY <1>1, <1>5, <2>2 DEF Logged, Durable, LogKept, Sess
    <3>2. Ledger(y)
      BY <3>1, LoadsAll
    <3>3. Replayed(t.log) = u
      BY <1>2, <3>1, ReplayedAppend
    <3>. HIDE DEF y, l
    <3>4. y.msgSeq = x.msgSeq /\ y \in Sess /\ SameID(Last(y.messages), Last(x.messages))
      BY <3>1, <3>2, StoredLast, LedgerCounter
    <3>5. Behind(y, t) /\ y.msgSeq = t.msgSeq
      BY <1>1, <3>4 DEF Behind, SameID
    <3>6. u.messages = SetLast(y.messages, m)
      <4>1. m.role # "system"
        BY <1>1
      <4>. QED
        BY <1>1, <3>2, <3>5, <4>1, ReplayLast
    <3>. HIDE DEF u
    <3>7. Stored(u, t, Z)
      <4>1. Tells(m, m, Z)
        BY DEF Tells, SameID
      <4>. QED
        BY <1>1, <3>1, <3>4, <3>6, <4>1, StoredSetLast
    <3>. QED
      BY <3>1, <3>3, <3>7 DEF Durable
  <2>. QED
    BY <1>1, <2>1, <2>2 DEF Sess
<1>. QED
  BY <1>1, <1>4, <1>5

LEMMA AmendsUnseen ==
    ASSUME NEW x, NEW t, NEW m, NEW z, Ledger(x), LogKept(x),
           Last(x.messages).role = "assistant",
           Amends(x, t, m, z), SameLog(x, t),
           m.streaming = TRUE \/ Lengthens(m, Last(x.messages))
    PROVE  /\ Ledger(t) /\ LogKept(t) /\ Last(t.messages) = m /\ m.role = "assistant"
           /\ Keeps(x, m, z) => Mirror(t)
           /\ \A Z : Durable(x, Z) /\ (m.streaming = TRUE \/ m.seq \in Z) => Durable(t, Z)
<1>1. /\ x \in Sess /\ t \in Sess /\ m \in Msg /\ x.msgSeq \in Nat /\ t.msgSeq = x.msgSeq
      /\ t.messages = SetLast(x.messages, m) /\ x.messages # <<>>
      /\ Ledger(t) /\ Last(t.messages) = m /\ m.role = "assistant"
      /\ Keeps(x, m, z) => Mirror(t)
      /\ SameID(Last(x.messages), m) /\ Behind(x, t)
  BY AmendsBehind
<1>. DEFINE y == Replayed(x.log)
<1>2. CASE x.persisted = FALSE
  BY <1>1, <1>2 DEF SameLog, LogKept, Durable
<1>3. CASE x.persisted = TRUE
  <2>1. /\ x.log \in Seq(Line) /\ Loads(x.log) /\ Behind(y, x)
        /\ x.eol = FALSE => Len(x.log) >= 2
        /\ t.log = x.log /\ t.eol = x.eol /\ t.persisted = TRUE
    BY <1>1, <1>3 DEF LogKept, Sess, SameLog
  <2>2. Ledger(y)
    BY <2>1, LoadsAll
  <2>. HIDE DEF y
  <2>3. y.msgSeq \in Nat /\ y \in Sess
    BY <2>2, LedgerCounter
  <2>4. Behind(y, t)
    BY <1>1, <2>1, <2>3, BehindOrder
  <2>5. LogKept(t)
    BY <2>1, <2>4 DEF LogKept, y
  <2>6. ASSUME NEW Z, Durable(x, Z), m.streaming = TRUE \/ m.seq \in Z
        PROVE  Durable(t, Z)
    <3>1. Stored(y, x, Z) /\ x.eol = TRUE
      BY <1>3, <2>6 DEF Durable, y
    <3>2. y.messages \in Seq(Msg) /\ y.messages # <<>>
      BY <2>2 DEF Ledger, Sess
    <3>. DEFINE n == Last(y.messages)
    <3>3. n \in Msg /\ y.messages = SetLast(y.messages, n)
      BY <3>2, LastType, SetLastSame
    <3>. DEFINE old == Last(x.messages)
    <3>4. SameID(n, m)
      BY <1>1, <2>2, <3>1, StoredLast DEF SameID
    <3>4a. Tells(n, old, Z) /\ old \in Msg
      <4>1. x.messages \in Seq(Msg) /\ x.messages # <<>>
        BY <1>1 DEF Sess
      <4>2. old = x.messages[Len(x.messages)] /\ Len(x.messages) \in 1 .. Len(x.messages) /\ old \in Msg
        BY <4>1, LastType
      <4>3. n = y.messages[Len(y.messages)]
        BY <3>2, LastType
      <4>. QED
        BY <3>1, <4>2, <4>3 DEF Stored
    <3>. HIDE DEF n
    <3>4b. Tells(n, m, Z)
      <4>1. CASE m.streaming = TRUE
        BY <3>4, <4>1 DEF Tells
      <4>2. CASE m.streaming # TRUE
        <5>1. Lengthens(m, old) /\ m.seq \in Z /\ Lengthens(old, old)
          BY <2>6, <3>4a, <4>2, LengthensFields
        <5>2. old.streaming # TRUE
          BY <1>1, <3>4a, <4>2, <5>1, LengthensTwice
        <5>3. n = old \/ Lengthens(n, old)
          BY <3>4a, <5>2 DEF Tells
        <5>4. Lengthens(n, m)
          BY <1>1, <3>3, <3>4a, <5>1, <5>3, LengthensTwice
        <5>. QED
          BY <3>4, <5>1, <5>4 DEF Tells
      <4>. QED
        BY <4>1, <4>2
    <3>5. Stored(y, t, Z)
      BY <1>1, <2>3, <3>1, <3>3, <3>4b, StoredSetLast
    <3>. QED
      BY <2>1, <3>1, <3>5 DEF Durable, y
  <2>. QED
    BY <1>1, <2>5, <2>6
<1>. QED
  BY <1>1, <1>2, <1>3 DEF Sess

(* A session with the first k messages of another.                         *)
Cut(x, k) == [x EXCEPT !.messages = SubSeq(@, 1, k), !.msgSeq = x.messages[k].seq]

LEMMA CutLedger ==
    ASSUME NEW x, Ledger(x), NEW k \in 1 .. Len(x.messages), NEW c, c = Cut(x, k)
    PROVE  /\ Ledger(c) /\ c.messages = SubSeq(x.messages, 1, k)
           /\ Last(c.messages) = x.messages[k] /\ c.msgSeq = x.messages[k].seq
<1>. DEFINE q == x.messages
            r == SubSeq(q, 1, k)
<1>1. x \in Sess /\ q \in Seq(Msg) /\ Increasing(q) /\ k \in 1 .. Len(q) /\ Len(q) \in Nat
  BY DEF Ledger, Sess
<1>2. r \in Seq(Msg) /\ Len(r) = k /\ \A i \in 1 .. k : r[i] = q[i]
  <2>. HIDE DEF q
  <2>. QED
    BY <1>1
<1>3. q[k] \in Msg
  BY <1>1
<1>4. q[k].seq \in Nat
  BY <1>3 DEF Msg, Msgs
<1>. HIDE DEF r
<1>5. c = [x EXCEPT !.messages = r, !.msgSeq = q[k].seq]
  BY DEF Cut, r
<1>. HIDE DEF q
<1>6. /\ c \in Sess /\ c.messages = r /\ c.msgSeq = q[k].seq /\ c.provider = x.provider
  BY <1>1, <1>2, <1>4, <1>5 DEF Sess
<1>7. r # <<>> /\ Last(r) = q[k]
  BY <1>1, <1>2 DEF Last
<1>8. \A i \in 1 .. k : i \in 1 .. Len(q)
  BY <1>1
<1>9. Increasing(r)
  BY <1>1, <1>2, <1>8 DEF Increasing
<1>10. Instruction(r[1])
  <2>1. 1 \in 1 .. k
    BY <1>1
  <2>. QED
    BY <1>2, <2>1 DEF Ledger, q
<1>11. \A i \in 2 .. Len(r) : r[i].role # "system"
  <2>1. \A i \in 2 .. k : i \in 2 .. Len(q) /\ i \in 1 .. k
    BY <1>1
  <2>. QED
    BY <1>2, <2>1 DEF Ledger, q
<1>12. c.provider # <<>> => Instructs(c.provider)
  BY <1>6 DEF Ledger
<1>13. Ledger(c)
  BY <1>6, <1>7, <1>9, <1>10, <1>11, <1>12 DEF Ledger
<1>. QED
  BY <1>6, <1>7, <1>13 DEF q, r

LEMMA PrefixGrows ==
    ASSUME NEW S, NEW q \in Seq(S), NEW k \in 1 .. Len(q)
    PROVE  /\ SubSeq(q, 1, k) = Append(SubSeq(q, 1, k - 1), q[k])
           /\ SubSeq(q, 1, k) \in Seq(S) /\ SubSeq(q, 1, k - 1) \in Seq(S)
           /\ SubSeq(q, 1, 0) = <<>> /\ SubSeq(q, 1, Len(q)) = q
OBVIOUS

LEMMA FirstOnly ==
    ASSUME NEW S, NEW q \in Seq(S), Len(q) >= 1
    PROVE  SubSeq(q, 1, 1) = <<q[1]>>
<1>1. 1 \in 1 .. Len(q) /\ 1 - 1 = 0
  OBVIOUS
<1>2. SubSeq(q, 1, 1) = Append(SubSeq(q, 1, 0), q[1]) /\ SubSeq(q, 1, 0) = <<>>
  BY <1>1, PrefixGrows
<1>3. q[1] \in S
  OBVIOUS
<1>4. \A e \in S : Append(<<>>, e) = <<e>>
  OBVIOUS
<1>. QED
  BY <1>2, <1>3, <1>4

LEMMA AtEnd ==
    ASSUME NEW log \in Seq(Line)
    PROVE  At(log, Len(log)) = Replayed(log)
<1>1. SubSeq(log, 1, Len(log)) = log
  OBVIOUS
<1>. QED
  BY <1>1 DEF At

LEMMA LoadsOne ==
    ASSUME NEW r \in Line, Ledger(Replay(New, r)), NEW log, log = <<r>>
    PROVE  log \in Seq(Line) /\ Loads(log) /\ Replayed(log) = Replay(New, r)
<1>1. log \in Seq(Line) /\ log = Append(<<>>, r) /\ Len(log) = 1 /\ <<>> \in Seq(Line)
  OBVIOUS
<1>2. Replayed(log) = Replay(New, r)
  BY <1>1, ReplayedEmpty, ReplayedAppend
<1>3. At(log, 1) = Replayed(log)
  <2>1. At(log, Len(log)) = Replayed(log)
    BY <1>1, AtEnd
  <2>. QED
    BY <1>1, <2>1
<1>4. Behind(At(log, 1), At(log, 1))
  BY <1>2, <1>3, BehindOrder, LedgerCounter
<1>5. \A k \in 1 .. Len(log) : k = 1
  BY <1>1
<1>6. log # <<>>
  BY <1>1
<1>7. Loads(log)
  <2>1. \A k \in 1 .. Len(log) : Ledger(At(log, k))
    BY <1>2, <1>3, <1>5
  <2>2. \A k, l \in 1 .. Len(log) : k <= l => Behind(At(log, k), At(log, l))
    BY <1>4, <1>5
  <2>. QED
    BY <1>6, <2>1, <2>2 DEF Loads
<1>. QED
  BY <1>1, <1>2, <1>7

Records(q) == [i \in DOMAIN q |-> MessageRecord(q[i])]

LEMMA RecordsType ==
    ASSUME NEW q \in Seq(Msg), NEW r, r = Records(q)
    PROVE  /\ r \in Seq(Line) /\ Len(r) = Len(q)
           /\ \A i \in 1 .. Len(q) : r[i] = MessageRecord(q[i]) /\ r[i] \in Line /\ q[i] \in Msg
<1>1. DOMAIN q = 1 .. Len(q) /\ Len(q) \in Nat /\ \A i \in 1 .. Len(q) : q[i] \in Msg
  OBVIOUS
<1>2. \A i \in 1 .. Len(q) : MessageRecord(q[i]) \in Line
  BY <1>1, LineTypes
<1>3. r = [i \in 1 .. Len(q) |-> MessageRecord(q[i])]
  BY <1>1 DEF Records
<1>. HIDE DEF Line
<1>4. r \in [1 .. Len(q) -> Line]
  BY <1>2, <1>3
<1>5. r \in Seq(Line) /\ Len(r) = Len(q)
  BY <1>1, <1>4
<1>. QED
  BY <1>1, <1>2, <1>3, <1>5

LEMMA RecordsLoad ==
    ASSUME NEW x, Ledger(x), NEW r, r = Records(x.messages)
    PROVE  r \in Seq(Line) /\ Loads(r) /\ Replayed(r).messages = x.messages
<1>. DEFINE q == x.messages
            n == Len(q)
            p(k) == SubSeq(r, 1, k)
            Good(k) == /\ p(k) \in Seq(Line) /\ Loads(p(k))
                       /\ Replayed(p(k)).messages = SubSeq(q, 1, k)
            P == {k \in 0 .. n : k >= 1 => Good(k)}
<1>1. /\ q \in Seq(Msg) /\ q # <<>> /\ n \in Nat /\ n >= 1 /\ Increasing(q) /\ Instruction(q[1])
  <2>1. q \in Seq(Msg) /\ q # <<>> /\ Increasing(q) /\ Instruction(q[1])
    BY DEF Ledger, Sess
  <2>. QED
    BY <2>1, NotEmpty
<1>2. /\ r \in Seq(Line) /\ Len(r) = n
      /\ \A i \in 1 .. n : r[i] = MessageRecord(q[i]) /\ r[i] \in Line /\ q[i] \in Msg
  BY <1>1, RecordsType
<1>3. 0 \in P
  BY <1>1
<1>4. ASSUME NEW k \in 1 .. n, k - 1 \in P PROVE k \in P
  <2>1. CASE k = 1
    <3>1. 1 \in 1 .. n /\ 1 \in 1 .. Len(r)
      BY <1>1, <1>2
    <3>. DEFINE m == q[1]
                e == MessageRecord(m)
                u == Replay(New, e)
    <3>2. m \in Msg /\ r[1] = e /\ e \in Line /\ m.seq = 1
      BY <1>1, <1>2, <3>1 DEF Instruction
    <3>3. p(1) = <<e>> /\ SubSeq(q, 1, 1) = <<m>>
      <4>1. SubSeq(r, 1, 1) = <<r[1]>> /\ SubSeq(q, 1, 1) = <<q[1]>>
        BY <1>1, <1>2, FirstOnly
      <4>. QED
        BY <3>2, <4>1
    <3>. HIDE DEF m, e, p
    <3>4. New \in Sess /\ New.messages = <<>> /\ New.msgSeq = 0 /\ New.provider = <<>>
      BY NewType DEF New
    <3>5. /\ u \in Sess /\ u.messages = <<m>> /\ u.msgSeq = m.seq /\ u.provider = <<>>
      <4>1. m.seq > New.msgSeq /\ \A i \in 1 .. Len(New.messages) : New.messages[i].seq <= New.msgSeq
        BY <3>2, <3>4
      <4>2. /\ u \in Sess /\ u.messages = Append(New.messages, m) /\ u.msgSeq = m.seq
            /\ u.provider = New.provider
        BY <3>2, <3>4, <4>1, ReplayNewer DEF e
      <4>. QED
        BY <3>4, <4>2
    <3>6. Ledger(u)
      <4>. DEFINE v == u.messages
      <4>1. v = <<m>> /\ Len(v) = 1 /\ v[1] = m /\ v # <<>>
        BY <3>5
      <4>2. Last(v) = m
        BY <4>1 DEF Last
      <4>3. Increasing(v)
        BY <4>1 DEF Increasing
      <4>4. Instruction(v[1])
        BY <1>1, <4>1 DEF m
      <4>5. \A i \in 2 .. Len(v) : v[i].role # "system"
        BY <4>1
      <4>6. u \in Sess /\ u.msgSeq = m.seq /\ u.provider = <<>>
        BY <3>5
      <4>. HIDE DEF u
      <4>. QED
        BY <4>1, <4>2, <4>3, <4>4, <4>5, <4>6 DEF Ledger
    <3>. HIDE DEF u
    <3>7. p(1) \in Seq(Line) /\ Loads(p(1)) /\ Replayed(p(1)) = u
      BY <3>2, <3>3, <3>6, LoadsOne DEF u
    <3>8. Good(1)
      BY <3>3, <3>5, <3>7
    <3>. QED
      BY <2>1, <3>8
  <2>2. CASE k # 1
    <3>1. k - 1 \in 1 .. n /\ k - 1 >= 1 /\ k \in 1 .. Len(r) /\ k - 1 < k
      BY <1>2, <2>2
    <3>. DEFINE m == q[k]
                e == MessageRecord(m)
                l == p(k - 1)
                y == Replayed(l)
                u == Replay(y, e)
                c == Cut(x, k)
    <3>2. l \in Seq(Line) /\ Loads(l) /\ y.messages = SubSeq(q, 1, k - 1)
      BY <1>4, <3>1
    <3>3. m \in Msg /\ r[k] = e /\ e \in Line
      BY <1>2
    <3>4. p(k) = Append(l, e) /\ p(k) \in Seq(Line) /\ SubSeq(q, 1, k) = Append(SubSeq(q, 1, k - 1), m)
      <4>1. p(k) = Append(p(k - 1), r[k]) /\ p(k) \in Seq(Line)
        BY <1>2, <3>1, PrefixGrows
      <4>2. SubSeq(q, 1, k) = Append(SubSeq(q, 1, k - 1), m)
        BY <1>1, PrefixGrows
      <4>. QED
        BY <3>3, <4>1, <4>2
    <3>. HIDE DEF l, p
    <3>5. Ledger(c) /\ Last(c.messages) = m /\ c.msgSeq = m.seq
      BY CutLedger
    <3>6. Ledger(y) /\ y.msgSeq = q[k - 1].seq
      <4>1. Ledger(y)
        BY <3>2, LoadsAll
      <4>2. y.messages = SubSeq(q, 1, k - 1) /\ Last(y.messages).seq = y.msgSeq
        BY <3>2, <4>1 DEF Ledger
      <4>3. Last(SubSeq(q, 1, k - 1)) = q[k - 1]
        BY <1>1, <3>1, CutLedger
      <4>. QED
        BY <4>1, <4>2, <4>3
    <3>7. y.msgSeq < c.msgSeq /\ y.msgSeq \in Nat /\ c.msgSeq \in Nat
      <4>1. q[k - 1].seq < q[k].seq
        BY <1>1, <3>1 DEF Increasing
      <4>. HIDE DEF y, c
      <4>. QED
        BY <3>5, <3>6, <4>1, LedgerCounter
    <3>. HIDE DEF y, c
    <3>8. Behind(y, c) /\ y.msgSeq # c.msgSeq
      BY <3>7 DEF Behind
    <3>9. m.role # "system"
      <4>1. k \in 2 .. n
        BY <2>2
      <4>. QED
        BY <4>1 DEF Ledger
    <3>. HIDE DEF m, e
    <3>10. Ledger(u) /\ Behind(y, u) /\ u.messages = Append(y.messages, m)
      BY <3>5, <3>6, <3>8, <3>9, ReplayLast DEF e
    <3>11. Loads(p(k))
      BY <3>2, <3>3, <3>4, <3>10, LoadsAppend DEF y
    <3>12. Replayed(p(k)) = u
      BY <3>2, <3>3, <3>4, ReplayedAppend DEF y
    <3>13. Good(k)
      BY <3>2, <3>4, <3>10, <3>11, <3>12
    <3>. QED
      BY <3>13
  <2>. QED
    BY <2>1, <2>2
<1>5. n \in P
  <2>. HIDE DEF P, n
  <2>1. \A k \in 0 .. n : k \in P
    BY <1>1, <1>3, <1>4, Climb
  <2>2. n \in 0 .. n
    BY <1>1
  <2>. QED
    BY <2>1, <2>2
<1>6. Good(n)
  BY <1>1, <1>5
<1>7. p(n) = r /\ SubSeq(q, 1, n) = q
  BY <1>1, <1>2
<1>. QED
  BY <1>2, <1>6, <1>7

LEMMA ConfigureKept ==
    ASSUME NEW x, Ledger(x), LogKept(x), NEW w \in BOOLEAN,
           NEW t, t = ConfigurePersistence(x, w)
    PROVE  /\ Ledger(t) /\ LogKept(t) /\ t.messages = x.messages /\ t.provider = x.provider
           /\ t.msgSeq = x.msgSeq
           /\ \A Z : Durable(x, Z) => Durable(t, Z)
<1>1. CASE x.persisted = TRUE \/ w = FALSE
  <2>1. t = x
    BY <1>1 DEF ConfigurePersistence
  <2>. QED
    BY <2>1
<1>2. CASE x.persisted = FALSE /\ w = TRUE
  <2>. DEFINE r == Records(x.messages)
  <2>1. /\ x \in Sess /\ x.log = <<>> /\ x.eol = TRUE
    BY <1>2 DEF Ledger, LogKept
  <2>2. r \in Seq(Line) /\ Loads(r) /\ Replayed(r).messages = x.messages
    BY RecordsLoad
  <2>3. t = [x EXCEPT !.persisted = TRUE, !.log = <<>> \o r]
    BY <1>2, <2>1 DEF ConfigurePersistence, Records
  <2>. HIDE DEF r
  <2>4. <<>> \o r = r
    BY <2>2
  <2>5. /\ t \in Sess /\ t.messages = x.messages /\ t.provider = x.provider /\ t.msgSeq = x.msgSeq
        /\ t.persisted = TRUE /\ t.log = r /\ t.eol = TRUE
    BY <2>1, <2>2, <2>3, <2>4 DEF Sess
  <2>6. Ledger(t)
    BY <2>5 DEF Ledger
  <2>. DEFINE y == Replayed(r)
  <2>7. Ledger(y) /\ y.messages = t.messages
    BY <2>2, <2>5, LoadsAll
  <2>. HIDE DEF y
  <2>8. y.msgSeq = t.msgSeq /\ y.msgSeq \in Nat /\ SameID(Last(y.messages), Last(t.messages))
    BY <2>6, <2>7, LedgerCounter DEF Ledger, SameID
  <2>9. Behind(y, t)
    BY <2>8 DEF Behind
  <2>10. LogKept(t)
    BY <2>2, <2>5, <2>9 DEF LogKept, y
  <2>11. \A Z : Stored(y, t, Z)
    BY <2>7 DEF Stored, Tells, SameID
  <2>12. \A Z : Durable(t, Z)
    BY <2>5, <2>11 DEF Durable, y
  <2>. QED
    BY <2>5, <2>6, <2>10, <2>12
<1>. QED
  BY <1>1, <1>2 DEF Ledger, Sess

LEMMA LoadKept ==
    ASSUME NEW l \in Seq(Line), Loads(l), NEW e \in BOOLEAN, e = FALSE => Len(l) >= 2,
           NEW t, t = Load(l, e)
    PROVE  /\ Ledger(t) /\ LogKept(t)
           /\ e = TRUE => \A Z : Durable(t, Z)
<1>. DEFINE y == Replayed(l)
<1>1. Ledger(y) /\ y \in Sess
  BY LoadsAll, LedgerCounter
<1>2. t = [y EXCEPT !.persisted = TRUE, !.log = l, !.eol = e]
  BY DEF Load
<1>. HIDE DEF y
<1>3. /\ t \in Sess /\ t.messages = y.messages /\ t.provider = y.provider /\ t.msgSeq = y.msgSeq
      /\ t.persisted = TRUE /\ t.log = l /\ t.eol = e
  BY <1>1, <1>2 DEF Sess
<1>4. Ledger(t)
  BY <1>1, <1>3 DEF Ledger
<1>5. y.msgSeq \in Nat /\ SameID(Last(y.messages), Last(t.messages))
  BY <1>1, <1>3, LedgerCounter DEF SameID
<1>6. Behind(y, t)
  BY <1>3, <1>5 DEF Behind
<1>7. LogKept(t)
  BY <1>3, <1>6 DEF LogKept, y
<1>8. \A Z : Stored(y, t, Z)
  BY <1>3 DEF Stored, Tells, SameID
<1>9. e = TRUE => \A Z : Durable(t, Z)
  BY <1>3, <1>8 DEF Durable, y
<1>. QED
  BY <1>4, <1>7, <1>9

(* A load of what a crash has left.                                        *)
LEMMA TornKept ==
    ASSUME NEW x, Ledger(x), LogKept(x), x.persisted = TRUE,
           NEW tear \in {"intact", "lost", "partial", "noNewline"},
           tear # "intact" => x.eol = TRUE /\ Len(x.log) > 1,
           NEW l, NEW e,
           \/ tear = "lost" /\ l = Front(x.log) /\ e = TRUE
           \/ tear = "partial" /\ l = Front(x.log) \o <<Unreadable>> /\ e = FALSE
           \/ tear = "noNewline" /\ l = x.log /\ e = FALSE
           \/ tear = "intact" /\ l = x.log /\ e = x.eol,
           NEW t, t = Load(l, e)
    PROVE  /\ Ledger(t) /\ LogKept(t)
           /\ \A Z : tear \in {"intact", "lost"} /\ Durable(x, Z) => Durable(t, Z)
<1>. DEFINE q == x.log
            f == Front(q)
<1>1. /\ q \in Seq(Line) /\ Loads(q) /\ x.eol \in BOOLEAN
      /\ x.eol = FALSE => Len(q) >= 2
  BY DEF Ledger, Sess, LogKept
<1>2. CASE tear = "intact"
  <2>1. l = q /\ e = x.eol
    BY <1>2
  <2>. HIDE DEF q
  <2>2. Ledger(t) /\ LogKept(t) /\ (e = TRUE => \A Z : Durable(t, Z))
    BY <1>1, <2>1, LoadKept
  <2>. QED
    BY <2>1, <2>2 DEF Durable
<1>3. CASE tear = "noNewline"
  <2>1. l = q /\ e = FALSE /\ e \in BOOLEAN
    BY <1>3
  <2>2. Len(q) > 1
    BY <1>3
  <2>3. Len(q) \in Nat
    BY <1>1
  <2>. HIDE DEF q
  <2>4. Len(q) >= 2
    BY <2>2, <2>3
  <2>5. Ledger(t) /\ LogKept(t)
    BY <1>1, <2>1, <2>4, LoadKept
  <2>. QED
    BY <1>3, <2>5
<1>4. ASSUME tear \in {"lost", "partial"}
      PROVE  /\ f \in Seq(Line) /\ Loads(f) /\ Len(q) >= 2 /\ Len(q) \in Nat
             /\ Len(f) = Len(q) - 1
  <2>1. Len(q) >= 2 /\ q # <<>> /\ Len(q) \in Nat
    BY <1>1, <1>4 DEF Loads
  <2>2. Unreadable \in Line
    BY LineTypes
  <2>. HIDE DEF q
  <2>. QED
    BY <1>1, <2>1, <2>2, LoadsFront, FrontParts
<1>5. CASE tear = "lost"
  <2>1. l = f /\ e = TRUE /\ e \in BOOLEAN /\ f \in Seq(Line) /\ Loads(f)
    BY <1>4, <1>5
  <2>. HIDE DEF f
  <2>2. Ledger(t) /\ LogKept(t) /\ (e = TRUE => \A Z : Durable(t, Z))
    BY <2>1, LoadKept
  <2>. QED
    BY <2>1, <2>2
<1>6. CASE tear = "partial"
  <2>1. /\ l = f \o <<Unreadable>> /\ e = FALSE /\ e \in BOOLEAN /\ f \in Seq(Line) /\ Loads(f)
        /\ Len(q) >= 2 /\ Len(q) \in Nat /\ Len(f) = Len(q) - 1
    BY <1>4, <1>6
  <2>. HIDE DEF f, q
  <2>2. Unreadable \in Line
    BY LineTypes
  <2>3. l = Append(f, Unreadable) /\ Len(l) = Len(f) + 1
    BY <2>1, <2>2
  <2>4. l \in Seq(Line) /\ Loads(l)
    BY <2>1, <2>3, UnreadableKept
  <2>5. Len(l) >= 2
    BY <2>1, <2>3
  <2>. HIDE DEF Unreadable
  <2>6. Ledger(t) /\ LogKept(t)
    <3>1. l \in Seq(Line) /\ Loads(l) /\ e \in BOOLEAN /\ (e = FALSE => Len(l) >= 2)
      BY <2>1, <2>4, <2>5
    <3>. QED
      BY <3>1, LoadKept, Zenon
  <2>. QED
    BY <1>6, <2>6
<1>. QED
  BY <1>2, <1>3, <1>5, <1>6

(***************************************************************************)
(* Compaction                                                              *)
(***************************************************************************)

Reached(T, r) == \E i \in T : Cardinality({j \in T : j >= i}) = r

(* Counting down from the top, every number up to the size of a set of     *)
(* numbers is reached at one of its members.                               *)
LEMMA CountDown ==
    ASSUME NEW n \in Nat, NEW T, T \subseteq 1 .. n, NEW r \in Nat \ {0},
           Cardinality(T) >= r
    PROVE  Reached(T, r)
<1>. DEFINE A(k) == {j \in T : j > n - k}
            Found == \E i \in T : Cardinality({j \in T : j >= i}) = r
            P == {k \in 0 .. n : Cardinality(A(k)) < r \/ Found}
<1>1. IsFiniteSet(T) /\ \A k : IsFiniteSet(A(k))
  <2>1. IsFiniteSet(1 .. n)
    BY FS_Interval
  <2>2. IsFiniteSet(T)
    BY <2>1, FS_Subset
  <2>3. \A k : A(k) \subseteq T
    OBVIOUS
  <2>. HIDE DEF A
  <2>. QED
    BY <2>2, <2>3, FS_Subset
<1>a. \A j \in T : j \in Nat /\ 1 <= j /\ j <= n
  OBVIOUS
<1>2. 0 \in P
  <2>1. A(0) = {}
    <3>1. \A j \in T : ~(j > n - 0)
      BY <1>a
    <3>. QED
      BY <3>1
  <2>2. Cardinality(A(0)) = 0
    BY <2>1, FS_EmptySet
  <2>. HIDE DEF A, Found
  <2>. QED
    BY <2>2
<1>3. ASSUME NEW k \in 1 .. n, k - 1 \in P PROVE k \in P
  <2>. DEFINE i == n - k + 1
  <2>1. i \in Nat /\ n - (k - 1) = i
    OBVIOUS
  <2>2. CASE Found
    <3>. HIDE DEF Found, A
    <3>. QED
      BY <2>2
  <2>3. CASE i \notin T /\ ~Found
    <3>1. A(k) = A(k - 1)
      <4>1. \A j \in T : j > n - k <=> j > n - (k - 1)
        BY <1>a, <2>3
      <4>. QED
        BY <4>1
    <3>. HIDE DEF Found, A
    <3>. QED
      BY <1>3, <2>3, <3>1
  <2>4. CASE i \in T /\ ~Found
    <3>1. /\ A(k) = A(k - 1) \cup {i} /\ i \notin A(k - 1)
          /\ A(k) = {j \in T : j >= i}
      <4>1. \A j \in T : j > n - k <=> j >= i
        BY <1>a
      <4>2. \A j \in T : j > n - k <=> (j > n - (k - 1) \/ j = i)
        BY <1>a
      <4>3. ~(i > n - (k - 1))
        OBVIOUS
      <4>. QED
        BY <2>4, <4>1, <4>2, <4>3
    <3>2. Cardinality(A(k)) # r
      BY <2>4, <3>1
    <3>3. Cardinality(A(k - 1)) < r
      <4>. HIDE DEF Found, A
      <4>. QED
        BY <1>3, <2>4
    <3>. HIDE DEF Found, A, i
    <3>4. /\ Cardinality(A(k)) = Cardinality(A(k - 1)) + 1
          /\ Cardinality(A(k - 1)) \in Nat
      BY <1>1, <3>1, FS_AddElement, FS_CardinalityType
    <3>5. Cardinality(A(k)) < r
      BY <3>2, <3>3, <3>4
    <3>. QED
      BY <3>5
  <2>. QED
    BY <2>2, <2>3, <2>4
<1>4. n \in P
  <2>. HIDE DEF P
  <2>1. \A k \in 0 .. n : k \in P
    BY <1>2, <1>3, Climb
  <2>. QED
    BY <2>1
<1>5. A(n) = T
  <2>1. \A j \in T : j > n - n
    BY <1>a
  <2>. QED
    BY <2>1
<1>6. ~(Cardinality(T) < r)
  BY <1>1, FS_CardinalityType
<1>. HIDE DEF A
<1>. QED
  BY <1>4, <1>5, <1>6 DEF Reached

Finished     == {m \in Msg : ~m.streaming}
Instructions == {m \in Msg : ~m.streaming /\ IsSystem(m)}
Spoken       == {m \in Msg : ~m.streaming /\ ~IsSystem(m)}

(* The code's filters select by content, not by place.                     *)
LEMMA FiltersAre ==
    ASSUME NEW q \in Seq(Msg)
    PROVE  /\ Settled(q) = Where(q, Finished)
           /\ Systems(q) = Where(q, Instructions)
           /\ Exchange(q) = Where(q, Spoken)
<1>. DEFINE S == Range(q)
<1>1. q \in Seq(S) /\ S \subseteq Msg
  BY RangeIsElements
<1>. HIDE DEF S
<1>2. Where(q, {m \in S : ~m.streaming}) = Where(q, Finished)
  <2>1. \A e \in S : e \in {m \in S : ~m.streaming} <=> e \in Finished
    BY <1>1 DEF Finished
  <2>. QED
    BY <1>1, <2>1, WhereSame
<1>3. Where(q, {m \in S : ~m.streaming /\ IsSystem(m)}) = Where(q, Instructions)
  <2>1. \A e \in S : e \in {m \in S : ~m.streaming /\ IsSystem(m)} <=> e \in Instructions
    BY <1>1 DEF Instructions
  <2>. QED
    BY <1>1, <2>1, WhereSame
<1>4. Where(q, {m \in S : ~m.streaming /\ ~IsSystem(m)}) = Where(q, Spoken)
  <2>1. \A e \in S : e \in {m \in S : ~m.streaming /\ ~IsSystem(m)} <=> e \in Spoken
    BY <1>1 DEF Spoken
  <2>. QED
    BY <1>1, <2>1, WhereSame
<1>. QED
  BY <1>2, <1>3, <1>4 DEF Settled, Systems, Exchange, S

LEMMA KeepStartIn ==
    ASSUME NEW e \in Seq(Msg), Cardinality(TurnStarts(e)) > RetainedTurns
    PROVE  KeepStart(e) \in TurnStarts(e) /\ KeepStart(e) \in 1 .. Len(e) /\ Len(e) \in Nat
<1>. DEFINE T == TurnStarts(e)
            n == Len(e)
            r == RetainedTurns
<1>1. n \in Nat /\ T \subseteq 1 .. n
  BY DEF TurnStarts
<1>2. r \in Nat \ {0}
  BY CompactionAssumption
<1>3. Cardinality(T) >= r
  <2>1. IsFiniteSet(T)
    <3>1. IsFiniteSet(1 .. n)
      BY <1>1, FS_Interval
    <3>. QED
      BY <1>1, <3>1, FS_Subset
  <2>2. Cardinality(T) \in Nat
    BY <2>1, FS_CardinalityType
  <2>. QED
    BY <1>2, <2>2
<1>4. KeepStart(e) = CHOOSE i \in T : Cardinality({j \in T : j >= i}) = r
  BY DEF KeepStart
<1>. HIDE DEF T, n, r
<1>5. \E i \in T : Cardinality({j \in T : j >= i}) = r
  <2>1. Reached(T, r)
    BY <1>1, <1>2, <1>3, CountDown
  <2>. QED
    BY <2>1 DEF Reached
<1>6. KeepStart(e) \in T
  BY <1>4, <1>5
<1>. QED
  BY <1>1, <1>6 DEF T, n

LEMMA SummaryType == Summary \in Msg /\ IsSystem(Summary) /\ Summary.streaming = FALSE
<1>1. <<"summary">> \in Seq(Pieces)
  BY DEF Pieces
<1>. QED
  BY <1>1 DEF Summary, Message, Msg, Msgs, Roles, IsSystem

LEMMA ConcatParts ==
    ASSUME NEW S, NEW p \in Seq(S), NEW q \in Seq(S)
    PROVE  /\ p \o q \in Seq(S) /\ Len(p \o q) = Len(p) + Len(q)
           /\ \A i \in 1 .. Len(p) : (p \o q)[i] = p[i]
           /\ \A i \in 1 .. Len(q) : (p \o q)[Len(p) + i] = q[i]
OBVIOUS

(* A preview changes nothing but the text of a tool result.                *)
LEMMA PreviewType ==
    ASSUME NEW m \in Msg, NEW p, p = Preview(m)
    PROVE  /\ p \in Msg /\ SameID(p, m) /\ p.role = m.role /\ p.seq = m.seq
           /\ p.thinking = m.thinking /\ p.streaming = m.streaming
           /\ p.calls = m.calls /\ p.answers = m.answers
           /\ m.role # "tool" => p.content = m.content
<1>1. ToolResultLimit \in Nat
  BY CompactionAssumption
<1>2. CASE Oversized(m)
  <2>. DEFINE c == SubSeq(m.content, 1, ToolResultLimit) \o <<"truncated">>
  <2>1. m.content \in Seq(Pieces) /\ m \in Msgs /\ m.role = "tool"
    BY <1>2 DEF Msg, Msgs, Oversized
  <2>2. ToolResultLimit <= Len(m.content)
    BY <1>1, <1>2, <2>1 DEF Oversized
  <2>3. c \in Seq(Pieces)
    <3>. DEFINE k == m.content
                n == ToolResultLimit
    <3>1. k \in Seq(Pieces) /\ n \in Nat /\ n <= Len(k)
      BY <1>1, <2>1, <2>2
    <3>. HIDE DEF k, n
    <3>2. SubSeq(k, 1, n) \in Seq(Pieces)
      BY <3>1
    <3>3. "truncated" \in Pieces
      BY DEF Pieces
    <3>. DEFINE h == SubSeq(k, 1, n)
    <3>. HIDE DEF h
    <3>4. h \o <<"truncated">> \in Seq(Pieces)
      BY <3>2, <3>3 DEF h
    <3>. QED
      BY <3>4 DEF h, k, n
  <2>4. p = [m EXCEPT !.content = c]
    BY <1>2 DEF Preview
  <2>. HIDE DEF c
  <2>. QED
    BY <2>1, <2>3, <2>4 DEF Msg, Msgs, SameID
<1>3. CASE ~Oversized(m)
  BY <1>3 DEF Preview, SameID
<1>. QED
  BY <1>2, <1>3

(* A preview of a preview is the preview.                                  *)
LEMMA PreviewTwice ==
    ASSUME NEW m \in Msg, NEW n \in Msg, SameID(n, m),
           n.content \in {m.content, Preview(m).content}
    PROVE  Preview(n).content \in {m.content, Preview(m).content}
<1>. DEFINE l == ToolResultLimit
            c == m.content
            d == SubSeq(c, 1, l) \o <<"truncated">>
<1>1. l \in Nat /\ c \in Seq(Pieces) /\ n.content \in Seq(Pieces) /\ n.role = m.role
  BY CompactionAssumption DEF Msg, Msgs, SameID
<1>2. \A k \in Msg : /\ Oversized(k) => Preview(k).content = SubSeq(k.content, 1, l) \o <<"truncated">>
                     /\ ~Oversized(k) => Preview(k) = k
  BY DEF Preview, Msg, Msgs
<1>3. CASE n.content = m.content
  BY <1>1, <1>2, <1>3 DEF Oversized
<1>4. CASE n.content # m.content
  <2>1. Oversized(m) /\ n.content = d
    BY <1>2, <1>4
  <2>2. m.role = "tool" /\ Len(c) > l
    BY <2>1 DEF Oversized
  <2>3. Len(d) > l /\ SubSeq(d, 1, l) = SubSeq(c, 1, l)
    <3>. DEFINE h == SubSeq(c, 1, l)
                w == <<"truncated">>
    <3>. HIDE DEF c, l
    <3>1. h \in Seq(Pieces) /\ Len(h) = l /\ \A i \in 1 .. l : h[i] = c[i]
      BY <1>1, <2>2
    <3>2. w \in Seq(Pieces) /\ Len(w) = 1
      BY DEF Pieces
    <3>. HIDE DEF h, w
    <3>3. /\ h \o w \in Seq(Pieces) /\ Len(h \o w) = l + 1
          /\ \A i \in 1 .. l : (h \o w)[i] = h[i]
      BY <3>1, <3>2, ConcatParts
    <3>. DEFINE v == h \o w
    <3>4. v \in Seq(Pieces) /\ Len(v) = l + 1 /\ \A i \in 1 .. l : v[i] = h[i]
      BY <3>3
    <3>. HIDE DEF v
    <3>5. SubSeq(v, 1, l) = h
      <4>1. SubSeq(v, 1, l) \in Seq(Pieces) /\ Len(SubSeq(v, 1, l)) = l
        BY <1>1, <3>4
      <4>2. \A i \in 1 .. l : SubSeq(v, 1, l)[i] = v[i]
        BY <1>1, <3>4
      <4>. QED
        BY <1>1, <3>1, <3>4, <4>1, <4>2
    <3>6. Len(v) > l
      BY <1>1, <3>4
    <3>. QED
      BY <3>5, <3>6 DEF v, h, w
  <2>. HIDE DEF c, l, d
  <2>4. Oversized(n)
    BY <1>1, <2>1, <2>2, <2>3 DEF Oversized, l
  <2>5. Preview(n).content = SubSeq(d, 1, l) \o <<"truncated">>
    BY <1>2, <2>1, <2>4
  <2>6. Preview(n).content = d
    BY <2>3, <2>5 DEF d
  <2>. QED
    BY <1>2, <2>1, <2>6 DEF d, c
<1>. QED
  BY <1>3, <1>4

(* The exchange without its oldest turns, and what the view keeps of it.   *)
Retained(q) == SubSeq(Exchange(q), KeepStart(Exchange(q)), Len(Exchange(q)))
Kept(q)     == previewToolOutputs(Retained(q))

LEMMA KeptPreviews ==
    ASSUME NEW z \in Seq(Msg), NEW w, w = previewToolOutputs(z)
    PROVE  /\ w \in Seq(Msg) /\ Len(w) = Len(z)
           /\ \A i \in 1 .. Len(z) : z[i] \in Msg /\ w[i] = Preview(z[i])
<1>1. Len(z) \in Nat /\ DOMAIN z = 1 .. Len(z) /\ \A i \in 1 .. Len(z) : z[i] \in Msg
  OBVIOUS
<1>2. w = [i \in 1 .. Len(z) |-> Preview(z[i])]
  BY <1>1 DEF previewToolOutputs
<1>3. \A i \in 1 .. Len(z) : Preview(z[i]) \in Msg
  BY <1>1, PreviewType
<1>4. w \in Seq(Msg) /\ Len(w) = Len(z)
  BY <1>1, <1>2, <1>3
<1>. QED
  BY <1>1, <1>2, <1>4

LEMMA CompactedParts ==
    ASSUME NEW q \in Seq(Msg), DidCompact(q)
    PROVE  /\ Exchange(q) \in Seq(Msg) /\ Systems(q) \in Seq(Msg)
           /\ Retained(q) \in Seq(Msg) /\ Kept(q) \in Seq(Msg)
           /\ KeepStart(Exchange(q)) \in 1 .. Len(Exchange(q))
           /\ Compacted(q) = (Systems(q) \o <<Summary>>) \o Kept(q)
           /\ Compacted(q) \in Seq(Msg) /\ Compacted(q) # <<>>
<1>. DEFINE e == Exchange(q)
            y == Systems(q)
            k == KeepStart(e)
            r == Retained(q)
            z == Kept(q)
<1>1. e \in Seq(Msg) /\ y \in Seq(Msg)
  BY FiltersAre, WhereTypes
<1>. HIDE DEF e, y
<1>2. k \in 1 .. Len(e)
  BY <1>1, KeepStartIn DEF DidCompact, e
<1>2a. r \in Seq(Msg)
  <2>1. r = SubSeq(e, k, Len(e))
    BY DEF Retained, e
  <2>. HIDE DEF r, k
  <2>. QED
    BY <1>1, <1>2, <2>1
<1>3. z \in Seq(Msg)
  BY <1>2a, KeptPreviews DEF Kept
<1>4. Compacted(q) = y \o <<Summary>> \o z
  BY DEF Compacted, Kept, Retained, y
<1>. HIDE DEF z, k
<1>5. y \o <<Summary>> \o z = (y \o <<Summary>>) \o z
  OBVIOUS
<1>6. (y \o <<Summary>>) \o z \in Seq(Msg) /\ (y \o <<Summary>>) \o z # <<>>
  <2>. DEFINE u == Summary
  <2>1. u \in Msg
    BY SummaryType
  <2>. HIDE DEF u
  <2>2. y \o <<u>> \in Seq(Msg) /\ Len(y \o <<u>>) = Len(y) + 1 /\ Len(y) \in Nat
    BY <1>1, <2>1
  <2>. DEFINE w == y \o <<u>>
  <2>3. w \in Seq(Msg) /\ Len(w) >= 1
    BY <2>2
  <2>. HIDE DEF w
  <2>4. w \o z \in Seq(Msg) /\ Len(w \o z) = Len(w) + Len(z) /\ Len(z) \in Nat /\ Len(w) \in Nat
    BY <1>3, <2>3
  <2>5. w \o z # <<>>
    BY <2>3, <2>4
  <2>. QED
    BY <2>4, <2>5 DEF w, u
<1>. QED
  BY <1>1, <1>2, <1>2a, <1>3, <1>4, <1>5, <1>6 DEF e, y, k, z

LEMMA ElementsConcat ==
    ASSUME NEW S, NEW p \in Seq(S), NEW q \in Seq(S)
    PROVE  Elements(p) \subseteq Elements(p \o q)
<1>. DEFINE r == p \o q
<1>1. /\ Len(p) \in Nat /\ Len(q) \in Nat /\ Len(r) = Len(p) + Len(q)
      /\ \A i \in 1 .. Len(p) : r[i] = p[i]
  OBVIOUS
<1>. HIDE DEF r
<1>2. \A i \in 1 .. Len(p) : i \in 1 .. Len(r)
  BY <1>1
<1>3. Elements(p) \subseteq Elements(r)
  BY <1>1, <1>2 DEF Elements
<1>. QED
  BY <1>3 DEF r

LEMMA CompactedInstructs ==
    ASSUME NEW q \in Seq(Msg), DidCompact(q), Instructs(q)
    PROVE  Instructs(Compacted(q))
<1>1. PICK i \in 1 .. Len(q) : Instruction(q[i])
  BY DEF Instructs
<1>. DEFINE m == q[i]
<1>2. m \in Msg /\ m \in Elements(q)
  BY DEF Elements
<1>3. m \in Instructions
  BY <1>1, <1>2 DEF Instructions, Instruction, IsSystem
<1>4. m \in Elements(Systems(q))
  <2>1. Elements(Where(q, Instructions)) = Elements(q) \cap Instructions
    BY WhereKeeps
  <2>. QED
    BY <1>2, <1>3, <2>1, FiltersAre
<1>. DEFINE y == Systems(q)
            w == y \o <<Summary>>
            z == Kept(q)
<1>5. y \in Seq(Msg) /\ z \in Seq(Msg) /\ Compacted(q) = w \o z
  BY CompactedParts
<1>6. w \in Seq(Msg) /\ m \in Elements(w)
  <2>. DEFINE u == Summary
  <2>1. u \in Msg /\ <<u>> \in Seq(Msg)
    BY SummaryType
  <2>. HIDE DEF u, y, m
  <2>2. y \o <<u>> \in Seq(Msg) /\ m \in Elements(y \o <<u>>)
    <3>. DEFINE v == <<u>>
    <3>1. v \in Seq(Msg)
      BY <2>1
    <3>. HIDE DEF v
    <3>2. Elements(y) \subseteq Elements(y \o v) /\ y \o v \in Seq(Msg)
      BY <1>5, <3>1, ElementsConcat
    <3>3. m \in Elements(y)
      BY <1>4 DEF y
    <3>. QED
      BY <3>2, <3>3 DEF v
  <2>. QED
    BY <2>2 DEF u
<1>. HIDE DEF y, w, z, m
<1>7. m \in Elements(w \o z)
  <2>1. Elements(w) \subseteq Elements(w \o z)
    BY <1>5, <1>6, ElementsConcat
  <2>. QED
    BY <1>6, <2>1
<1>8. Instruction(m)
  BY <1>1 DEF m
<1>9. PICK j \in 1 .. Len(w \o z) : (w \o z)[j] = m
  BY <1>7 DEF Elements
<1>. QED
  BY <1>5, <1>8, <1>9 DEF Instructs

LEMMA CompactKept ==
    ASSUME NEW x, Ledger(x), LogKept(x), DidCompact(ProviderMessages(x)),
           NEW t, t = ReplaceProviderMessages(x, Compacted(ProviderMessages(x)))
    PROVE  /\ Ledger(t) /\ LogKept(t) /\ t.messages = x.messages
           /\ t.provider = Compacted(ProviderMessages(x)) /\ t.provider # <<>>
           /\ \A Z : Durable(x, Z) => Durable(t, Z)
<1>. DEFINE q == ProviderMessages(x)
            p == Compacted(q)
            y == [x EXCEPT !.provider = p]
            r == ContextRecord(p)
<1>1. x \in Sess /\ x.messages \in Seq(Msg) /\ x.provider \in Seq(Msg) /\ x.messages # <<>>
  BY DEF Ledger, Sess
<1>2. q \in Seq(Msg) /\ Instructs(q)
  <2>1. CASE x.provider = <<>>
    <3>1. 1 \in 1 .. Len(x.messages)
      BY <1>1, NotEmpty
    <3>2. Instructs(x.messages)
      BY <3>1 DEF Ledger, Instructs
    <3>. QED
      BY <1>1, <2>1, <3>2 DEF ProviderMessages
  <2>2. CASE x.provider # <<>>
    BY <1>1, <2>2 DEF Ledger, ProviderMessages
  <2>. QED
    BY <2>1, <2>2
<1>3. p \in Seq(Msg) /\ p # <<>> /\ Instructs(p)
  BY <1>2, CompactedParts, CompactedInstructs
<1>4. t = Write(y, r)
  BY DEF ReplaceProviderMessages, persistContextLocked
<1>. HIDE DEF q, p
<1>5. /\ y \in Sess /\ y.messages = x.messages /\ y.provider = p /\ y.msgSeq = x.msgSeq
      /\ y.persisted = x.persisted /\ y.log = x.log /\ y.eol = x.eol
  BY <1>1, <1>3 DEF Sess
<1>6. r \in Line
  BY <1>3, LineTypes
<1>. HIDE DEF y, r
<1>7. /\ t \in Sess /\ Logged(y, t, r)
      /\ t.messages = y.messages /\ t.provider = y.provider /\ t.msgSeq = y.msgSeq
  BY <1>4, <1>5, <1>6, WriteLogs
<1>8. Logged(x, t, r)
  BY <1>5, <1>7 DEF Logged, SameLog
<1>9. Ledger(t)
  BY <1>3, <1>5, <1>7 DEF Ledger
<1>10. Behind(x, t)
  BY <1>1, <1>5, <1>7, <1>9, LedgerCounter DEF Behind, SameID
<1>11. Extending(t, r)
  BY <1>3, <1>9, ContextExtends DEF r
<1>12. LogKept(t)
  BY <1>1, <1>6, <1>7, <1>8, <1>10, <1>11, LoggedKept
<1>13. ASSUME NEW Z, Durable(x, Z) PROVE Durable(t, Z)
  <2>1. CASE x.persisted = FALSE
    BY <1>8, <1>13, <2>1 DEF Logged, SameLog, Durable
  <2>2. CASE x.persisted = TRUE
    <3>. DEFINE l == x.log
                a == Replayed(l)
                u == Replay(a, r)
    <3>1. /\ l \in Seq(Line) /\ t.log = Append(l, r) /\ t.eol = TRUE /\ Stored(a, x, Z) /\ Loads(l)
      BY <1>1, <1>8, <1>13, <2>2 DEF Logged, Durable, LogKept, Sess
    <3>2. a \in Sess
      BY <3>1, LoadsAll, LedgerCounter
    <3>3. Replayed(t.log) = u
      BY <1>6, <3>1, ReplayedAppend
    <3>. HIDE DEF a, l
    <3>4. u = [a EXCEPT !.provider = p]
      BY <1>3, ReplayContext DEF r
    <3>. HIDE DEF u
    <3>5. u.messages = a.messages
      BY <3>2, <3>4 DEF Sess
    <3>6. Stored(u, t, Z)
      BY <1>5, <1>7, <3>1, <3>5 DEF Stored
    <3>. QED
      BY <3>1, <3>3, <3>6 DEF Durable
  <2>. QED
    BY <1>1, <2>1, <2>2 DEF Sess
<1>. QED
  BY <1>3, <1>5, <1>7, <1>9, <1>12, <1>13 DEF p, q

LEMMA CallIDsType ==
    ASSUME NEW m \in Msg
    PROVE  CallIDs(m) \in Seq(Calls)
<1>. DEFINE q == m.calls
<1>1. q \in Seq(Entry)
  BY DEF Msg, Msgs
<1>. HIDE DEF q
<1>2. DOMAIN q = 1 .. Len(q) /\ Len(q) \in Nat /\ \A i \in 1 .. Len(q) : q[i] \in Entry
  BY <1>1
<1>3. \A i \in 1 .. Len(q) : q[i].id \in Calls
  BY <1>2 DEF Entry
<1>4. CallIDs(m) = [i \in 1 .. Len(q) |-> q[i].id]
  BY <1>2 DEF CallIDs, q
<1>. QED
  BY <1>2, <1>3, <1>4

(***************************************************************************)
(* The invariant                                                           *)
(***************************************************************************)
Running(x) == Mirror(x) /\ Last(x.messages).role = "assistant"

Phases ==
    /\ phase \in {"idle", "asked", "stream", "stopped", "tools"}
    /\ phase = "stream" =>
          /\ Running(s)
          /\ Last(s.messages).streaming = TRUE \/ Last(s.messages).seq \in closedEarly
    /\ phase = "stopped" => Running(s) /\ Last(s.messages).streaming = FALSE
    /\ pending \in Seq(Calls)
    /\ late \in Nat
    /\ restarts \in Nat

ConversationInv == Ledger(s) /\ LogKept(s) /\ Phases

LEMMA InitInv == Init => ConversationInv /\ Durable(s, closedEarly)
<1>. SUFFICES ASSUME Init PROVE ConversationInv /\ Durable(s, closedEarly)
  OBVIOUS
<1>1. /\ New \in Sess /\ "system" \in Roles /\ NoCall \in Calls \cup {NoCall} /\ FALSE \in BOOLEAN
      /\ <<>> \in Seq(Pieces)
  BY NewType DEF Roles
<1>2. s = AddMessage(New, "system", <<>>, NoCall, FALSE)
  BY DEF Init, AddSystemMessage
<1>3. PICK m \in Msg : Adds(New, s, m) /\ m.role = "system" /\ m.streaming = FALSE
  <2>1. Added(New, s, "system", NoCall, FALSE)
    BY <1>1, <1>2, AddMessageAdds, Zenon
  <2>. QED
    BY <2>1, Zenon DEF Added
<1>4. /\ New.messages = <<>> /\ New.msgSeq = 0 /\ New.provider = <<>>
      /\ New.persisted = FALSE /\ New.log = <<>> /\ New.eol = TRUE
  BY DEF New
<1>. DEFINE v == s.messages
<1>5. /\ s \in Sess /\ s.msgSeq = 1 /\ m.seq = 1 /\ v = Append(<<>>, m) /\ s.provider = <<>>
      /\ s.persisted = FALSE /\ s.log = <<>> /\ s.eol = TRUE
  BY <1>3, <1>4 DEF Adds, Logged, SameLog
<1>6. v # <<>> /\ Len(v) = 1 /\ v[1] = m
  BY <1>5
<1>7. Last(v) = m /\ Increasing(v) /\ Instruction(v[1])
  BY <1>3, <1>5, <1>6 DEF Last, Increasing, Instruction
<1>8. \A i \in 2 .. Len(v) : v[i].role # "system"
  BY <1>6
<1>9. Ledger(s)
  BY <1>5, <1>6, <1>7, <1>8 DEF Ledger
<1>10. LogKept(s) /\ Durable(s, closedEarly)
  BY <1>5 DEF LogKept, Durable
<1>11. Phases
  BY DEF Init, Phases
<1>. QED
  BY <1>9, <1>10, <1>11 DEF ConversationInv

(***************************************************************************)
(* What each action does to the session                                    *)
(***************************************************************************)
StepTo(x, t) == Ledger(t) /\ LogKept(t) /\ \A Z : Durable(x, Z) => Durable(t, Z)

Opens(x, t) ==
    \E m \in Msg : /\ Adds(x, t, m) /\ m.role = "assistant" /\ m.streaming = TRUE
                   /\ m.calls = <<>>

Asks(x, t) ==
    \E m \in Msg : Adds(x, t, m) /\ m.role = "user" /\ m.streaming = FALSE

Answers(x, t, call) ==
    \E m \in Msg : /\ Adds(x, t, m) /\ m.role = "tool" /\ m.streaming = FALSE
                   /\ m.answers = call

(* What the log does not see: a delta of an open message, or what the      *)
(* message was still to get when it was closed early.                      *)
Talks(x, t) ==
    \E m, z : /\ Amends(x, t, m, z) /\ Keeps(x, m, z) /\ SameLog(x, t)
              /\ m.streaming = Last(x.messages).streaming
              /\ m.streaming = TRUE \/ Lengthens(m, Last(x.messages))

LEMMA Starting ==
    ASSUME NEW x \in Sess, NEW t, t = StartAssistantMessage(x)
    PROVE  Opens(x, t)
<1>1. /\ "assistant" \in Roles /\ NoCall \in Calls \cup {NoCall} /\ TRUE \in BOOLEAN
      /\ <<>> \in Seq(Pieces)
  BY DEF Roles
<1>2. t = AddMessage(x, "assistant", <<>>, NoCall, TRUE)
  BY DEF StartAssistantMessage
<1>3. Added(x, t, "assistant", NoCall, TRUE)
  BY <1>1, <1>2, AddMessageAdds, Zenon
<1>. QED
  BY <1>3, Zenon DEF Opens, Added

LEMMA Asking ==
    ASSUME NEW x \in Sess, NEW t, t = AddUserMessage(x)
    PROVE  Asks(x, t)
<1>1. /\ "user" \in Roles /\ NoCall \in Calls \cup {NoCall} /\ FALSE \in BOOLEAN
      /\ <<>> \in Seq(Pieces)
  BY DEF Roles
<1>2. t = AddMessage(x, "user", <<>>, NoCall, FALSE)
  BY DEF AddUserMessage
<1>3. Added(x, t, "user", NoCall, FALSE)
  BY <1>1, <1>2, AddMessageAdds, Zenon
<1>. QED
  BY <1>3, Zenon DEF Asks, Added

LEMMA Answering ==
    ASSUME NEW x \in Sess, NEW call \in Calls, NEW output \in Seq(Pieces),
           NEW t, t = AddToolResultMessage(x, call, output)
    PROVE  Answers(x, t, call)
<1>1. "tool" \in Roles /\ call \in Calls \cup {NoCall} /\ FALSE \in BOOLEAN
  BY DEF Roles
<1>2. t = AddMessage(x, "tool", output, call, FALSE)
  BY DEF AddToolResultMessage
<1>3. Added(x, t, "tool", call, FALSE)
  BY <1>1, <1>2, AddMessageAdds, Zenon
<1>. QED
  BY <1>3, Zenon DEF Answers, Added

LEMMA LedgerLast ==
    ASSUME NEW x, Ledger(x)
    PROVE  /\ x \in Sess /\ x.messages \in Seq(Msg) /\ x.messages # <<>>
           /\ Last(x.messages) \in Msg /\ Last(x.messages).streaming \in BOOLEAN
           /\ Last(x.messages).seq = x.msgSeq
           /\ LastStreams(x.messages) <=> Last(x.messages).streaming = TRUE
           /\ Last(x.messages).streaming = TRUE => Last(x.messages).role = "assistant"
<1>1. x \in Sess /\ x.messages \in Seq(Msg) /\ x.messages # <<>>
  BY DEF Ledger, Sess
<1>2. Last(x.messages) \in Msg
  BY <1>1, LastType
<1>3. /\ Last(x.messages).streaming \in BOOLEAN
      /\ Last(x.messages).streaming = TRUE => Last(x.messages).role = "assistant"
  BY <1>2 DEF Msg, Msgs
<1>. QED
  BY <1>1, <1>2, <1>3 DEF Ledger, LastStreams

LEMMA Talking ==
    ASSUME ConversationInv,
           VisitMessage \/ VisitThinkingStart \/ VisitThinking \/ VisitToolCallStart
    PROVE  /\ phase = "stream" /\ (s' = s \/ Talks(s, s'))
           /\ UNCHANGED <<phase, pending, late, restarts, closedEarly, leftOut>>
<1>1. phase = "stream" /\ UNCHANGED <<phase, pending, late, restarts, closedEarly, leftOut>>
  BY DEF VisitMessage, VisitThinkingStart, VisitThinking, VisitToolCallStart, history
<1>2. /\ s \in Sess /\ s.messages # <<>> /\ Mirror(s) /\ Last(s.messages) \in Msg
      /\ LastStreams(s.messages) <=> Last(s.messages).streaming = TRUE
  BY <1>1, LedgerLast DEF ConversationInv, Phases, Running
<1>3. CASE VisitMessage
  <2>1. "text" \in Pieces /\ s' = AppendDelta(s, "text")
    BY <1>3 DEF VisitMessage, Pieces
  <2>2. CASE LastStreams(s.messages)
    BY <1>1, <1>2, <2>1, <2>2, AppendDeltaAmends DEF Talks
  <2>3. CASE ~LastStreams(s.messages)
    BY <1>1, <2>1, <2>3 DEF AppendDelta
  <2>. QED
    BY <2>2, <2>3
<1>4. CASE VisitThinkingStart
  <2>1. s' = SetThinkingSignature(s)
    BY <1>4 DEF VisitThinkingStart
  <2>2. PICK m, z : /\ Amends(s, s', m, z) /\ Keeps(s, m, z)
                    /\ SameLog(s, s') /\ Lengthens(m, Last(s.messages))
    BY <1>2, <2>1, SignatureAmends
  <2>3. m.streaming = Last(s.messages).streaming
    BY <1>2, <2>2, LengthensFields DEF Amends
  <2>. QED
    BY <1>1, <2>2, <2>3 DEF Talks
<1>5. CASE VisitThinking
  <2>1. "thought" \in Pieces /\ s' = AppendThinkingDelta(s, "thought")
    BY <1>5 DEF VisitThinking, Pieces
  <2>2. CASE LastStreams(s.messages)
    BY <1>1, <1>2, <2>1, <2>2, AppendThinkingDeltaAmends DEF Talks
  <2>3. CASE ~LastStreams(s.messages)
    BY <1>1, <2>1, <2>3 DEF AppendThinkingDelta
  <2>. QED
    BY <2>2, <2>3
<1>6. CASE VisitToolCallStart
  <2>1. PICK call \in Calls : s' = AddToolCallToAssistant(s, call)
    BY <1>6 DEF VisitToolCallStart
  <2>2. PICK m, z : /\ Amends(s, s', m, z) /\ Keeps(s, m, z)
                    /\ SameLog(s, s') /\ Lengthens(m, Last(s.messages))
    BY <1>2, <2>1, AddToolCallAmends
  <2>3. m.streaming = Last(s.messages).streaming
    BY <1>2, <2>2, LengthensFields DEF Amends
  <2>. QED
    BY <1>1, <2>2, <2>3 DEF Talks
<1>. QED
  BY <1>3, <1>4, <1>5, <1>6

(* Finishing closes an open message, and does nothing to another one.      *)
LEMMA Finishing ==
    ASSUME NEW x, Ledger(x), NEW t, t = FinishAssistantMessage(x)
    PROVE  \/ Last(x.messages).streaming = FALSE /\ t = x
           \/ /\ Last(x.messages).streaming = TRUE /\ Last(x.messages).role = "assistant"
              /\ Closes(x, t)
<1>1. CASE Last(x.messages).streaming = TRUE
  <2>1. x \in Sess /\ LastStreams(x.messages) /\ Last(x.messages).role = "assistant"
    BY <1>1, LedgerLast
  <2>2. Closes(x, t)
    BY <2>1, FinishAmends
  <2>. QED
    BY <1>1, <2>1, <2>2
<1>2. CASE Last(x.messages).streaming = FALSE
  <2>1. x \in Sess /\ ~LastStreams(x.messages)
    BY <1>2, LedgerLast
  <2>. QED
    BY <1>2, <2>1, FinishIdle
<1>. QED
  BY <1>1, <1>2, LedgerLast

(* Mirror after messages are added to both.                                *)
LEMMA OpensKept ==
    ASSUME NEW x, Ledger(x), LogKept(x), NEW t, Opens(x, t)
    PROVE  StepTo(x, t) /\ Running(t) /\ Last(t.messages).streaming = TRUE
<1>1. PICK m \in Msg : /\ Adds(x, t, m) /\ m.role = "assistant" /\ m.streaming = TRUE
  BY DEF Opens
<1>2. m.role # "system"
  BY <1>1
<1>3. StepTo(x, t) /\ Last(t.messages) = m
  BY <1>1, <1>2, AddsKept DEF StepTo
<1>4. ASSUME t.provider # <<>> PROVE Last(t.provider) = m
  <2>1. x.provider \in Seq(Msg) /\ t.provider = Append(x.provider, m)
    BY <1>1, <1>4 DEF Adds, Ledger, Sess
  <2>. DEFINE p == x.provider
              q == t.provider
  <2>2. p \in Seq(Msg) /\ q = Append(p, m)
    BY <2>1
  <2>. HIDE DEF p, q
  <2>3. Len(q) = Len(p) + 1
    BY <2>2, AppendParts
  <2>4. q[Len(p) + 1] = m
    BY <2>2, AppendParts
  <2>5. Last(q) = m
    BY <2>3, <2>4 DEF Last
  <2>. QED
    BY <2>5 DEF q
<1>5. Mirror(t)
  BY <1>3, <1>4 DEF Mirror, Follows, SameID
<1>. QED
  BY <1>1, <1>3, <1>5 DEF Running

LEMMA AsksKept ==
    ASSUME NEW x, Ledger(x), LogKept(x), NEW t, Asks(x, t)
    PROVE  StepTo(x, t)
<1>1. PICK m \in Msg : Adds(x, t, m) /\ m.role = "user"
  BY DEF Asks
<1>2. m.role # "system"
  BY <1>1
<1>. QED
  BY <1>1, <1>2, AddsKept DEF StepTo

LEMMA AnswersKept ==
    ASSUME NEW x, Ledger(x), LogKept(x), NEW t, NEW call, Answers(x, t, call)
    PROVE  StepTo(x, t)
<1>1. PICK m \in Msg : Adds(x, t, m) /\ m.role = "tool"
  BY DEF Answers
<1>2. m.role # "system"
  BY <1>1
<1>. QED
  BY <1>1, <1>2, AddsKept DEF StepTo

LEMMA TalksKept ==
    ASSUME NEW x, Ledger(x), LogKept(x), Running(x), NEW t, Talks(x, t)
    PROVE  /\ Ledger(t) /\ LogKept(t) /\ Running(t)
           /\ Last(t.messages).streaming = Last(x.messages).streaming
           /\ Last(t.messages).seq = Last(x.messages).seq
           /\ \A Z : /\ Durable(x, Z)
                     /\ Last(x.messages).streaming = TRUE \/ Last(x.messages).seq \in Z
                     => Durable(t, Z)
<1>1. PICK m, z : /\ Amends(x, t, m, z) /\ Keeps(x, m, z) /\ SameLog(x, t)
                  /\ m.streaming = Last(x.messages).streaming
                  /\ m.streaming = TRUE \/ Lengthens(m, Last(x.messages))
  BY DEF Talks
<1>2. Mirror(x) /\ Last(x.messages).role = "assistant"
  BY DEF Running
<1>3. /\ Ledger(t) /\ LogKept(t) /\ Mirror(t) /\ Last(t.messages) = m /\ m.role = "assistant"
      /\ \A Z : Durable(x, Z) /\ (m.streaming = TRUE \/ m.seq \in Z) => Durable(t, Z)
  BY <1>1, <1>2, AmendsUnseen
<1>4. m.seq = Last(x.messages).seq
  BY <1>1 DEF Amends, SameID
<1>. QED
  BY <1>1, <1>3, <1>4 DEF Running

LEMMA ClosesKept ==
    ASSUME NEW x, Ledger(x), LogKept(x), Last(x.messages).role = "assistant",
           NEW t, Closes(x, t)
    PROVE  /\ StepTo(x, t) /\ Last(t.messages).streaming = FALSE
           /\ Running(x) => Running(t)
           /\ SameID(Last(t.messages), Last(x.messages))
           /\ CallIDs(Last(t.messages)) = CallIDs(Last(x.messages))
<1>1. PICK m, z : /\ Amends(x, t, m, z) /\ Logged(x, t, MessageRecord(m))
                  /\ Mirror(x) => Keeps(x, m, z)
                  /\ m.streaming = FALSE /\ CallIDs(m) = CallIDs(Last(x.messages))
  BY DEF Closes
<1>2. /\ Ledger(t) /\ LogKept(t) /\ Last(t.messages) = m /\ m.role = "assistant"
      /\ Keeps(x, m, z) => Mirror(t)
      /\ \A Z : Durable(x, Z) => Durable(t, Z)
  BY <1>1, AmendsKept
<1>3. SameID(m, Last(x.messages))
  BY <1>1 DEF Amends
<1>. QED
  BY <1>1, <1>2, <1>3 DEF StepTo, Running

LEMMA FinishKept ==
    ASSUME NEW x, Ledger(x), LogKept(x), NEW t, t = FinishAssistantMessage(x)
    PROVE  /\ StepTo(x, t) /\ Last(t.messages).streaming = FALSE
           /\ Running(x) => Running(t)
           /\ Last(t.messages).seq = Last(x.messages).seq
           /\ CallIDs(Last(t.messages)) = CallIDs(Last(x.messages))
           /\ Last(x.messages).streaming = FALSE => t = x
<1>1. CASE Last(x.messages).streaming = FALSE /\ t = x
  BY <1>1 DEF StepTo
<1>2. CASE /\ Last(x.messages).streaming = TRUE /\ Last(x.messages).role = "assistant"
           /\ Closes(x, t)
  BY <1>2, ClosesKept DEF SameID
<1>. QED
  BY <1>1, <1>2, Finishing

(* Filling in one input either does nothing or closes a closed message.    *)
LEMMA Updating ==
    ASSUME NEW x, Ledger(x), Running(x), Last(x.messages).streaming = FALSE,
           NEW c, NEW t, t = UpdateToolCallInput(x, c)
    PROVE  t = x \/ Closes(x, t)
<1>1. x \in Sess /\ x.messages # <<>> /\ Mirror(x)
  BY DEF Ledger, Running
<1>2. ASSUME t # x PROVE Closes(x, t)
  <2>1. PICK m, z : /\ Amends(x, t, m, z) /\ Keeps(x, m, z)
                    /\ Logged(x, t, MessageRecord(m))
                    /\ m.streaming = Last(x.messages).streaming
                    /\ CallIDs(m) = CallIDs(Last(x.messages))
    BY <1>1, <1>2, UpdateAmends
  <2>. QED
    BY <2>1 DEF Closes
<1>. QED
  BY <1>2

LEMMA StepToTrans ==
    ASSUME NEW x, NEW y, NEW z, StepTo(x, y), StepTo(y, z)
    PROVE  StepTo(x, z)
BY DEF StepTo

LEMMA Submitting ==
    ASSUME ConversationInv, Submit
    PROVE  \E w, y :
              /\ y = ConfigurePersistence(s, w) /\ Ledger(y) /\ LogKept(y) /\ StepTo(s, y)
              /\ y.messages = s.messages /\ y.provider = s.provider /\ y.msgSeq = s.msgSeq
              /\ Asks(y, s') /\ StepTo(y, s') /\ StepTo(s, s')
<1>1. Ledger(s) /\ LogKept(s)
  BY DEF ConversationInv
<1>2. PICK w \in Writes : s' = AddUserMessage(ConfigurePersistence(s, w))
  BY DEF Submit
<1>3. w \in BOOLEAN
  BY ConversationAssumption
<1>. DEFINE y == ConfigurePersistence(s, w)
<1>4. /\ Ledger(y) /\ LogKept(y) /\ StepTo(s, y)
      /\ y.messages = s.messages /\ y.provider = s.provider /\ y.msgSeq = s.msgSeq
  BY <1>1, <1>3, ConfigureKept DEF StepTo
<1>5. y \in Sess
  BY <1>4, LedgerCounter
<1>6. s' = AddUserMessage(y) /\ y = ConfigurePersistence(s, w)
  BY <1>2
<1>. HIDE DEF y
<1>7. Asks(y, s')
  BY <1>5, <1>6, Asking
<1>8. StepTo(y, s')
  BY <1>4, <1>7, AsksKept
<1>9. StepTo(s, s')
  BY <1>4, <1>8, StepToTrans
<1>. QED
  BY <1>4, <1>6, <1>7, <1>8, <1>9

(* No set of sessions that filling in one input does not leave is left by  *)
(* filling in all of them.                                                 *)
LEMMA Dispatches ==
    ASSUME ConversationInv, DispatchTools, NEW P, s \in P,
           \A y \in P, t \in Sess :
               /\ Ledger(y) /\ LogKept(y) /\ Running(y)
               /\ Last(y.messages).streaming = FALSE /\ Closes(y, t)
               => t \in P
    PROVE  /\ StepTo(s, s') /\ s' \in P /\ Last(s'.messages).streaming = FALSE
           /\ pending' \in Seq(Calls) /\ pending' = CallIDs(Last(s.messages))
           /\ phase = "stopped"
<1>. DEFINE ids == CallIDs(Last(s.messages))
            Q == {y \in P : /\ StepTo(s, y) /\ Running(y)
                            /\ Last(y.messages).streaming = FALSE}
<1>1. /\ phase = "stopped" /\ Ledger(s) /\ LogKept(s) /\ Running(s)
      /\ Last(s.messages).streaming = FALSE
      /\ s' = UpdateToolCallInputs(s, ids) /\ pending' = ids
  BY DEF DispatchTools, ConversationInv, Phases
<1>2. ids \in Seq(Calls)
  BY <1>1, LedgerLast, CallIDsType
<1>3. s \in Q
  BY <1>1 DEF StepTo
<1>4. ASSUME NEW y \in Q, NEW c \in Calls PROVE UpdateToolCallInput(y, c) \in Q
  <2>. DEFINE t == UpdateToolCallInput(y, c)
  <2>1. /\ y \in P /\ StepTo(s, y) /\ Running(y) /\ Last(y.messages).streaming = FALSE
        /\ Ledger(y) /\ LogKept(y)
    BY DEF StepTo
  <2>2. t = y \/ Closes(y, t)
    BY <2>1, Updating
  <2>. HIDE DEF t
  <2>3. CASE Closes(y, t)
    <3>1. StepTo(y, t) /\ Running(t) /\ Last(t.messages).streaming = FALSE
      BY <2>1, <2>3, ClosesKept DEF Running
    <3>2. StepTo(s, t)
      BY <2>1, <3>1, StepToTrans
    <3>3. t \in Sess
      BY <3>1, LedgerCounter DEF StepTo
    <3>4. t \in P
      BY <2>1, <2>3, <3>3
    <3>. QED
      BY <3>1, <3>2, <3>4 DEF t
  <2>4. CASE t = y
    BY <2>4 DEF t
  <2>. QED
    BY <2>2, <2>3, <2>4
<1>5. s' \in Q
  <2>. HIDE DEF Q, ids
  <2>1. UpdateToolCallInputs(s, ids) \in Q
    BY <1>2, <1>3, <1>4, UpdatesStay
  <2>. QED
    BY <1>1, <2>1
<1>. QED
  BY <1>1, <1>2, <1>5

LEMMA Dispatching ==
    ASSUME ConversationInv, DispatchTools
    PROVE  StepTo(s, s') /\ pending' \in Seq(Calls) /\ phase = "stopped"
<1>1. s \in Sess
  BY LedgerLast DEF ConversationInv
<1>. QED
  BY <1>1, Dispatches

LEMMA Storing ==
    ASSUME ConversationInv, StoreResult
    PROVE  /\ Answers(s, s', Head(pending)) /\ StepTo(s, s') /\ pending' \in Seq(Calls)
           /\ pending # <<>> /\ pending' = Tail(pending)
<1>1. /\ Ledger(s) /\ LogKept(s) /\ s \in Sess /\ pending \in Seq(Calls) /\ pending # <<>>
      /\ pending' = Tail(pending)
  BY LedgerCounter DEF StoreResult, ConversationInv, Phases
<1>2. Head(pending) \in Calls /\ pending' \in Seq(Calls)
  BY <1>1
<1>3. PICK output \in Outputs : s' = AddToolResultMessage(s, Head(pending), output)
  BY DEF StoreResult
<1>4. Answers(s, s', Head(pending))
  BY <1>1, <1>2, <1>3, OutputTypes, Answering
<1>5. StepTo(s, s')
  BY <1>1, <1>4, AnswersKept
<1>. QED
  BY <1>1, <1>2, <1>4, <1>5

LEMMA Opening ==
    ASSUME ConversationInv, StartAnswer \/ NextIteration
    PROVE  /\ Opens(s, s') /\ StepTo(s, s') /\ Running(s') /\ Last(s'.messages).streaming = TRUE
           /\ phase' = "stream" /\ UNCHANGED <<pending, late, restarts, closedEarly, leftOut>>
<1>1. /\ Ledger(s) /\ LogKept(s) /\ s \in Sess /\ s' = StartAssistantMessage(s)
      /\ phase' = "stream" /\ UNCHANGED <<pending, late, restarts, closedEarly, leftOut>>
  BY LedgerCounter DEF StartAnswer, NextIteration, ConversationInv, history
<1>2. Opens(s, s')
  BY <1>1, Starting
<1>. QED
  BY <1>1, <1>2, OpensKept

LEMMA Compacting ==
    ASSUME ConversationInv, Compact
    PROVE  StepTo(s, s') /\ s'.messages = s.messages
BY CompactKept DEF ConversationInv, Compact, StepTo

LEMMA Restarting ==
    ASSUME ConversationInv, Restart
    PROVE  /\ Ledger(s') /\ LogKept(s')
           /\ \A Z : Tears \subseteq {"intact", "lost"} /\ Durable(s, Z) => Durable(s', Z)
           /\ restarts' = restarts + 1 /\ phase' = "idle" /\ pending' = <<>>
           /\ late' \in Nat /\ UNCHANGED <<closedEarly, leftOut>>
<1>1. /\ Ledger(s) /\ LogKept(s) /\ s.persisted = TRUE /\ s.eol \in BOOLEAN /\ late \in Nat
      /\ restarts' = restarts + 1 /\ phase' = "idle" /\ pending' = <<>>
      /\ UNCHANGED <<closedEarly, leftOut>>
  <2>1. Ledger(s) /\ LogKept(s) /\ s.persisted
    BY DEF ConversationInv, Restart
  <2>2. s.persisted \in BOOLEAN /\ s.eol \in BOOLEAN
    BY <2>1 DEF Ledger, Sess
  <2>. QED
    BY <2>1, <2>2 DEF Restart, ConversationInv, Phases, history
<1>2. PICK tear \in Tears :
          /\ tear # "intact" => s.eol /\ Len(s.log) > 1
          /\ s' = Load(Torn(tear)[1], Torn(tear)[2])
          /\ late' \in IF tear = "intact" /\ phase = "idle" THEN 0 .. late ELSE {0}
  BY DEF Restart
<1>3. tear \in {"intact", "lost", "partial", "noNewline"}
  BY ConversationAssumption
<1>. DEFINE l == Torn(tear)[1]
            e == Torn(tear)[2]
<1>4. \/ tear = "lost" /\ l = Front(s.log) /\ e = TRUE
      \/ tear = "partial" /\ l = Front(s.log) \o <<Unreadable>> /\ e = FALSE
      \/ tear = "noNewline" /\ l = s.log /\ e = FALSE
      \/ tear = "intact" /\ l = s.log /\ e = s.eol
  BY <1>3 DEF Torn
<1>5. tear # "intact" => s.eol = TRUE /\ Len(s.log) > 1
  BY <1>1, <1>2
<1>6. s' = Load(l, e)
  BY <1>2
<1>. HIDE DEF l, e
<1>7. /\ Ledger(s') /\ LogKept(s')
      /\ \A Z : tear \in {"intact", "lost"} /\ Durable(s, Z) => Durable(s', Z)
  BY <1>1, <1>3, <1>4, <1>5, <1>6, TornKept
<1>8. late' \in Nat
  BY <1>1, <1>2
<1>. QED
  BY <1>1, <1>7, <1>8

(***************************************************************************)
(* Every step keeps the invariant.                                         *)
(***************************************************************************)
LEMMA StepInv ==
    ASSUME ConversationInv, [Next]_vars
    PROVE  /\ ConversationInv'
           /\ Tears \subseteq {"intact", "lost"} /\ Durable(s, closedEarly)
                 => Durable(s, closedEarly)'
<1>0. /\ Ledger(s) /\ LogKept(s) /\ Phases
  BY DEF ConversationInv
<1>. USE DEF history
<1>1. CASE Submit
  <2>1. StepTo(s, s')
    BY <1>1, Submitting
  <2>2. phase' = "asked" /\ UNCHANGED <<pending, late, restarts, closedEarly>>
    BY <1>1 DEF Submit
  <2>3. Phases'
    BY <1>0, <2>2 DEF Phases
  <2>. QED
    BY <2>1, <2>2, <2>3 DEF ConversationInv, StepTo
<1>2. CASE VisitMessage \/ VisitThinkingStart \/ VisitThinking \/ VisitToolCallStart
  <2>1. /\ phase = "stream" /\ (s' = s \/ Talks(s, s'))
        /\ UNCHANGED <<phase, pending, late, restarts, closedEarly>>
    BY <1>2, Talking
  <2>2. CASE s' = s
    <3>1. Phases'
      BY <1>0, <2>1, <2>2 DEF Phases
    <3>. QED
      BY <1>0, <2>1, <2>2, <3>1 DEF ConversationInv
  <2>3. CASE Talks(s, s')
    <3>1. /\ Running(s)
          /\ Last(s.messages).streaming = TRUE \/ Last(s.messages).seq \in closedEarly
      BY <1>0, <2>1 DEF Phases
    <3>2. /\ Ledger(s') /\ LogKept(s') /\ Running(s')
          /\ Last(s'.messages).streaming = Last(s.messages).streaming
          /\ Last(s'.messages).seq = Last(s.messages).seq
          /\ Durable(s, closedEarly) => Durable(s', closedEarly)
      BY <1>0, <2>3, <3>1, TalksKept
    <3>3. Phases'
      BY <1>0, <2>1, <3>1, <3>2 DEF Phases
    <3>. QED
      BY <2>1, <3>2, <3>3 DEF ConversationInv
  <2>. QED
    BY <2>1, <2>2, <2>3
<1>3. CASE StopForTools
  <2>1. /\ phase = "stream" /\ phase' = "stopped" /\ UNCHANGED <<pending, late, restarts, closedEarly>>
        /\ s' = FinishAssistantMessage(s)
    BY <1>3 DEF StopForTools
  <2>2. StepTo(s, s') /\ Running(s') /\ Last(s'.messages).streaming = FALSE
    BY <1>0, <2>1, FinishKept DEF Phases
  <2>3. Phases'
    BY <1>0, <2>1, <2>2 DEF Phases
  <2>. QED
    BY <2>1, <2>2, <2>3 DEF ConversationInv, StepTo
<1>4. CASE DispatchTools
  <2>1. StepTo(s, s') /\ pending' \in Seq(Calls)
    BY <1>4, Dispatching
  <2>2. phase' = "tools" /\ UNCHANGED <<late, restarts, closedEarly>>
    BY <1>4 DEF DispatchTools
  <2>3. Phases'
    BY <1>0, <2>1, <2>2 DEF Phases
  <2>. QED
    BY <2>1, <2>2, <2>3 DEF ConversationInv, StepTo
<1>5. CASE StoreResult
  <2>1. StepTo(s, s') /\ pending' \in Seq(Calls)
    BY <1>5, Storing
  <2>2. phase = "tools" /\ UNCHANGED <<phase, late, restarts, closedEarly>>
    BY <1>5 DEF StoreResult
  <2>3. Phases'
    BY <1>0, <2>1, <2>2 DEF Phases
  <2>. QED
    BY <2>1, <2>2, <2>3 DEF ConversationInv, StepTo
<1>6. CASE StartAnswer \/ NextIteration
  <2>1. /\ StepTo(s, s') /\ Running(s') /\ Last(s'.messages).streaming = TRUE
        /\ phase' = "stream" /\ UNCHANGED <<pending, late, restarts, closedEarly>>
    BY <1>6, Opening
  <2>2. Phases'
    BY <1>0, <2>1 DEF Phases
  <2>. QED
    BY <2>1, <2>2 DEF ConversationInv, StepTo
<1>7. CASE LoopCompletes \/ RunCancelled
  <2>1. /\ phase' = "idle" /\ UNCHANGED <<pending, restarts, closedEarly>> /\ late' \in Nat
        /\ s' = FinishAssistantMessage(s)
    BY <1>0, <1>7 DEF LoopCompletes, RunCancelled, Phases
  <2>2. StepTo(s, s')
    BY <1>0, <2>1, FinishKept
  <2>3. Phases'
    BY <1>0, <2>1 DEF Phases
  <2>. QED
    BY <2>1, <2>2, <2>3 DEF ConversationInv, StepTo
<1>8. CASE RunFails
  <2>1. phase' = "idle" /\ UNCHANGED <<s, pending, restarts, closedEarly>> /\ late' \in Nat
    BY <1>0, <1>8 DEF RunFails, Phases
  <2>2. Phases'
    BY <1>0, <2>1 DEF Phases
  <2>. QED
    BY <1>0, <2>1, <2>2 DEF ConversationInv
<1>9. CASE DeferredFinish
  <2>1. /\ late > 0 /\ late' = late - 1 /\ UNCHANGED <<phase, pending, restarts>>
        /\ s' = FinishAssistantMessage(s)
        /\ closedEarly' = IF phase = "stream" /\ Last(s.messages).streaming
                          THEN closedEarly \union {Last(s.messages).seq} ELSE closedEarly
    BY <1>9 DEF DeferredFinish
  <2>2. /\ StepTo(s, s') /\ Last(s'.messages).streaming = FALSE
        /\ Running(s) => Running(s')
        /\ Last(s'.messages).seq = Last(s.messages).seq
    BY <1>0, <2>1, FinishKept
  <2>3. /\ closedEarly \subseteq closedEarly'
        /\ phase = "stream" /\ Last(s.messages).streaming = TRUE
              => Last(s.messages).seq \in closedEarly'
    BY <2>1
  <2>4. late' \in Nat
    BY <1>0, <2>1 DEF Phases
  <2>5. Phases'
    BY <1>0, <2>1, <2>2, <2>3, <2>4 DEF Phases
  <2>6. Durable(s, closedEarly) => Durable(s', closedEarly')
    BY <2>2, <2>3, DurableGrows DEF StepTo
  <2>. QED
    BY <2>2, <2>5, <2>6 DEF ConversationInv, StepTo
<1>10. CASE Compact
  <2>1. StepTo(s, s')
    BY <1>10, Compacting
  <2>2. phase = "idle" /\ UNCHANGED <<phase, pending, late, restarts, closedEarly>>
    BY <1>10 DEF Compact
  <2>3. Phases'
    BY <1>0, <2>2 DEF Phases
  <2>. QED
    BY <2>1, <2>2, <2>3 DEF ConversationInv, StepTo
<1>11. CASE Restart
  <2>1. /\ Ledger(s') /\ LogKept(s')
        /\ Tears \subseteq {"intact", "lost"} /\ Durable(s, closedEarly) => Durable(s', closedEarly)
        /\ restarts' = restarts + 1 /\ phase' = "idle" /\ pending' = <<>> /\ late' \in Nat
        /\ closedEarly' = closedEarly
    BY <1>11, Restarting
  <2>2. Phases'
    BY <1>0, <2>1 DEF Phases
  <2>. QED
    BY <2>1, <2>2 DEF ConversationInv
<1>12. CASE UNCHANGED vars
  <2>1. UNCHANGED <<s, phase, pending, late, restarts, closedEarly>>
    BY <1>12 DEF vars
  <2>2. Ledger(s)' /\ LogKept(s)'
    BY <1>0, <2>1
  <2>3. Phases'
    BY <1>0, <2>1 DEF Phases
  <2>. QED
    BY <2>1, <2>2, <2>3 DEF ConversationInv
<1>. QED
  BY <1>1, <1>2, <1>3, <1>4, <1>5, <1>6, <1>7, <1>8, <1>9, <1>10, <1>11, <1>12 DEF Next

(* The invariant holds of every reachable state: the session is typed, its *)
(* ledger is in order and begins with the system message, the view (if any)*)
(* has it too, what every prefix of the log loads is such a ledger and no  *)
(* newer than the session, and a run's last message is mirrored.           *)
THEOREM ConversationIsSound == Spec => []ConversationInv
<1>1. Init => ConversationInv
  BY InitInv
<1>2. ConversationInv /\ [Next]_vars => ConversationInv'
  BY StepInv
<1>. QED
  BY <1>1, <1>2, PTL DEF Spec

LEMMA InvIDs == ConversationInv => IDsIncrease
<1>. SUFFICES ASSUME ConversationInv PROVE IDsIncrease
  OBVIOUS
<1>1. Ledger(s) /\ s.messages \in Seq(Msg)
  BY DEF ConversationInv, Ledger, Sess
<1>. QED
  BY <1>1 DEF IDsIncrease, Ledger, Increasing

(* Message IDs are given out in order and never twice, also after Load has *)
(* rebuilt the counter from a log (session.go) that a crash has cut,       *)
(* whatever the crash has done to its last line.                           *)
THEOREM IDsAlwaysIncrease == Spec => []IDsIncrease
<1>1. Spec => []ConversationInv
  BY ConversationIsSound
<1>2. ConversationInv => IDsIncrease
  BY InvIDs
<1>. QED
  BY <1>1, <1>2, PTL

LEMMA InvSystems == ConversationInv => SystemsReinjected
<1>. SUFFICES ASSUME ConversationInv, NEW m \in Range(s.messages), IsSystem(m)
              PROVE  \E n \in Range(ProviderMessages(s)) : SameID(m, n)
  BY DEF SystemsReinjected
<1>. DEFINE q == s.messages
            p == s.provider
<1>1. /\ Ledger(s) /\ q \in Seq(Msg) /\ p \in Seq(Msg) /\ q # <<>>
  BY DEF ConversationInv, Ledger, Sess
<1>2. m.role = "system"
  BY DEF IsSystem
<1>3. PICK i \in 1 .. Len(q) : m = q[i]
  <2>1. Range(q) = Elements(q)
    BY <1>1, RangeIsElements
  <2>. QED
    BY <2>1 DEF Elements
<1>4. m = q[1] /\ Instruction(m)
  <2>1. i \notin 2 .. Len(q)
    BY <1>2, <1>3 DEF ConversationInv, Ledger
  <2>2. i = 1
    BY <1>1, <2>1
  <2>. QED
    BY <1>3, <2>2 DEF ConversationInv, Ledger
<1>5. CASE p = <<>>
  BY <1>5 DEF ProviderMessages, SameID
<1>6. CASE p # <<>>
  <2>1. PICK j \in 1 .. Len(p) : Instruction(p[j])
    BY <1>1, <1>6 DEF Ledger, Instructs
  <2>2. p[j] \in Range(p) /\ SameID(m, p[j])
    BY <1>1, <1>4, <2>1, RangeIsElements DEF Elements, Instruction, SameID
  <2>. QED
    BY <1>6, <2>2 DEF ProviderMessages
<1>. QED
  BY <1>5, <1>6

(* "System instructions are always re-injected rather than summarized"     *)
(* (context.go): no compaction and no load, however many came before,      *)
(* leaves a system message of the ledger out of the view.                  *)
THEOREM SystemsStay == Spec => []SystemsReinjected
<1>1. Spec => []ConversationInv
  BY ConversationIsSound
<1>2. ConversationInv => SystemsReinjected
  BY InvSystems
<1>. QED
  BY <1>1, <1>2, PTL

LEMMA InvDurable == ConversationInv /\ Durable(s, closedEarly) => LedgerIsDurable
<1>. SUFFICES ASSUME ConversationInv, Durable(s, closedEarly), s.persisted
              PROVE  LedgerIsDurable
  BY Zenon DEF LedgerIsDurable
<1>. DEFINE y == Replayed(s.log)
<1>1. /\ s \in Sess /\ s.messages \in Seq(Msg) /\ s.log \in Seq(Line)
      /\ s.persisted = TRUE /\ Stored(y, s, closedEarly) /\ Loads(s.log)
  BY DEF ConversationInv, Durable, LogKept, Ledger, Sess
<1>2. y \in Sess
  BY <1>1, LoadsAll, LedgerCounter
<1>3. Reloaded = [y EXCEPT !.persisted = TRUE, !.log = s.log, !.eol = s.eol]
  BY DEF Reloaded, Load
<1>. HIDE DEF y
<1>4. Reloaded.messages = y.messages
  BY <1>2, <1>3 DEF Sess
<1>. HIDE DEF Reloaded
<1>5. DOMAIN s.messages = 1 .. Len(s.messages)
  BY <1>1
<1>6. /\ Len(Reloaded.messages) = Len(s.messages)
      /\ \A i \in DOMAIN s.messages :
            Tells(Reloaded.messages[i], s.messages[i], closedEarly)
  BY <1>1, <1>4, <1>5 DEF Stored
<1>7. ASSUME NEW n, NEW m, Tells(n, m, closedEarly)
      PROVE  /\ SameID(n, m)
             /\ \/ m.streaming
                \/ n = m
                \/ /\ m.seq \in closedEarly
                   /\ n = [m EXCEPT !.calls = n.calls, !.signed = n.signed]
  BY <1>7 DEF Tells, Lengthens
<1>. QED
  BY <1>6, <1>7, Zenon DEF LedgerIsDurable

(* If a crash takes whole lines or nothing, loading the log gives the      *)
(* messages of the ledger in their order, each finished one with its final *)
(* text, calls and inputs: every method of session.go writes what it has   *)
(* changed in a finished message, and Load puts it where it was.  Only of  *)
(* a message that an older run's deferred call closed while it was written *)
(* may calls be missing, for AddToolCallToAssistant leaves the log alone.  *)
THEOREM LedgerSurvives ==
    ASSUME Tears \subseteq {"intact", "lost"}
    PROVE  Spec => []LedgerIsDurable
<1>1. Init => ConversationInv /\ Durable(s, closedEarly)
  BY InitInv
<1>2. ConversationInv /\ Durable(s, closedEarly) /\ [Next]_vars
         => ConversationInv' /\ Durable(s, closedEarly)'
  BY StepInv
<1>3. ConversationInv /\ Durable(s, closedEarly) => LedgerIsDurable
  BY InvDurable
<1>. QED
  BY <1>1, <1>2, <1>3, PTL DEF Spec

(***************************************************************************)
(* The open message                                                        *)
(***************************************************************************)
(* Every open message but the last is followed by the user's next prompt.  *)
Overtaken(x) ==
    \A i \in 1 .. Len(x.messages) - 1 :
        x.messages[i].streaming = TRUE => x.messages[i + 1].role = "user"

LEMMA OvertakenAdds ==
    ASSUME NEW x, Ledger(x), NEW t, NEW m, Adds(x, t, m), Overtaken(x),
           Last(x.messages).streaming = FALSE \/ m.role = "user"
    PROVE  Overtaken(t)
<1>. DEFINE q == x.messages
            r == t.messages
<1>1. q \in Seq(Msg) /\ q # <<>> /\ m \in Msg /\ r = Append(q, m)
  BY DEF Ledger, Sess, Adds
<1>2. Last(q) = q[Len(q)] /\ Len(q) \in Nat
  BY <1>1, LastType
<1>. HIDE DEF q, r
<1>3. /\ Len(r) = Len(q) + 1 /\ r[Len(q) + 1] = m
      /\ \A i \in 1 .. Len(q) : r[i] = q[i]
  BY <1>1, AppendParts
<1>4. ASSUME NEW i \in 1 .. Len(r) - 1, r[i].streaming = TRUE PROVE r[i + 1].role = "user"
  <2>1. i \in 1 .. Len(q) /\ q[i].streaming = TRUE
    BY <1>2, <1>3, <1>4
  <2>2. CASE i = Len(q)
    BY <1>2, <1>3, <2>1, <2>2 DEF q
  <2>3. CASE i # Len(q)
    <3>1. i \in 1 .. Len(q) - 1 /\ i + 1 \in 1 .. Len(q)
      BY <1>2, <2>1, <2>3
    <3>. QED
      BY <1>3, <2>1, <3>1 DEF Overtaken, q
  <2>. QED
    BY <2>2, <2>3
<1>. QED
  BY <1>4 DEF Overtaken, r

LEMMA OvertakenAmends ==
    ASSUME NEW x, Ledger(x), NEW t, NEW m, NEW z, Amends(x, t, m, z), Overtaken(x)
    PROVE  Overtaken(t)
<1>. DEFINE q == x.messages
            r == t.messages
<1>1. /\ q \in Seq(Msg) /\ q # <<>> /\ m \in Msg /\ r = SetLast(q, m)
      /\ m.role = Last(q).role
  BY DEF Ledger, Sess, Amends, SameID
<1>2. Last(q) = q[Len(q)] /\ Len(q) \in Nat
  BY <1>1, LastType
<1>. HIDE DEF q, r
<1>3. /\ Len(r) = Len(q) /\ Last(r) = m /\ r \in Seq(Msg) /\ r # <<>>
      /\ \A i \in 1 .. Len(q) : i # Len(q) => r[i] = q[i]
  BY <1>1, SetLastType
<1>4. r[Len(q)] = m
  BY <1>3, LastType
<1>5. ASSUME NEW i \in 1 .. Len(r) - 1, r[i].streaming = TRUE PROVE r[i + 1].role = "user"
  <2>1. i \in 1 .. Len(q) - 1 /\ i \in 1 .. Len(q) /\ i + 1 \in 1 .. Len(q) /\ i # Len(q)
    BY <1>2, <1>3
  <2>2. q[i].streaming = TRUE
    BY <1>3, <1>5, <2>1
  <2>3. q[i + 1].role = "user"
    BY <2>1, <2>2 DEF Overtaken, q
  <2>4. r[i + 1].role = q[i + 1].role
    BY <1>1, <1>2, <1>3, <1>4, <2>1
  <2>. QED
    BY <2>3, <2>4
<1>. QED
  BY <1>5 DEF Overtaken, r

LEMMA OvertakenFinish ==
    ASSUME NEW x, Ledger(x), LogKept(x), Overtaken(x), NEW t, t = FinishAssistantMessage(x)
    PROVE  Overtaken(t) /\ Last(t.messages).streaming = FALSE
<1>1. Last(t.messages).streaming = FALSE
  BY FinishKept
<1>2. t = x \/ Closes(x, t)
  BY Finishing
<1>3. Overtaken(t)
  BY <1>2, OvertakenAmends DEF Closes
<1>. QED
  BY <1>1, <1>3

(* In the process that began the conversation the last message is open     *)
(* only while a response streams, or until a deferred call has come.       *)
OpenInv ==
    restarts = 0 =>
        /\ Overtaken(s)
        /\ Last(s.messages).streaming = TRUE => phase = "stream" \/ (phase = "idle" /\ late > 0)

LEMMA InitOpen == Init => OpenInv
<1>. SUFFICES ASSUME Init PROVE OpenInv
  OBVIOUS
<1>1. /\ New \in Sess /\ "system" \in Roles /\ NoCall \in Calls \cup {NoCall} /\ FALSE \in BOOLEAN
      /\ <<>> \in Seq(Pieces)
  BY NewType DEF Roles
<1>2. s = AddMessage(New, "system", <<>>, NoCall, FALSE)
  BY DEF Init, AddSystemMessage
<1>3. PICK m \in Msg : Adds(New, s, m) /\ m.streaming = FALSE
  <2>1. Added(New, s, "system", NoCall, FALSE)
    BY <1>1, <1>2, AddMessageAdds, Zenon
  <2>. QED
    BY <2>1, Zenon DEF Added
<1>. DEFINE v == s.messages
<1>4. v = Append(<<>>, m)
  BY <1>3 DEF Adds, New
<1>5. Len(v) = 1 /\ v[1] = m
  BY <1>4
<1>. HIDE DEF v
<1>6. Last(v) = m /\ 1 .. Len(v) - 1 = {}
  BY <1>5 DEF Last
<1>. QED
  BY <1>3, <1>6 DEF OpenInv, Overtaken, v

LEMMA StepOpen ==
    ASSUME ConversationInv, OpenInv, [Next]_vars
    PROVE  OpenInv'
<1>. DEFINE Open(x) == Last(x.messages).streaming = TRUE
<1>. SUFFICES ASSUME restarts' = 0
              PROVE  /\ Overtaken(s')
                     /\ Open(s') => phase' = "stream" \/ (phase' = "idle" /\ late' > 0)
  BY DEF OpenInv
<1>0. /\ Ledger(s) /\ LogKept(s) /\ Phases /\ s \in Sess
      /\ Last(s.messages).streaming \in BOOLEAN /\ late \in Nat /\ restarts \in Nat
  BY LedgerLast DEF ConversationInv, Phases
<1>a. restarts = 0 => /\ Overtaken(s)
                      /\ Open(s) => phase = "stream" \/ (phase = "idle" /\ late > 0)
  BY DEF OpenInv
<1>b. restarts = 0 /\ phase \notin {"stream", "idle"} => Last(s.messages).streaming = FALSE
  BY <1>0, <1>a
<1>1. CASE Submit
  <2>1. phase' = "asked" /\ restarts' = restarts
    BY <1>1 DEF Submit
  <2>2. PICK w, y : Ledger(y) /\ LogKept(y) /\ y.messages = s.messages /\ Asks(y, s')
    BY <1>1, Submitting
  <2>3. Overtaken(y)
    BY <1>a, <2>1, <2>2 DEF Overtaken
  <2>4. PICK m \in Msg : Adds(y, s', m) /\ m.role = "user" /\ m.streaming = FALSE
    BY <2>2 DEF Asks
  <2>5. Overtaken(s')
    BY <2>2, <2>3, <2>4, OvertakenAdds
  <2>6. m.role # "system"
    BY <2>4
  <2>7. Last(s'.messages) = m
    BY <2>2, <2>4, <2>6, AddsKept
  <2>. QED
    BY <2>4, <2>5, <2>7
<1>2. CASE VisitMessage \/ VisitThinkingStart \/ VisitThinking \/ VisitToolCallStart
  <2>1. /\ phase' = "stream" /\ restarts' = restarts
        /\ s' = s \/ Talks(s, s')
    BY <1>2, Talking
  <2>2. Overtaken(s')
    BY <1>0, <1>a, <2>1, OvertakenAmends DEF Talks
  <2>. QED
    BY <2>1, <2>2
<1>3. CASE StopForTools \/ LoopCompletes \/ RunCancelled \/ DeferredFinish
  <2>1. restarts' = restarts /\ s' = FinishAssistantMessage(s)
    BY <1>3 DEF StopForTools, LoopCompletes, RunCancelled, DeferredFinish
  <2>2. Overtaken(s') /\ Last(s'.messages).streaming = FALSE
    BY <1>0, <1>a, <2>1, OvertakenFinish
  <2>. QED
    BY <2>2
<1>4. CASE DispatchTools
  <2>. DEFINE P == {y \in Sess : Overtaken(y)}
  <2>1. restarts' = restarts
    BY <1>4 DEF DispatchTools
  <2>2. s \in P
    BY <1>0, <1>a, <2>1
  <2>3. ASSUME NEW y \in P, NEW t \in Sess, Ledger(y), Closes(y, t) PROVE t \in P
    BY <2>3, OvertakenAmends DEF Closes
  <2>. HIDE DEF P
  <2>4. s' \in P /\ Last(s'.messages).streaming = FALSE
    BY <1>4, <2>2, <2>3, Dispatches
  <2>. QED
    BY <2>4 DEF P
<1>5. CASE StoreResult
  <2>1. phase = "tools" /\ restarts' = restarts
    BY <1>5 DEF StoreResult
  <2>2. Overtaken(s) /\ Last(s.messages).streaming = FALSE
    BY <1>a, <1>b, <2>1
  <2>3. PICK m \in Msg : Adds(s, s', m) /\ m.role = "tool" /\ m.streaming = FALSE
    BY <1>5, Storing DEF Answers
  <2>4. Overtaken(s')
    BY <1>0, <2>2, <2>3, OvertakenAdds
  <2>5. m.role # "system"
    BY <2>3
  <2>6. Last(s'.messages) = m
    BY <1>0, <2>3, <2>5, AddsKept
  <2>. QED
    BY <2>3, <2>4, <2>6
<1>6. CASE StartAnswer \/ NextIteration
  <2>1. /\ phase \in {"asked", "tools"} /\ restarts' = restarts
        /\ phase' = "stream" /\ Opens(s, s')
    BY <1>6, Opening DEF StartAnswer, NextIteration
  <2>2. Overtaken(s) /\ Last(s.messages).streaming = FALSE
    BY <1>a, <1>b, <2>1
  <2>3. Overtaken(s')
    BY <1>0, <2>1, <2>2, OvertakenAdds DEF Opens
  <2>. QED
    BY <2>1, <2>3
<1>7. CASE RunFails
  <2>1. s' = s /\ restarts' = restarts /\ phase' = "idle" /\ late' = late + 1
    BY <1>7 DEF RunFails
  <2>. QED
    BY <1>0, <1>a, <2>1
<1>8. CASE Compact
  <2>1. /\ restarts' = restarts /\ phase' = phase /\ late' = late
        /\ s'.messages = s.messages
    BY <1>8, Compacting DEF Compact
  <2>. QED
    BY <1>a, <2>1 DEF Overtaken
<1>9. CASE Restart
  <2>1. restarts' = restarts + 1
    BY <1>9, Restarting
  <2>. QED
    BY <1>0, <2>1
<1>10. CASE UNCHANGED vars
  <2>1. UNCHANGED <<s, phase, late, restarts>>
    BY <1>10 DEF vars
  <2>. QED
    BY <1>a, <2>1
<1>. QED
  BY <1>1, <1>2, <1>3, <1>4, <1>5, <1>6, <1>7, <1>8, <1>9, <1>10 DEF Next

LEMMA InvOpen == ConversationInv /\ OpenInv => OpenEndsItsTurn
<1>. SUFFICES ASSUME ConversationInv, OpenInv, restarts = 0, NEW i \in DOMAIN s.messages,
                     s.messages[i].streaming
              PROVE  IF i = Len(s.messages)
                     THEN phase = "stream" \/ (phase = "idle" /\ late > 0)
                     ELSE s.messages[i + 1].role = "user"
  BY Zenon DEF OpenEndsItsTurn
<1>. DEFINE q == s.messages
<1>1. q \in Seq(Msg) /\ q # <<>>
  BY DEF ConversationInv, Ledger, Sess
<1>2. i \in 1 .. Len(q) /\ q[i] \in Msg
  BY <1>1
<1>3. q[i].streaming = TRUE
  BY <1>2 DEF Msg, Msgs
<1>4. CASE i = Len(q)
  <2>1. Last(q).streaming = TRUE
    BY <1>1, <1>3, <1>4, LastType
  <2>. QED
    BY <1>4, <2>1 DEF OpenInv
<1>5. CASE i # Len(q)
  <2>1. i \in 1 .. Len(q) - 1
    BY <1>2, <1>5
  <2>. QED
    BY <1>3, <1>5, <2>1 DEF OpenInv, Overtaken
<1>. QED
  BY <1>4, <1>5

(* In the process that began a conversation a message stays open only if   *)
(* it is the last one of a run that failed and the user's next prompt has  *)
(* overtaken it: in every other case the message is the one being written, *)
(* or the call of FinishAssistantMessage that the run has deferred         *)
(* (state.go) is still to come.                                            *)
THEOREM OpenAlwaysEndsItsTurn == Spec => []OpenEndsItsTurn
<1>1. Init => ConversationInv /\ OpenInv
  BY InitInv, InitOpen
<1>2. ConversationInv /\ OpenInv /\ [Next]_vars => ConversationInv' /\ OpenInv'
  BY StepInv, StepOpen
<1>3. ConversationInv /\ OpenInv => OpenEndsItsTurn
  BY InvOpen
<1>. QED
  BY <1>1, <1>2, <1>3, PTL DEF Spec

(***************************************************************************)
(* Growth                                                                  *)
(***************************************************************************)
Grows(x, t) ==
    /\ Len(t.messages) >= Len(x.messages)
    /\ \A i \in 1 .. Len(x.messages) - 1 : t.messages[i] = x.messages[i]

LEMMA GrowsOrder ==
    ASSUME NEW x \in Sess, NEW y \in Sess, NEW z \in Sess
    PROVE  /\ y.messages = x.messages => Grows(x, y)
           /\ Grows(x, y) /\ Grows(y, z) => Grows(x, z)
<1>. DEFINE a == x.messages
            b == y.messages
            c == z.messages
<1>1. Len(a) \in Nat /\ Len(b) \in Nat /\ Len(c) \in Nat
  BY DEF Sess
<1>2. b = a => Grows(x, y)
  BY <1>1 DEF Grows
<1>3. ASSUME Grows(x, y), Grows(y, z) PROVE Grows(x, z)
  <2>1. Len(b) >= Len(a) /\ Len(c) >= Len(b)
    BY <1>3 DEF Grows
  <2>2. \A i \in 1 .. Len(a) - 1 : i \in 1 .. Len(b) - 1
    BY <1>1, <2>1
  <2>3. \A i \in 1 .. Len(a) - 1 : c[i] = a[i]
    BY <1>3, <2>2 DEF Grows
  <2>. HIDE DEF a, b, c
  <2>4. Len(c) >= Len(a)
    BY <1>1, <2>1
  <2>. QED
    BY <2>3, <2>4 DEF Grows, a, c
<1>. QED
  BY <1>2, <1>3

LEMMA AddsGrow ==
    ASSUME NEW x \in Sess, NEW t, NEW m, Adds(x, t, m)
    PROVE  Grows(x, t)
<1>. DEFINE q == x.messages
            r == t.messages
<1>1. q \in Seq(Msg) /\ m \in Msg /\ r = Append(q, m) /\ Len(q) \in Nat
  BY DEF Sess, Adds
<1>. HIDE DEF q, r
<1>2. Len(r) = Len(q) + 1 /\ \A i \in 1 .. Len(q) : r[i] = q[i]
  BY <1>1, AppendParts
<1>3. Len(r) >= Len(q) /\ \A i \in 1 .. Len(q) - 1 : r[i] = q[i]
  BY <1>1, <1>2
<1>. QED
  BY <1>3 DEF Grows, q, r

LEMMA AmendsGrow ==
    ASSUME NEW x \in Sess, x.messages # <<>>, NEW t, NEW m, NEW z, Amends(x, t, m, z)
    PROVE  Grows(x, t)
<1>. DEFINE q == x.messages
            r == t.messages
<1>1. q \in Seq(Msg) /\ m \in Msg /\ r = SetLast(q, m) /\ Len(q) \in Nat /\ q # <<>>
  BY DEF Sess, Amends
<1>. HIDE DEF q, r
<1>2. Len(r) = Len(q) /\ \A i \in 1 .. Len(q) : i # Len(q) => r[i] = q[i]
  BY <1>1, SetLastType
<1>3. Len(r) >= Len(q) /\ \A i \in 1 .. Len(q) - 1 : r[i] = q[i]
  BY <1>1, <1>2
<1>. QED
  BY <1>3 DEF Grows, q, r

LEMMA StepGrows ==
    ASSUME ConversationInv, Next, restarts' = restarts
    PROVE  Grows(s, s')
<1>0. /\ Ledger(s) /\ s \in Sess /\ s.messages # <<>> /\ restarts \in Nat /\ Grows(s, s)
  BY LedgerLast, GrowsOrder DEF ConversationInv, Phases
<1>1. CASE Submit
  <2>1. PICK w, y : Ledger(y) /\ y.messages = s.messages /\ Asks(y, s')
    BY <1>1, Submitting
  <2>2. Grows(y, s')
    BY <2>1, LedgerLast, AddsGrow DEF Asks
  <2>. QED
    BY <2>1, <2>2 DEF Grows
<1>2. CASE VisitMessage \/ VisitThinkingStart \/ VisitThinking \/ VisitToolCallStart
  <2>1. s' = s \/ Talks(s, s')
    BY <1>2, Talking
  <2>. QED
    BY <1>0, <2>1, AmendsGrow DEF Talks
<1>3. CASE StopForTools \/ LoopCompletes \/ RunCancelled \/ DeferredFinish
  <2>1. s' = s \/ Closes(s, s')
    BY <1>0, <1>3, Finishing DEF StopForTools, LoopCompletes, RunCancelled, DeferredFinish
  <2>. QED
    BY <1>0, <2>1, AmendsGrow DEF Closes
<1>4. CASE DispatchTools
  <2>. DEFINE P == {y \in Sess : Grows(s, y)}
  <2>1. ASSUME NEW y \in P, NEW t \in Sess, Ledger(y), Closes(y, t) PROVE t \in P
    <3>1. Grows(y, t)
      BY <2>1, LedgerLast, AmendsGrow DEF Closes
    <3>. QED
      BY <1>0, <2>1, <3>1, GrowsOrder
  <2>2. s \in P
    BY <1>0
  <2>. HIDE DEF P
  <2>3. s' \in P
    BY <1>4, <2>1, <2>2, Dispatches
  <2>. QED
    BY <2>3 DEF P
<1>5. CASE StoreResult \/ StartAnswer \/ NextIteration
  <2>1. Answers(s, s', Head(pending)) \/ Opens(s, s')
    BY <1>5, Storing, Opening
  <2>. QED
    BY <1>0, <2>1, AddsGrow DEF Answers, Opens
<1>6. CASE RunFails
  BY <1>0, <1>6 DEF RunFails
<1>7. CASE Compact
  <2>1. s'.messages = s.messages
    BY <1>7, Compacting
  <2>. QED
    BY <1>0, <2>1 DEF Grows
<1>8. CASE Restart
  <2>1. restarts' = restarts + 1
    BY <1>8, Restarting
  <2>. QED
    BY <1>0, <2>1
<1>. QED
  BY <1>1, <1>2, <1>3, <1>4, <1>5, <1>6, <1>7, <1>8 DEF Next

(* A call of the controller or the loop changes the last message of the    *)
(* ledger or adds messages, and never touches the ones before (session.go, *)
(* the methods of the ledger).                                             *)
THEOREM LedgerOnlyGrows == Spec => LedgerGrowsAtEnd
<1>1. Spec => []ConversationInv
  BY ConversationIsSound
<1>2. ConversationInv /\ [Next]_vars =>
        [restarts' = restarts =>
            /\ Len(s'.messages) >= Len(s.messages)
            /\ \A i \in 1 .. Len(s.messages) - 1 : s'.messages[i] = s.messages[i]]_vars
  BY StepGrows DEF Grows
<1>. QED
  BY <1>1, <1>2, PTL DEF Spec, LedgerGrowsAtEnd

(***************************************************************************)
(* What the model sees                                                     *)
(***************************************************************************)
Seen(x) == Where(ProviderMessages(x), Finished)

LEMMA ViewType ==
    ASSUME NEW x \in Sess
    PROVE  ProviderMessages(x) \in Seq(Msg) /\ Seen(x) \in Seq(Msg)
           /\ ChatMessagesToLLM(ProviderMessages(x)) = Seen(x)
<1>1. ProviderMessages(x) \in Seq(Msg)
  BY DEF ProviderMessages, Sess
<1>. DEFINE v == ProviderMessages(x)
<1>2. v \in Seq(Msg) /\ ChatMessagesToLLM(ProviderMessages(x)) = Settled(v) /\ Seen(x) = Where(v, Finished)
  BY <1>1 DEF ChatMessagesToLLM, Seen
<1>. HIDE DEF v
<1>3. Where(v, Finished) \in Seq(Msg)
  BY <1>2, WhereTypes
<1>4. Settled(v) = Where(v, Finished)
  BY <1>2, FiltersAre
<1>. QED
  BY <1>1, <1>2, <1>3, <1>4

LEMMA SeenAdds ==
    ASSUME NEW x \in Sess, NEW t, NEW m, Adds(x, t, m)
    PROVE  /\ m.streaming = TRUE => Seen(t) = Seen(x)
           /\ m.streaming = FALSE => Seen(t) = Append(Seen(x), m)
<1>. DEFINE v == ProviderMessages(x)
            w == ProviderMessages(t)
<1>1. v \in Seq(Msg) /\ m \in Msg
  BY ViewType DEF Adds
<1>2. w = Append(v, m)
  <2>1. CASE x.provider = <<>>
    BY <2>1 DEF Adds, ProviderMessages
  <2>2. CASE x.provider # <<>>
    <3>1. t.provider = Append(x.provider, m) /\ x.provider \in Seq(Msg)
      BY <2>2 DEF Adds, Sess
    <3>2. t.provider # <<>>
      BY <1>1, <3>1
    <3>. QED
      BY <2>2, <3>1, <3>2 DEF ProviderMessages
  <2>. QED
    BY <2>1, <2>2
<1>. HIDE DEF v, w
<1>3. Selected(Where(v, Finished), Where(w, Finished), m, Finished)
  BY <1>1, <1>2, WhereGrows
<1>4. /\ m.streaming = TRUE => m \notin Finished
      /\ m.streaming = FALSE => m \in Finished
  BY <1>1 DEF Finished
<1>. QED
  BY <1>3, <1>4 DEF Selected, Seen, v, w

(* The view ends with the ledger's last message, or a copy of it.          *)
LEMMA ViewEnds ==
    ASSUME NEW x, Ledger(x), Mirror(x)
    PROVE  \E base \in Seq(Msg), e \in Msg :
              /\ ProviderMessages(x) = Append(base, e) /\ Follows(e, Last(x.messages))
              /\ \A t, m, z : Amends(x, t, m, z) /\ Keeps(x, m, z) =>
                    \E d \in Msg : /\ ProviderMessages(t) = Append(base, d) /\ Follows(d, m)
<1>1. x \in Sess /\ x.messages \in Seq(Msg) /\ x.messages # <<>> /\ x.provider \in Seq(Msg)
  BY DEF Ledger, Sess
<1>2. CASE x.provider = <<>>
  <2>. DEFINE q == x.messages
              e == Last(q)
  <2>1. e \in Msg /\ Follows(e, e) /\ q \in Seq(Msg) /\ q # <<>>
    BY <1>1, LastType DEF Follows, SameID
  <2>2. ProviderMessages(x) = q
    BY <1>2 DEF ProviderMessages
  <2>3. Front(q) \in Seq(Msg) /\ q = Append(Front(q), e)
    <3>. HIDE DEF q
    <3>. QED
      BY <2>1, FrontParts
  <2>4. ASSUME NEW t, NEW m, NEW z, Amends(x, t, m, z), Keeps(x, m, z)
        PROVE  m \in Msg /\ ProviderMessages(t) = Append(Front(q), m) /\ Follows(m, m)
    <3>1. m \in Msg /\ t.messages = SetLast(q, m) /\ t.provider = <<>>
      BY <1>2, <2>4 DEF Amends
    <3>2. SetLast(q, m) = Append(Front(q), m)
      <4>. HIDE DEF q
      <4>. QED
        BY <2>1, <3>1, FrontParts
    <3>. QED
      BY <3>1, <3>2 DEF ProviderMessages, Follows, SameID
  <2>. HIDE DEF q, e
  <2>. QED
    BY <2>1, <2>2, <2>3, <2>4 DEF q, e
<1>3. CASE x.provider # <<>>
  <2>. DEFINE q == x.provider
              e == Last(q)
  <2>1. e \in Msg /\ Follows(e, Last(x.messages)) /\ q \in Seq(Msg) /\ q # <<>>
    BY <1>1, <1>3, LastType DEF Mirror
  <2>2. ProviderMessages(x) = q
    BY <1>3 DEF ProviderMessages
  <2>3. Front(q) \in Seq(Msg) /\ q = Append(Front(q), e)
    <3>. HIDE DEF q
    <3>. QED
      BY <2>1, FrontParts
  <2>4. ASSUME NEW t, NEW m, NEW z, Amends(x, t, m, z), Keeps(x, m, z)
        PROVE  z \in Msg /\ ProviderMessages(t) = Append(Front(q), z) /\ Follows(z, m)
    <3>1. z \in Msg /\ t.provider = SetLast(q, z) /\ Follows(z, m)
      BY <1>3, <2>4 DEF Amends, Keeps
    <3>2. SetLast(q, z) = Append(Front(q), z) /\ Append(Front(q), z) # <<>>
      <4>. HIDE DEF q
      <4>. QED
        BY <2>1, <3>1, FrontParts
    <3>. QED
      BY <3>1, <3>2 DEF ProviderMessages
  <2>. HIDE DEF q, e
  <2>. QED
    BY <2>1, <2>2, <2>3, <2>4 DEF q
<1>. QED
  BY <1>2, <1>3

LEMMA SeenTalks ==
    ASSUME NEW x, Ledger(x), Mirror(x), Last(x.messages).streaming = TRUE, NEW t, Talks(x, t)
    PROVE  Seen(t) = Seen(x)
<1>1. PICK m, z : Amends(x, t, m, z) /\ Keeps(x, m, z) /\ m.streaming = TRUE
  BY DEF Talks
<1>2. PICK base \in Seq(Msg), e \in Msg, d \in Msg :
          /\ ProviderMessages(x) = Append(base, e) /\ Follows(e, Last(x.messages))
          /\ ProviderMessages(t) = Append(base, d) /\ Follows(d, m)
  BY <1>1, ViewEnds
<1>3. e \notin Finished /\ d \notin Finished
  BY <1>1, <1>2 DEF Follows, Finished
<1>4. /\ Where(Append(base, e), Finished) = Where(base, Finished)
      /\ Where(Append(base, d), Finished) = Where(base, Finished)
  BY <1>2, <1>3, WhereAppend
<1>. QED
  BY <1>2, <1>4 DEF Seen

(* A finished response is the last thing the model sees.                   *)
LEMMA SeenClosed ==
    ASSUME NEW x, Ledger(x), Running(x), Last(x.messages).streaming = FALSE
    PROVE  /\ Seen(x) \in Seq(Msg) /\ Seen(x) # <<>>
           /\ Last(Seen(x)).role = "assistant"
           /\ CallIDs(Last(Seen(x))) = CallIDs(Last(x.messages))
<1>1. PICK base \in Seq(Msg), e \in Msg :
          ProviderMessages(x) = Append(base, e) /\ Follows(e, Last(x.messages))
  BY ViewEnds DEF Running
<1>2. e \in Finished /\ e.role = "assistant" /\ CallIDs(e) = CallIDs(Last(x.messages))
  BY <1>1 DEF Follows, Finished, Running, SameID
<1>. DEFINE p == Where(base, Finished)
            r == Where(Append(base, e), Finished)
<1>3. p \in Seq(Msg) /\ r = Append(p, e) /\ Seen(x) = r
  BY <1>1, <1>2, WhereAppend DEF Seen
<1>. HIDE DEF p, r
<1>4. r \in Seq(Msg) /\ r # <<>>
  BY <1>1, <1>3, AppendParts
<1>5. Last(r) = e
  <2>1. Len(r) = Len(p) + 1
    BY <1>1, <1>3, AppendParts
  <2>2. r[Len(p) + 1] = e
    BY <1>1, <1>3, AppendParts
  <2>. QED
    BY <2>1, <2>2 DEF Last
<1>. QED
  BY <1>2, <1>3, <1>4, <1>5

(***************************************************************************)
(* A round of tool calls                                                   *)
(***************************************************************************)
(* What the model sees ends with a message whose calls are answered, in    *)
(* order, by all that comes after it, except for the calls of rest.        *)
Round(seen, rest, i) ==
    LET ids == CallIDs(seen[i])
        n   == Len(seen) - i
    IN  /\ seen[i].role = "assistant"
        /\ Len(ids) = n + Len(rest)
        /\ \A j \in 1 .. n : ids[j] = seen[i + j].answers
        /\ \A j \in 1 .. Len(rest) : ids[n + j] = rest[j]

Answered(seen, rest) == \E i \in 1 .. Len(seen) : Round(seen, rest, i)

LEMMA RoundOpens ==
    ASSUME NEW seen \in Seq(Msg), seen # <<>>, Last(seen).role = "assistant"
    PROVE  Answered(seen, CallIDs(Last(seen)))
<1>. DEFINE l == Len(seen)
            ids == CallIDs(seen[l])
<1>1. l \in 1 .. l /\ Last(seen) = seen[l] /\ seen[l] \in Msg
  BY LastType
<1>2. ids \in Seq(Calls)
  BY <1>1, CallIDsType
<1>. HIDE DEF ids
<1>3. Round(seen, ids, l)
  <2>. HIDE DEF l
  <2>1. l - l = 0 /\ Len(ids) \in Nat
    BY <1>1, <1>2
  <2>. QED
    BY <1>1, <2>1 DEF Round, ids, l
<1>. QED
  BY <1>1, <1>3 DEF Answered, ids

LEMMA RoundGoesOn ==
    ASSUME NEW seen \in Seq(Msg), NEW rest \in Seq(Calls), rest # <<>>, Answered(seen, rest),
           NEW m \in Msg, m.answers = Head(rest), NEW longer, longer = Append(seen, m)
    PROVE  Answered(longer, Tail(rest))
<1>1. PICK i \in 1 .. Len(seen) : Round(seen, rest, i)
  BY DEF Answered
<1>. DEFINE ids == CallIDs(seen[i])
            n == Len(seen) - i
            last == Tail(rest)
<1>2. /\ Len(seen) \in Nat /\ i \in Nat /\ i <= Len(seen) /\ n \in Nat
      /\ seen[i].role = "assistant" /\ Len(ids) = n + Len(rest)
      /\ \A j \in 1 .. n : ids[j] = seen[i + j].answers
      /\ \A j \in 1 .. Len(rest) : ids[n + j] = rest[j]
  BY <1>1 DEF Round
<1>3. /\ last \in Seq(Calls) /\ Len(rest) \in Nat /\ Len(rest) >= 1 /\ Len(last) = Len(rest) - 1
      /\ \A j \in 1 .. Len(last) : last[j] = rest[j + 1]
      /\ rest[1] = m.answers
  OBVIOUS
<1>4. /\ Len(longer) = Len(seen) + 1 /\ longer[Len(seen) + 1] = m
      /\ \A j \in 1 .. Len(seen) : longer[j] = seen[j]
  BY AppendParts
<1>5. longer[i] = seen[i] /\ Len(longer) - i = n + 1 /\ i \in 1 .. Len(longer)
  BY <1>2, <1>4
<1>. HIDE DEF ids, last
<1>6. Len(ids) = (n + 1) + Len(last)
  BY <1>2, <1>3
<1>7. ASSUME NEW j \in 1 .. n + 1 PROVE ids[j] = longer[i + j].answers
  <2>1. CASE j = n + 1
    <3>1. i + j = Len(seen) + 1
      BY <1>2, <2>1
    <3>2. ids[n + 1] = rest[1]
      BY <1>2, <1>3
    <3>. QED
      BY <1>3, <1>4, <2>1, <3>1, <3>2
  <2>2. CASE j # n + 1
    <3>1. j \in 1 .. n
      <4>1. n \in Nat
        BY <1>2
      <4>. HIDE DEF n
      <4>. QED
        BY <2>2, <4>1
    <3>2. i + j \in 1 .. Len(seen)
      BY <1>2, <3>1
    <3>3. longer[i + j] = seen[i + j]
      BY <1>4, <3>2
    <3>. QED
      BY <1>2, <3>1, <3>3
  <2>. QED
    BY <2>1, <2>2
<1>8. ASSUME NEW j \in 1 .. Len(last) PROVE ids[(n + 1) + j] = last[j]
  <2>1. j + 1 \in 1 .. Len(rest) /\ (n + 1) + j = n + (j + 1)
    BY <1>2, <1>3
  <2>2. ids[n + (j + 1)] = rest[j + 1]
    BY <1>2, <2>1
  <2>. QED
    BY <1>3, <2>1, <2>2
<1>9. Round(longer, last, i)
  <2>1. /\ longer[i].role = "assistant" /\ CallIDs(longer[i]) = ids
    BY <1>2, <1>5 DEF ids
  <2>. HIDE DEF n
  <2>. QED
    BY <1>5, <1>6, <1>7, <1>8, <2>1 DEF Round
<1>. QED
  BY <1>5, <1>9 DEF Answered, last

LEMMA RoundCloses ==
    ASSUME NEW seen \in Seq(Msg), Answered(seen, <<>>)
    PROVE  \E i \in DOMAIN seen :
              /\ seen[i].role = "assistant"
              /\ [j \in 1 .. Len(seen) - i |-> seen[i + j].answers] = CallIDs(seen[i])
<1>1. PICK i \in 1 .. Len(seen) : Round(seen, <<>>, i)
  BY DEF Answered
<1>. DEFINE ids == CallIDs(seen[i])
            n == Len(seen) - i
<1>2. i \in DOMAIN seen /\ seen[i] \in Msg /\ n \in Nat
  BY <1>1
<1>3. ids \in Seq(Calls)
  BY <1>2, CallIDsType
<1>. HIDE DEF ids
<1>4. /\ seen[i].role = "assistant" /\ Len(ids) = n
      /\ \A j \in 1 .. n : ids[j] = seen[i + j].answers
  BY <1>1, <1>2 DEF Round, ids
<1>5. ids = [j \in 1 .. n |-> seen[i + j].answers]
  <2>. HIDE DEF n
  <2>1. ids = [j \in 1 .. n |-> ids[j]]
    BY <1>3, <1>4
  <2>. QED
    BY <1>4, <2>1
<1>. QED
  BY <1>2, <1>4, <1>5 DEF ids

LEMMA RoundDispatched ==
    ASSUME ConversationInv, DispatchTools
    PROVE  Answered(Seen(s'), pending') /\ Last(s'.messages).streaming = FALSE
<1>. DEFINE ids == CallIDs(Last(s.messages))
            P == {y \in Sess : Running(y) /\ CallIDs(Last(y.messages)) = ids}
<1>1. s \in P
  BY LedgerLast DEF ConversationInv, DispatchTools, Phases
<1>2. ASSUME NEW y \in P, NEW t \in Sess, Ledger(y), LogKept(y), Closes(y, t) PROVE t \in P
  BY <1>2, ClosesKept DEF Running
<1>. HIDE DEF P, ids
<1>3. /\ Ledger(s') /\ s' \in P /\ Last(s'.messages).streaming = FALSE /\ pending' = ids
  BY <1>1, <1>2, Dispatches DEF StepTo, ids
<1>. DEFINE seen == Seen(s')
<1>4. /\ seen \in Seq(Msg) /\ seen # <<>> /\ Last(seen).role = "assistant"
      /\ CallIDs(Last(seen)) = pending'
  BY <1>3, SeenClosed DEF P
<1>. HIDE DEF seen
<1>5. Answered(seen, CallIDs(Last(seen)))
  BY <1>4, RoundOpens
<1>. QED
  BY <1>3, <1>4, <1>5 DEF seen

(* Once a prompt is added the model sees it last; while a round is open it *)
(* has the answers stored so far; when it is asked to go on after tool     *)
(* results, it has them all.                                               *)
RoundInv ==
    /\ phase = "stream" /\ Last(Seen(s)).role = "tool" => Answered(Seen(s), <<>>)
    /\ phase = "tools" => Answered(Seen(s), pending)
    /\ phase = "asked" => Last(Seen(s)).role = "user"
    /\ phase \in {"asked", "tools"} => Last(s.messages).streaming = FALSE

LEMMA StepRound ==
    ASSUME ConversationInv, RoundInv, [Next]_vars
    PROVE  RoundInv'
<1>0. Ledger(s) /\ LogKept(s) /\ Phases /\ s \in Sess
  BY LedgerLast DEF ConversationInv
<1>1. CASE Submit
  <2>1. phase' = "asked"
    BY <1>1 DEF Submit
  <2>2. PICK w, y : Ledger(y) /\ LogKept(y) /\ Asks(y, s')
    BY <1>1, Submitting
  <2>3. PICK m \in Msg : Adds(y, s', m) /\ m.role = "user" /\ m.streaming = FALSE
    BY <2>2 DEF Asks
  <2>. DEFINE p == Seen(y)
              r == Seen(s')
  <2>4. r = Append(p, m) /\ p \in Seq(Msg)
    BY <2>2, <2>3, LedgerLast, SeenAdds, ViewType
  <2>. HIDE DEF p, r
  <2>5. Last(r) = m
    <3>1. Len(r) = Len(p) + 1 /\ r[Len(p) + 1] = m
      BY <2>3, <2>4, AppendParts
    <3>. QED
      BY <3>1 DEF Last
  <2>6. m.role # "system"
    BY <2>3
  <2>7. Last(s'.messages) = m
    BY <2>2, <2>3, <2>6, AddsKept
  <2>. QED
    BY <2>1, <2>3, <2>5, <2>7 DEF RoundInv, r
<1>2. CASE VisitMessage \/ VisitThinkingStart \/ VisitThinking \/ VisitToolCallStart
  <2>1. /\ phase = "stream" /\ (s' = s \/ Talks(s, s')) /\ UNCHANGED <<phase, pending>>
    BY <1>2, Talking
  <2>2. CASE s' = s
    BY <2>1, <2>2 DEF RoundInv
  <2>3. CASE Talks(s, s') /\ Last(s.messages).streaming = TRUE
    <3>1. Seen(s') = Seen(s)
      BY <1>0, <2>1, <2>3, SeenTalks DEF Phases, Running
    <3>. QED
      BY <2>1, <3>1 DEF RoundInv
  <2>4. CASE Talks(s, s') /\ Last(s.messages).streaming = FALSE
    <3>1. Ledger(s') /\ Running(s') /\ Last(s'.messages).streaming = FALSE
      BY <1>0, <2>1, <2>4, TalksKept DEF Phases
    <3>2. Last(Seen(s')).role = "assistant"
      BY <3>1, SeenClosed
    <3>. QED
      BY <2>1, <3>2 DEF RoundInv
  <2>. QED
    BY <1>0, <2>1, <2>2, <2>3, <2>4, LedgerLast
<1>3. CASE StopForTools \/ LoopCompletes \/ RunFails \/ RunCancelled \/ Compact \/ Restart
  BY <1>3 DEF RoundInv, StopForTools, LoopCompletes, RunFails, RunCancelled, Compact, Restart
<1>4. CASE DispatchTools
  <2>1. phase' = "tools"
    BY <1>4 DEF DispatchTools
  <2>. QED
    BY <1>4, <2>1, RoundDispatched DEF RoundInv
<1>5. CASE StoreResult
  <2>1. /\ phase = "tools" /\ phase' = "tools" /\ pending \in Seq(Calls) /\ pending # <<>>
        /\ pending' = Tail(pending)
    BY <1>0, <1>5 DEF StoreResult, Phases
  <2>2. PICK m \in Msg : /\ Adds(s, s', m) /\ m.role = "tool" /\ m.streaming = FALSE
                         /\ m.answers = Head(pending)
    BY <1>5, Storing DEF Answers
  <2>3. Seen(s') = Append(Seen(s), m) /\ Seen(s) \in Seq(Msg)
    BY <1>0, <2>2, SeenAdds, ViewType
  <2>4. Answered(Seen(s), pending)
    BY <2>1 DEF RoundInv
  <2>. DEFINE seen == Seen(s)
              longer == Seen(s')
  <2>. HIDE DEF seen, longer
  <2>5. Answered(longer, Tail(pending))
    BY <2>1, <2>2, <2>3, <2>4, RoundGoesOn DEF seen, longer
  <2>6. m.role # "system"
    BY <2>2
  <2>7. Last(s'.messages) = m
    BY <1>0, <2>2, <2>6, AddsKept
  <2>. QED
    BY <2>1, <2>2, <2>5, <2>7 DEF RoundInv, longer
<1>6. CASE StartAnswer \/ NextIteration
  <2>1. /\ phase' = "stream" /\ Opens(s, s')
        /\ phase = "asked" \/ (phase = "tools" /\ pending = <<>>)
    BY <1>6, Opening DEF StartAnswer, NextIteration
  <2>2. Seen(s') = Seen(s)
    BY <1>0, <2>1, SeenAdds DEF Opens
  <2>. QED
    BY <2>1, <2>2 DEF RoundInv
<1>7. CASE DeferredFinish
  <2>1. s' = FinishAssistantMessage(s) /\ UNCHANGED <<phase, pending>>
    BY <1>7 DEF DeferredFinish
  <2>2. /\ Ledger(s') /\ Last(s'.messages).streaming = FALSE
        /\ Running(s) => Running(s')
        /\ Last(s.messages).streaming = FALSE => s' = s
    BY <1>0, <2>1, FinishKept DEF StepTo
  <2>3. CASE phase = "stream"
    <3>1. Running(s')
      BY <1>0, <2>2, <2>3 DEF Phases
    <3>2. Last(Seen(s')).role = "assistant"
      BY <2>2, <3>1, SeenClosed
    <3>. QED
      BY <2>1, <2>3, <3>2 DEF RoundInv
  <2>4. CASE phase # "stream"
    BY <2>1, <2>2, <2>4 DEF RoundInv
  <2>. QED
    BY <2>3, <2>4
<1>8. CASE UNCHANGED vars
  <2>1. UNCHANGED <<s, phase, pending>>
    BY <1>8 DEF vars
  <2>. QED
    BY <2>1 DEF RoundInv
<1>. QED
  BY <1>1, <1>2, <1>3, <1>4, <1>5, <1>6, <1>7, <1>8 DEF Next

LEMMA InvRound == ConversationInv /\ RoundInv => RoundIsAnswered
<1>. SUFFICES ASSUME ConversationInv, RoundInv PROVE RoundIsAnswered
  OBVIOUS
<1>. DEFINE seen == Seen(s)
<1>1. seen \in Seq(Msg) /\ ChatMessagesToLLM(ProviderMessages(s)) = seen
  BY LedgerLast, ViewType DEF ConversationInv
<1>2. phase = "stream" /\ Last(seen).role = "tool" => Answered(seen, <<>>)
  BY DEF RoundInv
<1>. HIDE DEF seen
<1>3. Answered(seen, <<>>) =>
        \E i \in DOMAIN seen :
              /\ seen[i].role = "assistant"
              /\ [j \in 1 .. Len(seen) - i |-> seen[i + j].answers] = CallIDs(seen[i])
  BY <1>1, RoundCloses
<1>. QED
  BY <1>1, <1>2, <1>3 DEF RoundIsAnswered

(* When the model is asked to go on after tool results (the loop's next    *)
(* iteration, agent.go), the last message with calls that it sees is       *)
(* followed by exactly one result of each call, in the order of the calls, *)
(* whatever was compacted or loaded before.                                *)
THEOREM RoundsAreAnswered == Spec => []RoundIsAnswered
<1>1. Init => ConversationInv /\ RoundInv
  BY InitInv DEF Init, RoundInv
<1>2. ConversationInv /\ RoundInv /\ [Next]_vars => ConversationInv' /\ RoundInv'
  BY StepInv, StepRound
<1>3. ConversationInv /\ RoundInv => RoundIsAnswered
  BY InvRound
<1>. QED
  BY <1>1, <1>2, <1>3, PTL DEF Spec

(***************************************************************************)
(* The view and the ledger                                                 *)
(***************************************************************************)
(* What the view v holds of the ledger q: messages in their order, as they *)
(* are there or previewed, and after its first one all but those of Z.     *)
Ordered(v) ==
    \A i, j \in 1 .. Len(v) :
        i < j /\ ~IsSystem(v[i]) /\ ~IsSystem(v[j]) => v[i].seq < v[j].seq

Shown(v, q) ==
    \A i \in 1 .. Len(v) : IsSystem(v[i]) \/ \E k \in 1 .. Len(q) : Shows(v[i], q[k])

Present(v, m) == \E i \in 1 .. Len(v) : SameID(v[i], m)

Full(v, q, Z) ==
    \A i \in 1 .. Len(v), k \in 1 .. Len(q) :
        ~IsSystem(v[i]) /\ q[k].seq > v[i].seq => Present(v, q[k]) \/ q[k].seq \in Z

Follow(v, q, Z) == Ordered(v) /\ Shown(v, q) /\ Full(v, q, Z)

ViewKept(x, Z) ==
    x.provider # <<>> => Follow(x.provider, x.messages, Z) /\ ~IsSystem(Last(x.provider))

LEMMA LedgerSeqs ==
    ASSUME NEW x, Ledger(x)
    PROVE  /\ x.messages \in Seq(Msg) /\ Len(x.messages) \in Nat /\ Len(x.messages) >= 1
           /\ x.msgSeq \in Nat /\ Last(x.messages) = x.messages[Len(x.messages)]
           /\ \A k \in 1 .. Len(x.messages) :
                 /\ x.messages[k] \in Msg /\ x.messages[k].seq \in Nat
                 /\ x.messages[k].seq <= x.msgSeq
                 /\ k = Len(x.messages) \/ x.messages[k].seq < x.msgSeq
           /\ \A k, l \in 1 .. Len(x.messages) :
                 x.messages[k].seq = x.messages[l].seq => k = l
<1>. DEFINE q == x.messages
            n == x.msgSeq
<1>1. /\ q \in Seq(Msg) /\ q # <<>> /\ Increasing(q) /\ Last(q).seq = n /\ n \in Nat
  BY DEF Ledger, Sess
<1>. HIDE DEF q, n
<1>2. Len(q) \in Nat /\ Len(q) >= 1 /\ Last(q) = q[Len(q)] /\ Len(q) \in 1 .. Len(q)
  BY <1>1, LastType, NotEmpty
<1>3. \A k \in 1 .. Len(q) : q[k] \in Msg
  BY <1>1
<1>4. \A k \in 1 .. Len(q) : q[k].seq \in Nat
  BY <1>3 DEF Msg, Msgs
<1>5. \A k \in 1 .. Len(q) : k = Len(q) \/ q[k].seq < n
  <2>1. \A k \in 1 .. Len(q) : k = Len(q) \/ k < Len(q)
    BY <1>2
  <2>. QED
    BY <1>1, <1>2, <2>1 DEF Increasing
<1>6. \A k \in 1 .. Len(q) : q[k].seq <= n
  BY <1>1, <1>2, <1>4, <1>5
<1>7. ASSUME NEW k \in 1 .. Len(q), NEW l \in 1 .. Len(q), q[k].seq = q[l].seq PROVE k = l
  <2>1. k < l \/ l < k \/ k = l
    BY <1>2
  <2>2. ~(k < l) /\ ~(l < k)
    BY <1>1, <1>4, <1>7 DEF Increasing
  <2>. QED
    BY <2>1, <2>2
<1>. QED
  BY <1>1, <1>2, <1>3, <1>4, <1>5, <1>6, <1>7 DEF q, n

(* What the view shows has the number of the message it shows.             *)
LEMMA ShownSeqs ==
    ASSUME NEW x, Ledger(x), NEW v \in Seq(Msg), Shown(v, x.messages),
           NEW i \in 1 .. Len(v), ~IsSystem(v[i])
    PROVE  \E k \in 1 .. Len(x.messages) :
              /\ Shows(v[i], x.messages[k]) /\ v[i].seq = x.messages[k].seq
              /\ v[i].seq \in Nat /\ v[i].seq <= x.msgSeq /\ k # 1
              /\ \A l \in 1 .. Len(x.messages) : x.messages[l].seq = v[i].seq => l = k
<1>1. PICK k \in 1 .. Len(x.messages) : Shows(v[i], x.messages[k])
  BY DEF Shown
<1>2. v[i].seq = x.messages[k].seq /\ v[i].role = x.messages[k].role
  BY <1>1 DEF Shows, SameID
<1>3. k # 1
  BY <1>2 DEF IsSystem, Ledger, Instruction
<1>. QED
  BY <1>1, <1>2, <1>3, LedgerSeqs

LEMMA LedgerFollows ==
    ASSUME NEW x, Ledger(x), NEW Z
    PROVE  Follow(x.messages, x.messages, Z)
<1>1. Ordered(x.messages)
  BY DEF Ledger, Increasing, Ordered
<1>2. Shown(x.messages, x.messages)
  BY DEF Shown, Shows, SameID
<1>3. Full(x.messages, x.messages, Z)
  BY DEF Full, Present, SameID
<1>. QED
  BY <1>1, <1>2, <1>3 DEF Follow

LEMMA ViewAdds ==
    ASSUME NEW x, Ledger(x), NEW t, NEW m, Adds(x, t, m), m.role # "system",
           NEW Z, ViewKept(x, Z)
    PROVE  ViewKept(t, Z)
<1>. DEFINE v == x.provider
            q == x.messages
            w == t.provider
            r == t.messages
            n == x.msgSeq
<1>1. CASE v = <<>>
  BY <1>1 DEF Adds, ViewKept
<1>2. CASE v # <<>>
  <2>1. /\ v \in Seq(Msg) /\ q \in Seq(Msg) /\ m \in Msg /\ m.seq = n + 1
        /\ w = Append(v, m) /\ r = Append(q, m) /\ ~IsSystem(m)
    BY <1>2 DEF Adds, Ledger, Sess, IsSystem
  <2>2. /\ Len(v) \in Nat /\ Len(w) = Len(v) + 1 /\ w[Len(v) + 1] = m
        /\ \A i \in 1 .. Len(v) : w[i] = v[i]
    <3>. HIDE DEF v, w, q, r
    <3>. QED
      BY <2>1, AppendParts
  <2>3. /\ Len(q) \in Nat /\ Len(r) = Len(q) + 1 /\ r[Len(q) + 1] = m
        /\ \A k \in 1 .. Len(q) : r[k] = q[k]
    <3>. HIDE DEF v, w, q, r
    <3>. QED
      BY <2>1, AppendParts
  <2>4. Ordered(v) /\ Shown(v, q) /\ Full(v, q, Z)
    BY <1>2 DEF ViewKept, Follow
  <2>5. n \in Nat /\ \A k \in 1 .. Len(q) : q[k].seq \in Nat /\ q[k].seq <= n
    BY LedgerSeqs
  <2>6. \A i \in 1 .. Len(v) : ~IsSystem(v[i]) => v[i].seq \in Nat /\ v[i].seq <= n
    BY <2>1, <2>4, ShownSeqs
  <2>. HIDE DEF v, w, q, r, n
  <2>7. Ordered(w)
    <3>1. SUFFICES ASSUME NEW i \in 1 .. Len(w), NEW j \in 1 .. Len(w), i < j,
                          ~IsSystem(w[i]), ~IsSystem(w[j])
                   PROVE  w[i].seq < w[j].seq
      BY DEF Ordered
    <3>2. i \in 1 .. Len(v) /\ w[i] = v[i]
      BY <2>2, <3>1
    <3>3. CASE j \in 1 .. Len(v)
      BY <2>2, <2>4, <3>1, <3>2, <3>3 DEF Ordered
    <3>4. CASE j \notin 1 .. Len(v)
      <4>1. w[j] = m
        BY <2>2, <3>4
      <4>2. w[j].seq = n + 1
        BY <2>1, <4>1
      <4>3. w[i].seq \in Nat /\ w[i].seq <= n
        BY <2>6, <3>1, <3>2
      <4>. QED
        BY <2>5, <4>2, <4>3
    <3>. QED
      BY <3>3, <3>4
  <2>8. Shown(w, r)
    <3>1. SUFFICES ASSUME NEW i \in 1 .. Len(w), ~IsSystem(w[i])
                   PROVE  \E k \in 1 .. Len(r) : Shows(w[i], r[k])
      BY DEF Shown
    <3>2. CASE i \in 1 .. Len(v)
      <4>1. PICK k \in 1 .. Len(q) : Shows(v[i], q[k])
        BY <2>2, <2>4, <3>1, <3>2 DEF Shown
      <4>. QED
        BY <2>2, <2>3, <3>2, <4>1
    <3>3. CASE i \notin 1 .. Len(v)
      <4>1. w[i] = m
        BY <2>2, <3>3
      <4>2. Len(q) + 1 \in 1 .. Len(r) /\ Shows(m, m)
        BY <2>3 DEF Shows, SameID
      <4>. QED
        BY <2>3, <4>1, <4>2
    <3>. QED
      BY <3>2, <3>3
  <2>9. Full(w, r, Z)
    <3>1. SUFFICES ASSUME NEW i \in 1 .. Len(w), NEW k \in 1 .. Len(r),
                          ~IsSystem(w[i]), r[k].seq > w[i].seq
                   PROVE  Present(w, r[k]) \/ r[k].seq \in Z
      BY DEF Full
    <3>2. CASE k \notin 1 .. Len(q)
      <4>1. r[k] = m
        BY <2>3, <3>2
      <4>2. Len(v) + 1 \in 1 .. Len(w) /\ SameID(m, m)
        BY <2>2 DEF SameID
      <4>. QED
        BY <2>2, <4>1, <4>2 DEF Present
    <3>3. CASE k \in 1 .. Len(q)
      <4>1. r[k] = q[k] /\ q[k].seq <= n /\ q[k].seq \in Nat
        BY <2>3, <2>5, <3>3
      <4>2. i \in 1 .. Len(v)
        <5>1. ASSUME i \notin 1 .. Len(v) PROVE FALSE
          <6>1. w[i] = m
            BY <2>2, <5>1
          <6>2. w[i].seq = n + 1
            BY <2>1, <6>1
          <6>3. q[k].seq > w[i].seq
            BY <3>1, <4>1
          <6>. QED
            BY <2>5, <4>1, <6>2, <6>3
        <5>. QED
          BY <5>1
      <4>3. Present(v, q[k]) \/ q[k].seq \in Z
        BY <2>2, <2>4, <3>1, <3>3, <4>1, <4>2 DEF Full
      <4>4. Present(v, q[k]) => Present(w, q[k])
        BY <2>2 DEF Present
      <4>. QED
        BY <4>1, <4>3, <4>4
    <3>. QED
      BY <3>2, <3>3
  <2>10. Last(w) = m
    BY <2>2 DEF Last
  <2>. QED
    BY <2>1, <2>7, <2>8, <2>9, <2>10 DEF ViewKept, Follow, w, r
<1>. QED
  BY <1>1, <1>2

LEMMA SetLastParts ==
    ASSUME NEW S, NEW q \in Seq(S), q # <<>>, NEW e \in S
    PROVE  /\ SetLast(q, e) \in Seq(S) /\ SetLast(q, e) # <<>>
           /\ Len(SetLast(q, e)) = Len(q) /\ SetLast(q, e)[Len(q)] = e
           /\ \A i \in 1 .. Len(q) : i # Len(q) => SetLast(q, e)[i] = q[i]
           /\ Len(q) \in 1 .. Len(q)
<1>1. Len(q) \in 1 .. Len(q)
  BY LastType
<1>2. SetLast(q, e)[Len(q)] = e
  BY <1>1 DEF SetLast
<1>. QED
  BY <1>1, <1>2, SetLastType

LEMMA ViewAmends ==
    ASSUME NEW x, Ledger(x), NEW t, NEW m, NEW z, Amends(x, t, m, z),
           Mirrored(x) => Follows(z, m), NEW Z, ViewKept(x, Z)
    PROVE  ViewKept(t, Z)
<1>. DEFINE v == x.provider
            q == x.messages
            w == t.provider
            r == t.messages
            a == Len(v)
            b == Len(q)
<1>1. CASE v = <<>>
  BY <1>1 DEF Amends, ViewKept
<1>2. CASE v # <<>>
  <2>1. /\ v \in Seq(Msg) /\ q \in Seq(Msg) /\ q # <<>> /\ m \in Msg /\ z \in Msg
        /\ w = SetLast(v, z) /\ r = SetLast(q, m) /\ SameID(m, Last(q))
        /\ z = Last(v) \/ (SameID(z, m) /\ SameID(Last(v), m))
    BY <1>2 DEF Amends, Ledger, Sess
  <2>2. /\ w \in Seq(Msg) /\ Len(w) = a /\ a \in 1 .. a /\ w[a] = z /\ w # <<>>
        /\ \A i \in 1 .. a : i # a => w[i] = v[i]
    <3>1. v \in Seq(Msg) /\ v # <<>> /\ z \in Msg /\ w = SetLast(v, z)
      BY <1>2, <2>1
    <3>. HIDE DEF v, w
    <3>2. /\ SetLast(v, z) \in Seq(Msg) /\ SetLast(v, z) # <<>>
          /\ Len(SetLast(v, z)) = Len(v) /\ SetLast(v, z)[Len(v)] = z
          /\ \A i \in 1 .. Len(v) : i # Len(v) => SetLast(v, z)[i] = v[i]
          /\ Len(v) \in 1 .. Len(v)
      BY ONLY <3>1, SetLastParts, Zenon
    <3>. QED
      BY <3>1, <3>2, Zenon
  <2>2a. Last(v) = v[a] /\ Last(q) = q[b]
    BY DEF Last
  <2>3. /\ Len(r) = b /\ b \in 1 .. b /\ r[b] = m
        /\ \A k \in 1 .. b : k # b => r[k] = q[k]
    <3>1. q \in Seq(Msg) /\ q # <<>> /\ m \in Msg /\ r = SetLast(q, m)
      BY <2>1
    <3>. HIDE DEF q, r
    <3>2. /\ Len(SetLast(q, m)) = Len(q) /\ SetLast(q, m)[Len(q)] = m
          /\ \A i \in 1 .. Len(q) : i # Len(q) => SetLast(q, m)[i] = q[i]
          /\ Len(q) \in 1 .. Len(q)
      BY ONLY <3>1, SetLastParts, Zenon
    <3>. QED
      BY <3>1, <3>2, Zenon
  <2>4. Ordered(v) /\ Shown(v, q) /\ Full(v, q, Z) /\ ~IsSystem(v[a])
    BY <1>2, <2>2, <2>2a DEF ViewKept, Follow
  <2>5. \A i \in 1 .. a : SameID(w[i], v[i])
    BY <2>1, <2>2, <2>2a DEF SameID
  <2>6. \A k \in 1 .. b : SameID(r[k], q[k])
    BY <2>1, <2>2a, <2>3 DEF SameID
  <2>7. ASSUME NEW i \in 1 .. a, NEW k \in 1 .. b, ~IsSystem(v[i]), Shows(v[i], q[k])
        PROVE  Shows(w[i], r[k])
    <3>1. PICK c \in 1 .. b :
              /\ v[a].seq = q[c].seq /\ v[a].seq \in Nat /\ v[a].seq <= x.msgSeq
              /\ \A l \in 1 .. b : q[l].seq = v[a].seq => l = c
      BY <2>1, <2>2, <2>4, ShownSeqs
    <3>2. v[i].seq = q[k].seq /\ q[b].seq = x.msgSeq /\ x.msgSeq \in Nat
      BY <2>2a, <2>7, LedgerSeqs DEF Shows, SameID, Ledger
    <3>3. CASE k = b
      <4>1. v[i].seq = x.msgSeq
        BY <3>2, <3>3
      <4>2. i = a
        <5>1. i # a => v[i].seq < v[a].seq
          <6>1. i # a => i < a
            BY <2>2
          <6>. QED
            BY <2>2, <2>4, <2>7, <6>1 DEF Ordered
        <5>2. ~(x.msgSeq < v[a].seq)
          BY <3>1, <3>2
        <5>. QED
          BY <4>1, <5>1, <5>2
      <4>3. Mirrored(x)
        BY <1>2, <2>2a, <2>7, <3>3, <4>2 DEF Mirrored, Shows
      <4>4. Follows(z, m)
        BY <4>3
      <4>. QED
        BY <2>2, <2>3, <3>3, <4>2, <4>4 DEF Shows, Follows
    <3>4. CASE k # b
      <4>1. r[k] = q[k]
        BY <2>3, <3>4
      <4>2. CASE i # a
        BY <2>2, <2>7, <4>1, <4>2
      <4>3. CASE i = a
        <5>1. v[a].seq # q[b].seq
          BY <2>3, <2>7, <3>2, <3>4, <4>3, LedgerSeqs
        <5>2. ~SameID(Last(v), m)
          BY <2>1, <2>2a, <5>1 DEF SameID
        <5>3. z = v[a]
          BY <2>1, <2>2a, <5>2
        <5>. QED
          BY <2>2, <2>7, <4>1, <4>3, <5>3
      <4>. QED
        BY <4>2, <4>3
    <3>. QED
      BY <3>3, <3>4
  <2>. HIDE DEF v, w, q, r, a, b
  <2>8. Ordered(w)
    BY <2>2, <2>4, <2>5 DEF Ordered, SameID, IsSystem, a
  <2>9. Shown(w, r)
    <3>1. SUFFICES ASSUME NEW i \in 1 .. a, ~IsSystem(w[i])
                   PROVE  \E k \in 1 .. b : Shows(w[i], r[k])
      BY <2>2, <2>3 DEF Shown
    <3>2. ~IsSystem(v[i])
      BY <2>5, <3>1 DEF SameID, IsSystem
    <3>3. PICK k \in 1 .. b : Shows(v[i], q[k])
      BY <2>4, <3>2 DEF Shown, a, b
    <3>. QED
      BY <2>7, <3>2, <3>3
  <2>10. Full(w, r, Z)
    <3>1. SUFFICES ASSUME NEW i \in 1 .. a, NEW k \in 1 .. b, ~IsSystem(w[i]),
                          r[k].seq > w[i].seq
                   PROVE  Present(w, r[k]) \/ r[k].seq \in Z
      BY <2>2, <2>3 DEF Full
    <3>2. ~IsSystem(v[i]) /\ q[k].seq > v[i].seq
      BY <2>5, <2>6, <3>1 DEF SameID, IsSystem
    <3>3. Present(v, q[k]) \/ q[k].seq \in Z
      BY <2>4, <3>2 DEF Full, a, b
    <3>4. Present(v, q[k]) => Present(w, r[k])
      BY <2>2, <2>5, <2>6 DEF Present, SameID, a
    <3>. QED
      BY <2>6, <3>3, <3>4 DEF SameID
  <2>11. ~IsSystem(Last(w))
    <3>1. Last(w) = w[a]
      BY <2>2 DEF Last
    <3>. QED
      BY <2>2, <2>4, <2>5, <3>1 DEF SameID, IsSystem
  <2>. QED
    BY <2>8, <2>9, <2>10, <2>11 DEF ViewKept, Follow, w, r
<1>. QED
  BY <1>1, <1>2

LEMMA ViewTalks ==
    ASSUME NEW x, Ledger(x), NEW t, Talks(x, t), NEW Z, ViewKept(x, Z)
    PROVE  ViewKept(t, Z)
<1>1. PICK m, z : Amends(x, t, m, z) /\ Keeps(x, m, z)
  BY DEF Talks
<1>2. Mirrored(x) => Follows(z, m)
  BY <1>1 DEF Mirrored, Keeps
<1>. QED
  BY <1>1, <1>2, ViewAmends

(* Where the view ends with the assistant's last message, it says the same.*)
LEMMA ViewMirrors ==
    ASSUME NEW x, Ledger(x), Last(x.messages).role = "assistant", NEW Z, ViewKept(x, Z), Mirrored(x)
    PROVE  Mirror(x)
<1>. DEFINE v == x.provider
            q == x.messages
            a == Len(v)
            b == Len(q)
<1>1. /\ v \in Seq(Msg) /\ v # <<>> /\ Shown(v, q) /\ ~IsSystem(Last(v))
      /\ SameID(Last(v), Last(q))
  BY DEF Mirrored, ViewKept, Follow, Ledger, Sess
<1>2. a \in 1 .. a /\ Last(v) = v[a]
  <2>. HIDE DEF v
  <2>. QED
    BY <1>1, LastType
<1>3. PICK k \in 1 .. b :
          /\ Shows(v[a], q[k])
          /\ \A l \in 1 .. b : q[l].seq = v[a].seq => l = k
  BY <1>1, <1>2, ShownSeqs
<1>4. b \in 1 .. b /\ Last(q) = q[b] /\ q[b] \in Msg
  BY LedgerSeqs
<1>5. k = b
  BY <1>1, <1>2, <1>3, <1>4 DEF SameID
<1>6. Preview(q[b]).content = q[b].content
  BY <1>4, PreviewType
<1>. QED
  BY <1>2, <1>3, <1>4, <1>5, <1>6 DEF Shows, Follows, Mirror

LEMMA ViewCloses ==
    ASSUME NEW x, Ledger(x), Last(x.messages).role = "assistant", NEW t, Closes(x, t),
           NEW Z, ViewKept(x, Z)
    PROVE  ViewKept(t, Z)
<1>1. PICK m, z : Amends(x, t, m, z) /\ (Mirror(x) => Keeps(x, m, z))
  BY DEF Closes
<1>2. Mirrored(x) => Follows(z, m)
  <2>1. Mirrored(x) => Mirror(x)
    BY ViewMirrors
  <2>. QED
    BY <1>1, <2>1 DEF Mirrored, Keeps
<1>. QED
  BY <1>1, <1>2, ViewAmends

(* A compaction leaves the order of what it keeps.                         *)
LEMMA WhereOrdered == \A v \in Seq(Msg) : Ordered(v) => Increasing(Where(v, Spoken))
<1>. DEFINE Q == {v \in Seq(Msg) : Ordered(v) => Increasing(Where(v, Spoken))}
<1>1. <<>> \in Q
  BY WhereEmpty DEF Increasing
<1>2. ASSUME NEW v \in Seq(Msg), NEW m \in Msg, v \in Q PROVE Append(v, m) \in Q
  <2>. DEFINE w == Append(v, m)
              p == Where(v, Spoken)
              r == Where(w, Spoken)
  <2>. SUFFICES ASSUME Ordered(w) PROVE Increasing(r)
    OBVIOUS
  <2>1. /\ w \in Seq(Msg) /\ Len(w) = Len(v) + 1 /\ w[Len(v) + 1] = m /\ Len(v) \in Nat
        /\ \A i \in 1 .. Len(v) : w[i] = v[i]
    BY AppendParts
  <2>2. Ordered(v)
    <3>1. \A i \in 1 .. Len(v) : i \in 1 .. Len(w)
      BY <2>1
    <3>. HIDE DEF w
    <3>. QED
      BY <2>1, <3>1 DEF Ordered
  <2>3. Increasing(p)
    BY <1>2, <2>2
  <2>4. p \in Seq(Msg) /\ Elements(p) = Elements(v) \cap Spoken
    BY WhereTypes, WhereKeeps
  <2>5. Selected(p, r, m, Spoken)
    BY WhereGrows
  <2>. HIDE DEF w, p, r
  <2>6. CASE m \notin Spoken
    BY <2>3, <2>5, <2>6 DEF Selected
  <2>7. CASE m \in Spoken
    <3>1. r = Append(p, m)
      BY <2>5, <2>7 DEF Selected
    <3>2. ASSUME p # <<>> PROVE Last(p).seq < m.seq
      <4>1. Len(p) \in 1 .. Len(p) /\ Last(p) = p[Len(p)]
        BY <2>4, <3>2, LastType
      <4>2. Last(p) \in Elements(v) \cap Spoken
        BY <2>4, <4>1 DEF Elements
      <4>3. PICK i \in 1 .. Len(v) : Last(p) = v[i]
        BY <4>2 DEF Elements
      <4>4. i \in 1 .. Len(w) /\ Len(w) \in 1 .. Len(w) /\ i < Len(w)
        BY <2>1
      <4>5. w[i] = Last(p) /\ w[Len(w)] = m /\ ~IsSystem(w[i]) /\ ~IsSystem(w[Len(w)])
        BY <2>1, <2>7, <4>2, <4>3 DEF Spoken
      <4>. QED
        BY <4>4, <4>5 DEF Ordered
    <3>. QED
      BY <2>3, <2>4, <3>1, <3>2, IncreasingAppend
  <2>. QED
    BY <2>6, <2>7
<1>. HIDE DEF Q
<1>3. \A v \in Seq(Msg) : v \in Q
  BY <1>1, <1>2, AppendInduction
<1>. QED
  BY <1>3 DEF Q

(* What a preview shows of a message.                                      *)
LEMMA PreviewShows ==
    ASSUME NEW m \in Msg, NEW n \in Msg, Shows(n, m)
    PROVE  Shows(Preview(n), m)
<1>. DEFINE p == Preview(n)
<1>1. SameID(n, m) /\ n.content \in {m.content, Preview(m).content}
      /\ n.thinking = m.thinking /\ n.streaming = m.streaming /\ CallIDs(n) = CallIDs(m)
  BY DEF Shows
<1>2. SameID(p, n) /\ p.thinking = n.thinking /\ p.streaming = n.streaming /\ p.calls = n.calls
  BY PreviewType
<1>3. p.content \in {m.content, Preview(m).content}
  BY <1>1, PreviewTwice
<1>4. CallIDs(p) = CallIDs(n)
  BY <1>2 DEF CallIDs
<1>. HIDE DEF p
<1>. QED
  BY <1>1, <1>2, <1>3, <1>4 DEF Shows, SameID, p

(* A compacted view p of v: n instructions first, then previews of the     *)
(* messages of the exchange e, from the one at c on.                       *)
Shortened(v, e, p, n, c) ==
    /\ e \in Seq(Msg) /\ Elements(e) = Elements(v) \cap Spoken
    /\ p \in Seq(Msg) /\ Len(p) = n + (Len(e) - c + 1)
    /\ \A i \in 1 .. n : IsSystem(p[i])
    /\ \A i \in c .. Len(e) : p[n + (i - c + 1)] = Preview(e[i])

LEMMA CompactedIs ==
    ASSUME NEW v \in Seq(Msg), DidCompact(v),
           NEW e, e = Exchange(v), NEW p, p = Compacted(v)
    PROVE  \E n \in Nat, c \in 1 .. Len(e) : Shortened(v, e, p, n, c)
<1>. DEFINE y == Systems(v)
            u == y \o <<Summary>>
            r == Retained(v)
            k == Kept(v)
            c == KeepStart(Exchange(v))
            n == Len(u)
<1>1. /\ e \in Seq(Msg) /\ y \in Seq(Msg) /\ r \in Seq(Msg) /\ k \in Seq(Msg)
      /\ c \in 1 .. Len(e) /\ p = u \o k /\ p \in Seq(Msg)
  BY CompactedParts
<1>2. e = Where(v, Spoken) /\ y = Where(v, Instructions)
  BY FiltersAre
<1>3. Elements(e) = Elements(v) \cap Spoken /\ Elements(y) = Elements(v) \cap Instructions
  BY <1>2, WhereKeeps
<1>4. /\ Len(r) = Len(e) - c + 1 /\ \A i \in 1 .. Len(r) : r[i] = e[c + i - 1]
  <2>1. r = SubSeq(e, c, Len(e))
    BY DEF Retained
  <2>. HIDE DEF r, c
  <2>. QED
    BY <1>1, <2>1
<1>5. Len(k) = Len(r) /\ \A i \in 1 .. Len(r) : k[i] = Preview(r[i])
  BY <1>1, KeptPreviews DEF Kept
<1>6. u \in Seq(Msg) /\ n = Len(y) + 1 /\ u[n] = Summary /\ \A i \in 1 .. Len(y) : u[i] = y[i]
  <2>. DEFINE z == Summary
  <2>1. z \in Msg
    BY SummaryType
  <2>. HIDE DEF y, z
  <2>. QED
    BY <1>1, <2>1 DEF z
<1>7. \A i \in 1 .. n : IsSystem(u[i])
  <2>1. SUFFICES ASSUME NEW i \in 1 .. n PROVE IsSystem(u[i])
    OBVIOUS
  <2>2. CASE i = n
    BY <1>6, <2>2, SummaryType
  <2>3. CASE i # n
    <3>1. Len(y) \in Nat
      BY <1>1
    <3>. HIDE DEF y, u, n
    <3>2. i \in 1 .. Len(y)
      BY <1>6, <2>3, <3>1
    <3>3. y[i] \in Instructions
      BY <1>3, <3>2 DEF Elements
    <3>. QED
      BY <1>6, <3>2, <3>3 DEF Instructions, u
  <2>. QED
    BY <2>2, <2>3
<1>8. n \in Nat
  BY <1>6
<1>. HIDE DEF y, u, r, k, c
<1>9. /\ Len(p) = n + Len(k) /\ Len(k) \in Nat
      /\ \A i \in 1 .. n : p[i] = u[i]
      /\ \A i \in 1 .. Len(k) : p[n + i] = k[i]
  <2>1. /\ Len(u \o k) = Len(u) + Len(k) /\ \A i \in 1 .. Len(u) : (u \o k)[i] = u[i]
        /\ \A i \in 1 .. Len(k) : (u \o k)[Len(u) + i] = k[i]
    <3>1. u \in Seq(Msg) /\ k \in Seq(Msg)
      BY <1>1, <1>6
    <3>. QED
      BY <3>1, ConcatParts
  <2>2. Len(k) \in Nat
    BY <1>1
  <2>. QED
    BY <1>1, <2>1, <2>2, Zenon
<1>. HIDE DEF n
<1>10. ASSUME NEW i \in c .. Len(e) PROVE p[n + (i - c + 1)] = Preview(e[i])
  <2>1. i - c + 1 \in 1 .. Len(k) /\ c + (i - c + 1) - 1 = i
    BY <1>1, <1>4, <1>5
  <2>2. k[i - c + 1] = Preview(e[i])
    BY <1>4, <1>5, <2>1
  <2>. QED
    BY <1>9, <2>1, <2>2
<1>11. \A i \in 1 .. n : IsSystem(p[i])
  BY <1>7, <1>9
<1>12. Len(p) = n + (Len(e) - c + 1)
  BY <1>4, <1>5, <1>9
<1>13. Shortened(v, e, p, n, c)
  BY <1>1, <1>3, <1>10, <1>11, <1>12 DEF Shortened
<1>. QED
  BY <1>1, <1>8, <1>13

LEMMA CompactedFollows ==
    ASSUME NEW x, Ledger(x), NEW v \in Seq(Msg), DidCompact(v), NEW Z,
           Follow(v, x.messages, Z), NEW W, Z \subseteq W,
           \A k \in 1 .. Len(x.messages) :
               x.messages[k].streaming = TRUE => x.messages[k].seq \in W
    PROVE  Follow(Compacted(v), x.messages, W) /\ ~IsSystem(Last(Compacted(v)))
<1>. DEFINE q == x.messages
            e == Exchange(v)
            p == Compacted(v)
<1>0. PICK n \in Nat, c \in 1 .. Len(e) : Shortened(v, e, p, n, c)
  BY CompactedIs
<1>1. /\ e \in Seq(Msg) /\ Elements(e) = Elements(v) \cap Spoken
      /\ p \in Seq(Msg) /\ Len(p) = n + (Len(e) - c + 1)
      /\ \A i \in 1 .. n : IsSystem(p[i])
      /\ \A i \in c .. Len(e) : p[n + (i - c + 1)] = Preview(e[i])
  BY <1>0 DEF Shortened
<1>2. Ordered(v) /\ Shown(v, q) /\ Full(v, q, Z)
  BY DEF Follow
<1>3. Increasing(e)
  BY <1>2, WhereOrdered, FiltersAre
<1>. HIDE DEF q, e, p
<1>4. Len(e) \in Nat /\ c \in Nat /\ c >= 1 /\ c <= Len(e)
  BY <1>1
<1>4a. n \in Nat /\ Len(p) = n + (Len(e) - c + 1)
  BY <1>1
<1>5. \A i \in 1 .. Len(e) :
          /\ e[i] \in Msg /\ e[i] \in Spoken /\ ~IsSystem(e[i]) /\ e[i].seq \in Nat
          /\ \E a \in 1 .. Len(v) : e[i] = v[a]
  <2>1. SUFFICES ASSUME NEW i \in 1 .. Len(e)
                 PROVE  /\ e[i] \in Msg /\ e[i] \in Spoken /\ ~IsSystem(e[i]) /\ e[i].seq \in Nat
                        /\ \E a \in 1 .. Len(v) : e[i] = v[a]
    OBVIOUS
  <2>2. e[i] \in Elements(v) /\ e[i] \in Spoken
    BY <1>1 DEF Elements
  <2>3. e[i] \in Msg /\ ~IsSystem(e[i])
    BY <2>2 DEF Spoken
  <2>4. e[i].seq \in Nat
    BY <2>3 DEF Msg, Msgs
  <2>. QED
    BY <2>2, <2>3, <2>4 DEF Elements
<1>6. ASSUME NEW i \in c .. Len(e)
      PROVE  /\ n + (i - c + 1) \in 1 .. Len(p) /\ SameID(p[n + (i - c + 1)], e[i])
             /\ i \in 1 .. Len(e)
  <2>1. i \in Int /\ c <= i /\ i <= Len(e)
    BY <1>4
  <2>1a. i \in 1 .. Len(e) /\ n + (i - c + 1) \in 1 .. Len(p)
    BY <1>4, <1>4a, <2>1
  <2>2. SameID(Preview(e[i]), e[i])
    BY <1>5, <2>1a, PreviewType
  <2>. QED
    BY <1>1, <2>1a, <2>2
<1>7. ASSUME NEW i \in 1 .. Len(p), ~IsSystem(p[i])
      PROVE  /\ i - n + c - 1 \in c .. Len(e) /\ i - n + c - 1 \in 1 .. Len(e)
             /\ p[i] = Preview(e[i - n + c - 1]) /\ SameID(p[i], e[i - n + c - 1])
  <2>1. i \notin 1 .. n
    BY <1>1, <1>7
  <2>. DEFINE g == i - n + c - 1
  <2>2. g \in c .. Len(e) /\ n + (g - c + 1) = i
    BY <1>4, <1>4a, <2>1
  <2>. HIDE DEF g
  <2>. QED
    BY <1>1, <1>6, <2>2 DEF g
<1>8. Ordered(p)
  <2>1. SUFFICES ASSUME NEW i \in 1 .. Len(p), NEW j \in 1 .. Len(p), i < j,
                        ~IsSystem(p[i]), ~IsSystem(p[j])
                 PROVE  p[i].seq < p[j].seq
    BY DEF Ordered
  <2>. DEFINE g == i - n + c - 1
              h == j - n + c - 1
  <2>2. g \in 1 .. Len(e) /\ h \in 1 .. Len(e) /\ SameID(p[i], e[g]) /\ SameID(p[j], e[h])
    BY <1>7, <2>1
  <2>3. g < h
    BY <1>4, <1>4a, <2>1
  <2>. HIDE DEF g, h
  <2>. QED
    BY <1>3, <2>2, <2>3 DEF Increasing, SameID
<1>9. Shown(p, q)
  <2>1. SUFFICES ASSUME NEW i \in 1 .. Len(p), ~IsSystem(p[i])
                 PROVE  \E k \in 1 .. Len(q) : Shows(p[i], q[k])
    BY DEF Shown
  <2>. DEFINE g == i - n + c - 1
  <2>2. g \in 1 .. Len(e) /\ p[i] = Preview(e[g])
    BY <1>7, <2>1
  <2>. HIDE DEF g
  <2>3. e[g] \in Msg /\ ~IsSystem(e[g]) /\ \E a \in 1 .. Len(v) : e[g] = v[a]
    BY <1>5, <2>2
  <2>4. PICK k \in 1 .. Len(q) : Shows(e[g], q[k])
    BY <1>2, <2>3 DEF Shown
  <2>5. q[k] \in Msg
    BY LedgerSeqs DEF q
  <2>6. Shows(Preview(e[g]), q[k])
    BY <2>3, <2>4, <2>5, PreviewShows
  <2>. QED
    BY <2>2, <2>6
<1>10. Full(p, q, W)
  <2>1. SUFFICES ASSUME NEW i \in 1 .. Len(p), NEW k \in 1 .. Len(q),
                        ~IsSystem(p[i]), q[k].seq > p[i].seq, q[k].seq \notin W
                 PROVE  Present(p, q[k])
    BY DEF Full
  <2>. DEFINE g == i - n + c - 1
  <2>2. g \in c .. Len(e) /\ g \in 1 .. Len(e) /\ SameID(p[i], e[g])
    BY <1>7, <2>1
  <2>. HIDE DEF g
  <2>3. /\ e[g] \in Msg /\ ~IsSystem(e[g]) /\ e[g].seq \in Nat
        /\ e[g].seq = p[i].seq
    BY <1>5, <2>2 DEF SameID
  <2>4. PICK a \in 1 .. Len(v) : e[g] = v[a]
    BY <1>5, <2>2
  <2>5. PICK b \in 1 .. Len(v) : SameID(v[b], q[k])
    <3>1. q[k].seq > v[a].seq /\ ~IsSystem(v[a])
      BY <2>1, <2>3, <2>4
    <3>2. Present(v, q[k]) \/ q[k].seq \in Z
      BY <1>2, <3>1 DEF Full
    <3>. QED
      BY <2>1, <3>2 DEF Present
  <2>6. v[b] \in Msg /\ v[b].seq = q[k].seq /\ v[b].role = q[k].role /\ v[b].streaming \in BOOLEAN
    <3>1. v[b] \in Msg
      OBVIOUS
    <3>. QED
      BY <2>5, <3>1 DEF SameID, Msg, Msgs
  <2>7. ~IsSystem(v[b])
    <3>1. v[a].seq \in Nat /\ q[k].seq > v[a].seq
      BY <2>1, <2>3, <2>4
    <3>2. PICK d \in 1 .. Len(q) : v[a].seq = q[d].seq /\ d # 1
      BY <2>3, <2>4, ShownSeqs, <1>2 DEF q
    <3>3. ASSUME k = 1 PROVE FALSE
      <4>1. k < d /\ q[k].seq \in Nat
        BY <3>2, <3>3, LedgerSeqs DEF q
      <4>2. q[k].seq < v[a].seq
        BY <3>2, <4>1 DEF Ledger, Increasing, q
      <4>. QED
        BY <3>1, <4>1, <4>2
    <3>4. k \in 2 .. Len(q)
      BY <3>3
    <3>. QED
      BY <2>6, <3>4 DEF Ledger, IsSystem, q
  <2>8. v[b].streaming = FALSE
    <3>1. PICK d \in 1 .. Len(q) : Shows(v[b], q[d])
      BY <1>2, <2>7 DEF Shown
    <3>1a. v[b].seq = q[d].seq
      BY <3>1 DEF Shows, SameID
    <3>2. d = k
      BY <2>6, <3>1a, LedgerSeqs DEF q
    <3>3. q[k].streaming # TRUE
      BY <2>1 DEF q
    <3>. QED
      BY <2>6, <3>1, <3>2, <3>3 DEF Shows
  <2>9. v[b] \in Elements(e)
    BY <1>1, <2>6, <2>7, <2>8 DEF Elements, Spoken
  <2>10. PICK h \in 1 .. Len(e) : e[h] = v[b]
    BY <2>9 DEF Elements
  <2>11. e[h].seq \in Nat /\ e[h].seq > e[g].seq
    BY <1>5, <2>1, <2>3, <2>6, <2>10
  <2>12. h \in c .. Len(e)
    <3>1. ~(h < g) /\ h # g
      <4>1. h < g => e[h].seq < e[g].seq
        BY <1>3, <2>2 DEF Increasing
      <4>. QED
        BY <2>3, <2>11, <4>1
    <3>. QED
      BY <1>4, <2>2, <3>1
  <2>13. n + (h - c + 1) \in 1 .. Len(p) /\ SameID(p[n + (h - c + 1)], q[k])
    BY <1>6, <2>5, <2>10, <2>12 DEF SameID
  <2>. QED
    BY <2>13 DEF Present
<1>11. ~IsSystem(Last(p))
  <2>. DEFINE l == Len(e)
  <2>1. l \in c .. Len(e) /\ n + (l - c + 1) = Len(p)
    BY <1>1, <1>4
  <2>2. SameID(p[Len(p)], e[l]) /\ ~IsSystem(e[l])
    BY <1>5, <1>6, <2>1
  <2>3. Last(p) = p[Len(p)]
    BY DEF Last
  <2>. QED
    BY <2>2, <2>3 DEF SameID, IsSystem
<1>. QED
  BY <1>8, <1>9, <1>10, <1>11 DEF Follow, p, q

LEMMA ViewCompacts ==
    ASSUME NEW x, Ledger(x), LogKept(x), DidCompact(ProviderMessages(x)), NEW Z, ViewKept(x, Z),
           NEW t, t = ReplaceProviderMessages(x, Compacted(ProviderMessages(x))),
           NEW W, Z \subseteq W,
           \A k \in 1 .. Len(x.messages) :
               x.messages[k].streaming = TRUE => x.messages[k].seq \in W
    PROVE  ViewKept(t, W)
<1>. DEFINE v == ProviderMessages(x)
<1>1. v \in Seq(Msg)
  BY ViewType DEF Ledger
<1>2. Follow(v, x.messages, Z)
  BY LedgerFollows DEF ProviderMessages, ViewKept
<1>3. t.messages = x.messages /\ t.provider = Compacted(v)
  BY CompactKept
<1>. HIDE DEF v
<1>4. Follow(Compacted(v), x.messages, W) /\ ~IsSystem(Last(Compacted(v)))
  BY <1>1, <1>2, CompactedFollows DEF v
<1>. QED
  BY <1>3, <1>4 DEF ViewKept

(* No step of the process that began the conversation loses the ledger.    *)
ViewInv == restarts = 0 => ViewKept(s, leftOut)

LEMMA InitView == Init => ViewInv
<1>. SUFFICES ASSUME Init PROVE s.provider = <<>>
  BY DEF ViewInv, ViewKept
<1>1. /\ New \in Sess /\ "system" \in Roles /\ NoCall \in Calls \cup {NoCall} /\ FALSE \in BOOLEAN
      /\ <<>> \in Seq(Pieces)
  BY NewType DEF Roles
<1>2. s = AddMessage(New, "system", <<>>, NoCall, FALSE)
  BY DEF Init, AddSystemMessage
<1>3. PICK m \in Msg : Adds(New, s, m)
  <2>1. Added(New, s, "system", NoCall, FALSE)
    BY <1>1, <1>2, AddMessageAdds, Zenon
  <2>. QED
    BY <2>1, Zenon DEF Added
<1>. QED
  BY <1>3 DEF Adds, New

LEMMA StepView ==
    ASSUME ConversationInv, ViewInv, [Next]_vars
    PROVE  ViewInv'
<1>. SUFFICES ASSUME restarts' = 0 PROVE ViewKept(s', leftOut')
  BY DEF ViewInv
<1>0. Ledger(s) /\ LogKept(s) /\ s \in Sess /\ restarts \in Nat
  BY LedgerLast DEF ConversationInv, Phases
<1>a. restarts = 0 => ViewKept(s, leftOut)
  BY DEF ViewInv
<1>1. CASE Submit
  <2>1. leftOut' = leftOut /\ restarts' = restarts
    BY <1>1 DEF Submit, history
  <2>2. PICK w, y : /\ Ledger(y) /\ y.messages = s.messages /\ y.provider = s.provider
                    /\ Asks(y, s')
    BY <1>1, Submitting
  <2>3. ViewKept(y, leftOut)
    BY <1>a, <2>1, <2>2 DEF ViewKept
  <2>4. PICK m \in Msg : Adds(y, s', m) /\ m.role = "user"
    BY <2>2 DEF Asks
  <2>5. m.role # "system"
    BY <2>4
  <2>. QED
    BY <2>1, <2>2, <2>3, <2>4, <2>5, ViewAdds
<1>2. CASE VisitMessage \/ VisitThinkingStart \/ VisitThinking \/ VisitToolCallStart
  <2>1. leftOut' = leftOut /\ restarts' = restarts /\ (s' = s \/ Talks(s, s'))
    BY <1>2, Talking
  <2>. QED
    BY <1>0, <1>a, <2>1, ViewTalks
<1>3. CASE StopForTools \/ LoopCompletes \/ RunCancelled \/ DeferredFinish
  <2>1. leftOut' = leftOut /\ restarts' = restarts /\ s' = FinishAssistantMessage(s)
    BY <1>3 DEF StopForTools, LoopCompletes, RunCancelled, DeferredFinish, history
  <2>2. s' = s \/ (Last(s.messages).role = "assistant" /\ Closes(s, s'))
    BY <1>0, <2>1, Finishing
  <2>. QED
    BY <1>0, <1>a, <2>1, <2>2, ViewCloses
<1>4. CASE DispatchTools
  <2>. DEFINE P == {y \in Sess : ViewKept(y, leftOut)}
  <2>1. leftOut' = leftOut /\ restarts' = restarts
    BY <1>4 DEF DispatchTools, history
  <2>2. s \in P
    BY <1>0, <1>a, <2>1
  <2>3. ASSUME NEW y \in P, NEW t \in Sess, Ledger(y), Running(y), Closes(y, t) PROVE t \in P
    <3>1. Last(y.messages).role = "assistant"
      BY <2>3 DEF Running
    <3>. QED
      BY <2>3, <3>1, ViewCloses
  <2>. HIDE DEF P
  <2>4. s' \in P
    BY <1>4, <2>2, <2>3, Dispatches
  <2>. QED
    BY <2>1, <2>4 DEF P
<1>5. CASE StoreResult
  <2>1. leftOut' = leftOut /\ restarts' = restarts
    BY <1>5 DEF StoreResult, history
  <2>2. PICK m \in Msg : Adds(s, s', m) /\ m.role = "tool"
    BY <1>5, Storing DEF Answers
  <2>3. m.role # "system"
    BY <2>2
  <2>. QED
    BY <1>0, <1>a, <2>1, <2>2, <2>3, ViewAdds
<1>6. CASE StartAnswer \/ NextIteration
  <2>1. leftOut' = leftOut /\ restarts' = restarts /\ Opens(s, s')
    BY <1>6, Opening
  <2>2. PICK m \in Msg : Adds(s, s', m) /\ m.role = "assistant"
    BY <2>1 DEF Opens
  <2>3. m.role # "system"
    BY <2>2
  <2>. QED
    BY <1>0, <1>a, <2>1, <2>2, <2>3, ViewAdds
<1>7. CASE RunFails
  <2>1. s' = s /\ leftOut' = leftOut /\ restarts' = restarts
    BY <1>7 DEF RunFails, history
  <2>. QED
    BY <1>a, <2>1
<1>8. CASE Compact
  <2>. DEFINE open == {m.seq : m \in {n \in Range(s.messages) : n.streaming}}
  <2>1. /\ restarts' = restarts /\ leftOut' = leftOut \cup open
        /\ DidCompact(ProviderMessages(s))
        /\ s' = ReplaceProviderMessages(s, Compacted(ProviderMessages(s)))
    BY <1>8 DEF Compact
  <2>2. leftOut \subseteq leftOut'
    BY <2>1
  <2>3. ASSUME NEW k \in 1 .. Len(s.messages), s.messages[k].streaming = TRUE
        PROVE  s.messages[k].seq \in leftOut'
    <3>1. s.messages \in Seq(Msg)
      BY <1>0 DEF Sess
    <3>2. s.messages[k] \in Range(s.messages)
      BY <3>1, RangeIsElements DEF Elements
    <3>3. s.messages[k].seq \in open
      BY <2>3, <3>2
    <3>. QED
      BY <2>1, <3>3
  <2>. QED
    BY <1>0, <1>a, <2>1, <2>2, <2>3, ViewCompacts
<1>9. CASE Restart
  <2>1. restarts' = restarts + 1
    BY <1>9, Restarting
  <2>. QED
    BY <1>0, <2>1
<1>10. CASE UNCHANGED vars
  <2>1. s' = s /\ leftOut' = leftOut /\ restarts' = restarts
    BY <1>10 DEF vars
  <2>. QED
    BY <1>a, <2>1
<1>. QED
  BY <1>1, <1>2, <1>3, <1>4, <1>5, <1>6, <1>7, <1>8, <1>9, <1>10 DEF Next

LEMMA InvView == ConversationInv /\ ViewInv => ViewFollowsLedger
<1>. SUFFICES ASSUME ConversationInv, ViewInv, s.provider # <<>>, restarts = 0
              PROVE  ViewFollowsLedger
  BY Zenon DEF ViewFollowsLedger
<1>. DEFINE v == s.provider
            q == s.messages
<1>1. v \in Seq(Msg) /\ q \in Seq(Msg)
  BY DEF ConversationInv, Ledger, Sess
<1>2. Ordered(v) /\ Shown(v, q) /\ Full(v, q, leftOut) /\ ~IsSystem(Last(v))
  BY DEF ViewInv, ViewKept, Follow
<1>. HIDE DEF v, q
<1>3. DOMAIN v = 1 .. Len(v) /\ Range(v) = Elements(v) /\ Range(q) = Elements(q)
  BY <1>1, RangeIsElements
<1>4. \A i, j \in DOMAIN v : i < j /\ ~IsSystem(v[i]) /\ ~IsSystem(v[j]) => v[i].seq < v[j].seq
  BY <1>2, <1>3 DEF Ordered
<1>5. \A n \in Range(v) : IsSystem(n) \/ \E m \in Range(q) : Shows(n, m)
  BY <1>2, <1>3 DEF Shown, Elements
<1>6. ASSUME NEW n \in Range(v), NEW m \in Range(q), ~IsSystem(n), m.seq > n.seq, m.seq \notin leftOut
      PROVE  \E o \in Range(v) : SameID(o, m)
  <2>1. PICK i \in 1 .. Len(v) : n = v[i]
    BY <1>3 DEF Elements
  <2>2. PICK k \in 1 .. Len(q) : m = q[k]
    BY <1>3 DEF Elements
  <2>3. Present(v, m)
    BY <1>2, <1>6, <2>1, <2>2 DEF Full
  <2>. QED
    BY <1>3, <2>3 DEF Present, Elements
<1>7. \A n \in Range(v), m \in Range(q) :
          ~IsSystem(n) /\ m.seq > n.seq => Viewed(m) \/ m.seq \in leftOut
  BY <1>6 DEF Viewed, v
<1>. QED
  BY <1>2, <1>4, <1>5, <1>7, Zenon DEF ViewFollowsLedger, v, q

(* Once there is a provider view, no call and no compaction of the process *)
(* that began the conversation makes it lose the ledger: it holds the      *)
(* ledger's messages in their order, with their text or, where a           *)
(* compaction found a large tool result, its preview, and after its first  *)
(* one all of them but those a compaction found open.                      *)
THEOREM ViewKeepsUp == Spec => []ViewFollowsLedger
<1>1. Init => ViewInv
  BY InitView
<1>2. ConversationInv /\ ViewInv /\ [Next]_vars => ViewInv'
  BY StepView
<1>3. ConversationInv /\ ViewInv => ViewFollowsLedger
  BY InvView
<1>. QED
  BY <1>1, <1>2, <1>3, ConversationIsSound, PTL DEF Spec

=============================================================================
