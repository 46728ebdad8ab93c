----------------------------- MODULE AskUserProofs -----------------------------
(***************************************************************************)
(* Proofs about AskUser, for any calls, runs, headers, requests and room   *)
(* in the channel.                                                         *)
(*                                                                         *)
(* An answer fits its call because nothing changes the questions of a call *)
(* that has been sent, and the dialog keeps a choice within the options of *)
(* every question of the request it shows.  A question is replaced only by *)
(* one of its own run because requests keep the order of the runs on their *)
(* way to the dialog, and a run starts only after the calls before it.     *)
(***************************************************************************)
EXTENDS AskUser, SequenceTheorems, FiniteSetTheorems, TLAPS

Questions == [header : Headers, options : Nat]
Positions == {"none", "called", "sending", "waiting"} \cup Over
Answers   == {Nothing} \cup UNION {[H -> Nat] : H \in SUBSET Headers}
Dialogs   == [call : Calls \cup {NoCall}, question : Nat, selected : Nat,
              selections : Seq(Nat)]

(* Type correctness. *)
TypeOK ==
    /\ pc \in [Calls -> Positions]
    /\ asks \in [Calls -> Seq(Questions)]
    /\ channel \in Seq(Calls)
    /\ hand \in Calls \cup {NoCall}
    /\ posted \in Seq(Calls)
    /\ ask \in Dialogs
    /\ box \in [Calls -> Answers]
    /\ answer \in [Calls -> Answers]
    /\ ctxDone \subseteq Runs

BeyondSend == {"waiting", "answered", "cancelled"}
Sent(c)    == pc[c] \in BeyondSend

(* An answer for a request: an option for every header of its questions.   *)
Fits(a, qs) ==
    /\ DOMAIN a = {qs[i].header : i \in DOMAIN qs}
    /\ \A h \in DOMAIN a :
          \E i \in DOMAIN qs : qs[i].header = h /\ a[h] < qs[i].options

(* A choice within the options of every question. *)
Within(choices, qs) ==
    /\ choices \in Seq(Nat) /\ DOMAIN choices = DOMAIN qs
    /\ \A i \in DOMAIN qs : choices[i] < qs[i].options

OnlySentTravel ==
    /\ \A i \in DOMAIN channel : Sent(channel[i])
    /\ \A i \in DOMAIN posted : Sent(posted[i])
    /\ hand # NoCall => Sent(hand)

DialogFits ==
    ask.call # NoCall =>
        /\ Sent(ask.call)
        /\ ask.question \in DOMAIN asks[ask.call]
        /\ ask.selected < asks[ask.call][ask.question].options
        /\ Within(ask.selections, asks[ask.call])

BoxesFit ==
    \A c \in Calls : box[c] # Nothing => Sent(c) /\ Fits(box[c], asks[c])

SentAreWellFormed ==
    \A c \in Calls : pc[c] = "sending" \/ Sent(c) => WellFormed(asks[c])

AnswerInv ==
    /\ TypeOK
    /\ OnlySentTravel
    /\ DialogFits
    /\ BoxesFit
    /\ SentAreWellFormed
    /\ AnswersAreOwn

LEMMA NextCases ==
    ASSUME [Next]_vars
    PROVE  \/ \E r \in Runs : StartRun(r)
           \/ \E r \in Runs : Cancel(r)
           \/ \E c \in Calls, qs \in Requests : Check(c, qs)
           \/ \E c \in Calls : Send(c)
           \/ \E c \in Calls : Receive(c)
           \/ \E c \in Calls : GiveUp(c)
           \/ TakeRequest \/ DispatchRequest \/ Show
           \/ \E d \in {-1, 1} : MoveAsk(d)
           \/ ConfirmAsk \/ RespondDefaults
           \/ UNCHANGED vars
BY DEF Next, Execute, Loop, User

(* Of the questions with one header, four at most, one is the last.        *)
LEMMA LastOfFour ==
    ASSUME NEW J, J \subseteq {1, 2, 3, 4}, J # {}
    PROVE  \E i \in J : \A j \in J : j <= i
<1>1. CASE 4 \in J
  BY <1>1
<1>2. CASE 4 \notin J /\ 3 \in J
  <2>1. \A j \in J : j <= 3
    BY <1>2
  <2>. QED
    BY <1>2, <2>1
<1>3. CASE 4 \notin J /\ 3 \notin J /\ 2 \in J
  <2>1. \A j \in J : j <= 2
    BY <1>3
  <2>. QED
    BY <1>3, <2>1
<1>4. CASE 4 \notin J /\ 3 \notin J /\ 2 \notin J
  <2>1. \A j \in J : j = 1
    BY <1>4
  <2>2. 1 \in J
    BY <2>1, Zenon
  <2>. QED
    BY <2>1, <2>2
<1>. QED
  BY <1>1, <1>2, <1>3, <1>4

LEMMA LastExists ==
    ASSUME NEW qs \in Seq(Questions), WellFormed(qs),
           NEW h \in {qs[i].header : i \in DOMAIN qs}
    PROVE  \E i \in DOMAIN qs :
              /\ qs[i].header = h
              /\ \A j \in DOMAIN qs : qs[j].header = h => j <= i
<1>. DEFINE J == {j \in DOMAIN qs : qs[j].header = h}
<1>1. DOMAIN qs = 1 .. Len(qs) /\ Len(qs) \in 1 .. 4
  BY LenProperties DEF WellFormed
<1>2. J \subseteq {1, 2, 3, 4} /\ J # {}
  BY <1>1
<1>3. \E i \in J : \A j \in J : j <= i
  BY <1>2, LastOfFour
<1>. QED
  BY <1>3

(* The answer the dialog gives fits the request it shows.                  *)
LEMMA RespondFits ==
    ASSUME AnswerInv, Open, NEW choices, Within(choices, asks[ask.call]),
           RespondAsk(choices)
    PROVE  \E a \in Answers :
              /\ a # Nothing
              /\ Fits(a, asks[ask.call])
              /\ box' = [box EXCEPT ![ask.call] =
                            IF @ = Nothing THEN a ELSE @]
              /\ ask' = Closed
<1>. DEFINE qs == asks[ask.call]
            LastWith(h) == CHOOSE i \in DOMAIN qs :
                              /\ qs[i].header = h
                              /\ \A j \in DOMAIN qs : qs[j].header = h => j <= i
            H == {qs[i].header : i \in DOMAIN qs}
            a == [h \in H |-> choices[LastWith(h)]]
<1>1. /\ ask.call \in Calls /\ qs \in Seq(Questions) /\ WellFormed(qs)
      /\ Sent(ask.call)
  BY DEF AnswerInv, TypeOK, Dialogs, Open, DialogFits, SentAreWellFormed
<1>2. ASSUME NEW h \in H
      PROVE  LastWith(h) \in DOMAIN qs /\ qs[LastWith(h)].header = h
  BY <1>1, <1>2, LastExists
<1>3. \A i \in DOMAIN qs : qs[i] \in Questions
  BY <1>1
<1>4. \A i \in DOMAIN qs : choices[i] \in Nat /\ choices[i] < qs[i].options
  BY DEF Within
<1>5. 1 \in DOMAIN qs
  BY <1>1 DEF WellFormed
<1>. HIDE DEF qs, LastWith
<1>6. a \in [H -> Nat] /\ H \subseteq Headers
  BY <1>2, <1>3, <1>4 DEF Questions
<1>7. a \in Answers
  BY <1>6 DEF Answers
<1>8. a # Nothing
  <2>1. DOMAIN a # {}
    BY <1>5
  <2>. QED
    BY <2>1 DEF Nothing
<1>9. Fits(a, qs)
  BY <1>2, <1>4 DEF Fits
<1>10. box' = [box EXCEPT ![ask.call] = IF @ = Nothing THEN a ELSE @]
       /\ ask' = Closed
  BY Zenon DEF RespondAsk, qs, LastWith
<1>. QED
  BY <1>7, <1>8, <1>9, <1>10 DEF qs

(* A request that has been sent is never asked anew, nor its answer lost.  *)
LEMMA SentStays ==
    ASSUME TypeOK, [Next]_vars, NEW c \in Calls, Sent(c)
    PROVE  Sent(c)' /\ asks'[c] = asks[c]
<1>. USE DEF TypeOK, Sent, BeyondSend, Go
<1>1. ASSUME NEW r \in Runs, StartRun(r) PROVE Sent(c)' /\ asks'[c] = asks[c]
  BY <1>1 DEF StartRun
<1>2. ASSUME NEW d \in Calls,
             \/ \E qs \in Requests : Check(d, qs)
             \/ Send(d) \/ Receive(d) \/ GiveUp(d)
      PROVE  Sent(c)' /\ asks'[c] = asks[c]
  BY <1>2 DEF Check, Send, Receive, GiveUp
<1>3. CASE pc' = pc /\ asks' = asks
  BY <1>3
<1>4. \/ \E r \in Runs : StartRun(r)
      \/ \E d \in Calls : \/ \E qs \in Requests : Check(d, qs)
                          \/ Send(d) \/ Receive(d) \/ GiveUp(d)
      \/ pc' = pc /\ asks' = asks
  BY NextCases DEF Cancel, TakeRequest, DispatchRequest, Show, MoveAsk,
     ConfirmAsk, RespondDefaults, vars
<1>. QED
  BY <1>1, <1>2, <1>3, <1>4

LEMMA AnswerInit == Init => AnswerInv
<1>. SUFFICES ASSUME Init PROVE AnswerInv
  OBVIOUS
<1>1. TypeOK
  <2>1. ask \in Dialogs
    <3>1. Closed.selections \in Seq(Nat)
      BY DEF Closed
    <3>. QED
      BY <3>1 DEF Init, Closed, Dialogs
  <2>2. \A c \in Calls : asks[c] \in Seq(Questions)
    BY DEF Init
  <2>. QED
    BY <2>1, <2>2 DEF Init, TypeOK, Positions, Answers
<1>2. OnlySentTravel /\ DialogFits /\ BoxesFit
  BY DEF Init, OnlySentTravel, DialogFits, BoxesFit, Closed
<1>3. SentAreWellFormed /\ AnswersAreOwn
  BY DEF Init, SentAreWellFormed, AnswersAreOwn, Sent, BeyondSend
<1>. QED
  BY <1>1, <1>2, <1>3 DEF AnswerInv

(* The dialog closed fits anything. *)
LEMMA ClosedDialog == Closed \in Dialogs /\ Closed.call = NoCall
<1>1. <<>> \in Seq(Nat)
  OBVIOUS
<1>. QED
  BY <1>1 DEF Closed, Dialogs

(* Each step of a user at the dialog leaves a choice that fits.            *)
LEMMA MoveFits ==
    ASSUME AnswerInv, NEW delta \in {-1, 1}, MoveAsk(delta)
    PROVE  ask' \in Dialogs /\ DialogFits' /\ ask'.call = ask.call
<1>. DEFINE qs == asks[ask.call]
            last == qs[ask.question].options - 1
            moved == ask.selected + delta
            to == IF moved > last THEN last ELSE IF moved < 0 THEN 0 ELSE moved
<1>1. /\ ask.call \in Calls /\ qs \in Seq(Questions) /\ WellFormed(qs)
      /\ ask \in Dialogs /\ ask.question \in DOMAIN qs
  BY DEF AnswerInv, TypeOK, Dialogs, MoveAsk, Open, DialogFits,
     SentAreWellFormed
<1>2. qs[ask.question].options \in 2 .. 4 /\ ask.selected \in Nat
  BY <1>1 DEF WellFormed, Dialogs
<1>3. to \in Nat /\ to < qs[ask.question].options
  BY <1>2
<1>4. ask' = [ask EXCEPT !.selected = to] /\ asks' = asks /\ pc' = pc
  BY DEF MoveAsk
<1>. HIDE DEF to
<1>5. /\ ask' \in Dialogs /\ ask'.call = ask.call
      /\ ask'.question = ask.question /\ ask'.selections = ask.selections
      /\ ask'.selected = to
  BY <1>1, <1>3, <1>4 DEF Dialogs
<1>. QED
  BY <1>1, <1>3, <1>4, <1>5 DEF AnswerInv, DialogFits, Sent, Within

LEMMA ShowFits ==
    ASSUME AnswerInv, Show
    PROVE  ask' \in Dialogs /\ DialogFits'
<1>. DEFINE c == Head(posted)
            none == [i \in DOMAIN asks[c] |-> 0]
<1>1. c \in Calls /\ Sent(c)
  <2>1. posted \in Seq(Calls) /\ posted # <<>>
    BY DEF AnswerInv, TypeOK, Show
  <2>2. c = posted[1] /\ 1 \in DOMAIN posted
    BY <2>1, EmptySeq, LenProperties
  <2>. QED
    BY <2>1, <2>2 DEF AnswerInv, OnlySentTravel
<1>2. /\ asks[c] \in Seq(Questions) /\ WellFormed(asks[c])
  BY <1>1 DEF AnswerInv, TypeOK, SentAreWellFormed
<1>3. DOMAIN asks[c] = 1 .. Len(asks[c]) /\ Len(asks[c]) \in 1 .. 4
  BY <1>2, LenProperties DEF WellFormed
<1>4. none \in Seq(Nat) /\ DOMAIN none = DOMAIN asks[c]
  <2>1. none \in [1 .. Len(asks[c]) -> Nat]
    BY <1>3
  <2>. QED
    BY <1>3, <2>1
<1>5. \A i \in DOMAIN asks[c] : asks[c][i].options \in 2 .. 4
  BY <1>2 DEF WellFormed
<1>. HIDE DEF c, none
<1>6. ask' = [call |-> c, question |-> 1, selected |-> 0, selections |-> none]
  BY DEF Show, Closed, c, none
<1>7. asks' = asks /\ pc' = pc
  BY DEF Show
<1>8. Within(none, asks[c])
  BY <1>4, <1>5 DEF Within, none
<1>9. ask' \in Dialogs
  BY <1>1, <1>4, <1>6 DEF Dialogs
<1>10. DialogFits'
  BY <1>1, <1>3, <1>5, <1>6, <1>7, <1>8 DEF DialogFits, Sent, Within
<1>. QED
  BY <1>9, <1>10

(* Confirming one question goes to the next, or answers them all.          *)
LEMMA ConfirmFits ==
    ASSUME AnswerInv, ConfirmAsk
    PROVE  \/ /\ ask' \in Dialogs /\ DialogFits'
              /\ box' = box /\ ask'.call = ask.call
           \/ \E choices : /\ Within(choices, asks[ask.call])
                           /\ RespondAsk(choices)
<1>. DEFINE qs == asks[ask.call]
            chosen == [ask.selections EXCEPT ![ask.question] = ask.selected]
<1>1. /\ ask.call \in Calls /\ qs \in Seq(Questions) /\ WellFormed(qs)
      /\ ask \in Dialogs /\ ask.question \in DOMAIN qs
      /\ ask.selected < qs[ask.question].options
      /\ Within(ask.selections, qs) /\ Sent(ask.call)
  BY DEF AnswerInv, TypeOK, Dialogs, ConfirmAsk, Open, DialogFits,
     SentAreWellFormed
<1>2. ask.selected \in Nat /\ ask.selections \in Seq(Nat)
      /\ DOMAIN ask.selections = DOMAIN qs
  BY <1>1 DEF Dialogs, Within
<1>3. Within(chosen, qs)
  <2>1. chosen \in Seq(Nat)
    BY <1>1, <1>2, ExceptSeq, LenProperties
  <2>2. DOMAIN chosen = DOMAIN qs
    BY <1>2
  <2>3. \A i \in DOMAIN qs : chosen[i] < qs[i].options
    BY <1>1, <1>2 DEF Within
  <2>. QED
    BY <2>1, <2>2, <2>3 DEF Within
<1>. HIDE DEF chosen
<1>4. CASE ask.question < Len(qs)
  <2>1. ask.question + 1 \in DOMAIN qs /\ ask.question + 1 \in Nat
    BY <1>1, <1>4, LenProperties
  <2>2. chosen[ask.question + 1] \in Nat
        /\ chosen[ask.question + 1] < qs[ask.question + 1].options
    BY <1>3, <2>1 DEF Within
  <2>3. /\ ask' = [ask EXCEPT !.selections = chosen, !.question = @ + 1,
                              !.selected = chosen[ask.question + 1]]
        /\ box' = box /\ asks' = asks /\ pc' = pc
    BY <1>4 DEF ConfirmAsk, chosen
  <2>4. /\ ask' \in Dialogs /\ ask'.call = ask.call
        /\ ask'.question = ask.question + 1 /\ ask'.selections = chosen
        /\ ask'.selected = chosen[ask.question + 1]
    BY <1>1, <1>3, <2>1, <2>2, <2>3 DEF Dialogs, Within
  <2>5. DialogFits'
    BY <1>1, <1>3, <2>1, <2>2, <2>3, <2>4 DEF DialogFits, Sent, Within
  <2>. QED
    BY <2>3, <2>4, <2>5
<1>5. CASE ~(ask.question < Len(qs))
  <2>1. RespondAsk(chosen)
    BY <1>5 DEF ConfirmAsk, chosen
  <2>. QED
    BY <1>3, <2>1
<1>. QED
  BY <1>4, <1>5

(* What the user's keys do to dialog and answer channel: the dialog stays  *)
(* with its request, or its answer is given and it closes.                 *)
LEMMA UserStep ==
    ASSUME AnswerInv, User
    PROVE  /\ ask' \in Dialogs
           /\ DialogFits'
           /\ \/ box' = box /\ ask'.call = ask.call
              \/ /\ ask.call \in Calls /\ Sent(ask.call)
                 /\ \E a \in Answers :
                       /\ a # Nothing
                       /\ Fits(a, asks[ask.call])
                       /\ box' = [box EXCEPT ![ask.call] =
                                     IF @ = Nothing THEN a ELSE @]
                       /\ ask' = Closed
<1>1. ASSUME NEW choices, Open, Within(choices, asks[ask.call]),
             RespondAsk(choices)
      PROVE  /\ ask' \in Dialogs
             /\ DialogFits'
             /\ ask.call \in Calls /\ Sent(ask.call)
             /\ \E a \in Answers :
                   /\ a # Nothing
                   /\ Fits(a, asks[ask.call])
                   /\ box' = [box EXCEPT ![ask.call] =
                                 IF @ = Nothing THEN a ELSE @]
                   /\ ask' = Closed
  <2>1. ask.call \in Calls /\ Sent(ask.call)
    BY <1>1 DEF AnswerInv, TypeOK, Dialogs, Open, DialogFits
  <2>2. ask' = Closed
    BY <1>1 DEF RespondAsk
  <2>3. ask' \in Dialogs /\ DialogFits'
    BY <2>2, ClosedDialog DEF DialogFits
  <2>. QED
    BY <1>1, <2>1, <2>3, RespondFits
<1>3. ASSUME NEW d \in {-1, 1}, MoveAsk(d)
      PROVE  /\ ask' \in Dialogs /\ DialogFits'
             /\ box' = box /\ ask'.call = ask.call
  BY <1>3, MoveFits DEF MoveAsk
<1>4. CASE ConfirmAsk
  BY <1>1, <1>4, ConfirmFits DEF ConfirmAsk
<1>5. CASE RespondDefaults
  <2>. DEFINE zeros == [i \in DOMAIN ask.selections |-> 0]
  <2>1. Open /\ RespondAsk(zeros)
    BY <1>5 DEF RespondDefaults
  <2>2. /\ ask.call \in Calls /\ Within(ask.selections, asks[ask.call])
        /\ WellFormed(asks[ask.call])
    BY <2>1 DEF AnswerInv, TypeOK, Dialogs, Open, DialogFits, SentAreWellFormed
  <2>3. ask.selections \in Seq(Nat)
        /\ DOMAIN ask.selections = 1 .. Len(ask.selections)
        /\ Len(ask.selections) \in Nat
    BY <2>2, LenProperties DEF Within
  <2>4. zeros \in Seq(Nat)
    <3>1. zeros \in [1 .. Len(ask.selections) -> Nat]
      BY <2>3
    <3>. QED
      BY <2>3, <3>1
  <2>5. Within(zeros, asks[ask.call])
    <3>1. \A i \in DOMAIN asks[ask.call] : zeros[i] = 0
      BY <2>2 DEF Within
    <3>2. \A i \in DOMAIN asks[ask.call] : zeros[i] < asks[ask.call][i].options
      <4>1. \A i \in DOMAIN asks[ask.call] :
               asks[ask.call][i].options \in 2 .. 4
        BY <2>2 DEF WellFormed
      <4>. HIDE DEF zeros
      <4>. QED
        BY <3>1, <4>1
    <3>3. DOMAIN zeros = DOMAIN asks[ask.call]
      BY <2>2 DEF Within
    <3>. QED
      BY <2>4, <3>2, <3>3 DEF Within
  <2>. HIDE DEF zeros
  <2>. QED
    BY <1>1, <2>1, <2>5
<1>. QED
  BY <1>3, <1>4, <1>5 DEF User

LEMMA AnswerStep == AnswerInv /\ [Next]_vars => AnswerInv'
<1>. SUFFICES ASSUME AnswerInv, [Next]_vars PROVE AnswerInv'
  OBVIOUS
<1>0. /\ TypeOK /\ OnlySentTravel /\ DialogFits /\ BoxesFit
      /\ SentAreWellFormed /\ AnswersAreOwn
  BY DEF AnswerInv
<1>s. \A c \in Calls : Sent(c) => Sent(c)' /\ asks'[c] = asks[c]
  BY <1>0, SentStays
<1>1. TypeOK'
  <2>. USE <1>0, AskUserAssumption DEF TypeOK, Go
  <2>1. ASSUME NEW r \in Runs, StartRun(r) PROVE TypeOK'
    BY <2>1 DEF StartRun, Positions, uiVars
  <2>2. ASSUME NEW r \in Runs, Cancel(r) PROVE TypeOK'
    BY <2>2 DEF Cancel, uiVars
  <2>3. ASSUME NEW c \in Calls, NEW qs \in Requests, Check(c, qs) PROVE TypeOK'
    BY <2>3 DEF Check, Positions, Over, Questions, uiVars
  <2>4. ASSUME NEW c \in Calls, Send(c) PROVE TypeOK'
    BY <2>4 DEF Send, Positions, uiVars
  <2>5. ASSUME NEW c \in Calls, Receive(c) PROVE TypeOK'
    BY <2>5 DEF Receive, Positions, Over, Answers, uiVars
  <2>6. ASSUME NEW c \in Calls, GiveUp(c) PROVE TypeOK'
    BY <2>6 DEF GiveUp, Positions, Over, uiVars
  <2>7. CASE TakeRequest
    <3>1. Head(channel) \in Calls /\ Tail(channel) \in Seq(Calls)
      BY <2>7, HeadTailProperties DEF TakeRequest
    <3>. QED
      BY <2>7, <3>1 DEF TakeRequest, uiVars
  <2>8. CASE DispatchRequest
    BY <2>8 DEF DispatchRequest
  <2>9. CASE Show \/ User
    <3>. USE <2>9 DEF User
    <3>1. ask' \in Dialogs
      BY UserStep, ShowFits
    <3>2. box' \in [Calls -> Answers]
      <4>1. \/ box' = box
            \/ \E c : \E a \in Answers :
                  box' = [box EXCEPT ![c] = IF @ = Nothing THEN a ELSE @]
        BY UserStep DEF Show
      <4>. QED
        BY <4>1
    <3>4. posted' \in Seq(Calls)
      <4>1. \/ posted' = posted
            \/ posted # <<>> /\ posted' = Tail(posted)
        BY DEF Show, MoveAsk, ConfirmAsk, RespondDefaults
      <4>2. posted \in Seq(Calls)
        BY <1>0
      <4>3. posted # <<>> => Tail(posted) \in Seq(Calls)
        BY <4>2, HeadTailProperties
      <4>. QED
        BY <4>1, <4>2, <4>3
    <3>3. UNCHANGED <<pc, asks, channel, hand, answer, ctxDone>>
      BY DEF Show, MoveAsk, ConfirmAsk, RespondDefaults
    <3>. QED
      BY <3>1, <3>2, <3>3, <3>4
  <2>10. CASE UNCHANGED vars
    BY <2>10 DEF vars
  <2>. QED
    BY <2>1, <2>2, <2>3, <2>4, <2>5, <2>6, <2>7, <2>8, <2>9, <2>10, NextCases DEF User
<1>2. OnlySentTravel'
  <2>0. channel \in Seq(Calls) /\ posted \in Seq(Calls)
        /\ hand \in Calls \cup {NoCall} /\ pc \in [Calls -> Positions]
    BY <1>0 DEF TypeOK
  <2>c. /\ \A i \in DOMAIN channel : pc'[channel[i]] \in BeyondSend
        /\ \A i \in DOMAIN posted : pc'[posted[i]] \in BeyondSend
        /\ hand # NoCall => pc'[hand] \in BeyondSend
    <3>1. /\ \A i \in DOMAIN channel : channel[i] \in Calls
          /\ \A i \in DOMAIN posted : posted[i] \in Calls
          /\ hand # NoCall => hand \in Calls
      BY <2>0
    <3>2. \A c \in Calls : pc[c] \in BeyondSend => pc'[c] \in BeyondSend
      BY <1>s DEF Sent
    <3>. QED
      BY <1>0, <3>1, <3>2 DEF OnlySentTravel, Sent
  <2>1. ASSUME NEW c \in Calls, Send(c) PROVE OnlySentTravel'
    <3>1. pc'[c] \in BeyondSend
      BY <2>0, <2>1 DEF Send, Go, BeyondSend
    <3>2. \A i \in DOMAIN channel' : pc'[channel'[i]] \in BeyondSend
      BY <2>0, <2>1, <2>c, <3>1, AppendProperties, LenProperties DEF Send
    <3>. QED
      BY <2>1, <2>c, <3>2 DEF Send, OnlySentTravel, uiVars, Sent
  <2>2. CASE TakeRequest
    <3>1. /\ Head(channel) = channel[1] /\ 1 \in DOMAIN channel
          /\ \A i \in DOMAIN Tail(channel) :
                i + 1 \in DOMAIN channel /\ Tail(channel)[i] = channel[i + 1]
      BY <2>0, <2>2, HeadTailProperties, LenProperties, EmptySeq
         DEF TakeRequest
    <3>. QED
      BY <2>2, <2>c, <3>1 DEF TakeRequest, OnlySentTravel, uiVars, Sent
  <2>3. CASE DispatchRequest
    <3>1. hand \in Calls
      BY <2>0, <2>3 DEF DispatchRequest
    <3>2. \A i \in DOMAIN posted' : pc'[posted'[i]] \in BeyondSend
      BY <2>0, <2>3, <2>c, <3>1, AppendProperties, LenProperties
         DEF DispatchRequest
    <3>. QED
      BY <2>3, <2>c, <3>2 DEF DispatchRequest, OnlySentTravel, Sent
  <2>4. CASE Show
    <3>1. \A i \in DOMAIN Tail(posted) :
             i + 1 \in DOMAIN posted /\ Tail(posted)[i] = posted[i + 1]
      BY <2>0, <2>4, HeadTailProperties, LenProperties, EmptySeq DEF Show
    <3>. QED
      BY <2>4, <2>c, <3>1 DEF Show, OnlySentTravel, Sent
  <2>5. CASE UNCHANGED <<channel, posted, hand>>
    BY <2>5, <2>c DEF OnlySentTravel, Sent
  <2>. QED
    BY <2>1, <2>2, <2>3, <2>4, <2>5, NextCases DEF StartRun, Cancel, Check,
       Receive, GiveUp, MoveAsk, ConfirmAsk, RespondDefaults, vars, uiVars
<1>3. DialogFits'
  <2>1. CASE Show \/ User
    BY <2>1, UserStep, ShowFits
  <2>2. CASE ask' = ask
    <3>1. ask.call # NoCall => ask.call \in Calls
      BY <1>0 DEF TypeOK, Dialogs
    <3>. QED
      BY <1>0, <1>s, <2>2, <3>1 DEF DialogFits, Within, Sent
  <2>. QED
    BY <2>1, <2>2, NextCases DEF StartRun, Cancel, Check, Send, Receive,
       GiveUp, TakeRequest, DispatchRequest, User, vars, uiVars
<1>4. BoxesFit'
  <2>1. CASE User
    <3>1. asks' = asks /\ pc' = pc
      BY <2>1 DEF User, MoveAsk, ConfirmAsk, RespondDefaults
    <3>2. \A c \in Calls : \/ box'[c] = box[c]
                           \/ Sent(c) /\ Fits(box'[c], asks[c])
      BY <1>0, <2>1, UserStep DEF TypeOK
    <3>. QED
      BY <1>0, <3>1, <3>2 DEF BoxesFit, Sent, Fits
  <2>2. CASE \A c \in Calls : box'[c] \in {Nothing, box[c]}
    BY <1>0, <1>s, <2>2 DEF BoxesFit, Sent, Fits
  <2>3. ASSUME NEW c \in Calls, Receive(c)
        PROVE  \A d \in Calls : box'[d] \in {Nothing, box[d]}
    BY <1>0, <2>3 DEF Receive, TypeOK
  <2>. QED
    BY <2>1, <2>2, <2>3, NextCases DEF StartRun, Cancel, Check, Send,
       GiveUp, TakeRequest, DispatchRequest, Show, User, vars, uiVars
<1>5. SentAreWellFormed'
  <2>0. pc \in [Calls -> Positions] /\ asks \in [Calls -> Seq(Questions)]
    BY <1>0 DEF TypeOK
  <2>1. ASSUME NEW c \in Calls, NEW qs \in Requests, Check(c, qs)
        PROVE  SentAreWellFormed'
    BY <1>0, <2>0, <2>1 DEF Check, Go, SentAreWellFormed, Sent,
       BeyondSend
  <2>2. ASSUME NEW r \in Runs, StartRun(r) PROVE SentAreWellFormed'
    BY <1>0, <2>0, <2>2 DEF StartRun, SentAreWellFormed, Sent,
       BeyondSend
  <2>3. ASSUME NEW c \in Calls, Send(c) \/ Receive(c) \/ GiveUp(c)
        PROVE  SentAreWellFormed'
    BY <1>0, <2>0, <2>3 DEF Send, Receive, GiveUp, Go, SentAreWellFormed, Sent,
       BeyondSend
  <2>4. CASE pc' = pc /\ asks' = asks
    BY <1>0, <2>4 DEF SentAreWellFormed, Sent,
       BeyondSend
  <2>. QED
    BY <2>1, <2>2, <2>3, <2>4, NextCases DEF Cancel, TakeRequest,
       DispatchRequest, Show, MoveAsk, ConfirmAsk, RespondDefaults, vars
<1>6. AnswersAreOwn'
  <2>0. pc \in [Calls -> Positions] /\ answer \in [Calls -> Answers]
    BY <1>0 DEF TypeOK
  <2>1. ASSUME NEW c \in Calls, Receive(c) PROVE AnswersAreOwn'
    <3>1. /\ pc[c] = "waiting" /\ asks' = asks
          /\ pc' = [pc EXCEPT ![c] = "answered"]
          /\ answer' = [answer EXCEPT ![c] = box[c]]
      BY <2>1 DEF Receive, Go
    <3>2. Fits(box[c], asks[c])
      BY <1>0, <2>1 DEF Receive, BoxesFit
    <3>. QED
      BY <1>0, <2>0, <3>1, <3>2 DEF AnswersAreOwn, Fits
  <2>2. ASSUME answer' = answer, NEW c \in Calls, pc'[c] = "answered",
               pc[c] = "answered"
        PROVE  Fits(answer'[c], asks'[c])
    BY <1>0, <1>s, <2>2 DEF AnswersAreOwn, Sent, BeyondSend, Fits
  <2>3. \/ \E c \in Calls : Receive(c)
        \/ /\ answer' = answer
           /\ \A c \in Calls : pc'[c] = "answered" => pc[c] = "answered"
    BY <2>0, NextCases DEF StartRun, Cancel, Check, Send, GiveUp, Go,
       TakeRequest, DispatchRequest, Show, MoveAsk, ConfirmAsk,
       RespondDefaults, vars
  <2>. QED
    BY <2>1, <2>2, <2>3 DEF AnswersAreOwn, Fits
<1>. QED
  BY <1>1, <1>2, <1>3, <1>4, <1>5, <1>6 DEF AnswerInv

LEMMA AnswerAlways == Spec => []AnswerInv
BY AnswerInit, AnswerStep, PTL DEF Spec

(* What a call returns to the model answers the questions of that call,    *)
(* every one, and with an option it offers, though the dialog may have     *)
(* been taken over, left open by a cancelled run, or dismissed.            *)
THEOREM AnswersFitTheirCall == Spec => []AnswersAreOwn
<1>1. AnswerInv => AnswersAreOwn
  BY DEF AnswerInv
<1>. QED
  BY <1>1, AnswerAlways, PTL

-----------------------------------------------------------------------------
(* Order.                                                                  *)

(* Calls start when every call of the runs before has ended. *)
StartedInTurn ==
    \A c, d \in Calls : pc[c] # "none" /\ RunOf[d] < RunOf[c] => Ended(d)

Sorted(q) == \A i, j \in DOMAIN q : i < j => RunOf[q[i]] <= RunOf[q[j]]

NotLater(S, T) == \A x \in S, y \in T : RunOf[x] <= RunOf[y]

(* The call in the hand or at the dialog, if there is one. *)
One(c) == {c} \ {NoCall}

(* From the dialog back to the channel, requests lie in the order of runs. *)
InRunOrder ==
    /\ Sorted(posted) /\ Sorted(channel)
    /\ NotLater(One(ask.call), Range(posted))
    /\ NotLater(One(ask.call), One(hand))
    /\ NotLater(One(ask.call), Range(channel))
    /\ NotLater(Range(posted), One(hand))
    /\ NotLater(Range(posted), Range(channel))
    /\ NotLater(One(hand), Range(channel))

RivalInv ==
    /\ AnswerInv
    /\ StartedInTurn
    /\ InRunOrder
    /\ OnlyRivalsReplace

LEMMA RunsAreNumbers == \A c \in Calls : RunOf[c] \in Int
BY AskUserAssumption, FS_CardinalityType

LEMMA RangeAppend ==
    ASSUME NEW q \in Seq(Calls), NEW c \in Calls
    PROVE  Range(Append(q, c)) = Range(q) \cup {c}
<1>1. /\ DOMAIN Append(q, c) = 1 .. Len(q) + 1 /\ Len(q) \in Nat
      /\ DOMAIN q = 1 .. Len(q)
      /\ \A i \in 1 .. Len(q) : Append(q, c)[i] = q[i]
      /\ Append(q, c)[Len(q) + 1] = c
  BY AppendProperties, LenProperties
<1>. QED
  BY <1>1 DEF Range

LEMMA SortedAppend ==
    ASSUME NEW q \in Seq(Calls), NEW c \in Calls, Sorted(q),
           NotLater(Range(q), {c})
    PROVE  Sorted(Append(q, c))
<1>1. /\ DOMAIN Append(q, c) = 1 .. Len(q) + 1 /\ Len(q) \in Nat
      /\ DOMAIN q = 1 .. Len(q)
      /\ \A i \in 1 .. Len(q) : Append(q, c)[i] = q[i]
      /\ Append(q, c)[Len(q) + 1] = c
  BY AppendProperties, LenProperties
<1>2. \A i \in DOMAIN q : RunOf[q[i]] <= RunOf[c]
  BY DEF NotLater, Range
<1>. QED
  BY <1>1, <1>2 DEF Sorted

LEMMA SortedTail ==
    ASSUME NEW q \in Seq(Calls), q # <<>>
    PROVE  /\ Head(q) \in Range(q) /\ Head(q) \in Calls
           /\ Range(Tail(q)) \subseteq Range(q)
           /\ Range(q) = {Head(q)} \cup Range(Tail(q))
           /\ Sorted(q) => /\ Sorted(Tail(q))
                           /\ NotLater({Head(q)}, Range(Tail(q)))
<1>1. /\ Len(q) \in Nat \ {0} /\ DOMAIN q = 1 .. Len(q)
      /\ DOMAIN Tail(q) = 1 .. Len(q) - 1
      /\ \A i \in 1 .. Len(q) - 1 : Tail(q)[i] = q[i + 1]
      /\ Head(q) = q[1] /\ Head(q) \in Calls
  BY HeadTailProperties, LenProperties, EmptySeq
<1>2. Head(q) \in Range(q)
  BY <1>1 DEF Range
<1>3. Range(Tail(q)) \subseteq Range(q)
  BY <1>1 DEF Range
<1>4. ASSUME NEW x \in Range(q), x # Head(q) PROVE x \in Range(Tail(q))
  <2>1. PICK i \in DOMAIN q : x = q[i]
    BY <1>4 DEF Range
  <2>2. i - 1 \in DOMAIN Tail(q) /\ Tail(q)[i - 1] = x
    BY <1>1, <1>4, <2>1
  <2>. QED
    BY <2>2 DEF Range
<1>5. ASSUME Sorted(q)
      PROVE  Sorted(Tail(q)) /\ NotLater({Head(q)}, Range(Tail(q)))
  <2>1. Sorted(Tail(q))
    BY <1>1, <1>5 DEF Sorted
  <2>2. NotLater({Head(q)}, Range(Tail(q)))
    BY <1>1, <1>5 DEF Sorted, NotLater, Range
  <2>. QED
    BY <2>1, <2>2
<1>. QED
  BY <1>1, <1>2, <1>3, <1>4, <1>5

LEMMA TurnStep ==
    ASSUME TypeOK, StartedInTurn, [Next]_vars
    PROVE  StartedInTurn'
<1>0. pc \in [Calls -> Positions]
  BY DEF TypeOK
<1>1. ASSUME NEW r \in Runs, StartRun(r) PROVE StartedInTurn'
  BY <1>0, <1>1 DEF StartRun, StartedInTurn, Ended, Over
<1>2. CASE /\ \A c \in Calls : pc'[c] # "none" => pc[c] # "none"
           /\ \A c \in Calls : Ended(c) => pc'[c] \in Over
  BY <1>2 DEF StartedInTurn, Ended
<1>3. \/ \E r \in Runs : StartRun(r)
      \/ /\ \A c \in Calls : pc'[c] # "none" => pc[c] # "none"
         /\ \A c \in Calls : Ended(c) => pc'[c] \in Over
  BY <1>0, NextCases DEF Cancel, Check, Send, Receive, GiveUp, Go, TakeRequest,
     DispatchRequest, Show, MoveAsk, ConfirmAsk, RespondDefaults, vars, Ended,
     Over
<1>. QED
  BY <1>1, <1>2, <1>3

(* What is on its way has been sent, so no call that has not ended is of   *)
(* an earlier run.                                                         *)
LEMMA SentAreNotLater ==
    ASSUME TypeOK, StartedInTurn, NEW c \in Calls, ~Ended(c),
           NEW x \in Calls, Sent(x)
    PROVE  RunOf[x] <= RunOf[c]
<1>1. ~(RunOf[c] < RunOf[x])
  BY DEF StartedInTurn, Sent, BeyondSend
<1>. QED
  BY <1>1, RunsAreNumbers

LEMMA OrderStep ==
    ASSUME AnswerInv, StartedInTurn, InRunOrder, [Next]_vars
    PROVE  InRunOrder'
<1>0. /\ TypeOK /\ OnlySentTravel /\ DialogFits
      /\ channel \in Seq(Calls) /\ posted \in Seq(Calls)
      /\ hand \in Calls \cup {NoCall} /\ NoCall \notin Calls
      /\ ask.call \in Calls \cup {NoCall}
  BY AskUserAssumption DEF AnswerInv, TypeOK, Dialogs
<1>1. ASSUME NEW c \in Calls, Send(c) PROVE InRunOrder'
  <2>1. ~Ended(c)
    BY <1>1 DEF Send, Go, Ended, Over
  <2>2. \A x \in One(ask.call) \cup Range(posted) \cup One(hand)
                 \cup Range(channel) : x \in Calls /\ Sent(x)
    BY <1>0 DEF One, Range, OnlySentTravel, DialogFits
  <2>3. NotLater(One(ask.call) \cup Range(posted) \cup One(hand)
                 \cup Range(channel), {c})
    BY <1>0, <2>1, <2>2, SentAreNotLater DEF NotLater
  <2>4. /\ channel' = Append(channel, c) /\ posted' = posted
        /\ hand' = hand /\ ask' = ask
    BY <1>1 DEF Send, uiVars
  <2>5. Range(channel') = Range(channel) \cup {c}
    BY <1>0, <2>4, RangeAppend
  <2>6. Sorted(channel')
    BY <1>0, <2>3, <2>4, SortedAppend DEF InRunOrder, NotLater
  <2>. QED
    BY <2>3, <2>4, <2>5, <2>6 DEF InRunOrder, NotLater
<1>2. CASE TakeRequest
  <2>1. /\ channel # <<>> /\ hand' = Head(channel) /\ channel' = Tail(channel)
        /\ posted' = posted /\ ask' = ask
    BY <1>2 DEF TakeRequest, uiVars
  <2>2. /\ One(hand') \subseteq Range(channel)
        /\ Range(channel') \subseteq Range(channel) /\ Sorted(channel')
        /\ NotLater(One(hand'), Range(channel'))
    BY <1>0, <2>1, SortedTail DEF InRunOrder, NotLater, One
  <2>. QED
    BY <2>1, <2>2 DEF InRunOrder, NotLater
<1>3. CASE DispatchRequest
  <2>1. /\ hand \in Calls /\ hand' = NoCall
        /\ posted' = Append(posted, hand)
        /\ channel' = channel /\ ask' = ask
    BY <1>0, <1>3 DEF DispatchRequest
  <2>2. One(hand) = {hand} /\ One(hand') = {}
    BY <1>0, <2>1 DEF One
  <2>3. Range(posted') = Range(posted) \cup {hand} /\ Sorted(posted')
    BY <1>0, <2>1, <2>2, RangeAppend, SortedAppend DEF InRunOrder
  <2>. QED
    BY <2>1, <2>2, <2>3 DEF InRunOrder, NotLater
<1>4. CASE Show
  <2>1. /\ posted # <<>> /\ ask'.call = Head(posted)
        /\ posted' = Tail(posted) /\ channel' = channel /\ hand' = hand
    BY <1>4 DEF Show, Closed
  <2>2. /\ One(ask'.call) \subseteq Range(posted)
        /\ Range(posted') \subseteq Range(posted) /\ Sorted(posted')
        /\ NotLater(One(ask'.call), Range(posted'))
    BY <1>0, <2>1, SortedTail DEF InRunOrder, NotLater, One
  <2>. QED
    BY <2>1, <2>2 DEF InRunOrder, NotLater
<1>5. CASE User
  <2>1. UNCHANGED <<channel, hand, posted>>
    BY <1>5 DEF User, MoveAsk, ConfirmAsk, RespondDefaults
  <2>3. One(ask'.call) \subseteq One(ask.call)
    <3>1. ask'.call \in {ask.call, NoCall}
      BY <1>5, UserStep, ClosedDialog
    <3>. QED
      BY <3>1 DEF One
  <2>. QED
    BY <2>1, <2>3 DEF InRunOrder, NotLater
<1>6. CASE UNCHANGED <<channel, hand, posted, ask>>
  BY <1>6 DEF InRunOrder, NotLater, Sorted, One
<1>. QED
  BY <1>1, <1>2, <1>3, <1>4, <1>5, <1>6, NextCases DEF StartRun, Cancel, Check,
     Receive, GiveUp, User, vars, uiVars

(* A request that takes the dialog of a call that still waits belongs to   *)
(* the run of that call.                                                   *)
LEMMA SuccessorIsRival ==
    ASSUME AnswerInv, StartedInTurn, InRunOrder, Show,
           NEW c \in Calls, pc[c] = "waiting",
           ask.call \in Calls, RunOf[ask.call] = RunOf[c]
    PROVE  /\ ask'.call \in Calls
           /\ RunOf[ask'.call] = RunOf[c]
<1>1. /\ TypeOK /\ OnlySentTravel /\ posted \in Seq(Calls) /\ posted # <<>>
      /\ ask'.call = Head(posted) /\ NoCall \notin Calls
  BY AskUserAssumption DEF AnswerInv, TypeOK, Show, Closed
<1>2. Head(posted) \in Range(posted) /\ Head(posted) \in Calls
  BY <1>1, SortedTail
<1>3. RunOf[ask.call] <= RunOf[Head(posted)]
  BY <1>1, <1>2 DEF InRunOrder, NotLater, One
<1>4. Sent(Head(posted))
  BY <1>1, <1>2 DEF OnlySentTravel, Range
<1>5. ~Ended(c)
  BY DEF Ended, Over
<1>6. RunOf[Head(posted)] <= RunOf[c]
  BY <1>1, <1>2, <1>4, <1>5, SentAreNotLater
<1>. QED
  BY <1>1, <1>2, <1>3, <1>6, RunsAreNumbers

(* A call whose request has been answered stays so. *)
Settled(c) == box[c] # Nothing \/ pc[c] = "answered"

LEMMA SettledStays ==
    ASSUME AnswerInv, [Next]_vars, NEW c \in Calls, Settled(c)
    PROVE  Settled(c)'
<1>0. pc \in [Calls -> Positions] /\ box \in [Calls -> Answers]
  BY DEF AnswerInv, TypeOK
<1>1. pc[c] = "answered" => pc'[c] = "answered"
  BY <1>0, NextCases DEF StartRun, Cancel, Check, Send, Receive, GiveUp, Go,
     TakeRequest, DispatchRequest, Show, MoveAsk, ConfirmAsk, RespondDefaults,
     vars
<1>2. ASSUME NEW d \in Calls, Receive(d) PROVE Settled(c)'
  BY <1>0, <1>1, <1>2 DEF Receive, Go, Settled
<1>3. ASSUME User PROVE box[c] # Nothing => box'[c] # Nothing
  BY <1>0, <1>3, UserStep
<1>4. CASE box[c] # Nothing => box'[c] # Nothing
  BY <1>1, <1>4 DEF Settled
<1>. QED
  BY <1>2, <1>3, <1>4, NextCases DEF StartRun, Cancel, Check, Send, GiveUp,
     TakeRequest, DispatchRequest, Show, User, vars, uiVars

(* The one reason for which a question may be gone without an answer.      *)
Rivalled(c) ==
    \E d \in Calls \ {c} : RunOf[d] = RunOf[c] /\ (ask.call = d \/ Settled(d))

LEMMA RivalsByName ==
    OnlyRivalsReplace <=>
        \A c \in Calls :
            pc[c] = "waiting" /\ ~OnItsWay(c) /\ box[c] = Nothing =>
                RunOf[c] \in ctxDone \/ Rivalled(c)
BY DEF OnlyRivalsReplace, Rivalled, Settled

(* A rival at the dialog gives way to an answer or to another rival.       *)
LEMMA RivalStays ==
    ASSUME RivalInv, [Next]_vars, NEW c \in Calls, pc[c] = "waiting",
           Rivalled(c)
    PROVE  Rivalled(c)' \/ ask'.call = c
<1>0. AnswerInv /\ StartedInTurn /\ InRunOrder
      /\ box \in [Calls -> Answers] /\ NoCall \notin Calls
  BY AskUserAssumption DEF RivalInv, AnswerInv, TypeOK
<1>1. PICK d \in Calls \ {c} :
         RunOf[d] = RunOf[c] /\ (ask.call = d \/ Settled(d))
  BY DEF Rivalled
<1>2. CASE Settled(d)
  BY <1>0, <1>1, <1>2, SettledStays DEF Rivalled
<1>3. CASE ask.call = d /\ Show
  BY <1>0, <1>1, <1>3, SuccessorIsRival DEF Rivalled
<1>4. CASE ask.call = d /\ User
  <2>1. ask'.call = d \/ box'[d] # Nothing
    BY <1>0, <1>1, <1>4, UserStep
  <2>. QED
    BY <1>1, <2>1 DEF Rivalled, Settled
<1>5. CASE ask.call = d /\ ask' = ask
  BY <1>1, <1>5 DEF Rivalled
<1>. QED
  BY <1>1, <1>2, <1>3, <1>4, <1>5, NextCases DEF StartRun, Cancel, Check, Send,
     Receive, GiveUp, TakeRequest, DispatchRequest, User, vars, uiVars

(* A request that leaves its way does so for an answer or a rival.         *)
LEMMA LeavingForRival ==
    ASSUME RivalInv, [Next]_vars, NEW c \in Calls, pc[c] = "waiting",
           OnItsWay(c), ~OnItsWay(c)'
    PROVE  box'[c] # Nothing \/ Rivalled(c)'
<1>0. /\ AnswerInv /\ StartedInTurn /\ InRunOrder
      /\ channel \in Seq(Calls) /\ posted \in Seq(Calls)
      /\ box \in [Calls -> Answers] /\ NoCall \notin Calls
  BY AskUserAssumption DEF RivalInv, AnswerInv, TypeOK
<1>w. /\ OnItsWay(c) <=> \/ c \in Range(channel) \/ hand = c
                         \/ c \in Range(posted) \/ ask.call = c
      /\ OnItsWay(c)' <=> \/ c \in Range(channel') \/ hand' = c
                          \/ c \in Range(posted') \/ ask'.call = c
  BY DEF OnItsWay, InSeq, Range
<1>1. ASSUME NEW d \in Calls, Send(d) PROVE FALSE
  BY <1>0, <1>1, <1>w, RangeAppend DEF Send, uiVars
<1>2. CASE TakeRequest
  <2>1. /\ channel # <<>> /\ hand' = Head(channel) /\ channel' = Tail(channel)
        /\ hand = NoCall /\ posted' = posted /\ ask' = ask
    BY <1>2 DEF TakeRequest, uiVars
  <2>2. Range(channel) = {hand'} \cup Range(channel')
    BY <1>0, <2>1, SortedTail
  <2>. QED
    BY <1>0, <1>w, <2>1, <2>2
<1>3. CASE DispatchRequest
  <2>1. hand \in Calls
    BY <1>0, <1>3 DEF AnswerInv, TypeOK, DispatchRequest
  <2>. QED
    BY <1>0, <1>3, <1>w, <2>1, RangeAppend DEF DispatchRequest
<1>4. CASE Show
  <2>1. /\ posted # <<>> /\ posted' = Tail(posted) /\ ask'.call = Head(posted)
        /\ channel' = channel /\ hand' = hand
    BY <1>4 DEF Show, Closed
  <2>2. ask.call = c
    <3>1. Range(posted) = {ask'.call} \cup Range(posted')
      BY <1>0, <2>1, SortedTail
    <3>. QED
      BY <1>w, <2>1, <3>1
  <2>3. ask'.call \in Calls /\ RunOf[ask'.call] = RunOf[c]
    BY <1>0, <1>4, <2>2, SuccessorIsRival
  <2>. QED
    BY <1>w, <2>3 DEF Rivalled
<1>5. CASE User
  <2>1. UNCHANGED <<channel, hand, posted>>
    BY <1>5 DEF User, MoveAsk, ConfirmAsk, RespondDefaults
  <2>2. ask'.call = ask.call \/ box'[ask.call] # Nothing
    BY <1>0, <1>5, UserStep
  <2>. QED
    BY <1>w, <2>1, <2>2
<1>6. CASE UNCHANGED <<channel, hand, posted, ask>>
  BY <1>6, <1>w
<1>. QED
  BY <1>1, <1>2, <1>3, <1>4, <1>5, <1>6, NextCases DEF StartRun, Cancel, Check,
     Receive, GiveUp, User, vars, uiVars

LEMMA RivalStep == RivalInv /\ [Next]_vars => RivalInv'
<1>. SUFFICES ASSUME RivalInv, [Next]_vars PROVE RivalInv'
  OBVIOUS
<1>0. /\ AnswerInv /\ StartedInTurn /\ InRunOrder /\ TypeOK
      /\ pc \in [Calls -> Positions] /\ box \in [Calls -> Answers]
      /\ channel \in Seq(Calls)
  BY DEF RivalInv, AnswerInv, TypeOK
<1>1. AnswerInv' /\ StartedInTurn' /\ InRunOrder'
  BY <1>0, AnswerStep, TurnStep, OrderStep
<1>2. ASSUME NEW c \in Calls, pc'[c] = "waiting", ~OnItsWay(c)',
             box'[c] = Nothing
      PROVE  RunOf[c] \in ctxDone' \/ Rivalled(c)'
  <2>1. pc[c] = "waiting"
    <3>1. ASSUME Send(c) PROVE FALSE
      <4>1. channel' = Append(channel, c)
        BY <3>1 DEF Send
      <4>2. c \in Range(channel')
        BY <1>0, <4>1, RangeAppend
      <4>. QED
        BY <1>2, <4>2 DEF OnItsWay, InSeq, Range
    <3>2. pc[c] = "waiting" \/ Send(c)
      BY <1>0, <1>2, NextCases DEF StartRun, Cancel, Check, Send, Receive,
         GiveUp, Go, TakeRequest, DispatchRequest, Show, MoveAsk, ConfirmAsk,
         RespondDefaults, vars
    <3>. QED
      BY <3>1, <3>2
  <2>2. box[c] = Nothing
    BY <1>0, <1>2, SettledStays DEF Settled
  <2>3. ctxDone \subseteq ctxDone'
    BY NextCases DEF StartRun, Cancel, Check, Send, Receive, GiveUp,
       TakeRequest, DispatchRequest, Show, MoveAsk, ConfirmAsk,
       RespondDefaults, vars
  <2>4. CASE OnItsWay(c)
    BY <1>2, <2>1, <2>4, LeavingForRival
  <2>5. CASE ~OnItsWay(c)
    <3>1. RunOf[c] \in ctxDone \/ Rivalled(c)
      BY <2>1, <2>2, <2>5, RivalsByName DEF RivalInv
    <3>2. ask'.call # c
      BY <1>2 DEF OnItsWay
    <3>. QED
      BY <2>1, <2>3, <3>1, <3>2, RivalStays
  <2>. QED
    BY <2>4, <2>5
<1>3. OnlyRivalsReplace'
  BY <1>2 DEF OnlyRivalsReplace, Rivalled, Settled
<1>. QED
  BY <1>1, <1>3 DEF RivalInv

(* A question is replaced without an answer only by another of its own     *)
(* response, or when its run has been cancelled: however long requests of  *)
(* cancelled runs stay on their way, they never cover a later one.         *)
THEOREM RivalsAreOfTheRun == Spec => []OnlyRivalsReplace
<1>1. Init => RivalInv
  <2>. SUFFICES ASSUME Init PROVE RivalInv
    OBVIOUS
  <2>1. StartedInTurn /\ OnlyRivalsReplace
    BY DEF Init, StartedInTurn, OnlyRivalsReplace
  <2>2. InRunOrder
    BY DEF Init, InRunOrder, Sorted, NotLater, One, Range, Closed
  <2>. QED
    BY <2>1, <2>2, AnswerInit DEF RivalInv
<1>2. RivalInv => OnlyRivalsReplace
  BY DEF RivalInv
<1>. QED
  BY <1>1, <1>2, RivalStep, PTL DEF Spec
=============================================================================
