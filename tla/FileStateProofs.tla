-------------------------- MODULE FileStateProofs --------------------------
(***************************************************************************)
(* What the state cache guarantees, for any number of calls, passages and  *)
(* changes from outside.                                                   *)
(***************************************************************************)
EXTENDS FileState, TLAPS

(***************************************************************************)
(* Types                                                                   *)
(***************************************************************************)

(* What a call writes is made of passages the file can have.               *)
LEMMA NewTextType ==
    ASSUME TypeOK, NEW c \in Calls
    PROVE  NewText(c) \subseteq Passages
BY DEF NewText, TypeOK, Passages

LEMMA TypeCall ==
    ASSUME TypeOK, NEW c \in Calls, Call(c)
    PROVE  TypeOK'
<1> USE DEF At, Goto, Return, calls, disk, edits, NoEntry
<1>1. CASE ReadStat(c)    BY <1>1, FileAssumption DEF ReadStat, TypeOK
<1>2. CASE ReadContent(c) BY <1>2, FileAssumption DEF ReadContent, TypeOK
<1>3. CASE ReadPastEnd(c) BY <1>3, FileAssumption DEF ReadPastEnd, TypeOK
<1>4. CASE Record(c)      BY <1>4, FileAssumption DEF Record, TypeOK
<1>5. CASE WriteStat(c)   BY <1>5, FileAssumption DEF WriteStat, TypeOK
<1>6. CASE CheckEntry(c)  BY <1>6, FileAssumption DEF CheckEntry, TypeOK
<1>7. CASE CheckDisk(c)   BY <1>7, FileAssumption DEF CheckDisk, TypeOK
<1>8. CASE EditContent(c) BY <1>8, FileAssumption DEF EditContent, Begin, TypeOK
<1>9. CASE Truncate(c)    BY <1>9, FileAssumption DEF Truncate, Begin, TypeOK
<1>10. CASE Fill(c)       BY <1>10, FileAssumption, NewTextType DEF Fill, TypeOK
<1>11. CASE FillUnlinked(c) BY <1>11, FileAssumption DEF FillUnlinked, TypeOK
<1>12. CASE WriteFails(c) BY <1>12, FileAssumption DEF WriteFails, TypeOK
<1>13. CASE UpdateStat(c) BY <1>13, FileAssumption DEF UpdateStat, TypeOK
<1>14. CASE UpdateStore(c) BY <1>14, FileAssumption DEF UpdateStore, TypeOK
<1> QED BY <1>1, <1>2, <1>3, <1>4, <1>5, <1>6, <1>7, <1>8, <1>9, <1>10,
           <1>11, <1>12, <1>13, <1>14 DEF Call

LEMMA TypeStep ==
    ASSUME TypeOK, [Next]_vars
    PROVE  TypeOK'
<1>1. CASE \E c \in Calls : Call(c) BY <1>1, TypeCall
<1>2. CASE OutsideChange
      BY <1>2, FileAssumption DEF OutsideChange, Unlink, TypeOK, Passages, NoEntry
<1>3. CASE Delete
      BY <1>3, FileAssumption DEF Delete, Unlink, TypeOK, NoEntry
<1>4. CASE Tick
      BY <1>4, FileAssumption DEF Tick, TypeOK, calls, disk, edits, NoEntry
<1>5. CASE UNCHANGED vars
      BY <1>5 DEF TypeOK, vars, calls, disk, edits, InWindow
<1> QED BY <1>1, <1>2, <1>3, <1>4, <1>5 DEF Next

LEMMA TypeInit == Init => TypeOK
<1> SUFFICES ASSUME Init PROVE TypeOK
  OBVIOUS
<1>1. raced \in BOOLEAN
  BY Zenon DEF Init
<1>2. /\ exists \in BOOLEAN /\ text = (IF exists THEN Base ELSE {})
      /\ mtime = 0 /\ clock = 0 /\ cached = NoEntry
      /\ pc = [c \in Calls |-> "start"] /\ info = [c \in Calls |-> NoEntry]
      /\ data = [c \in Calls |-> {}] /\ result = [c \in Calls |-> "none"]
      /\ outside = {} /\ seen = {} /\ standing = {} /\ overlapped = {}
  BY Zenon DEF Init
<1> QED BY <1>1, <1>2, FileAssumption DEF TypeOK, Passages, NoEntry

(* The model of the file tools is type correct, and no time stored in the  *)
(* cache or held by a call is later than the file's.                       *)
THEOREM TypeCorrect == Spec => []TypeOK
BY TypeInit, TypeStep, PTL DEF Spec
(***************************************************************************)
(* Overwrites                                                              *)
(***************************************************************************)

(* What outsiders have put into the file has been read, or is in "more".   *)
Shown(more) == text \cap Outside \subseteq seen \cup more

(* A time that is not before the file's vouches for its text: the one in   *)
(* the cache, the ones calls compare it with or store, and, together with  *)
(* the text it has read, the one a read is about to record.  A call in its *)
(* window relies on nothing any more: there the text itself is shown.      *)
CacheVouches == mtime <= cached => Shown({})

CallVouches(c) ==
    /\ pc[c] \in {"compare", "store"} /\ mtime <= info[c] => Shown({})
    /\ pc[c] = "record" /\ mtime <= info[c] => Shown(data[c])
    /\ InWindow(c) => Shown({})
    /\ Op[c] = "edit" /\ pc[c] \in {"truncate", "fill"} => data[c] \cap Outside \subseteq seen

Vouched ==
    ~raced => CacheVouches /\ \A c \in Calls : CallVouches(c)

(* A change that is noticed is later than every time held anywhere.        *)
LEMMA VouchedOutside ==
    ASSUME TypeOK, Vouched, OutsideChange
    PROVE  Vouched'
<1> SUFFICES ASSUME ~raced' PROVE (CacheVouches /\ \A c \in Calls : CallVouches(c))'
  BY DEF Vouched
<1>1. /\ ~raced /\ ~Unnoticed /\ mtime' = clock
      /\ UNCHANGED <<cached, info, data, seen>>
  BY DEF OutsideChange
<1>2. mtime < mtime'
  BY <1>1 DEF Unnoticed, TypeOK
<1>3. CacheVouches'
  BY <1>1, <1>2 DEF CacheVouches, TypeOK, NoEntry
<1>4. ASSUME NEW c \in Calls PROVE CallVouches(c)'
  <2>1. ~(mtime' <= info'[c])
    BY <1>1, <1>2 DEF TypeOK, NoEntry
  <2>2. ~InWindow(c)'
    BY <1>1 DEF TypeOK, OutsideChange, Unlink, Unnoticed, InWindow
  <2> QED BY <2>1, <2>2 DEF CallVouches, InWindow
<1> QED BY <1>3, <1>4

LEMMA VouchedDelete ==
    ASSUME TypeOK, Vouched, Delete
    PROVE  Vouched'
<1> SUFFICES ASSUME ~raced' PROVE (CacheVouches /\ \A c \in Calls : CallVouches(c))'
  BY DEF Vouched
<1>1. text' = {}
  BY DEF Delete
<1>2. CacheVouches'
  BY <1>1 DEF CacheVouches, Shown
<1>3. ASSUME NEW c \in Calls PROVE CallVouches(c)'
  <2>1. ~InWindow(c) /\ ~InWindow(c)'
    BY DEF Delete, Unlink, InWindow, TypeOK
  <2> QED BY <1>1, <2>1 DEF CallVouches, InWindow, Shown
<1> QED BY <1>2, <1>3

(* What a call writes was shown: an edit has it from the file, in its      *)
(* window, and a write has only its own text.                              *)
LEMMA VouchedFill ==
    ASSUME TypeOK, Vouched, NEW c \in Calls, Fill(c)
    PROVE  Vouched'
<1> SUFFICES ASSUME ~raced PROVE (CacheVouches /\ \A d \in Calls : CallVouches(d))'
  BY DEF Vouched, Fill
<1>1. NewText(c) \cap Outside \subseteq seen /\ Shown({})
  BY FileAssumption DEF NewText, Fill, At, Vouched, CallVouches, InWindow, Shown
<1>2. text' \cap Outside \subseteq seen /\ seen' = seen
  BY <1>1 DEF Fill, Shown
<1>3. CacheVouches'
  BY <1>2 DEF CacheVouches, Shown
<1>4. ASSUME NEW d \in Calls PROVE CallVouches(d)'
  <2>1. (text' \cap Outside \subseteq seen') /\ data' = data
    BY <1>2 DEF Fill
  <2>2. Op[d] = "edit" /\ pc'[d] \in {"truncate", "fill"} => data[d] \cap Outside \subseteq seen
    BY DEF Fill, Goto, Vouched, CallVouches, TypeOK
  <2> QED BY <1>2, <2>1, <2>2 DEF CallVouches, Shown
<1> QED BY <1>3, <1>4

LEMMA VouchedCall ==
    ASSUME TypeOK, Vouched, NEW c \in Calls, Call(c)
    PROVE  Vouched'
<1> USE DEF At, Goto, Return, disk
<1> DEFINE Holds == ~raced' => CacheVouches' /\ \A d \in Calls : CallVouches(d)'
<1> SUFFICES Holds BY DEF Vouched
<1>a. TypeOK' BY TypeCall
<1> USE DEF Vouched, CacheVouches, CallVouches, Shown, InWindow, TypeOK
<1>1. CASE ReadStat(c)    BY <1>1 DEF ReadStat
<1>2. CASE ReadContent(c) BY <1>2 DEF ReadContent
<1>3. CASE ReadPastEnd(c) BY <1>3 DEF ReadPastEnd
<1>4. CASE Record(c)      BY <1>4 DEF Record
<1>5. CASE WriteStat(c)   BY <1>5 DEF WriteStat
<1>6. CASE CheckEntry(c)  BY <1>6 DEF CheckEntry
<1>7. CASE CheckDisk(c)   BY <1>7, FileAssumption DEF CheckDisk, NoEntry
<1>8. CASE EditContent(c) BY <1>8 DEF EditContent
<1>9. CASE Truncate(c)    BY <1>9 DEF Truncate
<1>10. CASE Fill(c)       BY <1>10, VouchedFill
<1>11. CASE FillUnlinked(c) BY <1>11 DEF FillUnlinked
<1>12. CASE WriteFails(c) BY <1>12 DEF WriteFails
<1>13. CASE UpdateStat(c) BY <1>13 DEF UpdateStat
<1>14. CASE UpdateStore(c) BY <1>14 DEF UpdateStore
<1> QED BY <1>1, <1>2, <1>3, <1>4, <1>5, <1>6, <1>7, <1>8, <1>9, <1>10,
           <1>11, <1>12, <1>13, <1>14 DEF Call

LEMMA VouchedStep ==
    ASSUME TypeOK, Vouched, [Next]_vars
    PROVE  Vouched'
<1>1. CASE \E c \in Calls : Call(c) BY <1>1, VouchedCall
<1>2. CASE OutsideChange BY <1>2, VouchedOutside
<1>3. CASE Delete        BY <1>3, VouchedDelete
<1>4. CASE Tick
      BY <1>4 DEF Tick, disk, calls, Vouched, CacheVouches, CallVouches, Shown, InWindow
<1>5. CASE UNCHANGED vars
      BY <1>5 DEF vars, disk, calls, Vouched, CacheVouches, CallVouches, Shown, InWindow
<1> QED BY <1>1, <1>2, <1>3, <1>4, <1>5 DEF Next

(* No call of the agent writes over a change from outside that it has not  *)
(* shown to the model, unless that change raced a call's own check.        *)
THEOREM OnlySeenIsOverwritten == Spec => []OverwritesOnlySeen
<1>1. Init => Vouched
  BY FileAssumption DEF Init, Vouched, CacheVouches, CallVouches, Shown, InWindow, NoEntry
<1>2. Vouched => OverwritesOnlySeen
  BY DEF Vouched, OverwritesOnlySeen, CallVouches, InWindow, Shown
<1> QED BY <1>1, <1>2, VouchedStep, TypeCorrect, PTL DEF Spec

(***************************************************************************)
(* Edits                                                                   *)
(***************************************************************************)

(* Calls that change the file at the same time are known.  An edit whose   *)
(* change stands has been written; unless it was made beside another one,  *)
(* the text has it, but for a truncation, and so has what every edit under *)
(* way is going to put back; and no write is under way.                    *)
OthersAreKnown ==
    \A c, d \in Calls : Changing(c) /\ Changing(d) /\ c # d => c \in overlapped

Stands(c) ==
    /\ text # {} => c \in text
    /\ text = {} => \E d \in Calls : pc[d] = "fill"
    /\ \A d \in Calls : Changing(d) => Op[d] = "edit" /\ c \in data[d]

EditInv == OthersAreKnown /\ \A c \in standing \ overlapped : Stands(c)

LEMMA OthersCall ==
    ASSUME TypeOK, OthersAreKnown, NEW c \in Calls, Call(c)
    PROVE  OthersAreKnown'
<1> USE FileAssumption DEF At, Goto, Return, edits, Begin, OthersAreKnown, Changing, TypeOK
<1>1. CASE ReadStat(c)    BY <1>1 DEF ReadStat
<1>2. CASE ReadContent(c) BY <1>2 DEF ReadContent
<1>3. CASE ReadPastEnd(c) BY <1>3 DEF ReadPastEnd
<1>4. CASE Record(c)      BY <1>4 DEF Record
<1>5. CASE WriteStat(c)   BY <1>5 DEF WriteStat
<1>6. CASE CheckEntry(c)  BY <1>6 DEF CheckEntry
<1>7. CASE CheckDisk(c)   BY <1>7 DEF CheckDisk
<1>8. CASE EditContent(c) BY <1>8 DEF EditContent
<1>9. CASE Truncate(c)    BY <1>9 DEF Truncate
<1>10. CASE Fill(c)       BY <1>10 DEF Fill
<1>11. CASE FillUnlinked(c) BY <1>11 DEF FillUnlinked
<1>12. CASE WriteFails(c) BY <1>12 DEF WriteFails
<1>13. CASE UpdateStat(c) BY <1>13 DEF UpdateStat
<1>14. CASE UpdateStore(c) BY <1>14 DEF UpdateStore
<1> QED BY <1>1, <1>2, <1>3, <1>4, <1>5, <1>6, <1>7, <1>8, <1>9, <1>10,
           <1>11, <1>12, <1>13, <1>14 DEF Call

(* A step that leaves the text and what stands alone, and begins no change.*)
LEMMA StandsOn ==
    ASSUME TypeOK, NEW e \in Calls, Stands(e), text' = text,
           \A d \in Calls : Changing(d)' => Changing(d) /\ data'[d] = data[d],
           \A d \in Calls : pc[d] = "fill" => pc'[d] = "fill"
    PROVE  Stands(e)'
BY DEF Stands

LEMMA StandsCall ==
    ASSUME TypeOK, EditInv, NEW c \in Calls, Call(c), NEW e \in standing' \ overlapped'
    PROVE  Stands(e)'
<1> USE FileAssumption DEF At, Goto, Return, disk, edits, TypeOK
<1>a. CASE e \notin standing
  <2>1. Fill(c) /\ e = c /\ Op[c] = "edit"
    BY <1>a DEF Call, ReadStat, ReadContent, ReadPastEnd, Record, WriteStat, CheckEntry,
       CheckDisk, EditContent, Truncate, Fill, FillUnlinked, WriteFails, UpdateStat, UpdateStore
  <2>2. e \in text'
    BY <2>1 DEF Fill, NewText
  <2>3. Changing(c) /\ e \notin overlapped
    BY <2>1 DEF Fill, Changing
  <2>4. \A d \in Calls \ {c} : ~Changing(d)
    BY <2>1, <2>3 DEF EditInv, OthersAreKnown
  <2>5. \A d \in Calls : ~Changing(d)'
    BY <2>1, <2>4 DEF Fill, Changing
  <2> QED BY <2>2, <2>5 DEF Stands
<1>b. CASE e \in standing
  <2>0. e \notin overlapped /\ Stands(e)
    BY <1>b DEF EditInv, Call, ReadStat, ReadContent, ReadPastEnd, Record, WriteStat, CheckEntry,
       CheckDisk, EditContent, Begin, Truncate, Fill, FillUnlinked, WriteFails, UpdateStat,
       UpdateStore
  <2> USE <2>0
  <2>1. CASE ReadStat(c)    BY <2>1, StandsOn DEF ReadStat, Changing
  <2>2. CASE ReadContent(c) BY <2>2, StandsOn DEF ReadContent, Changing
  <2>3. CASE ReadPastEnd(c) BY <2>3, StandsOn DEF ReadPastEnd, Changing
  <2>4. CASE Record(c)      BY <2>4, StandsOn DEF Record, Changing
  <2>5. CASE WriteStat(c)   BY <2>5, StandsOn DEF WriteStat, Changing
  <2>6. CASE CheckEntry(c)  BY <2>6, StandsOn DEF CheckEntry, Changing
  <2>7. CASE CheckDisk(c)   BY <2>7, StandsOn DEF CheckDisk, Changing
  <2>8. CASE EditContent(c) BY <2>8 DEF EditContent, Changing, Stands
  <2>9. CASE Truncate(c)    BY <2>9 DEF Truncate, Changing, Stands
  <2>10. CASE Fill(c)
    <3>1. Op[c] = "edit" /\ e \in data[c] /\ (e # Old[c] \/ e = c)
      BY <2>10 DEF Fill, Changing, Stands
    <3>2. e \in text'
      BY <2>10, <3>1 DEF Fill, NewText
    <3> QED BY <2>10, <3>2 DEF Fill, Changing, Stands
  <2>11. CASE FillUnlinked(c) BY <2>11, StandsOn DEF FillUnlinked, Changing
  <2>12. CASE WriteFails(c) BY <2>12 DEF WriteFails, Changing, Stands
  <2>13. CASE UpdateStat(c) BY <2>13, StandsOn DEF UpdateStat, Changing
  <2>14. CASE UpdateStore(c) BY <2>14, StandsOn DEF UpdateStore, Changing
  <2> QED BY <2>1, <2>2, <2>3, <2>4, <2>5, <2>6, <2>7, <2>8, <2>9, <2>10,
             <2>11, <2>12, <2>13, <2>14 DEF Call
<1> QED BY <1>a, <1>b

LEMMA EditStep ==
    ASSUME TypeOK, EditInv, [Next]_vars
    PROVE  EditInv'
<1> USE DEF EditInv, OthersAreKnown, Stands, Changing, calls, disk, edits
<1>1. CASE \E c \in Calls : Call(c)
  <2> USE <1>1, TypeStep DEF TypeOK
  <2> HIDE DEF Stands, OthersAreKnown, Changing
  <2> QED BY OthersCall, StandsCall
<1>2. CASE OutsideChange BY <1>2 DEF OutsideChange, Unlink, TypeOK
<1>3. CASE Delete        BY <1>3 DEF Delete, Unlink, TypeOK
<1>4. CASE Tick          BY <1>4 DEF Tick
<1>5. CASE UNCHANGED vars BY <1>5 DEF vars
<1> QED BY <1>1, <1>2, <1>3, <1>4, <1>5 DEF Next

(* What an edit has put into the file stays there through later edits,     *)
(* failures and changes from outside, for any number of calls in any       *)
(* order, unless it was made beside another call that changed the file.    *)
THEOREM EditsStay == Spec => []EditsAddUp
<1>1. Init => EditInv
  BY DEF Init, EditInv, OthersAreKnown, Changing
<1>2. TypeOK /\ EditInv => EditsAddUp
  BY DEF EditInv, Stands, EditsAddUp, TypeOK
<1> QED BY <1>1, <1>2, EditStep, TypeCorrect, PTL DEF Spec
=============================================================================
