---------------------------- MODULE MemoryProofs ----------------------------
(***************************************************************************)
(* Why one extraction works at a time, why the index of a directory tells  *)
(* of its topics, and why a clear leaves none of the topics it found, for  *)
(* any number of prompts, proposals, clears and deaths of the process.     *)
(***************************************************************************)
EXTENDS Memory, SequenceTheorems, TLAPS

LEMMA RunsType == MaxRuns \in Nat /\ Runs = 1 .. MaxRuns
BY MemoryAssumption, Zenon DEF Runs

(* A step is one of these. *)
LEMMA NextCases ==
    ASSUME [Next]_vars
    PROVE  \/ Submit
           \/ \E r \in Runs : RunEnds(r)
           \/ \E r \in Runs : Extract(r)
           \/ \E r \in Runs : Answer(r)
           \/ \E r \in Runs : Save(r)
           \/ \E r \in Runs : Close(r)
           \/ Clear \/ Crash
           \/ UNCHANGED vars
BY DEF Next, Goroutine

(***************************************************************************)
(* One extraction at a time                                                *)
(***************************************************************************)
Positions == {"none", "running", "failed", "called", "waiting", "asking", "saving",
              "rename", "scan", "unlist", "relist", "closing", "done", "dropped", "dead"}

FlightType ==
    /\ turns \in 0 .. MaxRuns
    /\ pc \in [Runs -> Positions]
    /\ running \in BOOLEAN
    /\ \A r \in Runs : r > turns => pc[r] = "none"

FlightInv == FlightType /\ SingleFlight

(* SingleFlight, in the parts that are proved one by one. *)
Working == {"asking", "saving", "rename", "scan", "unlist", "relist", "closing"}
Alone   == \A q, r \in Runs : pc[q] \in Working /\ pc[r] \in Working => q = r
Flagged == (running = TRUE) <=> \E r \in Runs : pc[r] \in Working
OneWaits ==
    /\ \A r \in Runs : pc[r] = "waiting" <=> r = pending
    /\ pending # Nobody => running = TRUE

LEMMA FlightParts ==
    ASSUME FlightType PROVE SingleFlight <=> Alone /\ Flagged /\ OneWaits
<1>1. \A r \in Runs : pc[r] \in Working <=> r \in Busy \/ pc[r] = "closing"
  BY DEF Working, Busy
<1>2. running <=> running = TRUE
  BY DEF FlightType
<1>3. Alone <=> \A q, r \in Busy \cup {i \in Runs : pc[i] = "closing"} : q = r
  BY <1>1 DEF Alone, Busy
<1>4. (\E r \in Runs : pc[r] \in Working) <=> (\E r \in Runs : r \in Busy \/ pc[r] = "closing")
  BY <1>1
<1>5. Flagged <=> (running <=> \E r \in Runs : r \in Busy \/ pc[r] = "closing")
  BY <1>2, <1>4 DEF Flagged
<1>. QED
  BY <1>2, <1>3, <1>5, Zenon DEF SingleFlight, OneWaits

LEMMA FlightInit == Init => FlightInv
<1>. SUFFICES ASSUME Init PROVE FlightInv
  OBVIOUS
<1>0. /\ turns = 0 /\ pc = [r \in Runs |-> "none"] /\ pending = Nobody
      /\ running \in BOOLEAN /\ running # TRUE
  BY Zenon DEF Init
<1>1. FlightType
  BY <1>0, RunsType DEF FlightType, Positions
<1>2. Alone /\ Flagged /\ OneWaits
  <2>1. \A r \in Runs : pc[r] \notin Working /\ pc[r] # "waiting" /\ r # pending
    BY <1>0, RunsType DEF Working, Nobody
  <2>. QED
    BY <1>0, <2>1, Zenon DEF Alone, Flagged, OneWaits
<1>. QED
  BY <1>1, <1>2, FlightParts DEF FlightInv

(* Saving moves the extraction that is at work and no other. *)
LEMMA SaveMoves ==
    ASSUME NEW r \in Runs, Save(r), FlightType
    PROVE  /\ r \in Busy
           /\ UNCHANGED <<turns, running, pending>>
           /\ \E p \in {"saving", "rename", "scan", "unlist", "relist"} :
                 pc' = [pc EXCEPT ![r] = p]
<1>. USE DEF FlightType, Busy, calls, Go
<1>1. CASE RemoveTopic(r)
  BY <1>1 DEF RemoveTopic
<1>2. CASE SaveFails(r)
  <2>1. pc' = [pc EXCEPT ![r] = "saving"]
    BY <1>2 DEF SaveFails
  <2>. QED
    BY <1>2, <2>1 DEF SaveFails
<1>3. CASE RenameTopic(r)
  BY <1>3 DEF RenameTopic
<1>4. CASE RenameFails(r)
  BY <1>4 DEF RenameFails
<1>5. CASE ScanTopics(r) \/ ScanFails(r)
  BY <1>5 DEF ScanTopics, ScanFails
<1>6. CASE RemoveIndex(r)
  BY <1>6 DEF RemoveIndex
<1>7. CASE IndexFails(r)
  BY <1>7 DEF IndexFails
<1>8. CASE RenameIndex(r)
  BY <1>8 DEF RenameIndex
<1>. QED
  BY <1>1, <1>2, <1>3, <1>4, <1>5, <1>6, <1>7, <1>8 DEF Save

(* Clear leaves runs and extractions alone. *)
LEMMA ClearMoves == Clear => UNCHANGED <<turns, pc, running, pending, todo, listed>>
BY DEF Clear, ClearBegin, ClearFails, ClearIndex, ClearNext, ClearTopic, calls

LEMMA FlightStep == FlightInv /\ [Next]_vars => FlightInv'
<1>. SUFFICES ASSUME FlightType, Alone, Flagged, OneWaits, [Next]_vars
              PROVE  FlightType' /\ Alone' /\ Flagged' /\ OneWaits'
  BY FlightParts, PTL DEF FlightInv
<1>. USE DEF FlightType, Alone, Flagged, OneWaits, Working
<1>1. CASE Submit
  <2>1. /\ turns < MaxRuns
        /\ turns' = turns + 1 /\ turns' \in Runs /\ pc[turns'] = "none"
        /\ pc' = [pc EXCEPT ![turns'] = "running"]
        /\ UNCHANGED <<running, pending>>
    BY <1>1, RunsType DEF Submit
  <2>2. FlightType' /\ Alone'
    BY <2>1, RunsType DEF Positions
  <2>3. Flagged' /\ OneWaits'
    BY <2>1
  <2>. QED
    BY <2>2, <2>3
<1>2. ASSUME NEW r \in Runs, RunEnds(r)
      PROVE  FlightType' /\ Alone' /\ Flagged' /\ OneWaits'
  BY <1>2 DEF RunEnds, Go, calls, Positions
<1>3. ASSUME NEW r \in Runs, Extract(r)
      PROVE  FlightType' /\ Alone' /\ Flagged' /\ OneWaits'
  <2>1. CASE LeavePending(r)
    BY <1>3, <2>1 DEF Extract, LeavePending, Positions
  <2>2. CASE StartExtraction(r)
    BY <1>3, <2>2 DEF Extract, StartExtraction, Positions
  <2>. QED
    BY <1>3, <2>1, <2>2 DEF Extract
<1>4. ASSUME NEW r \in Runs, Answer(r)
      PROVE  FlightType' /\ Alone' /\ Flagged' /\ OneWaits'
  <2>1. PICK p \in {"saving", "closing"} : Go(r, "asking", p)
    BY <1>4 DEF Answer
  <2>. QED
    BY <1>4, <2>1 DEF Answer, Go, calls, Positions
<1>5. ASSUME NEW r \in Runs, Save(r)
      PROVE  FlightType' /\ Alone' /\ Flagged' /\ OneWaits'
  BY <1>5, SaveMoves DEF Busy, Positions
<1>6. ASSUME NEW r \in Runs, Close(r)
      PROVE  FlightType' /\ Alone' /\ Flagged' /\ OneWaits'
  <2>1. /\ turns' = turns /\ running' \in BOOLEAN /\ running' # TRUE /\ pending' = Nobody
        /\ pc' = [i \in Runs |-> IF i = r THEN "done"
                                 ELSE IF i = pending THEN "called" ELSE pc[i]]
    BY <1>6, Zenon DEF Close
  <2>2. pc[r] \in Working
    BY <1>6 DEF Close
  <2>3. FlightType' /\ Alone'
    BY <2>1, <2>2 DEF Positions
  <2>4. \A i \in Runs : pc'[i] \notin Working /\ pc'[i] # "waiting" /\ i # pending'
    BY <2>1, <2>2, RunsType DEF Nobody
  <2>5. Flagged' /\ OneWaits'
    BY <2>1, <2>4, Zenon DEF Flagged, OneWaits
  <2>. QED
    BY <2>3, <2>5
<1>7. CASE Clear
  BY <1>7, ClearMoves
<1>8. CASE Crash
  <2>1. /\ turns' = turns /\ running' \in BOOLEAN /\ running' # TRUE /\ pending' = Nobody
        /\ pc' = [r \in Runs |-> IF pc[r] \in {"none", "failed", "done", "dropped"}
                                 THEN pc[r] ELSE "dead"]
    BY <1>8, Zenon DEF Crash
  <2>2. \A i \in Runs : pc'[i] \notin Working /\ pc'[i] # "waiting" /\ i # pending'
    BY <2>1, RunsType DEF Positions, Nobody
  <2>3. FlightType' /\ Alone'
    BY <2>1, <2>2 DEF Positions
  <2>4. Flagged' /\ OneWaits'
    BY <2>1, <2>2, Zenon DEF Flagged, OneWaits
  <2>. QED
    BY <2>3, <2>4
<1>9. CASE UNCHANGED vars
  BY <1>9 DEF vars, calls
<1>. QED
  BY <1>1, <1>2, <1>3, <1>4, <1>5, <1>6, <1>7, <1>8, <1>9, NextCases

(* However prompts, answers of the model, clears and deaths of the process *)
(* fall, extract's flag and its one waiting turn keep extractions apart.   *)
THEOREM OneExtraction == Spec => []SingleFlight
<1>1. FlightInv => SingleFlight
  BY DEF FlightInv
<1>. QED
  BY <1>1, FlightInit, FlightStep, PTL DEF Spec

(***************************************************************************)
(* The index                                                               *)
(***************************************************************************)
FilesType ==
    /\ todo \in [Runs -> Seq(Kept)]
    /\ listed \in [Runs -> SUBSET Names]
    /\ disk \in [Roots -> SUBSET Names]
    /\ index \in [Roots -> (SUBSET Names) \cup {Gone}]
    /\ torn \subseteq Roots
    /\ clearing = [root |-> clearing.root, names |-> clearing.names,
                   indexed |-> clearing.indexed, old |-> clearing.old]

(* An extraction that changes a directory has a topic to save there. *)
SaversHaveTopics ==
    \A r \in Runs : pc[r] \in {"rename", "scan", "unlist", "relist"} => todo[r] # <<>>

(* What is known of a directory.  An extraction that has read it to itself *)
(* knows its topics; as long as no save has touched it, what Clear still   *)
(* has to remove is all that is there; and the index tells of the topics.  *)
Settled(d) ==
    /\ \A r \in Saving(d) : pc[r] \in {"unlist", "relist"} /\ d \notin torn =>
          Tells(listed[r], disk[d]) /\ ~Raced(d)
    /\ Raced(d) /\ d \notin torn /\ Saving(d) = {} =>
          /\ clearing.names = disk[d]
          /\ index[d] # Gone => clearing.indexed
    /\ d \in torn \/ Saving(d) # {} \/ Raced(d) \/ Tells(Listed(d), disk[d])

IndexInv ==
    FlightInv /\ FilesType /\ SaversHaveTopics /\ \A d \in Roots : Settled(d)

LEMMA KeptAreNamed == \A p \in Kept : p.name \in Names
<1>. SUFFICES ASSUME NEW p \in Kept PROVE p.name \in Names
  OBVIOUS
<1>1. p.name # "" /\ p \in Proposals
  BY DEF Kept, ValidProposal
<1>2. p.name \in Names \cup {""}
  BY <1>1, MemoryAssumption, Zenon
<1>. QED
  BY <1>1, <1>2

LEMMA BoundedIsSeq == ASSUME NEW n \in Nat, NEW s \in BoundedSeq(Kept, n) PROVE s \in Seq(Kept)
<1>1. PICK m \in 0 .. n : s \in [1 .. m -> Kept]
  BY DEF BoundedSeq, SeqOf
<1>. QED
  BY <1>1, SeqDef

(* The directory and the topic of an extraction that saves. *)
LEMMA RootAndTopic ==
    ASSUME FilesType, NEW r \in Runs
    PROVE  /\ Root(r) \in Roots
           /\ todo[r] # <<>> => /\ Topic(r) \in Names
                               /\ Tail(todo[r]) \in Seq(Kept)
<1>1. Root(r) \in Roots
  BY DEF Root, RootOf, Roots
<1>2. ASSUME todo[r] # <<>> PROVE Topic(r) \in Names /\ Tail(todo[r]) \in Seq(Kept)
  <2>1. todo[r] \in Seq(Kept)
    BY DEF FilesType
  <2>2. Head(todo[r]) \in Kept /\ Tail(todo[r]) \in Seq(Kept)
    BY <1>2, <2>1, HeadTailProperties
  <2>. QED
    BY <2>2, KeptAreNamed DEF Topic
<1>. QED
  BY <1>1, <1>2

LEMMA FilesStep ==
    ASSUME FlightType, FilesType, SaversHaveTopics, [Next]_vars
    PROVE  FilesType' /\ SaversHaveTopics'
<1>. USE DEF FilesType, SaversHaveTopics, FlightType, calls, files
<1>1. CASE Submit
  BY <1>1, RunsType DEF Submit
<1>2. ASSUME NEW r \in Runs, RunEnds(r) PROVE FilesType' /\ SaversHaveTopics'
  BY <1>2 DEF RunEnds, Go
<1>3. ASSUME NEW r \in Runs, Extract(r) PROVE FilesType' /\ SaversHaveTopics'
  BY <1>3 DEF Extract, LeavePending, StartExtraction
<1>4. ASSUME NEW r \in Runs, Answer(r) PROVE FilesType' /\ SaversHaveTopics'
  <2>1. todo' \in [Runs -> Seq(Kept)]
    <3>1. MaxProposals \in Nat
      BY MemoryAssumption, Zenon
    <3>. QED
      BY <1>4, <3>1, BoundedIsSeq DEF Answer
  <2>2. \A i \in Runs : pc'[i] \in {"rename", "scan", "unlist", "relist"} =>
           pc'[i] = pc[i] /\ todo'[i] = todo[i]
    BY <1>4 DEF Answer, Go
  <2>. QED
    BY <1>4, <2>1, <2>2 DEF Answer
<1>5. ASSUME NEW r \in Runs, Save(r) PROVE FilesType' /\ SaversHaveTopics'
  <2>. USE RootAndTopic DEF Go
  <2>1. CASE RemoveTopic(r)
    BY <1>5, <2>1 DEF RemoveTopic
  <2>2. CASE SaveFails(r)
    BY <1>5, <2>2 DEF SaveFails
  <2>3. CASE RenameTopic(r)
    BY <1>5, <2>3 DEF RenameTopic
  <2>4. CASE RenameFails(r)
    BY <1>5, <2>4 DEF RenameFails
  <2>5. CASE ScanTopics(r) \/ ScanFails(r)
    <3>1. listed' \in [Runs -> SUBSET Names]
      BY <2>5 DEF ScanTopics, ScanFails, IndexOf
    <3>. QED
      BY <1>5, <2>5, <3>1 DEF ScanTopics, ScanFails
  <2>6. CASE RemoveIndex(r)
    <3>1. index' \in [Roots -> (SUBSET Names) \cup {Gone}]
      BY <2>6 DEF RemoveIndex
    <3>2. UNCHANGED <<todo, listed, disk, torn, clearing>>
      BY <2>6 DEF RemoveIndex
    <3>3. SaversHaveTopics'
      BY <1>5, <2>6, <3>2 DEF RemoveIndex
    <3>. QED
      BY <3>1, <3>2, <3>3
  <2>7. CASE IndexFails(r)
    BY <1>5, <2>7 DEF IndexFails
  <2>8. CASE RenameIndex(r)
    BY <1>5, <2>8 DEF RenameIndex
  <2>. QED
    BY <1>5, <2>1, <2>2, <2>3, <2>4, <2>5, <2>6, <2>7, <2>8 DEF Save
<1>6. ASSUME NEW r \in Runs, Close(r) PROVE FilesType' /\ SaversHaveTopics'
  BY <1>6 DEF Close
<1>7. CASE Clear
  <2>. USE DEF ReadRoot, NotClearing, Roots
  <2>1. CASE ClearBegin
    BY <2>1 DEF ClearBegin
  <2>2. CASE ClearFails
    BY <2>2 DEF ClearFails
  <2>3. CASE ClearIndex
    <3>1. index' \in [Roots -> (SUBSET Names) \cup {Gone}]
      BY <2>3 DEF ClearIndex
    <3>2. clearing' = [clearing EXCEPT !.indexed = FALSE]
          /\ UNCHANGED <<todo, listed, disk, torn, pc>>
      BY <2>3 DEF ClearIndex
    <3>. QED
      BY <3>1, <3>2
  <2>4. CASE ClearNext
    BY <2>4 DEF ClearNext
  <2>5. ASSUME NEW n \in Names, ClearTopic(n) PROVE FilesType' /\ SaversHaveTopics'
    BY <2>5 DEF ClearTopic
  <2>. QED
    BY <1>7, <2>1, <2>2, <2>3, <2>4, <2>5 DEF Clear
<1>8. CASE Crash
  BY <1>8 DEF Crash, NotClearing
<1>9. CASE UNCHANGED vars
  BY <1>9 DEF vars
<1>. QED
  BY <1>1, <1>2, <1>3, <1>4, <1>5, <1>6, <1>7, <1>8, <1>9, NextCases

(* What is known of a directory stays so while nobody is at work in it.    *)
LEMMA Untouched ==
    ASSUME NEW d \in Roots, Settled(d),
           disk'[d] = disk[d], index'[d] = index[d], d \in torn => d \in torn',
           Raced(d)' <=> Raced(d),
           Raced(d) => /\ clearing'.names = clearing.names
                       /\ clearing.indexed => clearing'.indexed,
           Saving(d)' = Saving(d),
           \A i \in Saving(d) : pc'[i] = pc[i] /\ listed'[i] = listed[i]
    PROVE  Settled(d)'
BY DEF Settled, Listed

(* The extractions that are saving in a directory, after a step of one.    *)
LEMMA SavingAfter ==
    ASSUME FlightInv, NEW r \in Runs, Save(r), NEW d \in Roots
    PROVE  /\ Saving(d) \subseteq {r} /\ Saving(d)' \subseteq {r}
           /\ r \in Saving(d)' <=>
                 pc'[r] \in {"rename", "scan", "unlist", "relist"} /\ Root(r)' = d
           /\ r \in Saving(d) <=>
                 pc[r] \in {"rename", "scan", "unlist", "relist"} /\ Root(r) = d
<1>1. \A q \in Busy : q = r
  BY SaveMoves DEF FlightInv, SingleFlight
<1>2. Saving(d) \subseteq Busy
  BY DEF Saving, Busy
<1>3. \A q \in Runs : q # r => pc'[q] = pc[q]
  BY SaveMoves DEF FlightInv, FlightType
<1>4. Saving(d)' \subseteq {r}
  BY <1>1, <1>3 DEF Saving, Busy
<1>. QED
  BY <1>1, <1>2, <1>4 DEF Saving, Root

(* A save in one directory leaves the other one alone.                     *)
LEMMA SavesElsewhere ==
    ASSUME IndexInv, NEW r \in Runs, Save(r), NEW d \in Roots, Root(r) # d
    PROVE  Settled(d)'
<1>1. /\ pc'[r] \in {"rename", "scan", "unlist", "relist"} => todo' = todo
      /\ disk'[d] = disk[d] /\ index'[d] = index[d]
      /\ d \in torn => d \in torn'
      /\ clearing'.root = clearing.root /\ clearing'.names = clearing.names
      /\ clearing'.indexed = clearing.indexed
  <2>. USE DEF IndexInv, FilesType, calls, files, Go, FlightInv, FlightType
  <2>1. CASE RemoveTopic(r)
    BY <2>1 DEF RemoveTopic
  <2>2. CASE SaveFails(r)
    BY <2>2 DEF SaveFails
  <2>3. CASE RenameTopic(r)
    BY <2>3 DEF RenameTopic
  <2>4. CASE RenameFails(r)
    BY <2>4 DEF RenameFails
  <2>5. CASE ScanTopics(r) \/ ScanFails(r)
    BY <2>5 DEF ScanTopics, ScanFails
  <2>6. CASE RemoveIndex(r)
    BY <2>6 DEF RemoveIndex
  <2>7. CASE IndexFails(r)
    BY <2>7 DEF IndexFails
  <2>8. CASE RenameIndex(r)
    BY <2>8 DEF RenameIndex
  <2>. QED
    BY <2>1, <2>2, <2>3, <2>4, <2>5, <2>6, <2>7, <2>8 DEF Save
<1>2. Saving(d) = {} /\ Saving(d)' = {}
  BY <1>1, SavingAfter DEF IndexInv, Root
<1>. QED
  BY <1>1, <1>2, Untouched DEF IndexInv, Raced

LEMMA SettledSave ==
    ASSUME IndexInv, NEW r \in Runs, Save(r), NEW d \in Roots
    PROVE  Settled(d)'
<1>1. CASE Root(r) # d
  BY <1>1, SavesElsewhere
<1>2. CASE Root(r) = d
  <2>2. CASE SaveFails(r)
    <3>1. Saving(d) = {} /\ Saving(d)' = {}
      BY <2>2, SavingAfter DEF SaveFails, IndexInv
    <3>2. UNCHANGED <<disk, index, torn, clearing>>
      BY <2>2 DEF SaveFails, files
    <3>. QED
      BY <3>1, <3>2, Untouched DEF Raced, IndexInv
  <2>. USE <1>2, SavingAfter DEF IndexInv, Settled, Go, Root
  <2>a. pc \in [Runs -> Positions] /\ FilesType
    BY DEF FlightInv, FlightType
  <2>b. todo'[r] = todo[r] => Root(r)' = d
    OBVIOUS
  <2>1. CASE RemoveTopic(r)
    BY <2>a, <2>1 DEF RemoveTopic
  <2>3. CASE RenameTopic(r)
    BY <2>a, <2>3 DEF RenameTopic
  <2>4. CASE RenameFails(r)
    <3>1. r \notin Saving(d)' /\ d \in torn'
      BY <2>a, <2>4 DEF RenameFails
    <3>. QED
      BY <3>1
  <2>5. CASE ScanTopics(r)
    <3>1. PICK lines \in IndexOf(disk[d]) : listed' = [listed EXCEPT ![r] = lines]
      BY <2>5 DEF ScanTopics
    <3>2. Tells(lines, disk[d])
      BY <3>1 DEF IndexOf
    <3>3. /\ r \in Saving(d)' /\ Tells(listed'[r], disk'[d])
          /\ Raced(d)' => d \in torn'
      BY <2>a, <2>5, <3>1, <3>2 DEF ScanTopics, FilesType, Raced
    <3>. QED
      BY <3>3
  <2>9. CASE ScanFails(r)
    <3>1. r \in Saving(d)' /\ d \in torn'
      BY <2>a, <2>9 DEF ScanFails
    <3>. QED
      BY <3>1
  <2>6. CASE RemoveIndex(r)
    BY <2>a, <2>6 DEF RemoveIndex, Raced
  <2>7. CASE IndexFails(r)
    <3>1. r \notin Saving(d)' /\ d \in torn'
      BY <2>a, <2>7 DEF IndexFails
    <3>. QED
      BY <3>1
  <2>8. CASE RenameIndex(r)
    <3>1. r \in Saving(d) /\ r \notin Saving(d)'
      BY <2>a, <2>8 DEF RenameIndex
    <3>2. /\ torn' = torn /\ disk' = disk /\ index'[d] = listed[r]
          /\ Raced(d)' <=> Raced(d)
      BY <2>a, <2>8 DEF RenameIndex, FilesType, Raced
    <3>3. listed[r] # Gone
      BY <2>a, MemoryAssumption, Zenon DEF FilesType, Gone
    <3>4. d \notin torn => Tells(listed[r], disk[d]) /\ ~Raced(d)
      BY <2>8, <3>1 DEF RenameIndex
    <3>. QED
      BY <3>1, <3>2, <3>3, <3>4 DEF Listed
  <2>. QED
    BY <2>1, <2>2, <2>3, <2>4, <2>5, <2>6, <2>7, <2>8, <2>9 DEF Save
<1>. QED
  BY <1>1, <1>2

LEMMA SettledClear ==
    ASSUME IndexInv, Clear, NEW d \in Roots
    PROVE  Settled(d)'
<1>. USE DEF IndexInv, FilesType
<1>1. pc' = pc /\ todo' = todo /\ listed' = listed /\ Saving(d)' = Saving(d)
  BY ClearMoves DEF Saving
<1>2. CASE ClearBegin
  <2>1. /\ clearing'.root = "user" /\ clearing'.names = disk["user"]
        /\ clearing'.indexed <=> index["user"] # Gone
        /\ clearing.root = "none" /\ UNCHANGED <<disk, index>>
    BY <1>2 DEF ClearBegin, ReadRoot, NotClearing
  <2>2. /\ d \in torn => d \in torn'
        /\ d = "user" /\ Saving(d) # {} => d \in torn'
        /\ ~Raced(d)
    BY <1>2, <2>1 DEF ClearBegin, Raced, Roots
  <2>. QED
    BY <1>1, <2>1, <2>2 DEF Settled, Listed, Raced
<1>3. CASE ClearFails
  BY <1>1, <1>3 DEF ClearFails, NotClearing, Settled, Listed, Raced, Roots
<1>4. CASE ClearIndex
  BY <1>1, <1>4 DEF ClearIndex, Settled, Listed, Raced
<1>5. CASE ClearNext
  <2>1. /\ ~clearing.indexed /\ clearing.names = {} /\ UNCHANGED <<disk, index>>
        /\ d \in torn => d \in torn'
        /\ Raced(d)' /\ Saving(d) # {} => d \in torn'
        /\ Raced(d)' => ~Raced(d) /\ clearing' = ReadRoot(d, clearing.old)
    BY <1>5 DEF ClearNext, NotClearing, ReadRoot, Raced, Roots
  <2>2. CASE Raced(d)'
    <3>0. clearing' = [root |-> d, names |-> disk[d], indexed |-> index[d] # Gone,
                       old |-> clearing.old]
      BY <2>1, <2>2 DEF ReadRoot
    <3>1. clearing'.names = disk[d] /\ (index[d] # Gone => clearing'.indexed)
      BY <3>0
    <3>2. Saving(d)' = {} \/ d \in torn'
      BY <1>1, <2>1, <2>2
    <3>. QED
      BY <2>1, <2>2, <3>1, <3>2 DEF Settled
  <2>3. CASE ~Raced(d)' /\ ~Raced(d)
    BY <1>1, <2>1, <2>3 DEF Settled, Listed
  <2>4. CASE ~Raced(d)' /\ Raced(d)
    <3>1. d \notin torn' /\ Saving(d) = {} => disk[d] = {} /\ Listed(d)' = {}
      BY <2>1, <2>4 DEF Settled, Listed
    <3>2. d \notin torn' /\ Saving(d) = {} => Tells(Listed(d)', disk'[d])
      BY <2>1, <3>1 DEF Tells
    <3>. QED
      BY <1>1, <2>1, <2>4, <3>2 DEF Settled, Raced
  <2>. QED
    BY <2>2, <2>3, <2>4
<1>6. ASSUME NEW n \in Names, ClearTopic(n) PROVE Settled(d)'
  BY <1>1, <1>6 DEF ClearTopic, Settled, Listed, Raced
<1>. QED
  BY <1>2, <1>3, <1>4, <1>5, <1>6 DEF Clear

LEMMA IndexStep == IndexInv /\ [Next]_vars => IndexInv'
<1>. SUFFICES ASSUME IndexInv, [Next]_vars, NEW d \in Roots PROVE Settled(d)'
  BY FlightStep, FilesStep DEF IndexInv, FlightInv
<1>. USE DEF IndexInv, calls, files
<1>0. ASSUME Saving(d)' = Saving(d), UNCHANGED <<disk, index, torn, clearing>>,
             \A i \in Saving(d) : pc'[i] = pc[i] /\ listed'[i] = listed[i]
      PROVE  Settled(d)'
  BY <1>0, Untouched DEF Raced
<1>a. FlightType /\ SingleFlight
  BY DEF FlightInv
<1>. USE <1>a DEF FlightType, Saving
<1>1. CASE Submit
  BY <1>0, <1>1, RunsType DEF Submit
<1>2. ASSUME NEW r \in Runs, RunEnds(r) PROVE Settled(d)'
  BY <1>0, <1>2 DEF RunEnds, Go
<1>3. ASSUME NEW r \in Runs, Extract(r) PROVE Settled(d)'
  BY <1>0, <1>3 DEF Extract, LeavePending, StartExtraction, SingleFlight
<1>4. ASSUME NEW r \in Runs, Answer(r) PROVE Settled(d)'
  BY <1>0, <1>4 DEF Answer, Go, FilesType
<1>5. ASSUME NEW r \in Runs, Save(r) PROVE Settled(d)'
  BY <1>5, SettledSave
<1>6. ASSUME NEW r \in Runs, Close(r) PROVE Settled(d)'
  BY <1>0, <1>6 DEF Close, SingleFlight
<1>7. CASE Clear
  BY <1>7, SettledClear
<1>8. CASE Crash
  <2>1. Saving(d)' = {} /\ ~Raced(d)' /\ UNCHANGED <<disk, index>>
    BY <1>8 DEF Crash, Raced, NotClearing, Roots
  <2>2. d \notin torn' => d \notin torn /\ Saving(d) = {} /\ ~Raced(d)
    BY <1>8 DEF Crash
  <2>. QED
    BY <2>1, <2>2 DEF Settled, Listed
<1>9. CASE UNCHANGED vars
  BY <1>0, <1>9 DEF vars
<1>. QED
  BY <1>1, <1>2, <1>3, <1>4, <1>5, <1>6, <1>7, <1>8, <1>9, NextCases

LEMMA IndexInit == Init => IndexInv
<1>. SUFFICES ASSUME Init PROVE IndexInv
  OBVIOUS
<1>1. FilesType
  BY DEF Init, FilesType, NotClearing
<1>2. SaversHaveTopics
  BY DEF Init, SaversHaveTopics
<1>3. ASSUME NEW d \in Roots PROVE Settled(d)
  BY DEF Init, Settled, Saving, Raced, NotClearing, Listed, Roots, Tells
<1>. QED
  BY <1>1, <1>2, <1>3, FlightInit DEF IndexInv

(* The index of a directory lists topics that are there, and all of them as*)
(* long as they fit, for any number of saves, clears and deaths of the     *)
(* process, any limits of the index, and whenever no failure, death or     *)
(* overlapping Clear came in between since the last undisturbed save.      *)
THEOREM IndexIsTrue == Spec => []IndexTellsTopics
<1>1. IndexInv => IndexTellsTopics
  BY DEF IndexInv, Settled, IndexTellsTopics
<1>. QED
  BY <1>1, IndexInit, IndexStep, PTL DEF Spec

(* A step takes a topic off the disk as Clear, which had found it there,   *)
(* or as the save that is about to put it back.                            *)
THEOREM SavedTopicsStay == Spec => TopicsSurvive
<1>. DEFINE Survive ==
       \A d \in Roots : \A n \in disk[d] \ disk'[d] :
          \/ clearing.root = d /\ n \in clearing.names
          \/ \E r \in Runs : pc'[r] = "rename" /\ Root(r) = d /\ Topic(r) = n
<1>1. ASSUME IndexInv, [Next]_vars PROVE Survive
  <2>. USE DEF calls, files
  <2>a. disk \in [Roots -> SUBSET Names] /\ pc \in [Runs -> Positions]
    BY <1>1 DEF IndexInv, FilesType, FlightInv, FlightType
  <2>1. ASSUME disk' = disk PROVE Survive
    BY <2>1
  <2>2. ASSUME NEW r \in Runs, Save(r) PROVE Survive
    <3>1. CASE RemoveTopic(r)
      <4>1. disk' = [disk EXCEPT ![Root(r)] = @ \ {Topic(r)}] /\ pc'[r] = "rename"
        BY <2>a, <3>1 DEF RemoveTopic, Go
      <4>. QED
        BY <2>a, <4>1
    <3>2. CASE RenameTopic(r)
      BY <2>a, <3>2 DEF RenameTopic
    <3>3. CASE SaveFails(r) \/ RenameFails(r) \/ ScanTopics(r) \/ ScanFails(r)
               \/ RemoveIndex(r) \/ IndexFails(r) \/ RenameIndex(r)
      BY <2>1, <3>3 DEF SaveFails, RenameFails, ScanTopics, ScanFails, RemoveIndex, IndexFails,
         RenameIndex
    <3>. QED
      BY <2>2, <3>1, <3>2, <3>3 DEF Save
  <2>3. ASSUME Clear PROVE Survive
    <3>1. ASSUME NEW n \in Names, ClearTopic(n) PROVE Survive
      BY <2>a, <3>1 DEF ClearTopic
    <3>2. CASE ClearBegin \/ ClearFails \/ ClearIndex \/ ClearNext
      BY <2>1, <3>2 DEF ClearBegin, ClearFails, ClearIndex, ClearNext
    <3>. QED
      BY <2>3, <3>1, <3>2 DEF Clear
  <2>. HIDE DEF Survive
  <2>4. CASE Submit \/ Crash \/ UNCHANGED vars
    BY <2>1, <2>4 DEF Submit, Crash, vars
  <2>5. ASSUME NEW r \in Runs, RunEnds(r) \/ Extract(r) \/ Answer(r) \/ Close(r)
        PROVE  Survive
    BY <2>1, <2>5 DEF RunEnds, Extract, Answer, Close
  <2>. QED
    BY <1>1, <2>2, <2>3, <2>4, <2>5, NextCases
<1>2. IndexInv /\ [Next]_vars => [Survive]_vars
  BY <1>1
<1>. QED
  BY <1>2, IndexInit, IndexStep, PTL DEF Spec, TopicsSurvive

(***************************************************************************)
(* What Clear leaves                                                       *)
(***************************************************************************)
(* Clear knows of every file that was there when it began and has not been *)
(* written since: in the directory it is in, such a file is still to be    *)
(* removed, and in the one it has been through there is none.              *)
OldIsKnown ==
    /\ clearing.root \in Roots \cup {"none"}
    /\ \A d \in Roots : clearing.root = d =>
          \A n \in disk[d] : <<d, n>> \in clearing.old => n \in clearing.names
    /\ clearing.root = "project" =>
          \A n \in disk["user"] : <<"user", n>> \notin clearing.old

ClearInv == IndexInv /\ OldIsKnown

(* Without Clear, files come back only by a save, which makes them new.    *)
LEMMA OldIsKnownSave ==
    ASSUME ClearInv,
           clearing'.root = clearing.root, clearing'.names = clearing.names,
           clearing'.old \subseteq clearing.old,
           \A d \in Roots : \A n \in disk'[d] :
              n \in disk[d] \/ <<d, n>> \notin clearing'.old
    PROVE  OldIsKnown'
BY DEF ClearInv, IndexInv, FilesType, OldIsKnown, Roots

LEMMA ClearStep == ClearInv /\ [Next]_vars => ClearInv'
<1>. SUFFICES ASSUME ClearInv, [Next]_vars PROVE OldIsKnown'
  BY IndexStep DEF ClearInv
<1>. USE DEF calls, files
<1>a. disk \in [Roots -> SUBSET Names] /\ OldIsKnown
      /\ clearing = [root |-> clearing.root, names |-> clearing.names,
                     indexed |-> clearing.indexed, old |-> clearing.old]
  BY DEF ClearInv, IndexInv, FilesType
<1>1. ASSUME disk' = disk, clearing' = clearing PROVE OldIsKnown'
  BY <1>1, <1>a DEF OldIsKnown
<1>2. ASSUME NEW r \in Runs, Save(r) PROVE OldIsKnown'
  <2>0. Root(r) \in Roots
    BY RootAndTopic DEF ClearInv, IndexInv
  <2>1. CASE RemoveTopic(r)
    BY <1>a, <2>0, <2>1, OldIsKnownSave DEF RemoveTopic
  <2>2. CASE RenameTopic(r)
    BY <1>a, <2>0, <2>2, OldIsKnownSave DEF RenameTopic
  <2>3. CASE SaveFails(r) \/ RenameFails(r) \/ ScanTopics(r) \/ ScanFails(r)
             \/ RemoveIndex(r) \/ IndexFails(r) \/ RenameIndex(r)
    BY <1>1, <2>3 DEF SaveFails, RenameFails, ScanTopics, ScanFails, RemoveIndex, IndexFails,
       RenameIndex
  <2>. QED
    BY <1>2, <2>1, <2>2, <2>3 DEF Save
<1>3. CASE ClearBegin
  BY <1>3, <1>a DEF ClearBegin, ReadRoot, OldIsKnown, Roots
<1>4. CASE ClearFails \/ Crash
  BY <1>4 DEF ClearFails, Crash, NotClearing, OldIsKnown, Roots
<1>5. CASE ClearIndex
  BY <1>5, <1>a DEF ClearIndex, OldIsKnown
<1>6. CASE ClearNext
  <2>1. CASE clearing.root = "user"
    BY <1>6, <1>a, <2>1 DEF ClearNext, ReadRoot, OldIsKnown, Roots
  <2>2. CASE clearing.root # "user"
    BY <1>6, <2>2 DEF ClearNext, NotClearing, OldIsKnown, Roots
  <2>. QED
    BY <2>1, <2>2
<1>7. ASSUME NEW n \in Names, ClearTopic(n) PROVE OldIsKnown'
  BY <1>7, <1>a DEF ClearTopic, OldIsKnown, Roots
<1>8. CASE Submit \/ UNCHANGED vars
  BY <1>1, <1>8 DEF Submit, vars
<1>9. ASSUME NEW r \in Runs, RunEnds(r) \/ Extract(r) \/ Answer(r) \/ Close(r)
      PROVE  OldIsKnown'
  BY <1>1, <1>9 DEF RunEnds, Extract, Answer, Close
<1>. QED
  BY <1>2, <1>3, <1>4, <1>5, <1>6, <1>7, <1>8, <1>9, NextCases DEF Clear

(* When /memory clear reports success, no topic is left that was there     *)
(* when it began, whatever extractions wrote in between and whichever      *)
(* directory they wrote to.                                                *)
THEOREM ClearRemovesTheOld == Spec => ClearedIsGone
<1>. DEFINE Cleared == clearing.root = "project" /\ ~clearing.indexed /\ clearing.names = {}
                         /\ clearing' = NotClearing
            Step == Cleared => \A d \in Roots : \A n \in disk[d] : <<d, n>> \notin clearing.old
<1>1. Init => ClearInv
  BY IndexInit DEF ClearInv, OldIsKnown, Init, NotClearing, Roots
<1>2. ClearInv /\ [Next]_vars => [Step]_vars
  BY DEF ClearInv, OldIsKnown, Roots
<1>. QED
  BY <1>1, <1>2, ClearStep, PTL DEF Spec, ClearedIsGone
=============================================================================
