------------------------------- MODULE Memory -------------------------------
(***************************************************************************)
(* The memory service (internal/svc/memory.go): after every run a          *)
(* goroutine asks the model what to remember of the last turn and saves    *)
(* the answer as topic files with an index, in a directory of the user and *)
(* one of the project.  One extraction works at a time and one may wait.   *)
(* /memory clear removes files while an extraction may be saving, and the  *)
(* process may die between two file operations.                            *)
(***************************************************************************)
EXTENDS Integers, Sequences, FiniteSets, SequencesExt

CONSTANTS
    Names,          \* slugs of topics
    Proposals,      \* what the model may propose, a set of records
    MinListed,      \* lines the index has room for, however long they are
    MaxListed,      \* lines it has room for at most, the code's 200
    MaxProposals,   \* bound on the proposals of one answer
    MaxRuns,        \* bound on prompts
    MaxClears,      \* bound on /memory clear
    MaxCrashes      \* bound on deaths of the process

Types == {"user", "feedback", "project", "reference", "other"}

ASSUME MemoryAssumption ==
    /\ "" \notin Names
    /\ Proposals \subseteq
         [type : Types, name : Names \cup {""}, told : BOOLEAN, secret : BOOLEAN]
    /\ MinListed \in Nat /\ MaxListed \in Nat /\ MinListed <= MaxListed
    /\ MaxProposals \in Nat /\ MaxRuns \in Nat
    /\ MaxClears \in Nat /\ MaxCrashes \in Nat

Roots == {"user", "project"}
Runs  == 1 .. MaxRuns
Nobody == 0

VARIABLES
    turns,      \* prompts submitted
    pc,         \* where each run and then its extraction is
    running,    \* MemoryService.running
    pending,    \* MemoryService.pending, the run that left it, or Nobody
    todo,       \* proposals each extraction still has to save
    listed,     \* the topics an extraction found for the index
    disk,       \* disk[root], the topics that have a file
    index,      \* index[root], the topics MEMORY.md lists, or Gone
    clearing,   \* the call of Clear that is going on
    clears, crashes,
    torn        \* roots whose index may be wrong, see below

files == <<disk, index, torn>>
calls == <<turns, running, pending>>
vars  == <<calls, files, pc, todo, listed, clearing, clears, crashes>>

(* MEMORY.md does not exist; no slug is empty. *)
Gone == {""}

(* A call of Clear: the directory it is in, what it still has to remove    *)
(* there, and the files that were there when it began and have not been    *)
(* written since.                                                          *)
NotClearing == [root |-> "none", names |-> {}, indexed |-> FALSE, old |-> {}]

Init ==
    /\ turns = 0
    /\ pc = [r \in Runs |-> "none"]
    /\ running = FALSE /\ pending = Nobody
    /\ todo = [r \in Runs |-> <<>>]
    /\ listed = [r \in Runs |-> {}]
    /\ disk = [d \in Roots |-> {}]
    /\ index = [d \in Roots |-> Gone]
    /\ clearing = NotClearing /\ clears = 0 /\ crashes = 0
    /\ torn = {}

(* An extraction between its start and its deferred call. *)
Busy == {r \in Runs : pc[r] \in {"asking", "saving", "rename", "scan",
                                 "unlist", "relist"}}

RootOf(p) == IF p.type \in {"user", "feedback"} THEN "user" ELSE "project"

(* Extractions between the first change they make in a directory and the   *)
(* index that tells of it.                                                 *)
Saving(d) == {r \in Runs : /\ pc[r] \in {"rename", "scan", "unlist", "relist"}
                          /\ RootOf(Head(todo[r])) = d}

Go(r, from, to) == pc[r] = from /\ pc' = [pc EXCEPT ![r] = to]

(***************************************************************************)
(* The run, which leaves its messages to Extract when its loop completes.  *)
(***************************************************************************)
Submit ==
    /\ turns < MaxRuns
    /\ \A r \in Runs : pc[r] # "running"
    /\ clearing = NotClearing
    /\ turns' = turns + 1
    /\ pc' = [pc EXCEPT ![turns'] = "running"]
    /\ UNCHANGED <<running, pending, files, todo, listed, clearing, clears, crashes>>

RunEnds(r) ==
    /\ Go(r, "running", "called") \/ Go(r, "running", "failed")
    /\ UNCHANGED <<calls, files, todo, listed, clearing, clears, crashes>>

(***************************************************************************)
(* Extract: single flight with one waiting turn.                           *)
(***************************************************************************)
StartExtraction(r) ==
    /\ ~running
    /\ running' = TRUE
    /\ pc' = [pc EXCEPT ![r] = "asking"]
    /\ UNCHANGED pending

(* Another extraction is at work: this turn waits in the place of the one  *)
(* that waited before it.                                                  *)
LeavePending(r) ==
    /\ running
    /\ pending' = r
    /\ pc' = [i \in Runs |-> IF i = r THEN "waiting"
                             ELSE IF i = pending THEN "dropped" ELSE pc[i]]
    /\ UNCHANGED running

Extract(r) ==
    /\ pc[r] = "called"
    /\ LeavePending(r) \/ StartExtraction(r)
    /\ UNCHANGED <<turns, files, todo, listed, clearing, clears, crashes>>

(* A proposal is saved only with a known type, a name that leaves a slug,  *)
(* a description and a content, and no word that smells of a secret.       *)
ValidProposal(p) == p.type # "other" /\ p.name # "" /\ p.told /\ ~p.secret

(* What is left of an answer of the model to be saved. *)
Kept == {p \in Proposals : ValidProposal(p)}

(* collectText returns text that parses within its 30 seconds, or nothing. *)
Answer(r) ==
    /\ \/ Go(r, "asking", "closing") /\ UNCHANGED todo
       \/ /\ Go(r, "asking", "saving")
          /\ \E ps \in BoundedSeq(Kept, MaxProposals) : todo' = [todo EXCEPT ![r] = ps]
    /\ UNCHANGED <<calls, files, listed, clearing, clears, crashes>>

(* Fault: the waiting turn is not taken out. *)
CloseKeepingPending(r) ==
    /\ pc[r] = "closing" \/ (pc[r] = "saving" /\ todo[r] = <<>>)
    /\ pc' = [pc EXCEPT ![r] = "done"]
    /\ running' = FALSE
    /\ UNCHANGED <<turns, pending, files, todo, listed, clearing, clears, crashes>>

(* Fault: the waiting turn is taken out and no goroutine is started for it. *)
CloseDropping(r) ==
    /\ pc[r] = "closing" \/ (pc[r] = "saving" /\ todo[r] = <<>>)
    /\ pc' = [pc EXCEPT ![r] = "done"]
    /\ running' = FALSE
    /\ pending' = Nobody
    /\ UNCHANGED <<turns, files, todo, listed, clearing, clears, crashes>>

(* The deferred call: the next extraction may start, and the turn that     *)
(* waited calls Extract again from a goroutine of its own.                 *)
Close(r) ==
    /\ pc[r] = "closing" \/ (pc[r] = "saving" /\ todo[r] = <<>>)
    /\ pc' = [i \in Runs |-> IF i = r THEN "done"
                             ELSE IF i = pending THEN "called" ELSE pc[i]]
    /\ running' = FALSE
    /\ pending' = Nobody
    /\ UNCHANGED <<turns, files, todo, listed, clearing, clears, crashes>>

(***************************************************************************)
(* saveMemory, rebuildIndex and writeAtomic.  A replacement is written to  *)
(* a temporary file first, which no reader looks at; then the old file is  *)
(* removed, and then the temporary file renamed.                           *)
(***************************************************************************)
Topic(r) == Head(todo[r]).name
Root(r)  == RootOf(Head(todo[r]))

(* A save and a Clear of the same directory at the same time may leave an  *)
(* index that is wrong until the next save there.                          *)
Raced(d) == clearing.root = d

RemoveTopic(r) ==
    /\ todo[r] # <<>>
    /\ Go(r, "saving", "rename")
    /\ disk' = [disk EXCEPT ![Root(r)] = @ \ {Topic(r)}]
    /\ UNCHANGED <<calls, index, torn, todo, listed, clearing, clears, crashes>>

(* Fault: the old file is removed before the temporary file is made. *)
SaveFailsLate(r) ==
    /\ todo[r] # <<>>
    /\ pc[r] = "saving"
    /\ disk' = [disk EXCEPT ![Root(r)] = @ \ {Topic(r)}]
    /\ todo' = [todo EXCEPT ![r] = Tail(@)]
    /\ UNCHANGED <<calls, index, torn, pc, listed, clearing, clears, crashes>>

(* The directory or the temporary file cannot be made. *)
SaveFails(r) ==
    /\ todo[r] # <<>>
    /\ pc[r] = "saving"
    /\ todo' = [todo EXCEPT ![r] = Tail(@)]
    /\ UNCHANGED <<calls, files, pc, listed, clearing, clears, crashes>>

RenameTopic(r) ==
    /\ Go(r, "rename", "scan")
    /\ disk' = [disk EXCEPT ![Root(r)] = @ \cup {Topic(r)}]
    /\ clearing' = [clearing EXCEPT !.old = @ \ {<<Root(r), Topic(r)>>}]
    /\ UNCHANGED <<calls, index, torn, todo, listed, clears, crashes>>

(* The old topic is gone already, and the index goes on telling of it. *)
RenameFails(r) ==
    /\ Go(r, "rename", "saving")
    /\ torn' = torn \cup {Root(r)}
    /\ todo' = [todo EXCEPT ![r] = Tail(@)]
    /\ UNCHANGED <<calls, disk, index, listed, clearing, clears, crashes>>

(* Lines of an index that tells of these topics.  The index is cut after   *)
(* MaxListed lines, and after the line that takes it over its limit of     *)
(* bytes; a line is no longer than the beginning of a file that is read for*)
(* it, so MinListed lines are always there.  The topics written last come  *)
(* first; which ones those are is left open.                               *)
Tells(lines, topics) ==
    /\ lines \subseteq topics
    /\ lines = topics \/ Cardinality(lines) >= MinListed

IndexOf(topics) ==
    {lines \in SUBSET topics : Tells(lines, topics) /\ Cardinality(lines) <= MaxListed}

(* Fault: the directory was read before the topic was written. *)
ScanTopicsEarlier(r) ==
    /\ Go(r, "scan", "unlist")
    /\ \E lines \in IndexOf(disk[Root(r)] \ {Topic(r)}) : listed' = [listed EXCEPT ![r] = lines]
    /\ torn' = IF Raced(Root(r)) THEN torn \cup {Root(r)} ELSE torn \ {Root(r)}
    /\ UNCHANGED <<calls, disk, index, todo, clearing, clears, crashes>>

ScanTopics(r) ==
    /\ Go(r, "scan", "unlist")
    /\ \E lines \in IndexOf(disk[Root(r)]) : listed' = [listed EXCEPT ![r] = lines]
    /\ torn' = IF Raced(Root(r)) THEN torn \cup {Root(r)} ELSE torn \ {Root(r)}
    /\ UNCHANGED <<calls, disk, index, todo, clearing, clears, crashes>>

(* The directory cannot be read, and an index of nothing is written.       *)
ScanFails(r) ==
    /\ Go(r, "scan", "unlist")
    /\ listed' = [listed EXCEPT ![r] = {}]
    /\ torn' = torn \cup {Root(r)}
    /\ UNCHANGED <<calls, disk, index, todo, clearing, clears, crashes>>

RemoveIndex(r) ==
    /\ Go(r, "unlist", "relist")
    /\ index' = [index EXCEPT ![Root(r)] = Gone]
    /\ UNCHANGED <<calls, disk, torn, todo, listed, clearing, clears, crashes>>

(* No temporary file, or no renaming once the old index is gone. *)
IndexFails(r) ==
    /\ Go(r, "unlist", "saving") \/ Go(r, "relist", "saving")
    /\ torn' = torn \cup {Root(r)}
    /\ todo' = [todo EXCEPT ![r] = Tail(@)]
    /\ listed' = [listed EXCEPT ![r] = {}]
    /\ UNCHANGED <<calls, disk, index, clearing, clears, crashes>>

RenameIndex(r) ==
    /\ Go(r, "relist", "saving")
    /\ index' = [index EXCEPT ![Root(r)] = listed[r]]
    /\ todo' = [todo EXCEPT ![r] = Tail(@)]
    /\ listed' = [listed EXCEPT ![r] = {}]
    /\ UNCHANGED <<calls, disk, torn, clearing, clears, crashes>>

(***************************************************************************)
(* Clear, on the UI goroutine while no run is going on: both directories,  *)
(* each as it was when it was read, one file after the other and the index *)
(* first, which sorts before the slugs.                                    *)
(***************************************************************************)
ReadRoot(d, old) ==
    [root |-> d, names |-> disk[d], indexed |-> index[d] # Gone, old |-> old]

ClearBegin ==
    /\ clears < MaxClears
    /\ clearing = NotClearing
    /\ \A r \in Runs : pc[r] # "running"
    /\ clears' = clears + 1
    /\ clearing' = ReadRoot("user", {f \in Roots \X Names : f[2] \in disk[f[1]]})
    /\ torn' = torn \cup {d \in {"user"} : Saving(d) # {}}
    /\ UNCHANGED <<calls, disk, index, pc, todo, listed, crashes>>

(* A file that is gone by the time it is to be removed makes Clear return  *)
(* with an error and leave the rest.                                       *)
ClearFails ==
    /\ clearing.root \in Roots
    /\ \/ clearing.indexed /\ index[clearing.root] = Gone
       \/ /\ ~clearing.indexed
          /\ clearing.names \ disk[clearing.root] # {}
    /\ clearing' = NotClearing
    /\ torn' = torn \cup {clearing.root}
    /\ UNCHANGED <<calls, disk, index, pc, todo, listed, clears, crashes>>

ClearIndex ==
    /\ clearing.indexed
    /\ index[clearing.root] # Gone
    /\ index' = [index EXCEPT ![clearing.root] = Gone]
    /\ clearing' = [clearing EXCEPT !.indexed = FALSE]
    /\ UNCHANGED <<calls, disk, torn, pc, todo, listed, clears, crashes>>

ClearTopic(n) ==
    /\ ~clearing.indexed
    /\ n \in clearing.names
    /\ n \in disk[clearing.root]
    /\ disk' = [disk EXCEPT ![clearing.root] = @ \ {n}]
    /\ clearing' = [clearing EXCEPT !.names = @ \ {n}]
    /\ UNCHANGED <<calls, index, torn, pc, todo, listed, clears, crashes>>

(* Fault: an error of reading the second directory counts as an empty one. *)
ClearNextBlind ==
    /\ clearing.root \in Roots
    /\ ~clearing.indexed /\ clearing.names = {}
    /\ clearing' = IF clearing.root = "user"
                   THEN [clearing EXCEPT !.root = "project"] ELSE NotClearing
    /\ UNCHANGED <<calls, files, pc, todo, listed, clears, crashes>>

(* On to the other directory, or back with success. *)
ClearNext ==
    /\ clearing.root \in Roots
    /\ ~clearing.indexed /\ clearing.names = {}
    /\ clearing' = IF clearing.root = "user"
                   THEN ReadRoot("project", clearing.old) ELSE NotClearing
    /\ torn' = torn \cup {d \in {clearing'.root} : d \in Roots /\ Saving(d) # {}}
    /\ UNCHANGED <<calls, disk, index, pc, todo, listed, clears, crashes>>

Crash ==
    /\ crashes < MaxCrashes
    /\ crashes' = crashes + 1
    /\ pc' = [r \in Runs |-> IF pc[r] \in {"none", "failed", "done", "dropped"}
                             THEN pc[r] ELSE "dead"]
    /\ running' = FALSE /\ pending' = Nobody
    /\ todo' = [r \in Runs |-> <<>>]
    /\ clearing' = NotClearing
    /\ torn' = torn \cup {d \in Roots : Saving(d) # {} \/ Raced(d)}
    /\ UNCHANGED <<turns, disk, index, listed, clears>>

Save(r) ==
    \/ RemoveTopic(r) \/ SaveFails(r) \/ RenameTopic(r) \/ RenameFails(r)
    \/ ScanTopics(r) \/ ScanFails(r)
    \/ RemoveIndex(r) \/ IndexFails(r) \/ RenameIndex(r)

Goroutine(r) == Extract(r) \/ Answer(r) \/ Save(r) \/ Close(r)

Clear ==
    \/ ClearBegin \/ ClearFails \/ ClearIndex \/ ClearNext
    \/ \E n \in Names : ClearTopic(n)

Next ==
    \/ Submit
    \/ \E r \in Runs : RunEnds(r)
    \/ \E r \in Runs : Goroutine(r)
    \/ Clear
    \/ Crash

(* Goroutines are scheduled, and the model answers or the 30 seconds pass. *)
Fairness == \A r \in Runs : WF_vars(Goroutine(r))

Spec == Init /\ [][Next]_vars /\ Fairness

(***************************************************************************)
(* Properties.                                                             *)
(***************************************************************************)
(* Extract is a single flight: whichever way prompts, extractions and the  *)
(* goroutine of a turn that waited come together, one extraction at most   *)
(* is at work on the files, it is the one the flag tells of, and the turn  *)
(* that waits, if one does, waits for it.                                  *)
SingleFlight ==
    /\ \A q, r \in Busy \cup {i \in Runs : pc[i] = "closing"} : q = r
    /\ running <=> \E r \in Runs : r \in Busy \/ pc[r] = "closing"
    /\ \A r \in Runs : pc[r] = "waiting" <=> r = pending
    /\ pending # Nobody => running

Listed(d) == IF index[d] = Gone THEN {} ELSE index[d]

(* The index of a directory lists topics that are there, and lists them all*)
(* as long as they fit, whenever no save is under way in it, unless a Clear*)
(* of the directory, a failure or the death of the process came in between *)
(* since the last save that had the directory to itself.  filesMu does not *)
(* keep Clear and saves apart.                                             *)
IndexTellsTopics ==
    \A d \in Roots : d \in torn \/ Saving(d) # {} \/ Raced(d) \/ Tells(Listed(d), disk[d])

(* A topic that was saved leaves the disk through Clear, or for the moment *)
(* between the removal and the renaming of writeAtomic, which only an      *)
(* error of the renaming or the death of the process can make last.        *)
TopicsSurvive ==
    [][\A d \in Roots : \A n \in disk[d] \ disk'[d] :
          \/ clearing.root = d /\ n \in clearing.names
          \/ \E r \in Runs : pc'[r] = "rename" /\ Root(r) = d /\ Topic(r) = n]_vars

(* When Clear returns without an error, the topics that are left have all  *)
(* been written since it began, however many extractions came in between.  *)
ClearedIsGone ==
    [][clearing.root = "project" /\ ~clearing.indexed /\ clearing.names = {}
         /\ clearing' = NotClearing =>
          \A d \in Roots : \A n \in disk[d] : <<d, n>> \notin clearing.old]_vars

(* A turn that was handed over is extracted, or gives its place in the     *)
(* queue of one to another turn: the wait of pending always ends, also     *)
(* when the model does not answer and when files cannot be written.        *)
HandedOverEnds ==
    \A r \in Runs : pc[r] = "called" ~> pc[r] \in {"done", "dropped", "dead"}
=============================================================================
