----------------------------- MODULE FileState -----------------------------
(***************************************************************************)
(* The file tools on one file (internal/infra/tools/file): the calls of a  *)
(* response run concurrently, share one StateCache, and are not alone on   *)
(* the disk.  The cache is keyed by path and calls on different files meet *)
(* nowhere, so one file is enough.                                         *)
(*                                                                         *)
(* Text is the set of passages in the file.  A call of WriteFile leaves    *)
(* its own name as the only passage; a call of EditFile replaces the       *)
(* passage Old by its own name; an outside change adds a passage of        *)
(* Outside, to the text or to an empty file.  A passage occurs once, so    *)
(* old_string is in the file or not found.                                 *)
(*                                                                         *)
(* os.WriteFile truncates and then writes, with the file's modification    *)
(* time set by both; system calls are atomic steps.  Times are UnixMilli,  *)
(* so steps may share one.  The Content of a cache entry is never read by  *)
(* the code and is left out: an entry is its Mtime.                        *)
(***************************************************************************)
EXTENDS Integers

CONSTANTS
    Calls,      \* the tool calls
    Op,         \* what each call does: "read", "write" or "edit"
    Old,        \* the passage each call replaces, if it edits
    Base,       \* the passages of the file to begin with, if it exists
    Outside,    \* the passages that come from outside
    MaxClock    \* a bound on the clock, for TLC

ASSUME FileAssumption ==
    /\ Op \in [Calls -> {"read", "write", "edit"}]
    /\ Calls \cap Outside = {} /\ Base \cap Outside = {}
    /\ MaxClock \in Nat

VARIABLES
    exists, text, mtime,    \* the file; mtime is kept when it is deleted
    clock,                  \* UnixMilli of now
    cached,                 \* StateCache.entries of the file: its Mtime
    pc,                     \* where each call is
    info,                   \* the modification time each call holds
    data,                   \* the text each call has read
    result,                 \* what each call returned
    outside,                \* the passages outsiders have added
    seen,                   \* history: what ReadFile has read for the model
    raced,                  \* history: a change from outside escaped the cache
    standing,               \* history: the edits made to the text that is there
    overlapped              \* history: calls that changed the file beside others

disk  == <<exists, text, mtime>>
calls == <<pc, info, data, result>>
edits == <<standing, overlapped>>
vars  == <<disk, clock, cached, calls, outside, seen, raced, edits>>

NoEntry == -1

(* From a call's own check, or its finding that there is no file, to its   *)
(* look at the file it has written: what happens to the file in between    *)
(* escapes the cache.                                                      *)
InWindow(c) == pc[c] \in {"load", "truncate", "fill", "unlinked", "stat"}

(* From the reading of the text that an edit puts back, or the truncation  *)
(* by a write, to the writing.                                             *)
Changing(c) == pc[c] \in IF Op[c] = "edit" THEN {"truncate", "fill"} ELSE {"fill"}

Init ==
    /\ exists \in BOOLEAN
    /\ text = IF exists THEN Base ELSE {}
    /\ mtime = 0 /\ clock = 0
    /\ cached = NoEntry
    /\ pc = [c \in Calls |-> "start"]
    /\ info = [c \in Calls |-> NoEntry]
    /\ data = [c \in Calls |-> {}]
    /\ result = [c \in Calls |-> "none"]
    /\ outside = {} /\ seen = {} /\ raced = FALSE
    /\ standing = {} /\ overlapped = {}

At(c, op, from) == Op[c] \in op /\ pc[c] = from
Goto(c, to)     == pc' = [pc EXCEPT ![c] = to] /\ UNCHANGED result
Return(c, r)    == pc' = [pc EXCEPT ![c] = "done"] /\ result' = [result EXCEPT ![c] = r]

(* A call begins to change the file, alone or beside others.               *)
Begin(c) ==
    LET others == {d \in Calls \ {c} : Changing(d)}
    IN  overlapped' = IF others = {} THEN overlapped ELSE overlapped \cup others \cup {c}

(***************************************************************************)
(* ReadFile                                                                *)
(***************************************************************************)
ReadStat(c) ==
    /\ At(c, {"read"}, "start")
    /\ \/ exists /\ Goto(c, "read") /\ info' = [info EXCEPT ![c] = mtime]
       \/ ~exists /\ Return(c, "failed") /\ UNCHANGED info
    /\ UNCHANGED <<disk, clock, cached, data, outside, seen, raced, edits>>

ReadContent(c) ==
    /\ At(c, {"read"}, "read")
    /\ \/ exists /\ Goto(c, "record") /\ data' = [data EXCEPT ![c] = text]
       \/ ~exists /\ Return(c, "failed") /\ UNCHANGED data
    /\ UNCHANGED <<disk, clock, cached, info, outside, seen, raced, edits>>

(* The offset is past the last line: nothing is shown or recorded.         *)
ReadPastEnd(c) ==
    /\ At(c, {"read"}, "record")
    /\ Return(c, "ok")
    /\ UNCHANGED <<disk, clock, cached, info, data, outside, seen, raced, edits>>

(* Fault: the entry gets the modification time from after the read.        *)
RecordLateTime(c) ==
    /\ At(c, {"read"}, "record")
    /\ Return(c, "ok")
    /\ cached' = mtime
    /\ seen' = seen \cup data[c]
    /\ UNCHANGED <<disk, clock, info, data, outside, raced, edits>>

Record(c) ==
    /\ At(c, {"read"}, "record")
    /\ Return(c, "ok")
    /\ cached' = info[c]
    /\ seen' = seen \cup data[c]
    /\ UNCHANGED <<disk, clock, info, data, outside, raced, edits>>

(***************************************************************************)
(* StateCache.Check: the entry is looked up under the lock, the file is    *)
(* looked at after it.  WriteFile checks only a file that exists.          *)
(***************************************************************************)
WriteStat(c) ==
    /\ At(c, {"write"}, "start")
    /\ Goto(c, IF exists THEN "lookup" ELSE "truncate")
    /\ UNCHANGED <<disk, clock, cached, info, data, outside, seen, raced, edits>>

CheckEntry(c) ==
    /\ At(c, {"write"}, "lookup") \/ At(c, {"edit"}, "start")
    /\ \/ cached = NoEntry /\ Return(c, "unread") /\ UNCHANGED info
       \/ cached # NoEntry /\ Goto(c, "compare") /\ info' = [info EXCEPT ![c] = cached]
    /\ UNCHANGED <<disk, clock, cached, data, outside, seen, raced, edits>>

CheckDisk(c) ==
    /\ At(c, {"write", "edit"}, "compare")
    /\ \/ exists /\ mtime > info[c] /\ Return(c, "modified")
       \/ ~(exists /\ mtime > info[c])
          /\ Goto(c, IF Op[c] = "edit" THEN "load" ELSE "truncate")
    /\ UNCHANGED <<disk, clock, cached, info, data, outside, seen, raced, edits>>

(***************************************************************************)
(* The change                                                              *)
(***************************************************************************)
(* Fault: the file is read up to a limit, which old_string is within.      *)
EditContentInPart(c) ==
    /\ At(c, {"edit"}, "load")
    /\ \/ /\ Old[c] \in text /\ Goto(c, "truncate") /\ Begin(c)
          /\ \E part \in SUBSET text : Old[c] \in part /\ data' = [data EXCEPT ![c] = part]
       \/ Old[c] \notin text /\ Return(c, "failed") /\ UNCHANGED <<data, overlapped>>
    /\ UNCHANGED <<disk, clock, cached, info, outside, seen, raced, standing>>

EditContent(c) ==
    /\ At(c, {"edit"}, "load")
    /\ \/ /\ Old[c] \in text /\ Goto(c, "truncate")
          /\ data' = [data EXCEPT ![c] = text] /\ Begin(c)
       \/ Old[c] \notin text /\ Return(c, "failed") /\ UNCHANGED <<data, overlapped>>
    /\ UNCHANGED <<disk, clock, cached, info, outside, seen, raced, standing>>

NewText(c) == IF Op[c] = "edit" THEN (data[c] \ {Old[c]}) \cup {c} ELSE {c}

Truncate(c) ==
    /\ At(c, {"write", "edit"}, "truncate")
    /\ Goto(c, "fill")
    /\ exists' = TRUE /\ text' = {} /\ mtime' = clock
    /\ \/ Op[c] = "edit" /\ UNCHANGED edits
       \/ Op[c] = "write" /\ standing' = {} /\ Begin(c)
    /\ UNCHANGED <<clock, cached, info, data, outside, seen, raced>>

(* The new text goes to the start of the file.  Where another write has    *)
(* come since the truncation, what reaches further remains behind it.      *)
Fill(c) ==
    /\ At(c, {"write", "edit"}, "fill")
    /\ Goto(c, "stat")
    /\ \E tail \in SUBSET text : text' = NewText(c) \cup tail
    /\ mtime' = clock
    /\ standing' = IF Op[c] = "edit" THEN (standing \ {Old[c]}) \cup {c} ELSE standing
    /\ UNCHANGED <<exists, clock, cached, info, data, outside, seen, raced, overlapped>>

(* The file was deleted or replaced while it was open: the text goes with  *)
(* the old one.                                                            *)
FillUnlinked(c) ==
    /\ At(c, {"write", "edit"}, "unlinked")
    /\ Goto(c, "stat")
    /\ UNCHANGED <<disk, clock, cached, info, data, outside, seen, raced, edits>>

(* No permission to open the file, or no room to write it.                 *)
WriteFails(c) ==
    /\ \E from \in {"truncate", "fill", "unlinked"} : At(c, {"write", "edit"}, from)
    /\ Return(c, "failed")
    /\ standing' = IF pc[c] = "fill" THEN standing \cap text ELSE standing
    /\ UNCHANGED <<disk, clock, cached, info, data, outside, seen, raced, overlapped>>

UpdateStat(c) ==
    /\ At(c, {"write", "edit"}, "stat")
    /\ \/ exists /\ Goto(c, "store") /\ info' = [info EXCEPT ![c] = mtime]
       \/ ~exists /\ Return(c, "ok") /\ UNCHANGED info
    /\ UNCHANGED <<disk, clock, cached, data, outside, seen, raced, edits>>

UpdateStore(c) ==
    /\ At(c, {"write", "edit"}, "store")
    /\ Return(c, "ok")
    /\ cached' = info[c]
    /\ UNCHANGED <<disk, clock, info, data, outside, seen, raced, edits>>

Call(c) ==
    \/ ReadStat(c) \/ ReadContent(c) \/ ReadPastEnd(c) \/ Record(c)
    \/ WriteStat(c) \/ CheckEntry(c) \/ CheckDisk(c) \/ EditContent(c)
    \/ Truncate(c) \/ Fill(c) \/ FillUnlinked(c) \/ WriteFails(c)
    \/ UpdateStat(c) \/ UpdateStore(c)

(***************************************************************************)
(* The user's editor, a build, a shell command.  A change inside a window, *)
(* or in the millisecond of the change before it, is a race that           *)
(* modification times cannot tell.                                         *)
(***************************************************************************)
Unnoticed == mtime = clock \/ \E c \in Calls : InWindow(c)

(* Calls that have the file open keep the file that was.                   *)
Unlink == pc' = [c \in Calls |-> IF pc[c] = "fill" THEN "unlinked" ELSE pc[c]]

(* The file is written in place, or replaced by a new one.                 *)
OutsideChange ==
    /\ \E o \in Outside \ outside :
          /\ text' \in {{o}, text \cup {o}}
          /\ outside' = outside \cup {o}
    /\ Unlink \/ UNCHANGED pc
    /\ exists' = TRUE /\ mtime' = clock
    /\ raced' = (raced \/ Unnoticed)
    /\ standing' = standing \cap text'
    /\ UNCHANGED <<clock, cached, info, data, result, seen, overlapped>>

Delete ==
    /\ exists
    /\ Unlink
    /\ exists' = FALSE /\ text' = {}
    /\ raced' = (raced \/ \E c \in Calls : InWindow(c))
    /\ standing' = {}
    /\ UNCHANGED <<mtime, clock, cached, info, data, result, outside, seen, overlapped>>

Tick ==
    /\ clock < MaxClock
    /\ clock' = clock + 1
    /\ UNCHANGED <<disk, cached, calls, outside, seen, raced, edits>>

Next ==
    \/ \E c \in Calls : Call(c)
    \/ OutsideChange \/ Delete \/ Tick

Spec == Init /\ [][Next]_vars

(***************************************************************************)
(* Properties                                                              *)
(***************************************************************************)
Passages == Calls \cup Base \cup Outside

(* Every variable stays in its domain, stored times are in the past, and a *)
(* file that does not exist has no text.                                   *)
TypeOK ==
    /\ exists \in BOOLEAN /\ text \subseteq Passages /\ (~exists => text = {})
    /\ clock \in Nat /\ mtime \in 0..clock
    /\ cached \in NoEntry..mtime
    /\ pc \in [Calls -> {"start", "read", "record", "lookup", "compare", "load",
                         "truncate", "fill", "unlinked", "stat", "store", "done"}]
    /\ \A c \in Calls : pc[c] = "fill" => exists
    /\ info \in [Calls -> NoEntry..mtime]
    /\ data \in [Calls -> SUBSET Passages]
    /\ result \in [Calls -> {"none", "ok", "failed", "unread", "modified"}]
    /\ outside \subseteq Outside /\ seen \subseteq Passages
    /\ raced \in BOOLEAN /\ standing \subseteq Calls /\ overlapped \subseteq Calls

(* A change from outside that the clock can tell is not written over by a  *)
(* call unless ReadFile has read it for the model, however many calls run  *)
(* at once and however a slow read crosses them: "You MUST read existing   *)
(* files with ReadFile before overwriting them".                           *)
OverwritesOnlySeen ==
    ~raced =>
        \A c \in Calls : pc[c] = "truncate" => text \cap Outside \subseteq seen

(* Edits add up: what an edit has put into the file stays there through all*)
(* later edits, failures and changes from outside, until a call of         *)
(* WriteFile replaces the text, an edit replaces the passage, or an        *)
(* outsider removes it.  It may be missing while a call has truncated the  *)
(* file, and it is lost only beside a call that was changing the file at   *)
(* the same time: calls of one response take no turns.                     *)
EditsAddUp ==
    \A c \in standing :
        \/ c \in text
        \/ c \in overlapped
        \/ text = {} /\ \E d \in Calls : pc[d] = "fill"
=============================================================================
