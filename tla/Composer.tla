------------------------------- MODULE Composer -----------------------------
(***************************************************************************)
(* The composer of the terminal application: its keys, the completion of   *)
(* command names, the slash commands it executes, the history of prompts   *)
(* and the picker of sessions (cmd/cli/app.go, controller/state.go).       *)
(*                                                                         *)
(* What a run does is left out but for its beginning, its end and its      *)
(* cancellation; memory and compaction have modules of their own.          *)
(***************************************************************************)
EXTENDS Commands

CONSTANTS
    Typed,       \* the texts that may be typed
    Alphabet,    \* all names of commands in their order
    HasPrefix,   \* the names each word is a prefix of
    Dirs,        \* what the two directories may hold when they are read
    MaxSessions, MaxHistory, \* bounds on session objects and on prompts in one
    NoID

ASSUME ComposerAssumption ==
    /\ Alphabet \in Seq(Words)
    /\ Dirs \subseteq [user : Seq(Files), project : Seq(Files)]
    /\ MaxSessions \in Nat /\ MaxHistory \in Nat

VARIABLES
    dirs,        \* the directories as they were last read
    dynamic,     \* CommandRegistry.dynamic
    editor,      \* the text of the composer
    completion,  \* completionPrefix and completionSelected
    history, historyAt, draft,
    session,     \* Controller.session: the object, and its ID once it has one
    shown,       \* the session object whose messages are in the transcript
    disk,        \* IDs of the sessions that can be loaded
    resume,      \* resumeOpen, resumeSessions, resumeSelected
    run          \* Controller's run: "idle", "running" or "cancelling"

composer == <<dirs, dynamic, editor, completion, history, historyAt, draft, session,
              shown, disk, resume, run>>

(* A text of the composer: a prompt, "/word", or "/word arguments"; these  *)
(* are "" when there is only a space.                                      *)
None == [kind |-> "text", word |-> "", args |-> ""]
Prompt(p)         == [kind |-> "text", word |-> p, args |-> ""]
Slash(word)       == [kind |-> "slash", word |-> word, args |-> ""]
Full(word, args)  == [kind |-> "full", word |-> word, args |-> args]

NoCompletion == [prefix |-> "", selected |-> 0]

ComposerInit ==
    /\ dirs \in Dirs
    /\ dynamic = ReplaceDynamic(Load(dirs.user, dirs.project))
    /\ editor = None
    /\ completion = NoCompletion
    /\ history = <<>> /\ historyAt = -1 /\ draft = None
    /\ session = [obj |-> 1, id |-> NoID]
    /\ shown = 1
    /\ disk \in SUBSET {0}   \* there may be a session from before
    /\ resume = [open |-> FALSE, sessions |-> <<>>, selected |-> 0]
    /\ run = "idle"

commandVars == <<dirs, dynamic>>
historyVars == <<history, historyAt, draft>>
sessionVars == <<session, shown, disk>>

(***************************************************************************)
(* Where keys go.                                                          *)
(***************************************************************************)
(* The picker is modal; a run takes the composer's keys until its          *)
(* goroutine has ended.                                                    *)
ComposerEnabled == run = "idle" /\ ~resume.open

Type ==
    /\ ComposerEnabled
    /\ editor' \in Typed \ {editor}
    /\ UNCHANGED <<commandVars, completion, historyVars, sessionVars, resume, run>>

(* Control-C empties the composer. *)
Clear ==
    /\ ComposerEnabled
    /\ editor # None
    /\ editor' = None
    /\ UNCHANGED <<commandVars, completion, historyVars, sessionVars, resume, run>>

(***************************************************************************)
(* Completion of a command's name.                                         *)
(***************************************************************************)
Listed(word) ==
    LET names == {c.name : c \in Range(Listing(dynamic))}
        all   == Where(Alphabet, names \cap HasPrefix[word])
    IN  SubSeq(all, 1, IF Len(all) < 8 THEN Len(all) ELSE 8)

CompletionOpen == editor.kind = "slash" /\ Listed(editor.word) # <<>>

(* Fault: a shorter list keeps the selection of the one before. *)
CommandCompletionKept == completion

(* CommandCompletion, evaluated with every rendering and every key: a new  *)
(* prefix or a shorter list starts from the top.                           *)
CommandCompletion ==
    IF ~CompletionOpen THEN completion
    ELSE IF completion.prefix # editor.word THEN [prefix |-> editor.word, selected |-> 0]
    ELSE IF completion.selected >= Len(Listed(editor.word)) THEN [completion EXCEPT !.selected = 0]
    ELSE completion

MoveCompletion(delta) ==
    /\ ComposerEnabled /\ CompletionOpen
    /\ LET count == Len(Listed(editor.word))
       IN  completion' = [CommandCompletion EXCEPT !.selected = (@ + delta + count) % count]
    /\ UNCHANGED <<commandVars, editor, historyVars, sessionVars, resume, run>>

CompleteCommand ==
    /\ ComposerEnabled /\ CompletionOpen
    /\ editor' = Full(Listed(editor.word)[CommandCompletion.selected + 1], "")
    /\ completion' = NoCompletion
    /\ UNCHANGED <<commandVars, historyVars, sessionVars, resume, run>>

(***************************************************************************)
(* The history.                                                            *)
(***************************************************************************)
HistoryUp ==
    /\ ComposerEnabled
    /\ history # <<>> /\ historyAt > 0
    /\ draft' = IF historyAt = Len(history) THEN editor ELSE draft
    /\ historyAt' = historyAt - 1
    /\ editor' = history[historyAt].text
    /\ UNCHANGED <<commandVars, completion, history, sessionVars, resume, run>>

(* At the bottom the text that is being typed is lost. *)
HistoryDown ==
    /\ ComposerEnabled
    /\ \/ /\ historyAt >= Len(history)
          /\ editor' = None
          /\ UNCHANGED historyAt
       \/ /\ historyAt < Len(history)
          /\ historyAt' = historyAt + 1
          /\ editor' = IF historyAt' = Len(history) THEN draft ELSE history[historyAt' + 1].text
    /\ UNCHANGED <<commandVars, completion, history, draft, sessionVars, resume, run>>

(***************************************************************************)
(* Enter.                                                                  *)
(***************************************************************************)
(* ensureSession: a session without an ID tries to get one. *)
EnsureSession ==
    \/ UNCHANGED <<session, disk>>
    \/ /\ session.id = NoID
       /\ session' = [session EXCEPT !.id = session.obj]
       /\ disk' = disk \cup {session.obj}

(* StartSubmission.  The history has the prompt a command stands for, not  *)
(* the command.                                                            *)
StartSubmission(text) ==
    /\ Len(history) < MaxHistory
    /\ EnsureSession
    /\ history' = Append(history, [text |-> text, obj |-> session.obj])
    /\ historyAt' = Len(history')
    /\ draft' = None
    /\ run' = "running"
    /\ editor' = None
    /\ UNCHANGED <<commandVars, completion, shown, resume>>

ResetComposer == editor' = None /\ completion' = NoCompletion

(* Fault: the prompts of the session before stay. *)
ReplaceSessionWithHistory(id) ==
    /\ run # "running"
    /\ session.obj < MaxSessions
    /\ session' = [obj |-> session.obj + 1, id |-> id]
    /\ shown' = session.obj + 1
    /\ UNCHANGED historyVars

ReplaceSession(id) ==
    /\ run # "running"
    /\ session.obj < MaxSessions
    /\ session' = [obj |-> session.obj + 1, id |-> id]
    /\ shown' = session.obj + 1
    /\ history' = <<>> /\ historyAt' = -1 /\ draft' = None

Unreplaced == UNCHANGED <<session, shown, historyVars>>

(* Store.Load: the ID, or the beginning of one ID and of no other. *)
Resume(matching) ==
    \/ \E id \in matching : matching = {id} /\ ReplaceSession(id)
    \/ Cardinality(matching) # 1 /\ Unreplaced

(* openResume: the sessions of the directory by the time of their files,   *)
(* which is any order here.                                                *)
OpenResume ==
    IF disk = {} THEN UNCHANGED resume
    ELSE \E items \in [1 .. Cardinality(disk) -> disk] :
            /\ Range(items) = disk
            /\ resume' = [open |-> TRUE, sessions |-> items, selected |-> 0]

Reload ==
    /\ dirs' \in Dirs
    /\ dynamic' = ReplaceDynamic(Load(dirs'.user, dirs'.project))

(* executeLocal: what the other commands do is not in this module. *)
ExecuteLocal(name, args) ==
    CASE name = "new" \/ (name = "session" /\ args = "new") ->
           ReplaceSession(NoID) /\ UNCHANGED <<commandVars, resume>>
      [] name = "resume" /\ args = "" -> OpenResume /\ Unreplaced /\ UNCHANGED commandVars
      [] name = "resume" /\ args # "" ->
           /\ \E matching \in SUBSET disk : Resume(matching)
           /\ UNCHANGED <<commandVars, resume>>
      [] name = "commands" /\ args = "reload" -> Reload /\ Unreplaced /\ UNCHANGED resume
      [] OTHER -> Unreplaced /\ UNCHANGED <<commandVars, resume>>

(* An unknown command, or one that wants arguments and has none, leaves    *)
(* only a notice.                                                          *)
Refused(word, args) ==
    \/ ~Known(dynamic, word)
    \/ Find(dynamic, word).hint /\ args = ""

Submit ==
    /\ ComposerEnabled /\ ~CompletionOpen
    /\ editor # None
    /\ IF editor.kind = "text" THEN StartSubmission(editor)
       ELSE IF Refused(editor.word, editor.args)
       THEN /\ ResetComposer
            /\ UNCHANGED <<commandVars, historyVars, sessionVars, resume, run>>
       ELSE LET c == Find(dynamic, editor.word)
            IN  \/ c.kind = "prompt" /\ StartSubmission(Prompt(c.name))
                \/ /\ c.kind = "local"
                   /\ ExecuteLocal(c.name, editor.args)
                   /\ ResetComposer
                   /\ UNCHANGED <<disk, run>>

(***************************************************************************)
(* The picker, the run, and other processes in the same directory.         *)
(***************************************************************************)
MoveResume(delta) ==
    /\ resume.open
    /\ resume' = [resume EXCEPT !.selected =
                    (@ + delta + Len(resume.sessions)) % Len(resume.sessions)]
    /\ UNCHANGED <<commandVars, editor, completion, historyVars, sessionVars, run>>

ConfirmResume ==
    /\ resume.open
    /\ resume' = [resume EXCEPT !.open = FALSE]
    /\ LET id == resume.sessions[resume.selected + 1]
       IN  \/ id \in disk /\ ReplaceSession(id) /\ ResetComposer
           \/ id \notin disk /\ Unreplaced /\ UNCHANGED <<editor, completion>>
    /\ UNCHANGED <<commandVars, disk, run>>

CancelResume ==
    /\ resume.open
    /\ resume' = [resume EXCEPT !.open = FALSE]
    /\ UNCHANGED <<commandVars, editor, completion, historyVars, sessionVars, run>>

(* The run is over: its last event has reached the UI. *)
RunEnds ==
    /\ run \in {"running", "cancelling"}
    /\ run' = "idle"
    /\ UNCHANGED <<commandVars, editor, completion, historyVars, sessionVars, resume>>

Cancel ==
    /\ run = "running"
    /\ run' = "cancelling"
    /\ UNCHANGED <<commandVars, editor, completion, historyVars, sessionVars, resume>>

SessionRemoved ==
    /\ \E id \in disk : disk' = disk \ {id}
    /\ UNCHANGED <<commandVars, editor, completion, historyVars, session, shown, resume, run>>

ComposerNext ==
    \/ Type \/ Clear
    \/ (\E d \in {-1, 1} : MoveCompletion(d)) \/ CompleteCommand
    \/ HistoryUp \/ HistoryDown
    \/ Submit
    \/ (\E d \in {-1, 1} : MoveResume(d)) \/ ConfirmResume \/ CancelResume
    \/ RunEnds \/ Cancel \/ SessionRemoved

ComposerSpec == ComposerInit /\ [][ComposerNext]_composer

(***************************************************************************)
(* Properties.                                                             *)
(***************************************************************************)
(* Every loaded command in the registry is the one its name and each of    *)
(* its aliases find: it shares none with a built-in one or with another,   *)
(* whatever was loaded and reloaded.  A command of the user is there only   *)
(* where the project has none of the name, unless the user has two.        *)
CommandsResolve ==
    \A c \in Range(dynamic) :
        /\ \A key \in Keys(c) : Find(dynamic, key) = c
        /\ LET named(dir) == {i \in DOMAIN dir : dir[i].ok /\ Lower[dir[i].name] = c.name}
           IN  c.source = "user" /\ Cardinality(named(dirs.user)) = 1
               => named(dirs.project) = {}

(* The transcript, the prompts the history recalls and the session that    *)
(* the next prompt goes to are one conversation, whatever was resumed.     *)
OneConversation ==
    /\ shown = session.obj
    /\ \A i \in DOMAIN history : history[i].obj = session.obj
    /\ historyAt \in -1 .. Len(history)

(* The marked entry is one of the list, for the picker and the completion, *)
(* also when the list has become shorter since it was marked.              *)
SelectionsFit ==
    /\ resume.open => resume.selected + 1 \in DOMAIN resume.sessions
    /\ CompletionOpen => CommandCompletion.selected + 1 \in DOMAIN Listed(editor.word)
=============================================================================
