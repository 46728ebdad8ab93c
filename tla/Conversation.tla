---------------------------- MODULE Conversation ----------------------------
(***************************************************************************)
(* One conversation: the session ledger driven by the calls that the       *)
(* controller and the agent loop make, in their order, with manual         *)
(* compaction while idle, with the deferred calls of runs that have ended  *)
(* coming late, and with the process dying at any point between two calls  *)
(* and the session being loaded from its log again.                        *)
(***************************************************************************)
EXTENDS Compaction

CONSTANTS
    Calls,        \* tool-call IDs the model may use in one assistant message
    Outputs,      \* the texts tools return, each a sequence of pieces
    Writes,       \* the outcomes of making the session directory, a set of BOOLEAN
    Tears,        \* what a crash may do to the last line of the log
    MaxMessages,  \* bound on message sequence numbers
    MaxDeltas,    \* bound on text deltas in one message
    MaxThoughts,  \* bound on thinking deltas in one message
    MaxLate,      \* bound on deferred calls still to come
    MaxRestarts   \* bound on loads of the session from its log

ASSUME ConversationAssumption ==
    /\ Writes \subseteq BOOLEAN
    /\ Tears \subseteq {"intact", "lost", "partial", "noNewline"}
    /\ MaxMessages \in Nat /\ MaxRestarts \in Nat
    /\ MaxDeltas \in Nat /\ MaxThoughts \in Nat /\ MaxLate \in Nat
    /\ \A output \in Outputs : output \in Seq(Range(output))

VARIABLES
    s,         \* the session in memory, and its log on disk
    phase,     \* where the agent loop is
    pending,   \* calls whose results are still to be stored, in order
    late,      \* deferred calls still to come of runs the UI has seen ending
    restarts   \* loads so far

(* History, read by the properties alone. *)
VARIABLES
    closedEarly,  \* messages a deferred call closed while another run wrote them
    leftOut       \* messages a compaction left out because they were open

history == <<closedEarly, leftOut>>

vars == <<s, phase, pending, late, restarts, closedEarly, leftOut>>

Init ==
    /\ s = AddSystemMessage(New)
    /\ phase = "idle"
    /\ pending = <<>>
    /\ late = 0
    /\ restarts = 0
    /\ closedEarly = {}
    /\ leftOut = {}

(* The user submits a prompt: ensureSession, then StartSubmission, which   *)
(* adds the prompt and, with a call of its own, the message of the answer. *)
Submit ==
    /\ phase = "idle"
    /\ s.msgSeq + 2 <= MaxMessages
    /\ \E writable \in Writes :
          s' = AddUserMessage(ConfigurePersistence(s, writable))
    /\ phase' = "asked"
    /\ UNCHANGED <<pending, late, restarts, history>>

StartAnswer ==
    /\ phase = "asked"
    /\ s' = StartAssistantMessage(s)
    /\ phase' = "stream"
    /\ UNCHANGED <<pending, late, restarts, history>>

(* The deltas of a response, as the agent's collector passes them on. *)
VisitMessage ==
    /\ phase = "stream"
    /\ Len(Last(s.messages).content) < MaxDeltas
    /\ s' = AppendDelta(s, "text")
    /\ UNCHANGED <<phase, pending, late, restarts, history>>

VisitThinkingStart ==
    /\ phase = "stream"
    /\ MaxThoughts > 0
    /\ s' = SetThinkingSignature(s)
    /\ UNCHANGED <<phase, pending, late, restarts, history>>

VisitThinking ==
    /\ phase = "stream"
    /\ Len(Last(s.messages).thinking) < MaxThoughts
    /\ s' = AppendThinkingDelta(s, "thought")
    /\ UNCHANGED <<phase, pending, late, restarts, history>>

CallIDs(m) == [i \in DOMAIN m.calls |-> m.calls[i].id]

VisitToolCallStart ==
    /\ phase = "stream"
    /\ \E call \in Calls \ Range(CallIDs(Last(s.messages))) :
          s' = AddToolCallToAssistant(s, call)
    /\ UNCHANGED <<phase, pending, late, restarts, history>>

(* Fault: the loop leaves the message of a tool round open. *)
StopForToolsOpen ==
    /\ phase = "stream"
    /\ phase' = "stopped"
    /\ UNCHANGED <<s, pending, late, restarts, history>>

(* The model stops for its tools: the loop finishes the message at once,   *)
(* and goes on reading until the stream is closed.                         *)
StopForTools ==
    /\ phase = "stream"
    /\ s' = FinishAssistantMessage(s)
    /\ phase' = "stopped"
    /\ UNCHANGED <<pending, late, restarts, history>>

UpdateToolCallInputs(session, calls) ==
    LET updated[n \in 0 .. Len(calls)] ==
            IF n = 0 THEN session ELSE UpdateToolCallInput(updated[n - 1], calls[n])
    IN  updated[Len(calls)]

(* The stream is closed: every call gets its input, then all are submitted *)
(* to the executor, which returns their results in submission order.       *)
DispatchTools ==
    /\ phase = "stopped"
    /\ s' = UpdateToolCallInputs(s, CallIDs(Last(s.messages)))
    /\ pending' = CallIDs(Last(s.messages))
    /\ phase' = "tools"
    /\ UNCHANGED <<late, restarts, history>>

(* Fault: results are stored last call first. *)
StoreResultReversed ==
    /\ phase = "tools"
    /\ pending # <<>>
    /\ s.msgSeq < MaxMessages
    /\ \E output \in Outputs :
          s' = AddToolResultMessage(s, Last(pending), output)
    /\ pending' = Front(pending)
    /\ UNCHANGED <<phase, late, restarts, history>>

StoreResult ==
    /\ phase = "tools"
    /\ pending # <<>>
    /\ s.msgSeq < MaxMessages
    /\ \E output \in Outputs :
          s' = AddToolResultMessage(s, Head(pending), output)
    /\ pending' = Tail(pending)
    /\ UNCHANGED <<phase, late, restarts, history>>

NextIteration ==
    /\ phase = "tools"
    /\ pending = <<>>
    /\ s.msgSeq < MaxMessages
    /\ s' = StartAssistantMessage(s)
    /\ phase' = "stream"
    /\ UNCHANGED <<pending, late, restarts, history>>

(* The model has answered: the loop finishes the message and tells the UI. *)
(* As at every end of a run but a cancelled one, the UI may go on before   *)
(* the deferred call of the run has come.                                  *)
LoopCompletes ==
    /\ phase = "stream"
    /\ late < MaxLate
    /\ s' = FinishAssistantMessage(s)
    /\ phase' = "idle"
    /\ late' = late + 1
    /\ UNCHANGED <<pending, restarts, history>>

(* The stream, a limit or the preparation of a request has failed: the UI  *)
(* is told, and the message is left to the deferred call.                  *)
RunFails ==
    /\ phase \in {"stream", "stopped"}
    /\ late < MaxLate
    /\ phase' = "idle"
    /\ late' = late + 1
    /\ UNCHANGED <<s, pending, restarts, history>>

(* The user has cancelled: the composer stays closed until the deferred    *)
(* call of the run has finished the message.                               *)
RunCancelled ==
    /\ phase \in {"stream", "stopped"}
    /\ s' = FinishAssistantMessage(s)
    /\ phase' = "idle"
    /\ UNCHANGED <<pending, late, restarts, history>>

(* The deferred call of a run the UI has seen ending: it finishes whatever *)
(* message is the last one now, be it that of a newer run.                 *)
DeferredFinish ==
    /\ late > 0
    /\ s' = FinishAssistantMessage(s)
    /\ late' = late - 1
    /\ closedEarly' = IF phase = "stream" /\ Last(s.messages).streaming
                      THEN closedEarly \union {Last(s.messages).seq} ELSE closedEarly
    /\ UNCHANGED <<phase, pending, restarts, leftOut>>

(* /compact, while no run is going on.  A deferred call that comes while   *)
(* the summary is written leaves what one that comes after it leaves, with *)
(* the two lines of the log the other way round.                           *)
Compact ==
    /\ phase = "idle"
    /\ DidCompact(ProviderMessages(s))
    /\ s' = ReplaceProviderMessages(s, Compacted(ProviderMessages(s)))
    /\ leftOut' = leftOut \union {m.seq : m \in {n \in Range(s.messages) : n.streaming}}
    /\ UNCHANGED <<phase, pending, late, restarts, closedEarly>>

(* The log as a crash leaves it.  Records are written without syncing, so  *)
(* the last line may be missing, cut, or whole but without its newline.    *)
Torn(tear) ==
    CASE tear = "lost"      -> <<Front(s.log), TRUE>>
      [] tear = "partial"   -> <<Front(s.log) \o <<Unreadable>>, FALSE>>
      [] tear = "noNewline" -> <<s.log, FALSE>>
      [] OTHER              -> <<s.log, s.eol>>

(* The process dies and a new one loads the session; "intact" in the idle  *)
(* phase is also /resume within one process, where deferred calls may still*)
(* come to the loaded session, or have gone to another one before.         *)
Restart ==
    /\ restarts < MaxRestarts
    /\ s.persisted
    /\ \E tear \in Tears :
          /\ tear # "intact" => s.eol /\ Len(s.log) > 1
          /\ s' = Load(Torn(tear)[1], Torn(tear)[2])
          /\ late' \in IF tear = "intact" /\ phase = "idle" THEN 0 .. late ELSE {0}
    /\ phase' = "idle"
    /\ pending' = <<>>
    /\ restarts' = restarts + 1
    /\ UNCHANGED history

Next ==
    \/ Submit \/ StartAnswer
    \/ VisitMessage \/ VisitThinkingStart \/ VisitThinking
    \/ VisitToolCallStart \/ StopForTools
    \/ DispatchTools \/ StoreResult \/ NextIteration
    \/ LoopCompletes \/ RunFails \/ RunCancelled \/ DeferredFinish
    \/ Compact
    \/ Restart

Spec == Init /\ [][Next]_vars

-----------------------------------------------------------------------------
(* Properties.                                                             *)

(* Message IDs are given out in order and never twice, also after a load   *)
(* has rebuilt the counter from the log: a repeated ID would overwrite an  *)
(* older message at the next load.                                         *)
IDsIncrease ==
    /\ \A i, j \in DOMAIN s.messages :
          i < j => s.messages[i].seq < s.messages[j].seq
    /\ s.messages # <<>> => Last(s.messages).seq = s.msgSeq

Reloaded == Load(s.log, s.eol)

(* Whatever the ledger has finished is on disk: loading the log now would  *)
(* give the same messages in the same order, each finished one with its    *)
(* final text, calls and inputs.  Only of a message that the deferred call *)
(* of an older run closed early may calls be missing, and a signature.     *)
LedgerIsDurable ==
    s.persisted =>
        /\ Len(Reloaded.messages) = Len(s.messages)
        /\ \A i \in DOMAIN s.messages :
              LET stored == Reloaded.messages[i]
                  m      == s.messages[i]
              IN  /\ SameID(stored, m)
                  /\ \/ m.streaming
                     \/ stored = m
                     \/ /\ m.seq \in closedEarly
                        /\ stored = [m EXCEPT !.calls = stored.calls,
                                              !.signed = stored.signed]

(* What the view may make of a message: all of it, or a preview of it. *)
Shows(n, m) ==
    /\ SameID(n, m)
    /\ n.content \in {m.content, Preview(m).content}
    /\ n.thinking = m.thinking
    /\ n.streaming = m.streaming
    /\ CallIDs(n) = CallIDs(m)

Viewed(m) == \E n \in Range(s.provider) : SameID(n, m)

(* In the process that began the conversation, once there is a provider    *)
(* view it follows the ledger: what it holds beside instructions are       *)
(* messages of the ledger in their order, with their text, or its preview  *)
(* where a large tool result has been compacted; and after the first of    *)
(* them it lacks none, but those a compaction found open.  (LoadKeepsRequest*)
(* says what a load makes of it.)                                          *)
ViewFollowsLedger ==
    s.provider # <<>> /\ restarts = 0 =>
        /\ \A i, j \in DOMAIN s.provider :
              i < j /\ ~IsSystem(s.provider[i]) /\ ~IsSystem(s.provider[j]) =>
                  s.provider[i].seq < s.provider[j].seq
        /\ \A n \in Range(s.provider) :
              IsSystem(n) \/ \E m \in Range(s.messages) : Shows(n, m)
        /\ \A n \in Range(s.provider), m \in Range(s.messages) :
              ~IsSystem(n) /\ m.seq > n.seq => Viewed(m) \/ m.seq \in leftOut
        /\ ~IsSystem(Last(s.provider))

(* "System instructions are always re-injected rather than summarized"     *)
(* (context.go:214-215): no compaction, however many came before, leaves a *)
(* system message of the ledger out of the view.                           *)
SystemsReinjected ==
    \A m \in Range(s.messages) :
        IsSystem(m) => \E n \in Range(ProviderMessages(s)) : SameID(m, n)

(* When the model is asked to go on after a tool round, every call of the  *)
(* round has exactly one result, in the order of the calls and right after *)
(* them, in what the model sees.                                           *)
RoundIsAnswered ==
    LET seen == ChatMessagesToLLM(ProviderMessages(s))
    IN  phase = "stream" /\ Last(seen).role = "tool" =>
            \E i \in DOMAIN seen :
                /\ seen[i].role = "assistant"
                /\ [j \in 1 .. Len(seen) - i |-> seen[i + j].answers]
                       = CallIDs(seen[i])

(* A message that stays open is invisible to the model for ever.  That can *)
(* happen only to the last one of a run that failed and was overtaken by   *)
(* the next prompt: every other open message is the one being written, or  *)
(* the deferred call that closes it is still to come.  So no message of a  *)
(* tool round, nor of a run that ended well, is ever hidden.               *)
OpenEndsItsTurn ==
    restarts = 0 =>
        \A i \in DOMAIN s.messages :
            s.messages[i].streaming =>
                IF i = Len(s.messages)
                THEN phase = "stream" \/ (phase = "idle" /\ late > 0)
                ELSE s.messages[i + 1].role = "user"

(* The ledger only grows at its end: a call changes the last message or    *)
(* adds messages, and never touches the ones before.                       *)
LedgerGrowsAtEnd ==
    [][restarts' = restarts =>
          /\ Len(s'.messages) >= Len(s.messages)
          /\ \A i \in 1 .. Len(s.messages) - 1 : s'.messages[i] = s.messages[i]]_vars

(* "Load rebuilds the latest message state from an append-only session     *)
(* JSONL file" (session.go:43): a resumed session asks the model with the  *)
(* messages the session that wrote the log would have asked with.  (What an*)
(* early close costs the log is in LedgerIsDurable.)                       *)
LoadKeepsRequest ==
    s.persisted /\ phase = "idle" /\ closedEarly = {} =>
        ChatMessagesToLLM(ProviderMessages(Reloaded))
            = ChatMessagesToLLM(ProviderMessages(s))

=============================================================================
