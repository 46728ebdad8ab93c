------------------------------ MODULE Session ------------------------------
(***************************************************************************)
(* The session ledger of internal/infra/session/session.go, as operators   *)
(* on a session value.  Every method of the code holds the session's mutex *)
(* from its first line to its last, so each is one operator from the value *)
(* before the call to the value after it.                                  *)
(*                                                                         *)
(* A session value is a record with the fields                             *)
(*   messages   the ledger, what the transcript shows and the log stores   *)
(*   provider   the model-visible view; while empty the ledger stands in   *)
(*   msgSeq     the counter message IDs are made from                      *)
(*   persisted  the code's logPath # ""                                    *)
(*   log        the JSONL file, one element per line                       *)
(*   eol        the file ends with a newline                               *)
(*                                                                         *)
(* A message ID in the code is a prefix for the role and a sequence number,*)
(* here the pair (role, seq).  Text is a sequence of deltas.  A tool call  *)
(* keeps its ID and whether its input has been filled in.                  *)
(***************************************************************************)
EXTENDS Naturals, Sequences, SequencesExt

Roles == {"system", "user", "assistant", "tool"}

(* A message as the Add* and Start methods create it. *)
Message(seq, role, content, call, streaming) ==
    [seq |-> seq, role |-> role, content |-> content, thinking |-> <<>>,
     signed |-> FALSE, calls |-> <<>>, answers |-> call,
     streaming |-> streaming]

(* The ToolCallID of a message that answers no call: the code's "". *)
NoCall == ""

SameID(m, n) == m.role = n.role /\ m.seq = n.seq

SetLast(q, m) == [q EXCEPT ![Len(q)] = m]

New == [messages |-> <<>>, provider |-> <<>>, msgSeq |-> 0,
        persisted |-> FALSE, log |-> <<>>, eol |-> TRUE]

(***************************************************************************)
(* The log.  A line is a message checkpoint, a provider context, or bytes  *)
(* that do not parse.  The code appends record and newline in one write;   *)
(* when an earlier write was cut short and left no newline, the new record *)
(* continues that line, and the line no longer parses.                     *)
(***************************************************************************)
MessageRecord(m) == [kind |-> "message", message |-> m]
ContextRecord(p) == [kind |-> "provider_context", provider |-> p]
Unreadable       == [kind |-> "unreadable"]

Write(s, record) ==
    IF ~s.persisted THEN s
    ELSE [s EXCEPT !.log = IF s.eol THEN Append(@, record)
                                    ELSE SetLast(@, Unreadable),
                   !.eol = TRUE]

persistLocked(s, m)    == Write(s, MessageRecord(m))
persistContextLocked(s) == Write(s, ContextRecord(s.provider))

(***************************************************************************)
(* The methods.  A definition introduced as a fault is a method with a     *)
(* mistake in it; it is used only to see that the properties notice.       *)
(***************************************************************************)

(* Fault: the provider view is forgotten. *)
AddMessageLedgerOnly(s, role, content, call, streaming) ==
    LET msg == Message(s.msgSeq + 1, role, content, call, streaming)
    IN  persistLocked([s EXCEPT !.msgSeq = @ + 1,
                                !.messages = Append(@, msg)], msg)

AddMessage(s, role, content, call, streaming) ==
    LET msg == Message(s.msgSeq + 1, role, content, call, streaming)
    IN  persistLocked(
            [s EXCEPT !.msgSeq = @ + 1,
                      !.messages = Append(@, msg),
                      !.provider = IF @ = <<>> THEN @ ELSE Append(@, msg)],
            msg)

AddSystemMessage(s) == AddMessage(s, "system", <<>>, NoCall, FALSE)

AddUserMessage(s) == AddMessage(s, "user", <<>>, NoCall, FALSE)

StartAssistantMessage(s) == AddMessage(s, "assistant", <<>>, NoCall, TRUE)

AddToolResultMessage(s, call, output) == AddMessage(s, "tool", output, call, FALSE)

(* Deltas go to the last message while it streams, and to the last message *)
(* of the provider view while that one does.  Neither is persisted.        *)
LastStreams(q) == q # <<>> /\ Last(q).streaming

(* The last message is replaced, and the view's last one where it follows. *)
Amend(s, copied, message, copy) ==
    [s EXCEPT !.messages = SetLast(s.messages, message),
              !.provider = IF copied THEN SetLast(s.provider, copy) ELSE s.provider]

WithDelta(m, delta)   == [m EXCEPT !.content = Append(@, delta)]
WithThought(m, delta) == [m EXCEPT !.thinking = Append(@, delta)]
WithToolCall(m, call) == [m EXCEPT !.calls = Append(@, [id |-> call, input |-> FALSE])]
Completed(m)          == [m EXCEPT !.streaming = FALSE]

AppendDelta(s, delta) ==
    IF ~LastStreams(s.messages) THEN s
    ELSE Amend(s, LastStreams(s.provider),
               WithDelta(Last(s.messages), delta), WithDelta(Last(s.provider), delta))

AppendThinkingDelta(s, delta) ==
    IF ~LastStreams(s.messages) THEN s
    ELSE Amend(s, LastStreams(s.provider),
               WithThought(Last(s.messages), delta), WithThought(Last(s.provider), delta))

(* The last message of the provider view is the ledger's last message. *)
Mirrored(s) == s.provider # <<>> /\ SameID(Last(s.provider), Last(s.messages))

(* Fault: the finished message is not written. *)
FinishAssistantMessageUnsaved(s) ==
    IF ~LastStreams(s.messages) THEN s
    ELSE Amend(s, FALSE, Completed(Last(s.messages)), Completed(Last(s.messages)))

FinishAssistantMessage(s) ==
    IF ~LastStreams(s.messages) THEN s
    ELSE persistLocked(
            Amend(s, Mirrored(s), Completed(Last(s.messages)), Completed(Last(s.provider))),
            Completed(Last(s.messages)))

AddToolCallToAssistant(s, call) ==
    IF s.messages = <<>> THEN s
    ELSE Amend(s, Mirrored(s),
               WithToolCall(Last(s.messages), call), WithToolCall(Last(s.provider), call))

(* Written to the ledger alone: the provider view keeps its copy as it was,*)
(* and the log sees the signature with the next checkpoint.                *)
SetThinkingSignature(s) ==
    IF s.messages = <<>> THEN s
    ELSE Amend(s, FALSE, [Last(s.messages) EXCEPT !.signed = TRUE], Last(s.messages))

(* The first call of the last message with that ID gets its input; again   *)
(* the provider view is not touched.                                       *)
UpdateToolCallInput(s, call) ==
    LET m       == Last(s.messages)
        matches == {i \in DOMAIN m.calls : m.calls[i].id = call}
        first   == CHOOSE i \in matches : \A j \in matches : i <= j
        updated == [m EXCEPT !.calls[first].input = TRUE]
    IN  IF s.messages = <<>> \/ matches = {} THEN s
        ELSE persistLocked(Amend(s, FALSE, updated, updated), updated)

ProviderMessages(s) == IF s.provider = <<>> THEN s.messages ELSE s.provider

(* Fault: the ledger is compacted with the view. *)
ReplaceAllMessages(s, messages) ==
    persistContextLocked([s EXCEPT !.provider = messages,
                                   !.messages = messages])

ReplaceProviderMessages(s, messages) ==
    persistContextLocked([s EXCEPT !.provider = messages])

(***************************************************************************)
(* Persistence is turned on once, and the messages so far are written      *)
(* then; `writable` is whether the directory could be created.             *)
(***************************************************************************)
ConfigurePersistence(s, writable) ==
    IF s.persisted \/ ~writable THEN s
    ELSE [s EXCEPT !.persisted = TRUE,
                   !.log = @ \o [i \in DOMAIN s.messages |-> MessageRecord(s.messages[i])]]

(* Fault: the counter is not rebuilt. *)
ReplayForgettingIDs(s, record) ==
    CASE record.kind = "provider_context" ->
            [s EXCEPT !.provider = record.provider]
      [] record.kind = "message" ->
            LET known == {i \in DOMAIN s.messages :
                             SameID(s.messages[i], record.message)}
            IN  IF known = {}
                THEN [s EXCEPT !.messages = Append(@, record.message)]
                ELSE [s EXCEPT !.messages[CHOOSE i \in known : TRUE] =
                                    record.message]
      [] OTHER -> s

(***************************************************************************)
(* Load replays the log.  A message record replaces the message of its ID  *)
(* in place, or is appended; a provider context replaces the view; message *)
(* records after it do not reach the view.  Lines that do not parse are    *)
(* skipped.                                                                *)
(***************************************************************************)
Replay(s, record) ==
    CASE record.kind = "provider_context" ->
            [s EXCEPT !.provider = record.provider]
      [] record.kind = "message" ->
            LET known == {i \in DOMAIN s.messages :
                             SameID(s.messages[i], record.message)}
            IN  [s EXCEPT
                   !.messages =
                       IF known = {} THEN Append(@, record.message)
                       ELSE [@ EXCEPT ![CHOOSE i \in known : TRUE] =
                                           record.message],
                   !.msgSeq = IF record.message.seq > @
                              THEN record.message.seq ELSE @]
      [] OTHER -> s

Replayed(log) ==
    LET replayed[n \in 0 .. Len(log)] ==
            IF n = 0 THEN New ELSE Replay(replayed[n - 1], log[n])
    IN  replayed[Len(log)]

Load(log, eol) ==
    [Replayed(log) EXCEPT
        !.persisted = TRUE, !.log = log, !.eol = eol]
=============================================================================
