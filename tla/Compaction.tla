----------------------------- MODULE Compaction -----------------------------
(***************************************************************************)
(* The compaction of internal/svc/context.go, as operators on sequences of *)
(* messages: a provider view is split into system instructions and turns   *)
(* started by the user, the oldest turns are replaced by one summary, the  *)
(* most recent ones are kept, with previews of tool results that are large.*)
(***************************************************************************)
EXTENDS Session, Selection, FiniteSets

CONSTANTS
    RetainedTurns,    \* the code's contextRetainedTurns, 3
    ToolResultLimit   \* what a tool result may hold, toolResultTokenLimit * 3 bytes

ASSUME CompactionAssumption ==
    RetainedTurns \in Nat \ {0} /\ ToolResultLimit \in Nat

(* The summary is a system message with an ID no ledger message has. *)
Summary == Message(0, "system", <<"summary">>, NoCall, FALSE)

IsSystem(m) == m.role = "system"

Settled(messages) == Where(messages, {m \in Range(messages) : ~m.streaming})

Systems(messages) ==
    Where(messages, {m \in Range(messages) : ~m.streaming /\ IsSystem(m)})

Exchange(messages) ==
    Where(messages, {m \in Range(messages) : ~m.streaming /\ ~IsSystem(m)})

(* Where the turns of an exchange begin: at its first message and at every *)
(* user message.                                                           *)
TurnStarts(exchange) ==
    {i \in DOMAIN exchange : i = 1 \/ exchange[i].role = "user"}

(* The first message of the RetainedTurns last turns. *)
KeepStart(exchange) ==
    CHOOSE i \in TurnStarts(exchange) :
        Cardinality({j \in TurnStarts(exchange) : j >= i}) = RetainedTurns

DidCompact(messages) ==
    Cardinality(TurnStarts(Exchange(messages))) > RetainedTurns

(* A tool result over the limit is cut there, and a note of the cut follows*)
(* it.  A preview is over the limit, so it is cut again by the next one;   *)
(* only the number of bytes in its note changes, which is left out.        *)
Oversized(m) == m.role = "tool" /\ Len(m.content) > ToolResultLimit

Preview(m) ==
    IF Oversized(m)
    THEN [m EXCEPT !.content = SubSeq(@, 1, ToolResultLimit) \o <<"truncated">>]
    ELSE m

previewToolOutputs(messages) == [i \in DOMAIN messages |-> Preview(messages[i])]

(* Fault: system instructions are summarized with the rest. *)
CompactedWithSystems(messages) ==
    LET exchange == Exchange(messages)
        keep     == SubSeq(exchange, KeepStart(exchange), Len(exchange))
    IN  <<Summary>> \o previewToolOutputs(keep)

(* The code cuts the tool results first; a cut moves no message.           *)
Compacted(messages) ==
    LET exchange == Exchange(messages)
        keep     == SubSeq(exchange, KeepStart(exchange), Len(exchange))
    IN  Systems(messages) \o <<Summary>> \o previewToolOutputs(keep)

(* What reaches the model: ChatMessagesToLLM of internal/svc/convert.go    *)
(* leaves streaming messages out.                                          *)
ChatMessagesToLLM(messages) == Settled(messages)
=============================================================================
