---------------------------- MODULE ModelRequest ----------------------------
(***************************************************************************)
(* One request to the model: Prepare (internal/svc/context.go) fits the    *)
(* conversation into the budget, with a summary by the model where it is   *)
(* too long; a driver's goroutine (pkg/llm/anthropic/messages/messages.go, *)
(* pkg/llm/openai/chat/completions.go) turns the events of the provider    *)
(* into deltas on one channel and an error on another; the summary, or     *)
(* the agent loop (internal/svc/agent.go), reads both.                     *)
(*                                                                         *)
(* A provider may end its stream anywhere, with an error or without one.   *)
(***************************************************************************)
EXTENDS Selection, FiniteSets, Functions

CONSTANTS
    Calls,       \* IDs of tool calls
    Scripts,     \* responses by protocol, sequences of the provider's events
    ChanCapacity,   \* the room in the channel of deltas, 64 in the code
    Configs,     \* context limits of configuration files
    Estimates,   \* estimates of a view's tokens
    Turns        \* numbers of turns in a conversation

(* What is of no interest here, and the finish reason of most chunks. *)
Nothing == ""

(* What the providers send, see AnthropicDeltas and OpenAIDeltas. *)
Texts  == {"text", Nothing}
Events == [kind : {"text", "start", "input", "usage"}, call : Calls \cup {Nothing}]
Pieces == [index : Nat, call : Calls, first : BOOLEAN, args : BOOLEAN]
Chunks == [text : Texts, pieces : Seq(Pieces), finish : STRING, usage : BOOLEAN]

(* What an event says of tool calls: that there is one, or some of the      *)
(* input of one.                                                           *)
PartsOf(p, e) ==
    CASE p = "openai" -> e.pieces
      [] p = "anthropic" /\ e.kind \in {"start", "input"} ->
           <<[call |-> e.call, first |-> e.kind = "start", args |-> e.kind = "input"]>>
      [] OTHER -> <<>>

(* The parts in the first n events of a response, for each n. *)
Parts(p, s) == Joins([i \in DOMAIN s |-> PartsOf(p, s[i])])

(* How many calls there are up to the nth part. *)
Place(parts, n) == Cardinality({m \in 1 .. n : parts[m].first})

(* The call a part is of, as the protocol tells: by its index, or the one  *)
(* that was begun last.                                                    *)
Slot(p, parts, n) == IF p = "openai" THEN parts[n].index + 1 ELSE Place(parts, n)

(* Calls are numbered as they are begun, each is begun once, and what is   *)
(* said of one comes after that.                                           *)
WellFormed(p, parts) ==
    \A n \in DOMAIN parts :
        /\ parts[n].first => \A m \in 1 .. n - 1 : parts[m].first => parts[m].call # parts[n].call
        /\ \E m \in 1 .. n : /\ parts[m].first /\ parts[m].call = parts[n].call
                             /\ Place(parts, m) = Slot(p, parts, n)

ASSUME ModelRequestAssumption ==
    /\ DOMAIN Scripts \subseteq {"anthropic", "openai"}
    /\ \A p \in DOMAIN Scripts :
          Scripts[p] \subseteq Seq(IF p = "anthropic" THEN Events ELSE Chunks)
    /\ ChanCapacity \in Nat
    /\ Configs \subseteq [windowTokens : Int, maxOutputTokens : Int]
    /\ Estimates \subseteq Nat /\ Turns \subseteq Nat

(* What the providers promise of a response: well-formed parts, and of     *)
(* OpenAI's that it ends for the sake of calls exactly if it has some.     *)
ASSUME ResponsesAssumption ==
    \A p \in DOMAIN Scripts : \A s \in Scripts[p] :
        LET parts == Parts(p, s)[Len(s)]
        IN  /\ WellFormed(p, parts)
            /\ p = "openai" => ((\E i \in DOMAIN s : s[i].finish = "tool_calls")
                                <=> \E n \in DOMAIN parts : parts[n].first)

VARIABLES
    protocol,    \* which driver NewDriver made
    config,      \* the context limits that are configured
    estimate,    \* EstimatedInputTokens of the messages to be sent
    phase,       \* what the caller is at
    ctxDone,     \* the run is cancelled
    script, at,  \* the provider's response, and how many events the driver has
    toolCallIdx, \* tool calls Anthropic's driver has announced
    meant,       \* the deltas of those events
    driver,      \* where the driver's goroutine is
    out,         \* deltas the driver is about to send
    deltas,      \* the channel of deltas
    err,         \* an error is or was in the channel of errors
    errClosed, deltasClosed,
    got,         \* the deltas the reader has
    outcome      \* how the reader's stream ended

stream == <<script, at, toolCallIdx, meant, driver, out, deltas, err, errClosed,
            deltasClosed, got, outcome>>
vars == <<protocol, config, estimate, phase, ctxDone, stream>>

(***************************************************************************)
(* The budget.                                                             *)
(***************************************************************************)
contextSoftLimitRatio == 70
contextHardLimitRatio == 82
contextRetainedTurns  == 3

(* What conf.Load accepts. *)
Valid(c) ==
    /\ c.windowTokens >= 0 /\ c.maxOutputTokens >= 0
    /\ c.windowTokens > 0 => c.maxOutputTokens < c.windowTokens

ContextWindowTokens == IF config.windowTokens > 0 THEN config.windowTokens ELSE 32768
MaxOutputTokens     == IF config.maxOutputTokens > 0 THEN config.maxOutputTokens ELSE 4096

UsableInputTokens ==
    LET usable == ContextWindowTokens - MaxOutputTokens
    IN  IF usable < 0 THEN 0 ELSE usable

(* Fault: the share of the window, not of what is usable of it. *)
OverContextLimitOfWindow(used, ratio) == used * 100 >= ContextWindowTokens * ratio

OverContextLimit(used, ratio) ==
    UsableInputTokens > 0 /\ used * 100 >= UsableInputTokens * ratio

(***************************************************************************)
(* The driver's deltas.                                                    *)
(***************************************************************************)
D(kind, index, data) == [kind |-> kind, index |-> index, data |-> data]

Message(content) == D("message", 0, content)  \* thinking takes the same way
Start(i, call)   == D("toolCallStart", i, call)
Input(i)         == D("toolCallInput", i, Nothing)
Usage            == D("usage", 0, Nothing)
Stop(reason)     == D("streamStop", 0, reason)

(* Anthropic sends content blocks one after the other.  An event has the   *)
(* call its block is for; the driver counts instead.                       *)
AnthropicDeltas(e) ==
    CASE e.kind = "text"  -> <<Message("text")>>
      [] e.kind = "start" -> <<Start(toolCallIdx, e.call)>>
      [] e.kind = "input" -> <<Input(toolCallIdx - 1)>>
      [] e.kind = "usage" -> <<Usage>>

(* A chunk of OpenAI has a text, if an empty one, pieces of several calls  *)
(* by index, the call's ID in the first one, and at last the reason for    *)
(* the end.                                                                *)
PieceDeltas(p) ==
    (IF p.first THEN <<Start(p.index, p.call)>> ELSE <<>>)
    \o (IF p.args THEN <<Input(p.index)>> ELSE <<>>)

OpenAIDeltas(e) ==
    <<Message(e.text)>> \o Join([i \in DOMAIN e.pieces |-> PieceDeltas(e.pieces[i])])
    \o (IF e.usage THEN <<Usage>> ELSE <<>>)
    \o (CASE e.finish = Nothing -> <<>>
          [] e.finish = "tool_calls" -> <<Stop("tool_use")>>
          [] OTHER -> <<Stop("end_turn")>>)

(* Fault: the index is the number of calls announced. *)
DeltasOfNext(e) ==
    IF protocol = "anthropic" /\ e.kind = "input" THEN <<Input(toolCallIdx)>>
    ELSE IF protocol = "anthropic" THEN AnthropicDeltas(e) ELSE OpenAIDeltas(e)

DeltasOf(e) == IF protocol = "anthropic" THEN AnthropicDeltas(e) ELSE OpenAIDeltas(e)

(* Only Anthropic's driver makes up the end of a response itself. *)
LastDeltas ==
    IF protocol = "openai" THEN <<>>
    ELSE IF toolCallIdx > 0 THEN <<Stop("tool_use")>> ELSE <<Stop("end_turn")>>

NoStream ==
    /\ script = <<>> /\ at = 0 /\ toolCallIdx = 0 /\ meant = <<>>
    /\ driver = "none" /\ out = <<>> /\ deltas = <<>>
    /\ err = FALSE /\ errClosed = FALSE /\ deltasClosed = FALSE
    /\ got = <<>> /\ outcome = "none"

Init ==
    /\ protocol \in DOMAIN Scripts
    /\ config \in {c \in Configs : Valid(c)}
    /\ estimate = 0
    /\ phase = "prepare"
    /\ ctxDone = FALSE
    /\ NoStream

(* Driver.Stream: fresh channels and a goroutine. *)
Stream ==
    /\ script' \in Scripts[protocol]
    /\ at' = 0 /\ toolCallIdx' = 0 /\ meant' = <<>>
    /\ driver' = "converting" /\ out' = <<>> /\ deltas' = <<>>
    /\ err' = FALSE /\ errClosed' = FALSE /\ deltasClosed' = FALSE
    /\ got' = <<>> /\ outcome' = "none"

(***************************************************************************)
(* Prepare.                                                                *)
(***************************************************************************)
Respond == phase' = "respond" /\ Stream
Refuse  == phase' = "refused" /\ UNCHANGED stream

(* Limits are integers: a limit of exactly the soft ratio compacts. *)
SoftEnough(used) == used * 100 < UsableInputTokens * contextSoftLimitRatio

(* A conversation short enough, or with nothing to compact: three turns,   *)
(* or fewer, are never compacted.                                          *)
PrepareAsItIs ==
    /\ phase = "prepare"
    /\ estimate' \in Estimates
    /\ \/ SoftEnough(estimate') /\ Respond
       \/ /\ ~SoftEnough(estimate')
          /\ \E turns \in Turns : turns <= contextRetainedTurns
          /\ IF OverContextLimit(estimate', contextHardLimitRatio) THEN Refuse ELSE Respond
    /\ UNCHANGED <<protocol, config, ctxDone>>

Summarize ==
    /\ phase = "prepare"
    /\ estimate' \in Estimates
    /\ ~SoftEnough(estimate')
    /\ \E turns \in Turns : turns > contextRetainedTurns
    /\ phase' = "summarize"
    /\ Stream
    /\ UNCHANGED <<protocol, config, ctxDone>>

(* The view with the summary is measured again; it may be any size, the    *)
(* summary is of the model's making, and the turns that are kept are kept  *)
(* whole.                                                                  *)
AfterSummary ==
    /\ estimate' \in Estimates
    /\ IF OverContextLimit(estimate', contextHardLimitRatio) THEN Refuse ELSE Respond
    /\ UNCHANGED <<protocol, config, ctxDone>>

(* The same turns were summarized for an earlier request. *)
CachedSummary ==
    /\ phase = "prepare"
    /\ \E before \in Estimates : ~SoftEnough(before)
    /\ \E turns \in Turns : turns > contextRetainedTurns
    /\ AfterSummary

UseSummary ==
    /\ phase = "summarize" /\ outcome = "complete"
    /\ AfterSummary

(***************************************************************************)
(* The driver's goroutine.                                                 *)
(***************************************************************************)
driverUnchanged == <<protocol, config, estimate, phase, ctxDone, script, got, outcome>>

Go(from, to) == driver = from /\ driver' = to

(* A message or a schema that cannot be converted, no connection, an       *)
(* error in the stream, which a cancelled context is as well.              *)
StreamFails ==
    /\ driver \in {"converting", "reading"}
    /\ driver' = "closing"
    /\ err' = TRUE
    /\ UNCHANGED <<at, toolCallIdx, meant, out, deltas, errClosed, deltasClosed,
                   driverUnchanged>>

Convert ==
    /\ Go("converting", "reading")
    /\ UNCHANGED <<at, toolCallIdx, meant, out, deltas, err, errClosed, deltasClosed,
                   driverUnchanged>>

NextEvent ==
    /\ at < Len(script)
    /\ Go("reading", "sending")
    /\ at' = at + 1
    /\ out' = DeltasOf(script[at + 1])
    /\ meant' = meant \o out'
    /\ toolCallIdx' = IF protocol = "anthropic" /\ script[at'].kind = "start"
                      THEN toolCallIdx + 1 ELSE toolCallIdx
    /\ UNCHANGED <<deltas, err, errClosed, deltasClosed, driverUnchanged>>

(* CancellableSend waits for room or for the context. *)
SendDelta ==
    /\ driver \in {"sending", "stopping"} /\ out # <<>>
    /\ Len(deltas) < ChanCapacity
    /\ deltas' = Append(deltas, Head(out))
    /\ out' = Tail(out)
    /\ UNCHANGED <<at, toolCallIdx, meant, driver, err, errClosed, deltasClosed,
                   driverUnchanged>>

(* Fault: the context is looked at before the send only. *)
SendCancelledBefore ==
    /\ driver \in {"sending", "stopping"} /\ out # <<>>
    /\ ctxDone /\ Len(deltas) < ChanCapacity
    /\ err' = TRUE
    /\ driver' = "closing"
    /\ UNCHANGED <<at, toolCallIdx, meant, out, deltas, errClosed, deltasClosed,
                   driverUnchanged>>

SendCancelled ==
    /\ driver \in {"sending", "stopping"} /\ out # <<>>
    /\ ctxDone
    /\ err' = TRUE
    /\ driver' = "closing"
    /\ UNCHANGED <<at, toolCallIdx, meant, out, deltas, errClosed, deltasClosed,
                   driverUnchanged>>

Sent ==
    /\ out = <<>>
    /\ Go("sending", "reading") \/ Go("stopping", "closing")
    /\ UNCHANGED <<at, toolCallIdx, meant, out, deltas, err, errClosed, deltasClosed,
                   driverUnchanged>>

(* No more events: the response is complete, or its connection is, which   *)
(* the driver cannot tell apart.                                           *)
EndOfEvents ==
    /\ Go("reading", "stopping")
    /\ out' = LastDeltas
    /\ meant' = meant \o out'
    /\ UNCHANGED <<at, toolCallIdx, deltas, err, errClosed, deltasClosed, driverUnchanged>>

(* The deferred calls run last first: the errors are closed, then the      *)
(* deltas.                                                                 *)
CloseErr ==
    /\ Go("closing", "closingDeltas")
    /\ errClosed' = TRUE
    /\ UNCHANGED <<at, toolCallIdx, meant, out, deltas, err, deltasClosed, driverUnchanged>>

CloseDeltas ==
    /\ Go("closingDeltas", "closed")
    /\ deltasClosed' = TRUE
    /\ UNCHANGED <<at, toolCallIdx, meant, out, deltas, err, errClosed, driverUnchanged>>

(* What the driver does by itself; an event, or the end of them, is up to  *)
(* the provider.                                                           *)
DriverStep == Convert \/ SendDelta \/ SendCancelled \/ Sent \/ CloseErr \/ CloseDeltas
Driver     == DriverStep \/ StreamFails \/ NextEvent \/ EndOfEvents

(***************************************************************************)
(* The readers.                                                            *)
(***************************************************************************)
readerUnchanged == <<protocol, config, estimate, phase, ctxDone, script, at, toolCallIdx,
                     meant, driver, out, err, errClosed, deltasClosed>>

Reading == outcome = "none" /\ phase \in {"summarize", "respond"}

ReceiveDelta ==
    /\ Reading
    /\ deltas # <<>>
    /\ got' = Append(got, Head(deltas))
    /\ deltas' = Tail(deltas)
    /\ UNCHANGED <<outcome, readerUnchanged>>

(* An error comes before the deltas that are still in the channel, or      *)
(* after them.                                                             *)
ReceiveError ==
    /\ Reading
    /\ err
    /\ outcome' = "failed"
    /\ UNCHANGED <<got, deltas, readerUnchanged>>

(* Only the agent loop watches the context itself. *)
SeeCancelled ==
    /\ Reading
    /\ phase = "respond" /\ ctxDone
    /\ outcome' = "cancelled"
    /\ UNCHANGED <<got, deltas, readerUnchanged>>

(* Fault: the end of the deltas is the end of the response. *)
EndOfDeltasUnchecked ==
    /\ Reading
    /\ deltasClosed /\ deltas = <<>>
    /\ outcome' = "complete"
    /\ UNCHANGED <<got, deltas, readerUnchanged>>

(* The agent looks for an error once more, without waiting; the summary    *)
(* reads on until both channels are closed, and wants some text.           *)
EndOfDeltas ==
    /\ Reading
    /\ deltasClosed /\ deltas = <<>>
    /\ ~err
    /\ phase = "summarize" => errClosed
    /\ outcome' = IF phase = "summarize" /\ Message("text") \notin Range(got)
                  THEN "failed" ELSE "complete"
    /\ UNCHANGED <<got, deltas, readerUnchanged>>

Reader == ReceiveDelta \/ ReceiveError \/ SeeCancelled \/ EndOfDeltas

Cancel ==
    /\ ~ctxDone
    /\ ctxDone' = TRUE
    /\ UNCHANGED <<protocol, config, estimate, phase, stream>>

Next ==
    \/ PrepareAsItIs \/ Summarize \/ CachedSummary \/ UseSummary
    \/ Driver \/ Reader
    \/ Cancel

(* Goroutines run.  The provider need not send anything, but a cancelled   *)
(* context ends its stream.                                                *)
Fairness ==
    /\ WF_vars(DriverStep)
    /\ WF_vars(StreamFails /\ ctxDone)
    /\ WF_vars(Reader)

Spec == Init /\ [][Next]_vars /\ Fairness

(***************************************************************************)
(* The agent's collector.                                                  *)
(***************************************************************************)
Collect(calls, d) ==
    CASE d.kind = "toolCallStart" -> Append(calls, [id |-> d.data, input |-> 0])
      [] d.kind = "toolCallInput" /\ d.index + 1 \in DOMAIN calls ->
           [calls EXCEPT ![d.index + 1].input = @ + 1]
      [] OTHER -> calls

CollectFrom(calls, q) ==
    LET collected[n \in 0 .. Len(q)] ==
            IF n = 0 THEN calls ELSE Collect(collected[n - 1], q[n])
    IN  collected[Len(q)]

ToolCalls  == CollectFrom(<<>>, got)
HasToolUse == Stop("tool_use") \in Range(got)

(***************************************************************************)
(* Properties.                                                             *)
(***************************************************************************)
Delta ==
    [kind : {"message", "toolCallStart", "toolCallInput", "usage", "streamStop"},
     index : Int, data : Calls \cup Texts \cup {"tool_use", "end_turn"}]

(* The driver has nothing more to say, and no error. *)
Ended == driver \in {"closing", "closingDeltas", "closed"} /\ ~err

R == INSTANCE Response WITH said <- meant, heard <- got, ended <- Ended

(* The channels and the goroutine keep the promise of a response, for the  *)
(* agent and for the summary: in order, nothing lost, and complete only    *)
(* when all of it came and no error.                                       *)
ImplementsResponse == R!Spec

(* A request and the answer reserved for it fit into the window of every   *)
(* configuration that leaves room for input at all, summarized or not.     *)
RequestsFit ==
    phase = "respond" /\ UsableInputTokens > 0 =>
        estimate + MaxOutputTokens < ContextWindowTokens

(* What the provider said of a call, by the call itself.                   *)
Told == Parts(protocol, script)[at]

Announced  == {Told[n].call : n \in {m \in DOMAIN Told : Told[m].first}}
Said(call) == Cardinality({n \in DOMAIN Told : Told[n].args /\ Told[n].call = call})

(* A complete response has the calls the provider announced, each once and *)
(* with all of its own input, also when the pieces of several calls        *)
(* alternate; and unless the stream was cut short the loop runs tools      *)
(* exactly when there are calls.                                           *)
CallsAreTheProviders ==
    phase = "respond" /\ outcome = "complete" =>
        /\ {ToolCalls[i].id : i \in DOMAIN ToolCalls} = Announced
        /\ \A i, j \in DOMAIN ToolCalls : ToolCalls[i].id = ToolCalls[j].id => i = j
        /\ \A i \in DOMAIN ToolCalls : ToolCalls[i].input = Said(ToolCalls[i].id)
        /\ at = Len(script) => (HasToolUse <=> ToolCalls # <<>>)

(* No driver outlives its run: when the run is cancelled its goroutine     *)
(* ends although nobody reads any more, and so it does after every read    *)
(* that came to an end.                                                    *)
DriversEnd ==
    /\ ctxDone ~> driver \in {"none", "closed"}
    /\ outcome # "none" ~> driver \in {"none", "closed"}
=============================================================================
