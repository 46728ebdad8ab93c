# Formal model of codefolio

codefolio is a coding agent for the terminal. A prompt starts a run: a
goroutine that asks a language model, lets it call tools behind a permission
gate, stores everything in a session ledger and tells the UI what to show. The
difficult part is not any one step but that four kinds of actors take them at
once: the UI goroutine, the goroutine of the run, one goroutine per tool call,
and the loops that carry requests to the user. Around them the process may die
and a session may be loaded again.

This directory holds TLA+ modules translated from the source, TLC
configurations that check them on small instances, and proofs checked by TLAPS
that hold for all instances. Line numbers refer to `src/`.

## 1. Inventory

| Part | State it keeps | Operations | Talks to | Hard about it |
|---|---|---|---|---|
| Session ledger (`infra/session/session.go`) | messages, provider view, message counter, JSONL log | `Add*`, `Append*`, `Finish`, `UpdateToolCallInput`, `ReplaceProviderMessages`, `ConfigurePersistence`, `Load` | called by the run's goroutine and the UI | two views kept in step by hand, a log that is appended without syncing, a load that must agree with memory |
| Compaction and budget (`svc/context.go`, `svc/convert.go`) | a summary cache | `Prepare`, `Compact`, `summary` | agent loop, `/compact`, the driver | a compaction of an already compacted view, limits at zero |
| Agent loop (`svc/agent.go`) | iteration, stream, pending calls | `Run`, the collector's visits | ledger, executor, visitor, driver | cancellation and errors at every point |
| Controller and visitor (`cmd/cli/controller/state.go`, `agent.go`) | transcript, `streaming`, `cancelling`, `runID` | `StartSubmission`, `Cancel`, `finish`, the closures | agent loop, UI runtime | closures executed late, the deferred call of an old run |
| Executor (`infra/executor.go`) | pending results | `Submit`, `CollectResults`, `execute` | broker, tools | concurrent calls |
| Approval broker (`infra/approval/approval.go`) | grants | `Authorize`, `planDecision`, `requestApproval` | executor, approval loop | answers racing cancellations |
| Approval dialog (`controller/approval.go`) | shown request, queue | `enqueueApproval`, `resolveApproval`, `denyAllApprovals` | approval loop, user | requests on their way during a cancellation |
| Question dialog (`tools/askuser`, `controller/ask.go`) | shown question | ask, move, confirm | a tool call, user | one slot and no queue; a send that ignores cancellation |
| File tools (`tools/file`) | read-before-edit cache | read, write, edit | executor | concurrent calls on one file |
| Registry, tool search, MCP (`tools/registry.go`, `infra/mcp`) | tools, discovered names; clients, loaded and failed servers | register, search; discover, close | agent loop, application | retries, timeouts, name collisions |
| Memory (`svc/memory.go`) | running and pending extraction, files | `Context`, `Extract`, `Clear` | agent loop, driver | single flight with one waiting turn |
| Drivers (`pkg/llm`) | two channels per stream | `Stream` | agent loop | order of error and end |
| Commands, sessions, application (`svc/command.go`, `command/loader.go`, `session/store.go`, `cmd/cli/app.go`) | command tables, composer, completion, history, picker | submit, complete, recall, `/new`, `/compact`, `/resume`, `/commands reload` | everything | names that conflict in many ways, selections kept while lists change |

What makes each part correct: the ledger is ordered, append-only and equal to
what its log loads to; the view the model sees is the ledger minus what was
summarized; a round of tool calls has one result for each call; loops do not
overlap on one ledger; text stays with its prompt; the UI always comes back to
idle; a tool is executed only with permission; every request for permission is
seen or released; nothing that was finished is lost in a crash. A request fits
the window of the model; the agent hears the response that was sent and takes
only a whole one for complete; a call returns the answer to its own question; a
tool the model was offered goes on answering to its name, and no connection to a
server outlives the program; one extraction of memories works at a time, and
the index tells of the files that are there; a command answers to its own names;
transcript, history and session are one conversation.

`PROJECT.json` lists every part with its status, and every hazard with the
properties that cover it.

## 2. Modules

`Selection`, `Session`, `Compaction` and `Commands` define operators on values;
`PermissionGate` and `Response` are abstract specifications; the others are state machines;
the `MC*` modules hold the values TLC is given; the `*Proofs` modules hold theorems.

    Session, Selection <- Compaction <- Conversation <- MCConversation, ConversationProofs
    Session <- AgentRun <- MCAgentRun, AgentRunProofs
    ToolApproval <- MCToolApproval, ToolApprovalProofs
    PermissionGate <- (refinement) ToolApproval
    FileState <- MCFileState, FileStateProofs
    AskUser <- MCAskUser, AskUserProofs
    Catalogue <- MCCatalogue
    Memory <- MCMemory, MemoryProofs
    Selection <- ModelRequest <- MCModelRequest, ModelRequestProofs
    Response <- (refinement) ModelRequest
    Selection <- Commands <- Composer <- MCComposer
    Catalogue, Composer <- ApplicationProofs

`Selection` has two operators on sequences: the elements that lie in a set, in
their order (`Where`), and sequences put one after the other (`Join`). They are
what `SelectSeq` and `FlattenSeq` of the libraries compute, written as recursive
functions because the prover cannot unfold those.

### Session

Each method of the code holds the session's mutex from start to end, so it is
one operator from the session before the call to the session after it. The log
is part of the value: one element per line, and `eol` says whether the file ends
with a newline. A line is a message checkpoint, a provider context or bytes that
do not parse. Text is a sequence of deltas and a tool call has an ID and a flag
for its input, because only those are told apart. `AddMessage` is what the four
methods that add a message have in common. `Load` is the
last element of `Replayed`, the recursive function that gives what `Replay`
makes of each prefix of the log.

### Compaction

`splitContextTurns` and `compact`: the settled messages split into system
instructions and turns; the last `RetainedTurns` turns are kept, the others
become one `Summary`. The text of the summary is one constant. A tool result over
`ToolResultLimit` (24,000 bytes in the code) is kept as a `Preview`: its beginning
and a note of the cut. The code cuts before it splits, the model after; a cut
moves no message.

### Conversation

The ledger under the calls of one conversation, in the order the controller and
the agent loop make them: `Submit` and `StartAnswer` are `App.submit` with
`ensureSession` and `StartSubmission`; the `Visit*` actions are the collector's;
`StopForTools`, `DispatchTools`, `StoreResult` and `NextIteration` are the steps of
`Agent.Run`; `Compact` is `/compact`; `Restart` is the death of the process and
a load of the log, or `/resume`. `Torn` is what the death may do to the last
line. Several tool calls may be open in one response.

A run ends in one of three ways. `LoopCompletes` finishes the message and tells the
UI; `RunFails` tells the UI and leaves the message to the deferred call of
`StartSubmission`; `RunCancelled` keeps the composer closed until that call has
come. After the first two the UI may take the next prompt before the deferred call:
`late` counts the calls still to come, and `DeferredFinish` finishes whatever
message is the last one by then. So a failed run's message may be overtaken and
stay open, and the message of the next run may be closed while it is written. Two
history variables remember this for the properties: `closedEarly`, and `leftOut`,
what a compaction found open and left out of the view. A deferred call that comes
while `/compact` waits for its summary is not told apart from one that comes after
it: both leave the same session, but for the order of two lines of the log. The
other interleavings are in the next two modules.

### AgentRun

Runs as goroutines against the UI goroutine. `Go`, `ReturnNil` and `ReturnError`
move a run's goroutine; every action of `Goroutine(r)` is a piece of `Agent.Run`
or of the closure `StartSubmission` starts, up to the next point where another
actor can come in. A run changes the ledger directly and posts closures; the UI
executes `RunClosure`, and what a closure still does is decided then, by
`Active`. The UI's dispatch queue is external code (the tux runtime): a FIFO
with room for `MaxPosted` closures; a post under a cancelled context may be
refused. A post that waits for room is an action that is not enabled. One tool
call at most per response; usage and context events change nothing the
properties speak of and are left out. Text in this module is the number of the
run that said it, so that text in a wrong place can be seen.

### ToolApproval and PermissionGate

One goroutine per tool call (`pc`) through `execute`, `Authorize` and
`requestApproval`; the request channel, the approval loop's hand, the dispatch
queue and the dialog; the user's answers, `Cancel`, the end of the runtime and
`Shutdown`. An invocation is a record of what the policy reads off it (profile,
category, whether the path is outside, the command dangerous, and so on), and
`Policy` is the order of the code's checks. All calls of a run are submitted
together, and the closure that ends a run stands for the two that do so in the
code (`VisitLoopComplete` and the deferred call), which `AgentRun` tells apart.
`ReceiveAnswer` and `Abandon` are both enabled when an answer has come and the
context is done, as in the code's `select`.

`PermissionGate` is what the user is promised, without goroutines, channels and
dialogs: he is asked only about what the policy leaves to him, his answer is given
once, only "allow this session" is remembered and only while its call still waits
for it, a call is entered with permission and before its run is withdrawn, and one
that was refused never. `ToolApproval` implements it: a call is `pending` while its
goroutine is on its way to the tool (`Fate`), consent is the decision in its
response channel, except one a cancellation has put there (`Consent`), and
withdrawn are the calls whose context is done.

### FileState

The calls of `ReadFile`, `WriteFile` and `EditFile` on one file, one system call
or one look into the `StateCache` per step, in any number and any order, as the
executor lets the calls of a response run. The text is a set of passages, so an
edit that overwrites another one loses a passage that can be named. The file is
also changed, replaced and deleted from outside, and the clock need not move
between two changes. Three history variables serve the properties: `raced`, whether
a change from outside came between a call's check and its look at what it wrote, or
within a millisecond of the change before it, which the cache cannot see;
`standing`, the edits made to the text that is there and replaced by nobody; and
`overlapped`, the calls that changed the file while another one did. Modification
times that go back (a file copied with its old time) are not modelled.

### AskUser

`Tool.Execute` of AskUserQuestion, one goroutine per call; the request channel,
`askLoop` with the request in its hand, the closures on their way, and the
dialog with its cursor and the selections made so far. Unlike approvals,
questions have no queue: `Show` replaces whatever the dialog held. `Send` waits
for room and for nothing else, as the code does; `Receive` and `GiveUp` are both
enabled when an answer lies there and the run is cancelled. A question is a
header and its number of options, an answer the index of an option.

### Catalogue

`Manager.Discover` from the moment it has the lock to the moment it gives it
back, server by server, with both failures a server has (it does not start, it
does not list); the goroutine of `startMCP` that registers what was found, one
name at a time; `Summary` and `Close`, which want the same lock; the UI
goroutine, which waits for it in `/mcp` and in the closure that shows the
status; and the agent, which offers tools, searches them and calls them. What a
call of a tool can end with is `Outcomes`, an operator on the state. The name a
tool gets in the registry (`NameOf`) is a constant, so that an instance can let
two of them collide. The instance runs two calls of `Discover` at once; the
program makes one, the manager's own tests make two in a row.

### Memory

`Extract` with its flag and its one waiting turn, the model's answer, and every
system call of `saveMemory`, `rebuildIndex` and `writeAtomic` that another actor
can come between: removal, renaming, the reading of the directory, removal and
renaming of the index. Each of them may fail; a directory that cannot be read
leaves an empty index behind (`ScanFails`). An index has room for 200 lines
(`MaxListed`) and ends with the line that takes it over 25,000 bytes. Only the
first 4,096 bytes of a topic are read for its line, so six lines always fit
(`MinListed`), and where between the two the index is cut is left open, as is which
topics are cut off: the code keeps the newest. `Clear` removes one file per step
in two directories, on the UI goroutine and under no lock the saves take; the
process may die at any step. `torn` notes the directories whose index the code
does not vouch for: a save there was interrupted, failed or met a `Clear`. It
is cleared by the next save that has the directory to itself.

### ModelRequest and Response

`Prepare` with the configured limits as integers, the summary as a request of
its own and the second look at the hard limit; a driver's goroutine from the
first event to the two closed channels, for both protocols; and the two readers,
which differ in how they treat the end of the deltas. The provider's response is
a script of events, which may fail, break off or be cancelled after any of them.
Deltas keep their kind, the index of their call and the call itself. `Calls` are
the IDs a provider may give; `ModelRequestAssumption` says what an event of each
protocol looks like, and nothing of their order. What a provider promises of the
calls in a response is `ResponsesAssumption`: calls are numbered as they are
begun, each is begun once, and input for one comes after its beginning; OpenAI's
last reason is `tool_calls` exactly if there are calls. Only
`CallsAreTheProviders` needs it. `CollectFrom` is the agent's collector: the calls
a reader has collected before some deltas, taken through them one by one.

`Response` is what a reader is promised, without channels: it hears what was
said, in order, and takes a response for complete only when it has heard all of
one that came to an end that was no error. `ModelRequest` is shown to implement
it: what was said is what the driver has made of the events (`meant`), what was
heard is what the reader has taken off the channel, and the response has ended
when the driver leaves its loop without an error. A cancelled or failed read is
`GiveUp`.

### Commands and Composer

`Commands` has the loader and the registry as operators: `LoadDir`, the overlay
of the project over the user, `resolveCommands` with every reason to refuse a
command, and `Find`. `Composer` is the composer around them: typing, completion,
history, Enter with every kind of command that changes state, the picker of
sessions with sessions that vanish under it, and a run that is idle, running or
cancelling. Words are strings without parts: which names a word is a prefix of,
and its lower case, are constants.

### Definitions introduced as faults

A comment that begins with "Fault" introduces a variant of the definition that
follows with a mistake in it: a forgotten write, a dropped guard, a swapped
order. No specification uses them; they are there to put in place of the right
one and see the property fail, one for each property of each passing run
(`PROJECT.json`, `mutants`).

## 3. Runs

| Run | Instance | Question and result |
|---|---|---|
| `conversation_live` | 7 messages, 2 calls, 1 thinking delta, results under and over the limit, 1 deferred call late, no restart | tool rounds are answered in order, only a failed run's message can stay open behind a prompt, the ledger is append-only |
| `conversation_restart` | 7 messages, 1 call, 1 text delta, results under and over the limit, 1 deferred call late, 2 restarts, last line intact or lost whole | IDs stay fresh, the log still matches, the view follows the ledger over compactions that cut tool results, system instructions survive |
| `conversation_resume` | 8 messages, `/compact` | **violated**: messages after `/compact` are missing from the view of a loaded session |
| `tool_approval` | 3 calls in 2 runs, 2 keys, four kinds of invocations, channel with room for 1 | only permitted calls are executed, profiles are respected, `PermissionGate` is implemented, no request is lost or doubled, cancellation comes to an end, and with an attentive user every run does |
| `agent_run_overlap` | 2 prompts, 1 iteration, 1 delta, a `/new`, queue of 2 | loops do not overlap, text stays with its prompt, the UI comes back to idle |
| `agent_run_rounds` | 1 prompt, 3 iterations, 2 deltas, queue of 3 | the transcript ends up with the text of the ledger and every result |
| `file_guard` | a read, a write and 2 edits of different passages, 1 change from outside, deletion, 3 clock values | nothing unread is written over, and edits add up |
| `ask_user` | 2 calls in a response and 1 in the next, five requests of which two are refused, channel with room for 1 | an answer is to the call's own questions, a question vanishes only behind a rival of its own response, cancelled calls end, a question asked alone ends |
| `catalogue` | 2 servers, 3 lists, a collision of two names, 2 calls of `Discover` | no connection leaks, offered tools answer, told tools are offered, everyone waiting for the lock is served |
| `memory` | 3 prompts, 1 proposal per answer, an index with room for 1 line, 1 clear, 1 death | one extraction at a time, the index tells of the topics, topics survive, cleared is gone, every turn handed over comes to an end |
| `model_request` | 2 protocols, 4 responses, 3 valid limits, 6 sizes, channel with room for 2 | requests fit the window, calls are the provider's, `Response` is implemented, drivers end |
| `composer` | 2 session objects with 1 prompt each, 2 states of the command directories, 5 texts | commands answer to their own names, one conversation, selections fit their lists |

Why the bounds are enough. Two restarts let a loaded session be loaded again;
seven messages let a compacted view be compacted again, a large result be cut by a
compaction, or a tool round follow a failed run. One late deferred call is enough for it to meet the
next run and a compaction. A result of two pieces is over the limit of one.
`RetainedTurns` is 1 instead of the code's 3, which is the same code with
shorter histories. Two runs are all that can be concerned with one another: a
third starts only when the one before the last is beyond its loop. Three calls
give a request that is shown, one behind it and one on its way, and the third
belongs to a later run so that grants and stale requests meet it. One room in the
channel of approvals instead of 16, and two in that of deltas instead of 64, make
the full channel an ordinary state; the channel of questions has room for one in
the program too. A read, a write and two edits cross each other in every order: a
slow read ends after calls that changed the file, and one edit stands while the
other, or the write, comes to the file. Two topics and room for one line make the
index leave one out. Three turns let one be extracted, one
wait and one take its place. Two servers let the first fail, or take the name
the second wants, and leave one to come. The limits of `model_request` are the
defaults, one with boundaries of the ratios in round numbers, one that leaves no
room for input, and two that the configuration refuses; the sizes lie at the
soft and the hard limit and on either side of them. The two states of the command directories conflict with
each other, with built-in commands and with themselves in every way the registry
refuses, and a reload goes from either to either. Where there are theorems, they
lift these bounds.

Deadlock is checked in `composer`. In the others it is not: a user may stop, a
process may end, and the bounds stop the rest.

In the violated run the counterexample is short and was followed through the
code by hand; `PROJECT.json` (`findings`) quotes the sentence of the source it
contradicts.

### Fairness

Go runs every goroutine that can run, so each goroutine's steps are weakly fair
(`Goroutine(c)`, `Goroutine(r)`, `Execute(c)`, `Discover(s)`), and so are the
loops between channel and UI and the UI goroutine's own closures. This assumes
that a tool returns and, in `AgentRun`, that a model stream ends or fails; both
are outside this code. Weak fairness is enough: a goroutine waiting for room in a
queue stays enabled once there is room as long as it alone is late, and the queue
empties otherwise. What differs:

- `ModelRequest` does not assume that a provider sends anything. It assumes that
  a cancelled context ends the stream (`WF_vars(StreamFails /\ ctxDone)`), which
  the drivers get from the HTTP request made under that context.
- `Catalogue` has `SF_vars(RunStatus)`: the event loop comes to every closure in
  its queue, however often `/mcp` is typed in between.
- In `Memory`, the model's answer is a step of the extraction's goroutine,
  because the code gives it 30 seconds; in `Catalogue` each wait for a server has
  a timeout of its own, so its failing step is always enabled.
- Nothing makes the user act. `RunsEnd` and `LoneQuestionsEnd` name what they
  assume of him in the property: `Attended`, that he answers the approval in
  front of him, and `AnsweringUser`, that he deals with the question in front of
  him. `CancelEnds` and `CancelledCallsEnd` need neither.

## 4. Proofs

Liveness and ENABLED are out of the prover's reach and stay with TLC. Induction
is not: the library's induction theorems cannot be used, because they take an
operator as a parameter, but `NatLeast` (a set of natural numbers has a least
element, from the well-foundedness of inclusion among finite sets) is first-order,
and with it what the recursive functions of the models compute is proved for
sequences of any length: the log that is replayed, the messages that are
selected, the texts a transcript shows, the inputs that are filled in one call
after another, the sequences that are joined, the calls that are collected from
deltas, the commands that are loaded and accepted. `SelectSeq` and the folds of the
library are opaque to the prover.

`ToolApprovalProofs` proves for any sets of calls, keys and invocations, any
number of runs and any room in the channel:

| Theorem | Says |
|---|---|
| `TypeCorrect` | `Spec => []TypeOK` (no run repeats it) |
| `ToolsAreGated` | `Spec => []OnlyPermittedExecute` |
| `GrantsAreConsented` | `Spec => []GrantsHaveConsent` (no run repeats it; the gate implies it) |
| `ProfilesAreKept` | `Spec => []ProfileIsKept` |
| `DialogIsHonest` | `Spec => []DialogShowsRequest` (no run repeats it) |
| `RequestsStayInOnePlace` | `Spec => []RequestInOnePlace` |
| `GateIsKept` | `Spec => ImplementsGate` |

They rest on `ApprovalAssumption`: the sizes are numbers, the invocations are
invocations, and the agent's plan file lies inside the workspace
(`Agent.planFilePath` joins it to the working directory).

`OnlyPermittedExecute` is not inductive: it says nothing of a call that is about
to be executed. `PermissionInv` adds that a call the broker has let through is
permitted already (`LetThroughArePermitted`), that only calls the policy leaves
to the user ask him (`AskersMayAsk`), and that every grant has consent. Two facts
carry the step: an answer never changes once it has been given
(`AnswersAreFinal`), so permission is never lost (`PermissionIsKept`); and a
goroutine gains permission only from the policy, from a grant, or from its answer
(`GoroutinePermission`). `ProfileIsKept` then follows from what the policy allows
outright (`PolicyKeepsProfile`), the one place where the policy is opened.
`DialogShowsRequest` is inductive with the types. `RequestInOnePlace` counts a
request in the channel, the loop's hand, the closures, the dialog and its queue.
`PlacesInv` adds that a call that has not asked yet is nowhere and has no answer
(`UnsentNowhere`), and that the calls of a later run have not begun, so neither
the step that sends a request nor the one that starts a run can make a second
copy; the counts themselves are followed through `Append` and `Tail`.

The refinement needs both, and of each call what `Known` says: only calls the
policy leaves to the user are in a place, and none that has been let through, so
that no answer can come to a call that executes; and one let through is allowed by
the policy, by its own answer, or by a grant, and then it has not asked. The last
holds on because an answer is given only to a request in some place, and a request
comes to a place only when its goroutine sends it (`PlacesShrink`). A goroutine's
step is `Refuse`, `Grant`, `Execute`, `Return` or a stutter
(`GoroutineThroughGate`), the user's answer is `Answer` (`AnswerThroughGate`), a
cancellation `Withdraw`, and whatever carries a request on is a stutter.

`FileStateProofs` proves for any calls, passages and changes from outside:

| Theorem | Says |
|---|---|
| `TypeCorrect` | `Spec => []TypeOK` |
| `OnlySeenIsOverwritten` | `Spec => []OverwritesOnlySeen` |
| `EditsStay` | `Spec => []EditsAddUp` |

They rest on `FileAssumption`: passages of the agent, of the file and of
outsiders are told apart. `OverwritesOnlySeen` speaks of a call about to write;
the invariant `Vouched` follows that back to the times: a time not before the
file's, in the cache (`CacheVouches`) or held by a call (`CallVouches`), says
that the text from outside has been read, and a read that has not recorded yet
carries its own text along. A change from outside that is no race is later than
every time anybody holds (`VouchedOutside`), so it takes its guarantee away from
all of them at once; that is why no order of reads, checks and updates matters.
`EditsAddUp` says that what an edit put into the file is lost only beside a call
that was changing the file at the same time. `EditInv` adds to it what the calls
under way are about to write: of an edit that stands and met no other
(`Stands`), whoever is changing the file is an edit that has read it too, so its
writing keeps it; and two calls that change the file at once know of each other
(`OthersAreKnown`), so the edit that stands cannot have come in between another's
reading and its writing.

`AskUserProofs` proves, for any calls, rounds, requests and room in the channel:

| Theorem | Says |
|---|---|
| `AnswersFitTheirCall` | `Spec => []AnswersAreOwn` |
| `RivalsAreOfTheRun` | `Spec => []OnlyRivalsReplace` |

They rest on `AskUserAssumption`. `AnswerInv` adds to `AnswersAreOwn` that the
cursor and the selections made so far fit the questions in the dialog
(`DialogFits`), and that an answer in its box fits the questions of its call
(`BoxesFit`), also when the call has given up. `OnlyRivalsReplace` needs an order:
the calls of a run start when all calls of the runs before have ended
(`StartedInTurn`), so that from the dialog back to the channel the requests lie in
the order of their runs (`InRunOrder`). A request that takes
the dialog from one somebody waits for is therefore of the same run: of no earlier
one by the order, and of no later one because the waiting call has not ended.

`AgentRunProofs` proves, for any number of prompts, iterations, deltas and
sessions and any room in the queue:

| Theorem | Says |
|---|---|
| `LoopsDoNotOverlap` | `Spec => []OneLoopAtATime` |
| `TextIsOfItsRun` | `Spec => []TextStaysWithItsRun` |
| `StoredResultsShow` | `Spec => []StoredResultsAreShown` |
| `TranscriptIsComplete` | `Spec => []TranscriptShowsLedger` |

They rest on `AgentRunAssumption`: the bounds are numbers, with at least one
iteration and room for two closures. Nothing in `OneLoopAtATime` says why the
composer opens only when a loop is over; `LoopInv` adds that a run has its number
before it moves or posts (`Numbered`) and that a run still in its loop has posted
no closure that would end it on the screen (`NothingEnds`), so a closure that
reopens the composer comes from a run that has left its loop. The steps of the
goroutine are taken together: each is a `RunStep`, which never enters a loop and
posts an ending only on leaving it.

Text stays with its run in the ledger because only the loop writes text, only
one loop works on a ledger, and no prompt follows what the newest run has said
(`TextFits`); on the screen because while a run is followed the transcript ends
with a segment of that run (`ShownText`), which is what `Active` relies on.

`StoredResultsAreShown` speaks of a moment when nothing moves. `Flow` says what
holds before it, as long as no run was cancelled or failed (`Clean`): every
closure in the queue but the deferred ones is of the run that is followed, a
completion comes last (`Followed`); a call that is shown, or will be by a closure
ahead, stays in the current segment until the next turn (`Announced`), so each
result in the queue meets its call (`InOrder`); and each stored result is shown
or still in the queue (`OnTheirWay`).

`TranscriptShowsLedger` needs what the whole queue will make of the transcript:
`Leads(q, x, y)` says that the closures of `q`, one after the other, take the
segments' text from `x` to `y`. A closure executed takes its step off that chain
(`LeadsOn`, `ClosureIsHeard`), one posted adds its own at the end (`LeadsFurther`).
`Comes` compares the end of the chain with the text that is stored (`Tracks`);
between a turn and the next iteration the segment is on its way and its message
not yet stored (`Due`). The text of a message that is still open is met exactly
(`Exact`), so a delta lengthens both; of a message somebody has finished meanwhile
the transcript may show more than is stored, hence the prefix in the property.

`MemoryProofs` proves, for any number of prompts, proposals, clears and deaths:

| Theorem | Says |
|---|---|
| `OneExtraction` | `Spec => []SingleFlight` |
| `IndexIsTrue` | `Spec => []IndexTellsTopics` |
| `SavedTopicsStay` | `Spec => TopicsSurvive` |
| `ClearRemovesTheOld` | `Spec => ClearedIsGone` |

They rest on `MemoryAssumption` (bounds are numbers, no slug is empty, and the index
has room for `MinListed` lines at least and `MaxListed` at most).
`SingleFlight` is inductive once turns that have not been submitted are known to
be nowhere (`FlightType`). `IndexTellsTopics` is not: it says nothing while a
save is under way. `Settled` adds, for each directory, what an extraction that
has read it knows of it, and what `Clear` still has to remove there. A save
keeps the directory it is in settled because it is alone (`SingleFlight`), and
leaves the other one untouched (`SavesElsewhere`); whoever comes between a
reading of the directory and the index made of it marks the directory. For
`ClearedIsGone`, `OldIsKnown` says that an old topic is in a directory `Clear` has
yet to come to, or among the names it still has to remove: files come back only
by a save, and then they are not old.

`ApplicationProofs` proves two modules' properties. Of `Catalogue`, for any
servers, lists, names and calls of `Discover`:

| Theorem | Says |
|---|---|
| `ConnectionsAreClosed` | `Spec => []NothingLeaks` |
| `OffersAnswer` | `Spec => []OfferedToolsAnswer` |
| `ToldIsKept` | `Spec => ToldIsOffered` |

They rest on `CatalogueAssumption`. `ConnInv` ties the lock to the `Discover`
that goes over the servers (`LockHeld`) and every client to a server that is
loaded or being asked (`ClientsAreKept`), so that no client is written over.
`OfferInv` adds that whatever was found or registered is of a loaded server and
on its connection until the manager is closed (`ToolsAreLive`), and that offers
are registered and what was told is discovered (`OffersAreRegistered`). A loaded
server keeps its client (`LiveToolsGrow`) and a registered name its tool
(`RegistryGrows`), so no step takes either back.

Of `Composer`, for any sessions, prompts, names and command files:

| Theorem | Says |
|---|---|
| `ConversationIsOne` | `ComposerSpec => []OneConversation` |
| `SelectionsAreListed` | `ComposerSpec => []SelectionsFit` |
| `CommandsAreFound` | `ComposerSpec => []CommandsResolve` |

They rest on `CommandsAssumption` (lower case is lower case already, and the
built-in commands are written in it) and `ComposerAssumption` (the directories hold
files, the bounds are numbers). The first two need little more than they say:
`Recalled` adds to `OneConversation` what kind of thing the history and the session
are; in `Marked` the picker's list is a sequence with a marked position while it is
open, and the completion's position any number, because `CommandCompletion` fits it
to the list each time it is looked at (`CompletionFits`). For `CommandsResolve` the
invariant is where the commands come from (`Registered`: the dynamic ones are what
the registry made of the directories as they were last read), and the work is in
the operators that load them:

- no two commands of a registry share a key (`RegistryIsApart`), because one is
  accepted only if none of its keys is taken and all of them are distinct
  (`AcceptKeepsApart`), and the built-in ones come first and are all accepted
  (`BuiltinKeys`, `BuiltinAccepted`);
- so `Find` gives the owner of each key (`FindsOwner`), since the keys of loaded
  commands are in lower case, which is how `Find` looks for them (`KeysAreLower`);
- a directory gives the commands of its well-formed files and no others
  (`LoadDirFaithful`); the overlay replaces the user's command of a name by the
  project's (`OverlayReplaces`), so one of the user is left only where the project
  has none, if the user has no two of the name (`ProjectFirst`).

Where an operator is recursive, that is an induction over its steps (`Climb`).

`ModelRequestProofs` proves, for any scripts, limits, sizes and room in the
channel:

| Theorem | Says |
|---|---|
| `EveryRequestFits` | `Spec => []RequestsFit` |
| `ResponsesAreKept` | `Spec => ImplementsResponse` |
| `CallsAreKept` | `Spec => []CallsAreTheProviders`, with `ResponsesAssumption` too |

They rest on `ModelRequestAssumption`. `EveryRequestFits` is about the limits that
leave room for input; the configuration accepts others too (section 5). `BudgetInv`
says that a view that is sent
was small enough to be left alone, or is below the hard limit after a summary; the
rest is the arithmetic of the configured and the default limits. The refinement
keeps, in `StreamInv`, that what the driver has made of the events is what the
reader has, then what is in the channel, then what the driver is about to send,
and that the last of these is empty once the driver ends; so a reader who finds
the channel closed and empty has heard all of it. Each step maps to `Say`, `Hear`,
`Complete`, `GiveUp` or a stutter of `Response`.

`CallsAreTheProviders` speaks of a complete response only. `CallInv` says what holds
after each event: collecting the driver's deltas so far gives the calls that the
parts of those events tell (`Tells`: the calls in the order they begin, each under
the number its protocol gives it and with the inputs counted so far), Anthropic's
driver has counted as many calls as have begun, and tools are asked for where the
provider or, at the end, the count says so (`CallsMeant`, `EndMeant`). The step
is `TellsMore`: one more part, put at the place its protocol tells, leaves the
calls telling one part more. It is here that the two protocols meet, because
a well-formed response names the same call by its index and by the order of
beginnings (`Slot`). Above it `PiecesCollected` takes a chunk with the pieces of
several calls, by induction over the pieces, and `BlockCollected` an event of
Anthropic's, where the driver must count back by one. Collecting from joined
deltas is collecting from one part and then the other (`CollectJoined`), so a
complete read, which has heard exactly what was meant, has these calls.

`ConversationProofs` proves, for any bounds, texts, calls and retained turns:

| Theorem | Says |
|---|---|
| `ConversationIsSound` | `Spec => []ConversationInv` (no run repeats it) |
| `IDsAlwaysIncrease` | `Spec => []IDsIncrease` |
| `SystemsStay` | `Spec => []SystemsReinjected` |
| `LedgerSurvives` | `Spec => []LedgerIsDurable`, if a death tears no line in two |
| `OpenAlwaysEndsItsTurn` | `Spec => []OpenEndsItsTurn` |
| `LedgerOnlyGrows` | `Spec => LedgerGrowsAtEnd` |
| `RoundsAreAnswered` | `Spec => []RoundIsAnswered` |
| `ViewKeepsUp` | `Spec => []ViewFollowsLedger` |

`ConversationInv` is what all of them need: a typed session whose messages are in
the order of their IDs up to the counter, and begin with the system instructions,
which a view has too (`Ledger`); a log each prefix of which loads to such a
session, no newer than the one in memory (`LogKept`), because a crash may leave any
prefix there is; and what the phase of the loop says of the last message
(`Phases`). A session is taken through the calls by what they do to it (`Adds`,
`Amends`), each proved once of each method of `Session`.

`Durable` ties the log to the memory: what it loads to has every message of the
ledger, those that are finished as they are. Only of a message that an older run's
deferred call closed while it was being written may calls and a signature be missing
(`closedEarly`): these reach the log with the next checkpoint of their message, and
the one at its end does not come, because the message is closed already.
`LedgerSurvives` has the hypothesis `Tears \subseteq {"intact", "lost"}`, the values
of the runs; without it the property is false, since a line torn in two takes the
next one with it (section 5). The other theorems hold whatever a death does to the
last line.

The properties of the process that began the conversation have invariants of
their own. `OpenInv`: every open message but the last is followed by a prompt
(`Overtaken`), and the last one is open only while a response streams or until a
deferred call comes. `ViewInv`: what is no instruction in the view is in the order of
the ledger (`Ordered`), each a message of the ledger or its preview (`Shown`), and
from the first one on all are there but those left out (`Full`). A compaction keeps
all three: it takes an end of the view (`CompactedFollows`), cuts results whose role
and ID stay (`PreviewShows`), and leaves out what is open, which is what `leftOut`
remembers. `RoundInv` says what `RoundIsAnswered` does, with the calls that are still
to be answered (`pending`) added, in what the model sees.

Every invariant and every action property that a passing run checks is stated by
a theorem, and so are the two refinements. Liveness is only model-checked, being out of
the prover's reach: `CancelEnds`, `RunsEnd`, `EveryRunEnds`, `HandedOverEnds`,
`CancelledCallsEnd`, `LoneQuestionsEnd`, `WaitersAreServed` and `DriversEnd`.

## 5. Not modelled

- What the memory service reads back for the next prompt (`Context`,
  `selectRelevant`, AGENTS.md): it has no state.
- The text of summaries, prompts and the environment, the limits tools put on their
  own output, token estimates: a size is any of a few.
- Which topics an index that is full leaves out.
- Classification of paths and commands by regular expressions and symbolic
  links: an invocation says what the classification would find.
- Running a command, walking a directory, the protocols below the drivers and
  the MCP client: a step that returns, fails or does not return in time.
- Rendering, wiring, the desktop stub: no state of their own.
- Failing single writes of the log, lines over 2 MB, and a log written by
  another version; modification times that go back.

### Weaknesses seen while modelling

These follow from the code as modelled or read; no run is spent on them.

Conversations and runs:

- The deferred call of a run that was overtaken by the next prompt closes the
  message of the run after it (`controller/state.go:180`): text that comes later is
  refused, and calls that come later reach the log only with their inputs.
- The message of a failed run that was overtaken is never closed: the model does not
  see it, and neither does a resumed session.
- `/compact` while a failed run's message is still open leaves that message out of
  the provider's view.
- Tool inputs that arrive after `/compact` reach the ledger and not the
  provider's view (`session.go:270`).
- A record written behind a line that a death has cut is lost to `Load` together
  with that line (`session.go:383`): `Conversation` with `Tears` = {"partial"}
  violates `LedgerIsDurable`.
- A transcript segment that called tools is shown as streaming for ever
  (`controller/state.go:307`).
- Of two concurrent edits of one file, both succeed and one may be lost
  (`edit.go:52`); `EditsAddUp` says that this happens beside each other only.

Requests to the model:

- A stream that breaks off without an error is a complete response to both
  drivers: Anthropic's even says `tool_use` when a call was cut off, and OpenAI's
  leaves announced calls unanswered in the ledger.
- The configuration accepts limits that leave no room for input
  (`conf.go:118`, with the default for the output); then the hard limit never
  applies and every request compacts.
- `/compact` runs on the UI goroutine with a context nobody cancels
  (`app.go:408`).

Questions:

- Of two questions with the same header in one call, one answer is lost
  (`controller/ask.go:57`).
- Of two calls in one response, the later takes the dialog from the earlier, and
  the run waits until it is cancelled.

Tools and servers:

- A name that is taken after sanitising ends the registrations: the tools behind
  it are never registered, and the status line counts them (`app.go:134`).
- `manager.go:59` says a server is started at most once; a failed one is started
  again by the next `Discover`, as the manager's tests expect.
- `Discover` keeps the lock and cannot be cancelled: `/mcp` freezes the UI, and
  quitting waits, until the timeouts of all servers have passed.
- Discovered tools are forgotten with the process, while the conversation that
  says they are loaded can be resumed.

Memories:

- A topic file is removed before its replacement is renamed into place
  (`memory.go:455`): a death or a failing rename in between loses it.
- A directory that cannot be read leaves an empty index, and a topic beyond the
  limits of the index is on the disk but not told of (`memory.go:313`, `335`, `366`).
- An older turn that waited is handed over again by a goroutine of its own and
  may then take the place of a newer one (`memory.go:136`).
- An extraction under way when `/memory clear` is typed writes its topics
  afterwards.
- A waiting turn is extracted with the working directory of the turn before it.

Composer:

- `resolveCommands` returns no diagnostics: the notice of `/commands reload`
  always tells of no conflict and counts commands that were dropped.
- `/review` has an argument hint and is therefore refused without arguments.
- The history has the prompt a command stands for; the down key at its end
  erases what is being typed (`controller/state.go:260`).
- A project command that is refused for an alias is gone together with the
  user's command it replaced; a user directory with `Foo.md` and `foo.md` keeps
  one of them in spite of the project's `foo`.
