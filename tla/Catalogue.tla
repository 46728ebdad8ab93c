------------------------------ MODULE Catalogue -----------------------------
(***************************************************************************)
(* The catalogue of tools: the MCP manager that starts the configured      *)
(* servers (internal/infra/mcp/manager.go), the goroutine that registers   *)
(* what they offer (cmd/cli/app.go, startMCP), the registry               *)
(* (internal/infra/tools/registry.go), ToolSearch, and the agent that      *)
(* offers the registered tools to the model and calls them.                *)
(*                                                                         *)
(* One mutex guards the manager and Discover holds it for as long as the   *)
(* servers take; the UI needs it for /mcp and for the status line, and     *)
(* the end of the program for Close.                                       *)
(***************************************************************************)
EXTENDS Integers, Sequences, FiniteSets, FiniteSetsExt

CONSTANTS
    Servers,    \* enabled servers 1 .. n, in the order of their names
    Remotes,    \* names servers give their tools
    Lists,      \* the lists of tools a server may send
    Names,      \* names of tools in the registry
    NameOf,     \* the registry's name for a tool of a server, after sanitizeName
    Builtins,   \* names of the tools NewRegistry registers
    Starters,   \* calls of Discover, each with its registrations: the program
                \* makes one, the manager's tests two
    Free, NoConn, Builtin

ASSUME CatalogueAssumption ==
    /\ Servers = 1 .. Cardinality(Servers) /\ IsFiniteSet(Servers)
    /\ Lists \subseteq Seq(Remotes)
    /\ NameOf \in [Servers \X Remotes -> Names]
    /\ Builtins \subseteq Names
    /\ Free \notin Starters
    /\ NoConn \notin Starters \X Servers

VARIABLES
    lock,       \* Manager.mu
    closed,     \* Manager.closed
    clients,    \* Manager.clients, by server
    loaded, failed, \* Manager.loaded and the keys of Manager.failed
    toolSize,   \* Manager.toolSize
    open,       \* connections this side has made and not closed
    pc,         \* where each Discover and its registrations are
    turn,       \* the server each Discover has come to
    found,      \* tools each Discover returns, those not yet registered
    registry,   \* Registry.tools: a tool for some of the names
    discovered, \* Registry.discoveredTools
    told,       \* names whose schemas ToolSearch has given to the model
    offered,    \* tools offered with the last request to the model
    ui,         \* what the UI goroutine waits for the lock for
    posted,     \* status closures the UI has not run
    status,     \* the status line
    quit        \* the end of the program

manager == <<lock, closed, clients, loaded, failed, toolSize, open>>
starter == <<pc, turn, found>>
agent   == <<discovered, told, offered>>
uiVars  == <<ui, posted, status, quit>>
vars    == <<manager, starter, registry, agent, uiVars>>

Conn == Starters \X Servers
Tool(v, remote, conn) == [server |-> v, remote |-> remote, conn |-> conn]
NoTool == [server |-> 0, remote |-> Builtin, conn |-> NoConn]

(* NewManagerWithFactory, NewRegistry. *)
Init ==
    /\ lock = Free /\ closed = FALSE
    /\ clients = [v \in Servers |-> NoConn]
    /\ loaded = {} /\ failed = {}
    /\ toolSize = [v \in Servers |-> 0]
    /\ open = {}
    /\ pc = [s \in Starters |-> "none"]
    /\ turn = [s \in Starters |-> 1]
    /\ found = [s \in Starters |-> <<>>]
    /\ registry = [n \in Builtins |-> NoTool]
    /\ discovered = {} /\ told = {} /\ offered = <<>>
    /\ ui = "free" /\ posted = 0 /\ quit = "running"
    /\ status = [connecting |-> FALSE, ready |-> 0, unavailable |-> 0, tools |-> 0]

Go(s, from, to) == pc[s] = from /\ pc' = [pc EXCEPT ![s] = to]

(* startMCP reads the summary, shows that it connects and goes on in a     *)
(* goroutine.                                                              *)
StartMCP(s) ==
    /\ quit = "running" /\ ui = "free" /\ lock = Free
    /\ Servers # {}
    /\ Go(s, "none", "waiting")
    /\ status' = [status EXCEPT !.connecting = TRUE]
    /\ UNCHANGED <<manager, turn, found, registry, agent, ui, posted, quit>>

(***************************************************************************)
(* Manager.Discover, under the lock from its first step to its last.       *)
(***************************************************************************)
(* Fault: a closed manager starts servers. *)
DiscoverBeginClosed(s) ==
    /\ lock = Free
    /\ Go(s, "waiting", "visiting")
    /\ lock' = s
    /\ UNCHANGED <<closed, clients, loaded, failed, toolSize, open, turn, found,
                   registry, agent, uiVars>>

DiscoverBegin(s) ==
    /\ lock = Free
    /\ \/ closed /\ Go(s, "waiting", "registering") /\ UNCHANGED lock
       \/ ~closed /\ Go(s, "waiting", "visiting") /\ lock' = s
    /\ UNCHANGED <<closed, clients, loaded, failed, toolSize, open, turn, found,
                   registry, agent, uiVars>>

Pass(s) == turn' = [turn EXCEPT ![s] = @ + 1]

SkipLoaded(s) ==
    /\ pc[s] = "visiting" /\ turn[s] \in loaded
    /\ Pass(s)
    /\ UNCHANGED <<manager, pc, found, registry, agent, uiVars>>

(* A server that does not start within its timeout has failed. *)
StartFails(s) ==
    /\ pc[s] = "visiting" /\ turn[s] \in Servers \ loaded
    /\ failed' = failed \cup {turn[s]}
    /\ Pass(s)
    /\ UNCHANGED <<lock, closed, clients, loaded, toolSize, open, pc, found,
                   registry, agent, uiVars>>

StartServer(s) ==
    /\ turn[s] \in Servers \ loaded
    /\ Go(s, "visiting", "listing")
    /\ open' = open \cup {<<s, turn[s]>>}
    /\ clients' = [clients EXCEPT ![turn[s]] = <<s, turn[s]>>]
    /\ UNCHANGED <<lock, closed, loaded, failed, toolSize, turn, found,
                   registry, agent, uiVars>>

(* No answer in time, or a schema that is not an object. *)
ListFails(s) ==
    /\ Go(s, "listing", "visiting")
    /\ open' = open \ {clients[turn[s]]}
    /\ clients' = [clients EXCEPT ![turn[s]] = NoConn]
    /\ failed' = failed \cup {turn[s]}
    /\ Pass(s)
    /\ UNCHANGED <<lock, closed, loaded, toolSize, found, registry, agent, uiVars>>

ListTools(s, list) ==
    /\ Go(s, "listing", "visiting")
    /\ loaded' = loaded \cup {turn[s]}
    /\ failed' = failed \ {turn[s]}
    /\ toolSize' = [toolSize EXCEPT ![turn[s]] = Len(list)]
    /\ found' = [found EXCEPT ![s] =
                   @ \o [i \in DOMAIN list |-> Tool(turn[s], list[i], clients[turn[s]])]]
    /\ Pass(s)
    /\ UNCHANGED <<lock, closed, clients, open, registry, agent, uiVars>>

(* Fault: a failed server makes Discover return without unlocking. *)
DiscoverEndLocked(s) ==
    /\ turn[s] \notin Servers
    /\ Go(s, "visiting", "registering")
    /\ lock' = IF failed = {} THEN Free ELSE lock
    /\ UNCHANGED <<closed, clients, loaded, failed, toolSize, open, turn, found,
                   registry, agent, uiVars>>

(* With an error, and nothing catalogued, there is nothing in found. *)
DiscoverEnd(s) ==
    /\ turn[s] \notin Servers
    /\ Go(s, "visiting", "registering")
    /\ lock' = Free
    /\ UNCHANGED <<closed, clients, loaded, failed, toolSize, open, turn, found,
                   registry, agent, uiVars>>

Discover(s) ==
    \/ DiscoverBegin(s) \/ SkipLoaded(s)
    \/ StartFails(s) \/ StartServer(s)
    \/ ListFails(s) \/ (\E list \in Lists : ListTools(s, list))
    \/ DiscoverEnd(s)

(***************************************************************************)
(* The registrations, one call of Registry.Register each, and the status.  *)
(***************************************************************************)
NameOfTool(t) == NameOf[t.server, t.remote]

(* Fault: the later tool takes the name. *)
RegisterOver(s) ==
    /\ pc[s] = "registering" /\ found[s] # <<>>
    /\ LET t == Head(found[s])
       IN  registry' = [n \in DOMAIN registry \cup {NameOfTool(t)} |->
                          IF n = NameOfTool(t) THEN t ELSE registry[n]]
    /\ found' = [found EXCEPT ![s] = Tail(@)]
    /\ UNCHANGED <<manager, pc, turn, agent, uiVars>>

(* A name that is taken ends the registrations: the tools after it are     *)
(* not registered either.                                                  *)
Register(s) ==
    /\ pc[s] = "registering" /\ found[s] # <<>>
    /\ LET t == Head(found[s])
       IN  \/ /\ NameOfTool(t) \notin DOMAIN registry
              /\ registry' = [n \in DOMAIN registry \cup {NameOfTool(t)} |->
                                IF n = NameOfTool(t) THEN t ELSE registry[n]]
              /\ found' = [found EXCEPT ![s] = Tail(@)]
           \/ /\ NameOfTool(t) \in DOMAIN registry
              /\ found' = [found EXCEPT ![s] = <<>>]
              /\ UNCHANGED registry
    /\ UNCHANGED <<manager, pc, turn, agent, uiVars>>

PostStatus(s) ==
    /\ found[s] = <<>>
    /\ Go(s, "registering", "done")
    /\ posted' = posted + 1
    /\ UNCHANGED <<manager, turn, found, registry, agent, ui, status, quit>>

(***************************************************************************)
(* The UI goroutine: /mcp, the status, the end.                            *)
(***************************************************************************)
McpCommand ==
    /\ quit = "running" /\ ui = "free"
    /\ ui' = "summary"
    /\ UNCHANGED <<manager, starter, registry, agent, posted, status, quit>>

RunStatus ==
    /\ quit = "running" /\ ui = "free" /\ posted > 0
    /\ ui' = "status"
    /\ posted' = posted - 1
    /\ UNCHANGED <<manager, starter, registry, agent, status, quit>>

(* Manager.Summary, and the line mcpStatusFor shows of it. *)
Summary ==
    [connecting |-> FALSE,
     ready |-> Cardinality(loaded), unavailable |-> Cardinality(failed \ loaded),
     tools |-> MapThenSumSet(LAMBDA v : toolSize[v], loaded)]

SummaryRead ==
    /\ lock = Free
    /\ ui # "free"
    /\ ui' = "free"
    /\ status' = IF ui = "status" THEN Summary ELSE status
    /\ UNCHANGED <<manager, starter, registry, agent, posted, quit>>

Quit ==
    /\ quit = "running" /\ ui = "free"
    /\ quit' = "closing"
    /\ UNCHANGED <<manager, starter, registry, agent, ui, posted, status>>

(* Manager.Close. *)
Close ==
    /\ quit = "closing" /\ lock = Free
    /\ quit' = "closed" /\ closed' = TRUE
    /\ open' = open \ {clients[v] : v \in Servers}
    /\ clients' = [v \in Servers |-> NoConn]
    /\ UNCHANGED <<lock, loaded, failed, toolSize, starter, registry, agent,
                   ui, posted, status>>

UI == McpCommand \/ RunStatus \/ SummaryRead \/ Quit \/ Close

(***************************************************************************)
(* The agent.                                                              *)
(***************************************************************************)
(* MCP tools are the ones that are deferred. *)
Deferred(n) == registry[n] # NoTool

(* Fault: a search that names tools leaves them out. *)
GetAllSchemasOnlyBuiltin == {n \in DOMAIN registry : ~Deferred(n)}

GetAllSchemas == {n \in DOMAIN registry : Deferred(n) => n \in discovered}

Request ==
    /\ quit = "running"
    /\ offered' = [n \in GetAllSchemas |-> registry[n]]
    /\ UNCHANGED <<manager, starter, registry, discovered, told, uiVars>>

(* FindDeferredByNames finds the tools with the given names, deferred or   *)
(* not.                                                                    *)
FindByNames(names) == names \cap DOMAIN registry

(* SearchDeferred finds what mentions the keyword: any of the deferred.    *)
SearchDeferred(matching) == {n \in matching \cap DOMAIN registry : Deferred(n)}

(* ToolSearch.Execute.  The names are marked one by one after the search,  *)
(* during a round of calls: no request is made in between, and a name      *)
(* stays where it is in the registry.                                      *)
ToolSearch(schemas) ==
    /\ quit = "running"
    /\ schemas # {}
    /\ discovered' = discovered \cup schemas
    /\ told' = told \cup schemas
    /\ UNCHANGED <<manager, starter, registry, offered, uiVars>>

(* What a call of that name ends with (Executor.Get, Tool.Execute): the end *)
(* of the program cancels the run.                                         *)
Outcomes(n) ==
    IF n \notin DOMAIN registry THEN {"unknown"}
    ELSE IF quit # "running" THEN {"cancelled"}
    ELSE IF Deferred(n) /\ registry[n].conn \notin open THEN {"failed"}
    ELSE {"failed", "succeeded"}

Agent ==
    \/ Request
    \/ \E names \in SUBSET Names :
          ToolSearch(FindByNames(names)) \/ ToolSearch(SearchDeferred(names))

Next ==
    \/ \E s \in Starters : StartMCP(s) \/ Discover(s) \/ Register(s) \/ PostStatus(s)
    \/ UI
    \/ Agent

(* Goroutines run; the timeouts end every wait for a server, which Discover *)
(* has a failing step for; the event loop comes to every closure.  The user *)
(* need not ask, and the agent need not run.                               *)
Fairness ==
    /\ \A s \in Starters : WF_vars(Discover(s)) /\ WF_vars(Register(s) \/ PostStatus(s))
    /\ WF_vars(SummaryRead) /\ WF_vars(Close) /\ SF_vars(RunStatus)

Spec == Init /\ [][Next]_vars /\ Fairness

(***************************************************************************)
(* Properties.                                                             *)
(***************************************************************************)
(* Every connection that was made is either closed again or one the        *)
(* manager will close; once the manager is closed none is left, also when  *)
(* the program ends while servers are being started.                       *)
NothingLeaks ==
    /\ open = {clients[v] : v \in Servers} \ {NoConn}
    /\ closed => open = {}

(* A tool that was offered to the model goes on answering to its name: it  *)
(* is the same tool of the same server, whatever is registered later, and  *)
(* a call can succeed as long as the program runs.                         *)
OfferedToolsAnswer ==
    \A n \in DOMAIN offered :
        /\ n \in DOMAIN registry /\ registry[n] = offered[n]
        /\ quit = "running" => "succeeded" \in Outcomes(n)

(* "Their full schemas are now loaded and will be available in subsequent  *)
(* requests" (toolsearch.go:107): every later request of this process      *)
(* offers what ToolSearch has told of.                                     *)
ToldIsOffered == [][offered' # offered => told \subseteq DOMAIN offered']_vars

(* Discover holds the lock while servers start, and the UI goroutine waits *)
(* for it in /mcp, in the status closure, and the program in its end: they *)
(* all come through, and "connecting" does not stay.                       *)
WaitersAreServed ==
    /\ ui # "free" ~> ui = "free"
    /\ quit = "closing" ~> quit = "closed"
    /\ status.connecting ~> (~status.connecting \/ quit # "running")
=============================================================================
