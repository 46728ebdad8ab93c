-------------------------- MODULE ApplicationProofs -------------------------
(***************************************************************************)
(* The terminal application: why no connection to a server is lost and why *)
(* a tool that was offered goes on answering, for any servers, tools,      *)
(* names and calls of Discover; and why a command is found by each of its  *)
(* keys, what is recalled belongs to the conversation that is shown, and a *)
(* marked entry is one of its list, for any files, names and sessions.     *)
(***************************************************************************)
EXTENDS Catalogue, Composer, SequenceTheorems, FiniteSetTheorems,
        WellFoundedInduction, TLAPS

(* A step is one of these. *)
LEMMA NextCases ==
    ASSUME [Next]_vars
    PROVE  \/ \E s \in Starters : StartMCP(s)
           \/ \E s \in Starters : Discover(s)
           \/ \E s \in Starters : Register(s) \/ PostStatus(s)
           \/ McpCommand \/ RunStatus \/ SummaryRead \/ Quit \/ Close
           \/ Agent
           \/ UNCHANGED vars
BY DEF Next, UI

(***************************************************************************)
(* Connections                                                             *)
(***************************************************************************)
Positions == {"none", "waiting", "visiting", "listing", "registering", "done"}

StarterType ==
    /\ pc \in [Starters -> Positions]
    /\ turn \in [Starters -> Int]
    /\ lock \in Starters \cup {Free}
    /\ clients \in [Servers -> Conn \cup {NoConn}]
    /\ closed \in BOOLEAN
    /\ closed <=> quit = "closed"

(* The lock is with the Discover that is going over the servers, and a     *)
(* closed manager lets none begin.                                         *)
LockHeld ==
    /\ \A s \in Starters : pc[s] \in {"visiting", "listing"} <=> lock = s
    /\ quit = "closed" => lock = Free

(* A client belongs to a server that is loaded or being asked for its      *)
(* tools, and no two servers share a connection.                           *)
ClientsAreKept ==
    /\ \A v \in Servers : clients[v] # NoConn =>
          /\ \E s \in Starters : clients[v] = <<s, v>>
          /\ v \in loaded \/ \E s \in Starters : pc[s] = "listing" /\ turn[s] = v
    /\ \A s \in Starters : pc[s] = "listing" =>
          /\ turn[s] \in Servers \ loaded
          /\ clients[turn[s]] = <<s, turn[s]>>
    /\ quit = "closed" => \A v \in Servers : clients[v] = NoConn

OpenAreClients == \A c : c \in open <=> c # NoConn /\ \E v \in Servers : clients[v] = c

ConnInv == StarterType /\ LockHeld /\ ClientsAreKept /\ OpenAreClients

LEMMA ConnInit == Init => ConnInv
<1>. SUFFICES ASSUME Init PROVE ConnInv
  OBVIOUS
<1>1. closed \in BOOLEAN /\ (closed <=> quit = "closed")
  BY Zenon DEF Init
<1>2. /\ pc = [s \in Starters |-> "none"] /\ turn = [s \in Starters |-> 1]
      /\ lock = Free /\ clients = [v \in Servers |-> NoConn] /\ quit = "running"
      /\ open = {}
  BY Zenon DEF Init
<1>3. Free \notin Starters
  BY CatalogueAssumption, Zenon
<1>. QED
  BY <1>1, <1>2, <1>3 DEF ConnInv, StarterType, LockHeld, ClientsAreKept, OpenAreClients,
     Positions

LEMMA ConnDiscover ==
    ASSUME ConnInv, NEW s \in Starters, Discover(s)
    PROVE  ConnInv'
<1>. USE DEF ConnInv, StarterType, LockHeld, ClientsAreKept, OpenAreClients, Go, Pass,
         Positions, uiVars, manager, Conn
<1>1. Free \notin Starters /\ NoConn \notin Starters \X Servers
  BY CatalogueAssumption, Zenon
<1>2. CASE DiscoverBegin(s)
  BY <1>1, <1>2 DEF DiscoverBegin
<1>3. CASE SkipLoaded(s)
  BY <1>3 DEF SkipLoaded
<1>4. CASE StartFails(s)
  BY <1>4 DEF StartFails
<1>5. CASE StartServer(s)
  BY <1>1, <1>5 DEF StartServer
<1>6. CASE ListFails(s)
  BY <1>1, <1>6 DEF ListFails
<1>7. ASSUME NEW list \in Lists, ListTools(s, list) PROVE ConnInv'
  BY <1>7 DEF ListTools
<1>8. CASE DiscoverEnd(s)
  BY <1>1, <1>8 DEF DiscoverEnd
<1>. QED
  BY <1>2, <1>3, <1>4, <1>5, <1>6, <1>7, <1>8 DEF Discover

LEMMA ConnStep == ConnInv /\ [Next]_vars => ConnInv'
<1>. SUFFICES ASSUME ConnInv, [Next]_vars PROVE ConnInv'
  OBVIOUS
<1>. USE DEF ConnInv, StarterType, LockHeld, ClientsAreKept, OpenAreClients, Positions,
         manager, starter, agent, uiVars
<1>1. ASSUME NEW s \in Starters, StartMCP(s) PROVE ConnInv'
  BY <1>1 DEF StartMCP, Go
<1>2. ASSUME NEW s \in Starters, Discover(s) PROVE ConnInv'
  BY <1>2, ConnDiscover
<1>3. ASSUME NEW s \in Starters, Register(s) PROVE ConnInv'
  BY <1>3 DEF Register
<1>4. ASSUME NEW s \in Starters, PostStatus(s) PROVE ConnInv'
  BY <1>4 DEF PostStatus, Go
<1>5. CASE McpCommand \/ RunStatus \/ SummaryRead
  BY <1>5 DEF McpCommand, RunStatus, SummaryRead
<1>6. CASE Quit
  BY <1>6 DEF Quit
<1>7. CASE Close
  <2>1. closed' \in BOOLEAN /\ (closed' <=> quit' = "closed")
    BY <1>7, Zenon DEF Close
  <2>2. /\ lock = Free /\ quit' = "closed" /\ UNCHANGED <<pc, turn, lock, loaded>>
        /\ clients' = [v \in Servers |-> NoConn]
        /\ open' = open \ {clients[v] : v \in Servers}
    BY <1>7 DEF Close
  <2>3. StarterType' /\ LockHeld'
    BY <2>1, <2>2
  <2>4. open' = {} /\ \A v \in Servers : clients'[v] = NoConn
    BY <2>2
  <2>5. \A s \in Starters : pc'[s] # "listing"
    BY <2>2, CatalogueAssumption, Zenon
  <2>6. ClientsAreKept' /\ OpenAreClients'
    BY <2>4, <2>5
  <2>. QED
    BY <2>3, <2>6
<1>8. CASE Agent
  BY <1>8 DEF Agent, Request, ToolSearch
<1>9. CASE UNCHANGED vars
  BY <1>9 DEF vars
<1>. QED
  BY <1>1, <1>2, <1>3, <1>4, <1>5, <1>6, <1>7, <1>8, <1>9, NextCases

(* Whenever the program ends, and whichever servers fail at whichever step *)
(* of their start, the manager closes every connection that was made.      *)
THEOREM ConnectionsAreClosed == Spec => []NothingLeaks
<1>1. ConnInv => NothingLeaks
  <2>. SUFFICES ASSUME ConnInv PROVE NothingLeaks
    OBVIOUS
  <2>1. open = {clients[v] : v \in Servers} \ {NoConn}
    BY DEF ConnInv, OpenAreClients
  <2>2. quit = "closed" => open = {}
    BY <2>1 DEF ConnInv, ClientsAreKept
  <2>. QED
    BY <2>1, <2>2, Zenon DEF NothingLeaks, ConnInv, StarterType
<1>. QED
  BY <1>1, ConnInit, ConnStep, PTL DEF Spec

(***************************************************************************)
(* Offers                                                                  *)
(***************************************************************************)
(* Tools of a loaded server, on its connection while the manager is open.  *)
LiveTools ==
    {t \in [server : Servers, remote : Remotes, conn : Conn \cup {NoConn}] :
        t.server \in loaded /\ (quit = "closed" \/ t.conn = clients[t.server])}

(* What was found and what is registered is live, and a loaded server has  *)
(* a client until the manager is closed.                                   *)
ToolsAreLive ==
    /\ loaded \subseteq Servers
    /\ quit = "closed" \/ \A v \in loaded : clients[v] # NoConn
    /\ found \in [Starters -> Seq(LiveTools)]
    /\ \A n \in DOMAIN registry : registry[n] \in LiveTools \cup {NoTool}

(* The agent offers what is registered, and what it told of is discovered. *)
OffersAreRegistered ==
    /\ DOMAIN offered \subseteq DOMAIN registry
    /\ \A n \in DOMAIN offered : offered[n] = registry[n]
    /\ told \subseteq discovered \cap DOMAIN registry

OfferInv == ConnInv /\ ToolsAreLive /\ OffersAreRegistered

LEMMA SeqOfMore ==
    ASSUME NEW S, NEW T, S \subseteq T, NEW s \in Seq(S) PROVE s \in Seq(T)
<1>1. s \in [1 .. Len(s) -> T] /\ Len(s) \in Nat
  OBVIOUS
<1>. QED
  BY <1>1, SeqDef

LEMMA OfferInit == Init => OfferInv
<1>. SUFFICES ASSUME Init PROVE OfferInv
  OBVIOUS
<1>1. /\ found = [s \in Starters |-> <<>>] /\ registry = [n \in Builtins |-> NoTool]
      /\ loaded = {} /\ told = {} /\ offered = <<>>
  BY DEF Init
<1>2. DOMAIN offered = {}
  BY <1>1
<1>. QED
  BY <1>1, <1>2, ConnInit DEF OfferInv, ToolsAreLive, OffersAreRegistered

(* A live tool stays one: a server that is loaded keeps its client.        *)
LoadedStays ==
    /\ loaded \subseteq loaded'
    /\ \A v \in loaded : quit' = "closed" \/ clients'[v] = clients[v]
    /\ quit = "closed" => quit' = "closed"

LEMMA LiveToolsGrow ==
    ASSUME ConnInv, [Next]_vars
    PROVE  LoadedStays /\ LiveTools \subseteq LiveTools'
<1>1. LoadedStays
  <2>. USE DEF LoadedStays, ConnInv, StarterType, ClientsAreKept, manager, starter, agent,
           uiVars
  <2>1. ASSUME NEW s \in Starters, Discover(s) PROVE LoadedStays
    <3>1. CASE DiscoverBegin(s) \/ SkipLoaded(s) \/ StartFails(s) \/ DiscoverEnd(s)
      BY <3>1 DEF DiscoverBegin, SkipLoaded, StartFails, DiscoverEnd
    <3>2. CASE StartServer(s)
      BY <3>2 DEF StartServer
    <3>3. CASE ListFails(s)
      BY <3>3 DEF ListFails, Go
    <3>4. ASSUME NEW list \in Lists, ListTools(s, list) PROVE LoadedStays
      BY <3>4 DEF ListTools
    <3>. QED
      BY <2>1, <3>1, <3>2, <3>3, <3>4 DEF Discover
  <2>2. ASSUME NEW s \in Starters, StartMCP(s) \/ Register(s) \/ PostStatus(s)
        PROVE  LoadedStays
    BY <2>2 DEF StartMCP, Register, PostStatus
  <2>3. CASE McpCommand \/ RunStatus \/ SummaryRead \/ Quit \/ Close
    BY <2>3 DEF McpCommand, RunStatus, SummaryRead, Quit, Close
  <2>4. CASE Agent
    BY <2>4 DEF Agent, Request, ToolSearch
  <2>. QED
    BY <2>1, <2>2, <2>3, <2>4, NextCases DEF vars
<1>. QED
  BY <1>1 DEF LiveTools, LoadedStays, ConnInv, StarterType

(* The tools of a list, as ListTools files them. *)
LEMMA FiledAreLive ==
    ASSUME ConnInv, NEW s \in Starters, NEW list \in Lists, ListTools(s, list)
    PROVE  [i \in DOMAIN list |-> Tool(turn[s], list[i], clients[turn[s]])]
              \in Seq(LiveTools')
<1>1. list \in Seq(Remotes)
  BY CatalogueAssumption, Zenon
<1>2. /\ turn[s] \in Servers /\ turn[s] \in loaded'
      /\ clients[turn[s]] \in Conn /\ clients' = clients
  <2>1. pc[s] = "listing" /\ loaded' = loaded \cup {turn[s]} /\ clients' = clients
    BY DEF ListTools, Go
  <2>2. turn[s] \in Servers /\ clients[turn[s]] = <<s, turn[s]>>
    BY <2>1 DEF ConnInv, ClientsAreKept
  <2>. QED
    BY <2>1, <2>2 DEF Conn
<1>3. ASSUME NEW i \in DOMAIN list
      PROVE  Tool(turn[s], list[i], clients[turn[s]]) \in LiveTools'
  BY <1>1, <1>2 DEF Tool, LiveTools
<1>4. Len(list) \in Nat /\ DOMAIN list = 1 .. Len(list)
  BY <1>1
<1>. QED
  BY <1>3, <1>4, SeqDef

LEMMA ToolsStep == ConnInv /\ ConnInv' /\ ToolsAreLive /\ [Next]_vars => ToolsAreLive'
<1>. SUFFICES ASSUME ConnInv, ConnInv', ToolsAreLive, [Next]_vars PROVE ToolsAreLive'
  OBVIOUS
<1>a. LoadedStays /\ LiveTools \subseteq LiveTools'
  BY LiveToolsGrow
<1>b. \A s \in Starters : found[s] \in Seq(LiveTools) /\ found[s] \in Seq(LiveTools')
  BY <1>a, SeqOfMore DEF ToolsAreLive
<1>c. ASSUME loaded' = loaded, registry' = registry, found' = found PROVE ToolsAreLive'
  BY <1>a, <1>b, <1>c DEF ToolsAreLive, LoadedStays
<1>. USE DEF manager, starter, agent, uiVars
<1>1. ASSUME NEW s \in Starters, Discover(s) PROVE ToolsAreLive'
  <2>1. CASE DiscoverBegin(s) \/ SkipLoaded(s) \/ StartFails(s) \/ StartServer(s)
               \/ ListFails(s) \/ DiscoverEnd(s)
    BY <1>c, <2>1 DEF DiscoverBegin, SkipLoaded, StartFails, StartServer, ListFails,
       DiscoverEnd
  <2>2. ASSUME NEW list \in Lists, ListTools(s, list) PROVE ToolsAreLive'
    <3>1. found' \in [Starters -> Seq(LiveTools')]
      BY <1>b, <2>2, FiledAreLive, ConcatProperties DEF ListTools, ToolsAreLive
    <3>2. /\ loaded' = loaded \cup {turn[s]} /\ turn[s] \in Servers
          /\ clients' = clients /\ registry' = registry
          /\ clients[turn[s]] # NoConn
      <4>1. NoConn \notin Starters \X Servers
        BY CatalogueAssumption, Zenon
      <4>2. /\ pc[s] = "listing" /\ loaded' = loaded \cup {turn[s]}
            /\ clients' = clients /\ registry' = registry
        BY <2>2 DEF ListTools, Go
      <4>3. turn[s] \in Servers /\ clients[turn[s]] = <<s, turn[s]>>
        BY <4>2 DEF ConnInv, ClientsAreKept
      <4>. QED
        BY <4>1, <4>2, <4>3
    <3>. QED
      BY <1>a, <3>1, <3>2 DEF ToolsAreLive, LoadedStays
  <2>. QED
    BY <1>1, <2>1, <2>2 DEF Discover
<1>2. ASSUME NEW s \in Starters, Register(s) PROVE ToolsAreLive'
  <2>1. Head(found[s]) \in LiveTools /\ Tail(found[s]) \in Seq(LiveTools')
    BY <1>b, <1>2, HeadTailProperties DEF Register
  <2>2. found' \in [Starters -> Seq(LiveTools')]
    <3>1. found' = [found EXCEPT ![s] = Tail(found[s])] \/ found' = [found EXCEPT ![s] = <<>>]
      BY <1>2 DEF Register
    <3>2. <<>> \in Seq(LiveTools')
      OBVIOUS
    <3>. QED
      BY <1>b, <2>1, <3>1, <3>2 DEF ToolsAreLive
  <2>3. \A n \in DOMAIN registry' :
           \/ registry'[n] = Head(found[s])
           \/ n \in DOMAIN registry /\ registry'[n] = registry[n]
    BY <1>2, SMTT(20) DEF Register
  <2>4. loaded' = loaded /\ clients' = clients /\ quit' = quit
    BY <1>2 DEF Register
  <2>. QED
    BY <1>a, <2>1, <2>2, <2>3, <2>4 DEF ToolsAreLive
<1>3. ASSUME NEW s \in Starters, StartMCP(s) \/ PostStatus(s) PROVE ToolsAreLive'
  BY <1>c, <1>3 DEF StartMCP, PostStatus
<1>4. CASE McpCommand \/ RunStatus \/ SummaryRead \/ Quit \/ Close
  BY <1>c, <1>4 DEF McpCommand, RunStatus, SummaryRead, Quit, Close
<1>5. CASE Agent
  BY <1>c, <1>5 DEF Agent, Request, ToolSearch
<1>6. CASE UNCHANGED vars
  BY <1>c, <1>6 DEF vars
<1>. QED
  BY <1>1, <1>2, <1>3, <1>4, <1>5, <1>6, NextCases

(* A name that is in the registry keeps its tool. *)
LEMMA RegistryGrows ==
    ASSUME [Next]_vars
    PROVE  /\ DOMAIN registry \subseteq DOMAIN registry'
           /\ \A n \in DOMAIN registry : registry'[n] = registry[n]
<1>. USE DEF manager, starter, agent, uiVars
<1>1. ASSUME NEW s \in Starters, Register(s)
      PROVE  /\ DOMAIN registry \subseteq DOMAIN registry'
             /\ \A n \in DOMAIN registry : registry'[n] = registry[n]
  BY <1>1 DEF Register
<1>2. ASSUME NEW s \in Starters, StartMCP(s) \/ Discover(s) \/ PostStatus(s)
      PROVE  registry' = registry
  BY <1>2 DEF StartMCP, PostStatus, Discover, DiscoverBegin, SkipLoaded, StartFails,
     StartServer, ListFails, ListTools, DiscoverEnd
<1>3. CASE McpCommand \/ RunStatus \/ SummaryRead \/ Quit \/ Close \/ UNCHANGED vars
  BY <1>3 DEF McpCommand, RunStatus, SummaryRead, Quit, Close, vars
<1>4. CASE Agent
  BY <1>4 DEF Agent, Request, ToolSearch
<1>. QED
  BY <1>1, <1>2, <1>3, <1>4, NextCases

LEMMA OffersStep == OffersAreRegistered /\ [Next]_vars => OffersAreRegistered'
<1>. SUFFICES ASSUME OffersAreRegistered, [Next]_vars PROVE OffersAreRegistered'
  OBVIOUS
<1>. USE RegistryGrows DEF OffersAreRegistered, manager, starter, agent, uiVars
<1>1. ASSUME UNCHANGED <<discovered, told, offered>> PROVE OffersAreRegistered'
  BY <1>1
<1>2. ASSUME NEW s \in Starters,
             StartMCP(s) \/ Discover(s) \/ Register(s) \/ PostStatus(s)
      PROVE  OffersAreRegistered'
  BY <1>1, <1>2 DEF StartMCP, Register, PostStatus, Discover, DiscoverBegin, SkipLoaded,
     StartFails, StartServer, ListFails, ListTools, DiscoverEnd
<1>3. CASE McpCommand \/ RunStatus \/ SummaryRead \/ Quit \/ Close \/ UNCHANGED vars
  BY <1>1, <1>3 DEF McpCommand, RunStatus, SummaryRead, Quit, Close, vars
<1>4. CASE Request
  BY <1>4 DEF Request, GetAllSchemas
<1>5. ASSUME NEW schemas \in SUBSET DOMAIN registry, ToolSearch(schemas)
      PROVE  OffersAreRegistered'
  BY <1>5 DEF ToolSearch
<1>6. CASE Agent
  BY <1>4, <1>5, <1>6 DEF Agent, FindByNames, SearchDeferred
<1>. QED
  BY <1>2, <1>3, <1>6, NextCases

LEMMA OfferStep == OfferInv /\ [Next]_vars => OfferInv'
BY ConnStep, ToolsStep, OffersStep DEF OfferInv

(* A tool that is offered is of a loaded server, on a connection that is   *)
(* open until the program ends, and nothing takes its name from it.        *)
THEOREM OffersAnswer == Spec => []OfferedToolsAnswer
<1>1. ASSUME OfferInv PROVE OfferedToolsAnswer
  <2>. SUFFICES ASSUME NEW n \in DOMAIN offered
                PROVE  /\ n \in DOMAIN registry /\ registry[n] = offered[n]
                       /\ quit = "running" => "succeeded" \in Outcomes(n)
    BY DEF OfferedToolsAnswer
  <2>1. n \in DOMAIN registry /\ registry[n] = offered[n]
    BY <1>1 DEF OfferInv, OffersAreRegistered
  <2>2. ASSUME quit = "running", Deferred(n) PROVE registry[n].conn \in open
    <3>1. registry[n] \in LiveTools
      BY <1>1, <2>1, <2>2 DEF OfferInv, ToolsAreLive, Deferred
    <3>2. /\ registry[n].conn = clients[registry[n].server]
          /\ registry[n].server \in loaded
      BY <2>2, <3>1 DEF LiveTools
    <3>3. clients[registry[n].server] # NoConn /\ registry[n].server \in Servers
      BY <1>1, <2>2, <3>2 DEF OfferInv, ToolsAreLive
    <3>. QED
      BY <1>1, <3>2, <3>3 DEF OfferInv, ConnInv, OpenAreClients
  <2>3. quit = "running" => "succeeded" \in Outcomes(n)
    BY <2>1, <2>2 DEF Outcomes
  <2>. QED
    BY <2>1, <2>3
<1>2. OfferInv => OfferedToolsAnswer
  BY <1>1
<1>. QED
  BY <1>2, OfferInit, OfferStep, PTL DEF Spec

(* What ToolSearch has told of is discovered and registered, and so every  *)
(* later request of the process offers it.                                 *)
THEOREM ToldIsKept == Spec => ToldIsOffered
<1>1. OfferInv /\ [Next]_vars => [offered' # offered => told \subseteq DOMAIN offered']_vars
  <2>. SUFFICES ASSUME OfferInv, [Next]_vars, offered' # offered
                PROVE  told \subseteq DOMAIN offered'
    OBVIOUS
  <2>. USE DEF manager, starter, agent, uiVars
  <2>1. CASE Request
    BY <2>1 DEF Request, GetAllSchemas, OfferInv, OffersAreRegistered
  <2>2. ASSUME NEW s \in Starters,
               StartMCP(s) \/ Discover(s) \/ Register(s) \/ PostStatus(s)
        PROVE  FALSE
    BY <2>2 DEF StartMCP, Register, PostStatus, Discover, DiscoverBegin, SkipLoaded,
       StartFails, StartServer, ListFails, ListTools, DiscoverEnd
  <2>3. CASE McpCommand \/ RunStatus \/ SummaryRead \/ Quit \/ Close \/ UNCHANGED vars
    BY <2>3 DEF McpCommand, RunStatus, SummaryRead, Quit, Close, vars
  <2>4. CASE Agent
    BY <2>1, <2>4 DEF Agent, ToolSearch
  <2>. QED
    BY <2>2, <2>3, <2>4, NextCases
<1>. QED
  BY <1>1, OfferInit, OfferStep, PTL DEF Spec, ToldIsOffered

(***************************************************************************)
(* Recursion over the natural numbers                                      *)
(***************************************************************************)
(* A set of numbers that is not empty has a least one.                     *)
LEMMA NatLeast ==
    ASSUME NEW T, T \subseteq Nat, T # {}
    PROVE  \E x \in T : \A y \in T : x <= y
<1>. DEFINE S == {0 .. k - 1 : k \in T}
            Within == StrictSubsetOrdering(Nat)
<1>1. S \subseteq FiniteSubsetsOf(Nat)
  <2>1. ASSUME NEW k \in T
        PROVE  0 .. k - 1 \subseteq Nat /\ IsFiniteSet(0 .. k - 1)
    <3>1. 0 \in Int /\ k - 1 \in Int
      OBVIOUS
    <3>2. IsFiniteSet(0 .. k - 1)
      BY <3>1, FS_Interval, Zenon
    <3>. QED
      BY <3>2
  <2>. QED
    BY <2>1, Zenon DEF FiniteSubsetsOf
<1>2. PICK U \in S : \A V \in S : ~ (<<V, U>> \in Within)
  <2>1. IsWellFoundedOn(Within, FiniteSubsetsOf(Nat))
    BY FS_StrictSubsetOrderingWellFounded
  <2>2. S # {}
    OBVIOUS
  <2>. HIDE DEF Within, S
  <2>. QED
    BY <1>1, <2>1, <2>2, WFMin
<1>3. PICK x \in T : U = 0 .. x - 1
  OBVIOUS
<1>4. ASSUME NEW y \in T, y < x PROVE FALSE
  <2>1. 0 .. y - 1 \in S /\ 0 .. y - 1 \subseteq U /\ 0 .. y - 1 # U
    BY <1>3, <1>4
  <2>2. <<0 .. y - 1, U>> \in Within
    BY <2>1, <1>1 DEF StrictSubsetOrdering, FiniteSubsetsOf
  <2>. QED
    BY <2>1, <2>2, <1>2
<1>. QED
  BY <1>4

(* What holds of 0, and of every number up to n whose predecessor it holds *)
(* of, holds of all of them.                                               *)
LEMMA Climb ==
    ASSUME NEW n \in Nat, NEW P, 0 \in P, \A k \in 1 .. n : k - 1 \in P => k \in P
    PROVE  \A k \in 0 .. n : k \in P
<1>. DEFINE Bad == {k \in 0 .. n : k \notin P}
<1>. SUFFICES ASSUME Bad # {} PROVE FALSE
  OBVIOUS
<1>1. Bad \subseteq Nat
  OBVIOUS
<1>2. PICK k \in Bad : \A j \in Bad : k <= j
  <2>. HIDE DEF Bad
  <2>. QED
    BY <1>1, NatLeast
<1>3. k \in 1 .. n /\ k \notin P /\ k - 1 \in 0 .. n /\ ~(k <= k - 1)
  OBVIOUS
<1>4. k - 1 \in P
  BY <1>2, <1>3
<1>. QED
  BY <1>3, <1>4

Unfolds(f, n, x0, step) == f[0] = x0 /\ \A k \in 1 .. n : f[k] = step[k][f[k - 1]]

(* A recursive definition over a sequence's positions has a solution.      *)
LEMMA Recursion ==
    ASSUME NEW X, NEW n \in Nat, NEW x0 \in X, NEW step \in [1 .. n -> [X -> X]]
    PROVE  \E f \in [0 .. n -> X] : Unfolds(f, n, x0, step)
<1>. DEFINE Solves(f, k) == /\ f \in [0 .. k -> X] /\ f[0] = x0
                            /\ \A i \in 1 .. k : f[i] = step[i][f[i - 1]]
            P == {k \in 0 .. n : \E f : Solves(f, k)}
<1>1. 0 \in P
  <2>. DEFINE f == [i \in 0 .. 0 |-> x0]
  <2>1. Solves(f, 0)
    OBVIOUS
  <2>. HIDE DEF Solves
  <2>. QED
    BY <2>1
<1>2. ASSUME NEW k \in 1 .. n, k - 1 \in P PROVE k \in P
  <2>1. PICK f : Solves(f, k - 1)
    BY <1>2
  <2>2. f \in [0 .. k - 1 -> X] /\ k - 1 \in 0 .. k - 1 /\ 0 \in 0 .. k - 1
    BY <2>1
  <2>. DEFINE x == step[k][f[k - 1]]
              g == [i \in 0 .. k |-> IF i = k THEN x ELSE f[i]]
  <2>3. x \in X
    BY <2>2
  <2>4. \A i \in 0 .. k : i # k => i \in 0 .. k - 1
    OBVIOUS
  <2>5. \A i \in 0 .. k - 1 : i \in 0 .. k /\ i # k
    OBVIOUS
  <2>6. g \in [0 .. k -> X] /\ g[k] = x /\ \A i \in 0 .. k - 1 : g[i] = f[i]
    <3>. HIDE DEF x
    <3>. QED
      BY <2>2, <2>3, <2>4, <2>5
  <2>7. ASSUME NEW i \in 1 .. k PROVE g[i] = step[i][g[i - 1]]
    <3>. HIDE DEF g
    <3>1. CASE i = k
      BY <2>2, <2>6, <3>1
    <3>2. CASE i # k
      <4>1. i \in 1 .. k - 1 /\ i \in 0 .. k - 1 /\ i - 1 \in 0 .. k - 1
        BY <3>2
      <4>. QED
        BY <2>1, <2>6, <4>1
    <3>. QED
      BY <3>1, <3>2
  <2>8. Solves(g, k)
    <3>. HIDE DEF g
    <3>. QED
      BY <2>1, <2>2, <2>6, <2>7
  <2>. HIDE DEF Solves, g
  <2>. QED
    BY <2>8
<1>3. n \in P
  <2>. HIDE DEF P
  <2>1. \A k \in 0 .. n : k \in P
    BY <1>1, <1>2, Climb
  <2>. QED
    BY <2>1
<1>. QED
  BY <1>3 DEF Unfolds

(***************************************************************************)
(* Selecting from a sequence                                               *)
(***************************************************************************)
SelectsTo(f, q, kept) ==
    /\ f[0] = <<>>
    /\ \A k \in 1 .. Len(q) :
          f[k] = IF q[k] \in kept THEN Append(f[k - 1], q[k]) ELSE f[k - 1]

LEMMA WhereSelects ==
    ASSUME NEW S, NEW q \in Seq(S), NEW kept
    PROVE  \E f \in [0 .. Len(q) -> Seq(S)] :
              SelectsTo(f, q, kept) /\ Where(q, kept) = f[Len(q)]
<1>. DEFINE n == Len(q)
            step == [k \in 1 .. n |-> [x \in Seq(S) |->
                        IF q[k] \in kept THEN Append(x, q[k]) ELSE x]]
            Body(f, k) == IF k = 0 THEN <<>>
                          ELSE IF q[k] \in kept THEN Append(f[k - 1], q[k]) ELSE f[k - 1]
<1>0. n \in Nat /\ \A k \in 1 .. n : q[k] \in S
  OBVIOUS
<1>1. step \in [1 .. n -> [Seq(S) -> Seq(S)]]
  BY <1>0
<1>2. PICK f \in [0 .. n -> Seq(S)] :
          f[0] = <<>> /\ \A k \in 1 .. n : f[k] = step[k][f[k - 1]]
  <2>. DEFINE X == Seq(S)
              x0 == <<>>
  <2>1. x0 \in X /\ n \in Nat /\ step \in [1 .. n -> [X -> X]]
    BY <1>1
  <2>. HIDE DEF step, n, X, x0
  <2>2. \E f \in [0 .. n -> X] : Unfolds(f, n, x0, step)
    BY <2>1, Recursion, Zenon
  <2>. QED
    BY <2>2 DEF X, x0, Unfolds
<1>3. \A k \in 1 .. n :
         f[k] = IF q[k] \in kept THEN Append(f[k - 1], q[k]) ELSE f[k - 1]
  <2>. SUFFICES ASSUME NEW k \in 1 .. n
                PROVE f[k] = IF q[k] \in kept THEN Append(f[k - 1], q[k]) ELSE f[k - 1]
    OBVIOUS
  <2>1. k - 1 \in 0 .. n
    BY <1>0
  <2>2. f[k - 1] \in Seq(S)
    BY <2>1
  <2>. QED
    BY <1>2, <2>2
<1>4. f = [k \in 0 .. n |-> Body(f, k)]
  <2>1. ASSUME NEW k \in 0 .. n PROVE f[k] = Body(f, k)
    <3>1. CASE k = 0
      BY <1>2, <3>1
    <3>2. CASE k # 0
      <4>1. k \in 1 .. n
        BY <1>0, <3>2
      <4>. QED
        BY <1>3, <3>2, <4>1
    <3>. QED
      BY <3>1, <3>2
  <2>. HIDE DEF n, Body
  <2>. QED
    BY <1>2, <2>1
<1>. DEFINE selected[k \in 0 .. n] ==
                IF k = 0 THEN <<>>
                ELSE IF q[k] \in kept THEN Append(selected[k - 1], q[k]) ELSE selected[k - 1]
<1>5. selected = [k \in 0 .. n |-> Body(selected, k)]
  BY <1>4
<1>6. Where(q, kept) = selected[n]
  BY DEF Where
<1>. HIDE DEF selected
<1>7. \A k \in 0 .. n : selected[k] = f[k]
  <2>. DEFINE P == {k \in 0 .. n : selected[k] = f[k]}
  <2>1. 0 \in P
    BY <1>0, <1>2, <1>5
  <2>2. ASSUME NEW k \in 1 .. n, k - 1 \in P PROVE k \in P
    <3>1. k \in 0 .. n /\ k # 0 /\ selected[k - 1] = f[k - 1]
      BY <2>2
    <3>2. selected[k] = Body(selected, k)
      <4>. HIDE DEF Body, n
      <4>. QED
        BY <1>5, <3>1
    <3>3. f[k] = Body(f, k)
      BY <1>3, <3>1
    <3>4. Body(selected, k) = Body(f, k)
      BY <3>1
    <3>. QED
      BY <3>1, <3>2, <3>3, <3>4
  <2>. HIDE DEF P, n
  <2>3. \A k \in 0 .. n : k \in P
    BY <1>0, <2>1, <2>2, Climb
  <2>. QED
    BY <2>3 DEF P
<1>8. Where(q, kept) = f[n] /\ SelectsTo(f, q, kept)
  BY <1>0, <1>2, <1>3, <1>6, <1>7 DEF SelectsTo
<1>. QED
  BY <1>8

(***************************************************************************)
(* The composer                                                            *)
(***************************************************************************)
(* The list of completions is a sequence.                                  *)
LEMMA ListedType == \A word : Listed(word) \in Seq(Words)
<1>. SUFFICES ASSUME NEW word PROVE Listed(word) \in Seq(Words)
  OBVIOUS
<1>. DEFINE all == Where(Alphabet, {c.name : c \in Range(Listing(dynamic))} \cap HasPrefix[word])
<1>1. all \in Seq(Words)
  <2>. DEFINE kept == {c.name : c \in Range(Listing(dynamic))} \cap HasPrefix[word]
  <2>. HIDE DEF kept
  <2>1. PICK f \in [0 .. Len(Alphabet) -> Seq(Words)] : Where(Alphabet, kept) = f[Len(Alphabet)]
    BY WhereSelects, ComposerAssumption
  <2>2. Len(Alphabet) \in 0 .. Len(Alphabet)
    BY ComposerAssumption
  <2>3. Where(Alphabet, kept) \in Seq(Words)
    BY <2>1, <2>2
  <2>. QED
    BY <2>3 DEF kept
<1>. HIDE DEF all
<1>2. SubSeq(all, 1, IF Len(all) < 8 THEN Len(all) ELSE 8) \in Seq(Words)
  BY <1>1
<1>. QED
  BY <1>2 DEF Listed, all

(* The prompts are those of the current session object.                    *)
Recalled ==
    /\ session = [obj |-> session.obj, id |-> session.id]
    /\ shown = session.obj
    /\ \E T : history \in Seq([text : T, obj : {session.obj}])
    /\ historyAt \in -1 .. Len(history)

(* The picker has sessions to pick from while it is open.                  *)
Marked ==
    /\ IsFiniteSet(disk)
    /\ resume = [open |-> resume.open, sessions |-> resume.sessions, selected |-> resume.selected]
    /\ resume.open => /\ \E T : resume.sessions \in Seq(T)
                      /\ resume.selected \in 0 .. Len(resume.sessions) - 1
    /\ completion = [prefix |-> completion.prefix, selected |-> completion.selected]
    /\ completion.selected \in Nat

LEMMA ComposerStart == ComposerInit => Recalled /\ Marked
<1>. SUFFICES ASSUME ComposerInit PROVE Recalled /\ Marked
  OBVIOUS
<1>1. Recalled
  <2>1. history \in Seq([text : {}, obj : {session.obj}]) /\ Len(history) = 0
    BY DEF ComposerInit
  <2>. QED
    BY <2>1 DEF ComposerInit, Recalled
<1>2. IsFiniteSet(disk)
  <2>1. IsFiniteSet({0})
    BY FS_Singleton
  <2>2. disk \subseteq {0}
    BY DEF ComposerInit
  <2>. QED
    BY <2>1, <2>2, FS_Subset
<1>. QED
  BY <1>1, <1>2 DEF ComposerInit, Marked, NoCompletion

(* What is replaced and what is left alone, whatever was typed.            *)
LEMMA RecalledKept ==
    ASSUME Recalled, UNCHANGED <<history, historyAt, session, shown>>
    PROVE  Recalled'
<1>1. PICK T : history \in Seq([text : T, obj : {session.obj}])
  BY DEF Recalled
<1>2. history' \in Seq([text : T, obj : {session'.obj}])
  BY <1>1
<1>. QED
  BY <1>2 DEF Recalled

LEMMA RecalledReplaced ==
    ASSUME NEW id, ReplaceSession(id)
    PROVE  Recalled'
<1>1. history' \in Seq([text : {}, obj : {session'.obj}]) /\ Len(history') = 0
  BY DEF ReplaceSession
<1>. QED
  BY <1>1 DEF ReplaceSession, Recalled

LEMMA RecalledSubmitted ==
    ASSUME Recalled, NEW text, StartSubmission(text)
    PROVE  Recalled'
<1>1. PICK T : history \in Seq([text : T, obj : {session.obj}])
  BY DEF Recalled
<1>2. session' = [obj |-> session.obj, id |-> session'.id] /\ session'.obj = session.obj
  BY DEF StartSubmission, EnsureSession, Recalled
<1>. DEFINE U == T \cup {text}
            Q == [text : U, obj : {session.obj}]
            e == [text |-> text, obj |-> session.obj]
<1>3. history \in Seq(Q) /\ e \in Q
  <2>1. [text : T, obj : {session.obj}] \subseteq Q /\ e \in Q
    OBVIOUS
  <2>. HIDE DEF Q
  <2>. QED
    BY <1>1, <2>1, SeqMonotonic
<1>4. history' = Append(history, e)
  BY DEF StartSubmission
<1>. HIDE DEF Q, e
<1>5. history' \in Seq(Q) /\ Len(history') \in Nat
  BY <1>3, <1>4
<1>6. history' \in Seq([text : U, obj : {session'.obj}])
  BY <1>2, <1>5 DEF Q
<1>7. historyAt' = Len(history') /\ shown' = session'.obj
  BY <1>2 DEF StartSubmission, Recalled
<1>8. historyAt' \in -1 .. Len(history')
  BY <1>5, <1>7
<1>. QED
  BY <1>2, <1>6, <1>7, <1>8 DEF Recalled

LEMMA LocalCases ==
    ASSUME NEW name, NEW args, ExecuteLocal(name, args)
    PROVE  /\ (\E id : ReplaceSession(id)) \/ Unreplaced
           /\ UNCHANGED resume \/ OpenResume
           /\ UNCHANGED commandVars \/ Reload
<1>1. CASE name = "new" \/ (name = "session" /\ args = "new")
  BY <1>1 DEF ExecuteLocal
<1>2. CASE name = "resume" /\ args = ""
  BY <1>2 DEF ExecuteLocal
<1>3. CASE name = "resume" /\ args # ""
  BY <1>3 DEF ExecuteLocal, Resume
<1>4. CASE name = "commands" /\ args = "reload"
  BY <1>4 DEF ExecuteLocal
<1>5. CASE /\ name # "new" /\ name # "resume"
           /\ ~(name = "session" /\ args = "new")
           /\ ~(name = "commands" /\ args = "reload")
  BY <1>5 DEF ExecuteLocal
<1>. QED
  BY <1>1, <1>2, <1>3, <1>4, <1>5

LEMMA RecalledStep == Recalled /\ [ComposerNext]_composer => Recalled'
<1>. SUFFICES ASSUME Recalled, [ComposerNext]_composer PROVE Recalled'
  OBVIOUS
<1>1. CASE Type \/ Clear \/ CompleteCommand \/ CancelResume \/ RunEnds \/ Cancel
           \/ SessionRemoved \/ UNCHANGED composer
  BY <1>1, RecalledKept DEF Type, Clear, CompleteCommand, CancelResume, RunEnds, Cancel,
     SessionRemoved, composer, historyVars, sessionVars
<1>2. CASE \E d \in {-1, 1} : MoveCompletion(d) \/ MoveResume(d)
  BY <1>2, RecalledKept DEF MoveCompletion, MoveResume, historyVars, sessionVars
<1>3. CASE HistoryUp \/ HistoryDown
  <2>1. UNCHANGED <<history, session, shown>> /\ historyAt' \in -1 .. Len(history)
    <3>1. PICK T : history \in Seq([text : T, obj : {session.obj}])
      BY DEF Recalled
    <3>2. Len(history) \in Nat /\ historyAt \in -1 .. Len(history)
      BY <3>1 DEF Recalled
    <3>. QED
      BY <1>3, <3>2 DEF HistoryUp, HistoryDown, sessionVars
  <2>2. PICK T : history \in Seq([text : T, obj : {session.obj}])
    BY DEF Recalled
  <2>3. history' \in Seq([text : T, obj : {session'.obj}])
    BY <2>1, <2>2
  <2>. QED
    BY <2>1, <2>3 DEF Recalled
<1>4. CASE Submit
  <2>1. \/ \E text : StartSubmission(text)
        \/ UNCHANGED <<history, historyAt, session, shown>>
        \/ \E id : ReplaceSession(id)
    <3>1. CASE editor.kind = "text"
      BY <1>4, <3>1 DEF Submit
    <3>2. CASE editor.kind # "text" /\ Refused(editor.word, editor.args)
      BY <1>4, <3>2 DEF Submit, historyVars, sessionVars
    <3>3. CASE editor.kind # "text" /\ ~Refused(editor.word, editor.args)
      <4>. DEFINE c == Find(dynamic, editor.word)
      <4>1. (\E text : StartSubmission(text)) \/ ExecuteLocal(c.name, editor.args)
        BY <1>4, <3>3 DEF Submit
      <4>. HIDE DEF c
      <4>. QED
        BY <4>1, LocalCases DEF Unreplaced, historyVars
    <3>. QED
      BY <3>1, <3>2, <3>3
  <2>. QED
    BY <2>1, RecalledKept, RecalledReplaced, RecalledSubmitted
<1>5. CASE ConfirmResume
  <2>1. (\E id : ReplaceSession(id)) \/ Unreplaced
    BY <1>5 DEF ConfirmResume
  <2>. QED
    BY <2>1, RecalledKept, RecalledReplaced DEF Unreplaced, historyVars
<1>. QED
  BY <1>1, <1>2, <1>3, <1>4, <1>5 DEF ComposerNext

(* The transcript, the prompts that are recalled and the session the next  *)
(* prompt goes to are one conversation, for any number of sessions and     *)
(* prompts and whatever vanishes from the directory meanwhile.             *)
THEOREM ConversationIsOne == ComposerSpec => []OneConversation
<1>1. Recalled => OneConversation
  <2>. SUFFICES ASSUME Recalled PROVE OneConversation
    OBVIOUS
  <2>1. PICK T : history \in Seq([text : T, obj : {session.obj}])
    BY DEF Recalled
  <2>. DEFINE Q == [text : T, obj : {session.obj}]
  <2>2. \A i \in DOMAIN history : history[i] \in Q
    <3>. HIDE DEF Q
    <3>1. history \in Seq(Q)
      BY <2>1 DEF Q
    <3>. QED
      BY <3>1
  <2>3. \A i \in DOMAIN history : history[i].obj = session.obj
    BY <2>2
  <2>. QED
    BY <2>3 DEF Recalled, OneConversation
<1>. QED
  BY <1>1, ComposerStart, RecalledStep, PTL DEF ComposerSpec

Completes(c) == c = [prefix |-> c.prefix, selected |-> c.selected] /\ c.selected \in Nat

LEMMA MarkedKept ==
    ASSUME Marked, IsFiniteSet(disk'), UNCHANGED resume, Completes(completion')
    PROVE  Marked'
BY DEF Marked, Completes

LEMMA MarkedOpened ==
    ASSUME Marked, OpenResume, UNCHANGED disk, Completes(completion')
    PROVE  Marked'
<1>1. CASE disk = {}
  BY <1>1, MarkedKept DEF OpenResume, Marked
<1>2. CASE disk # {}
  <2>. DEFINE n == Cardinality(disk)
  <2>1. n \in Nat
    BY FS_CardinalityType DEF Marked
  <2>2. PICK items \in [1 .. n -> disk] :
           /\ Range(items) = disk
           /\ resume' = [open |-> TRUE, sessions |-> items, selected |-> 0]
    BY <1>2 DEF OpenResume
  <2>. HIDE DEF n
  <2>3. n # 0
    BY <1>2, <2>2 DEF Range
  <2>4. items \in Seq(disk) /\ Len(items) = n
    BY <2>1, <2>2
  <2>. QED
    BY <2>1, <2>2, <2>3, <2>4 DEF Marked, Completes
<1>. QED
  BY <1>1, <1>2

LEMMA CompletionFits ==
    ASSUME Marked, CompletionOpen
    PROVE  /\ Completes(CommandCompletion)
           /\ Len(Listed(editor.word)) \in Nat \ {0}
           /\ CommandCompletion.selected \in 0 .. Len(Listed(editor.word)) - 1
<1>. DEFINE list == Listed(editor.word)
<1>1. list \in Seq(Words) /\ list # <<>>
  BY ListedType DEF CompletionOpen
<1>. HIDE DEF list
<1>2. Len(list) \in Nat \ {0}
  BY <1>1
<1>3. /\ Completes(CommandCompletion)
      /\ CommandCompletion.selected \in 0 .. Len(list) - 1
  <2>1. CommandCompletion =
           IF completion.prefix # editor.word THEN [prefix |-> editor.word, selected |-> 0]
           ELSE IF completion.selected >= Len(list) THEN [completion EXCEPT !.selected = 0]
           ELSE completion
    BY DEF CommandCompletion, list
  <2>. QED
    BY <1>2, <2>1 DEF Marked, Completes
<1>. QED
  BY <1>2, <1>3 DEF list

(* A cursor that goes round stays on the list.                             *)
LEMMA GoesRound ==
    ASSUME NEW n \in Nat \ {0}, NEW i \in 0 .. n - 1, NEW d \in {-1, 1}
    PROVE  (i + d + n) % n \in 0 .. n - 1
<1>1. i + d + n \in Int /\ n \in Int /\ n > 0
  OBVIOUS
<1>. QED
  BY <1>1

LEMMA MarkedStep == Marked /\ [ComposerNext]_composer => Marked'
<1>. SUFFICES ASSUME Marked, [ComposerNext]_composer PROVE Marked'
  OBVIOUS
<1>1. IsFiniteSet(disk) /\ Completes(completion) /\ Completes(NoCompletion)
  BY DEF Marked, Completes, NoCompletion
<1>2. CASE Type \/ Clear \/ HistoryUp \/ HistoryDown \/ RunEnds \/ Cancel
           \/ UNCHANGED composer
  BY <1>1, <1>2, MarkedKept DEF Type, Clear, HistoryUp, HistoryDown, RunEnds, Cancel,
     composer, sessionVars
<1>3. CASE CompleteCommand
  BY <1>1, <1>3, MarkedKept DEF CompleteCommand, sessionVars
<1>4. CASE SessionRemoved
  <2>1. disk' \subseteq disk
    BY <1>4 DEF SessionRemoved
  <2>2. IsFiniteSet(disk')
    BY <1>1, <2>1, FS_Subset
  <2>. QED
    BY <1>1, <1>4, <2>2, MarkedKept DEF SessionRemoved
<1>5. ASSUME NEW d \in {-1, 1}, MoveCompletion(d) PROVE Marked'
  <2>. DEFINE n == Len(Listed(editor.word))
              i == CommandCompletion.selected
  <2>1. Completes(CommandCompletion) /\ n \in Nat \ {0} /\ i \in 0 .. n - 1
    BY <1>5, CompletionFits DEF MoveCompletion
  <2>2. completion' = [CommandCompletion EXCEPT !.selected = (i + d + n) % n]
    BY <1>5 DEF MoveCompletion
  <2>. HIDE DEF n
  <2>3. (i + d + n) % n \in 0 .. n - 1
    BY <2>1, GoesRound
  <2>4. Completes(completion')
    BY <2>1, <2>2, <2>3 DEF Completes
  <2>. QED
    BY <1>1, <1>5, <2>4, MarkedKept DEF MoveCompletion, sessionVars
<1>6. ASSUME NEW d \in {-1, 1}, MoveResume(d) PROVE Marked'
  <2>. DEFINE n == Len(resume.sessions)
  <2>1. PICK T : resume.sessions \in Seq(T)
    BY <1>6 DEF MoveResume, Marked
  <2>2. resume.selected \in 0 .. n - 1 /\ n \in Nat
    BY <1>6, <2>1 DEF MoveResume, Marked
  <2>3. (resume.selected + d + n) % n \in 0 .. n - 1
    <3>. HIDE DEF n
    <3>1. n \in Nat \ {0}
      BY <2>2
    <3>. QED
      BY <2>2, <3>1, GoesRound
  <2>4. resume' = [resume EXCEPT !.selected = (resume.selected + d + n) % n]
    BY <1>6 DEF MoveResume
  <2>5. /\ resume' = [open |-> resume'.open, sessions |-> resume'.sessions,
                      selected |-> resume'.selected]
        /\ resume'.sessions = resume.sessions
        /\ resume'.selected = (resume.selected + d + n) % n
    <3>. HIDE DEF n
    <3>. QED
      BY <2>4 DEF Marked
  <2>. QED
    BY <1>1, <1>6, <2>1, <2>3, <2>5 DEF MoveResume, Marked, sessionVars
<1>7. CASE Submit
  <2>1. CASE \E text : StartSubmission(text)
    <3>1. IsFiniteSet(disk')
      <4>1. disk' = disk \/ disk' = disk \cup {session.obj}
        BY <2>1 DEF StartSubmission, EnsureSession
      <4>. QED
        BY <1>1, <4>1, FS_AddElement
    <3>. QED
      BY <1>1, <2>1, <3>1, MarkedKept DEF StartSubmission
  <2>2. CASE /\ UNCHANGED resume \/ OpenResume
             /\ ResetComposer /\ UNCHANGED disk
    BY <1>1, <2>2, MarkedKept, MarkedOpened DEF ResetComposer
  <2>3. \/ \E text : StartSubmission(text)
        \/ /\ UNCHANGED resume \/ OpenResume
           /\ ResetComposer /\ UNCHANGED disk
    <3>1. CASE editor.kind = "text"
      BY <1>7, <3>1 DEF Submit
    <3>2. CASE editor.kind # "text" /\ Refused(editor.word, editor.args)
      BY <1>7, <3>2 DEF Submit, sessionVars
    <3>3. CASE editor.kind # "text" /\ ~Refused(editor.word, editor.args)
      <4>. DEFINE c == Find(dynamic, editor.word)
      <4>1. \/ \E text : StartSubmission(text)
            \/ ExecuteLocal(c.name, editor.args) /\ ResetComposer /\ UNCHANGED disk
        BY <1>7, <3>3 DEF Submit
      <4>. HIDE DEF c
      <4>. QED
        BY <4>1, LocalCases
    <3>. QED
      BY <3>1, <3>2, <3>3
  <2>. QED
    BY <2>1, <2>2, <2>3
<1>8. CASE ConfirmResume \/ CancelResume
  <2>1. /\ resume' = [resume EXCEPT !.open = FALSE] /\ UNCHANGED disk
        /\ completion' = NoCompletion \/ UNCHANGED completion
    BY <1>8 DEF ConfirmResume, CancelResume, ResetComposer, sessionVars
  <2>2. /\ resume' = [open |-> resume'.open, sessions |-> resume'.sessions,
                      selected |-> resume'.selected]
        /\ resume'.open = FALSE
    BY <2>1 DEF Marked
  <2>. QED
    BY <1>1, <2>1, <2>2 DEF Marked, Completes
<1>. QED
  BY <1>2, <1>3, <1>4, <1>5, <1>6, <1>7, <1>8 DEF ComposerNext

(* The marked entry is one of its list, in the picker and among the        *)
(* completions, for any sessions, any commands and any names.              *)
THEOREM SelectionsAreListed == ComposerSpec => []SelectionsFit
<1>1. Marked => SelectionsFit
  <2>. SUFFICES ASSUME Marked PROVE SelectionsFit
    OBVIOUS
  <2>1. ASSUME resume.open PROVE resume.selected + 1 \in DOMAIN resume.sessions
    <3>1. PICK T : resume.sessions \in Seq(T)
      BY <2>1 DEF Marked
    <3>. QED
      BY <2>1, <3>1 DEF Marked
  <2>2. ASSUME CompletionOpen
        PROVE  CommandCompletion.selected + 1 \in DOMAIN Listed(editor.word)
    <3>1. Listed(editor.word) \in Seq(Words)
      BY ListedType
    <3>. QED
      BY <2>2, <3>1, CompletionFits
  <2>. QED
    BY <2>1, <2>2 DEF SelectionsFit
<1>. QED
  BY <1>1, ComposerStart, MarkedStep, PTL DEF ComposerSpec

(***************************************************************************)
(* The commands that are accepted                                          *)
(***************************************************************************)
CommandSet ==
    [name : Words, aliases : Seq(Words), hint : BOOLEAN, kind : {"local", "prompt"},
     source : {"builtin", "user", "project"}]

AcceptsAll(f, q) ==
    /\ f[0] = <<>>
    /\ \A k \in 1 .. Len(q) : f[k] = Accept(f[k - 1], q[k])

LEMMA Accepted ==
    ASSUME NEW S, NEW q \in Seq(S)
    PROVE  \E f \in [0 .. Len(q) -> Seq(S)] :
              AcceptsAll(f, q) /\ resolveCommands(q) = f[Len(q)]
<1>. DEFINE n == Len(q)
            step == [k \in 1 .. n |-> [x \in Seq(S) |-> Accept(x, q[k])]]
            Body(f, k) == IF k = 0 THEN <<>> ELSE Accept(f[k - 1], q[k])
<1>0. n \in Nat /\ \A k \in 1 .. n : q[k] \in S
  OBVIOUS
<1>1. step \in [1 .. n -> [Seq(S) -> Seq(S)]]
  <2>1. ASSUME NEW k \in 1 .. n, NEW x \in Seq(S) PROVE Accept(x, q[k]) \in Seq(S)
    BY <1>0 DEF Accept
  <2>. QED
    BY <2>1
<1>2. PICK f \in [0 .. n -> Seq(S)] :
          f[0] = <<>> /\ \A k \in 1 .. n : f[k] = step[k][f[k - 1]]
  <2>. DEFINE X == Seq(S)
              x0 == <<>>
  <2>1. x0 \in X /\ n \in Nat /\ step \in [1 .. n -> [X -> X]]
    BY <1>1
  <2>. HIDE DEF step, n, X, x0
  <2>2. \E f \in [0 .. n -> X] : Unfolds(f, n, x0, step)
    BY <2>1, Recursion, Zenon
  <2>. QED
    BY <2>2 DEF X, x0, Unfolds
<1>3. \A k \in 1 .. n : f[k] = Accept(f[k - 1], q[k])
  <2>. SUFFICES ASSUME NEW k \in 1 .. n PROVE f[k] = Accept(f[k - 1], q[k])
    OBVIOUS
  <2>1. k - 1 \in 0 .. n
    BY <1>0
  <2>2. f[k - 1] \in Seq(S)
    BY <2>1
  <2>. QED
    BY <1>2, <2>2
<1>4. f = [k \in 0 .. n |-> Body(f, k)]
  <2>1. ASSUME NEW k \in 0 .. n PROVE f[k] = Body(f, k)
    <3>1. CASE k = 0
      BY <1>2, <3>1
    <3>2. CASE k # 0
      <4>1. k \in 1 .. n
        BY <1>0, <3>2
      <4>. QED
        BY <1>3, <3>2, <4>1
    <3>. QED
      BY <3>1, <3>2
  <2>. HIDE DEF n, Body
  <2>. QED
    BY <1>2, <2>1
<1>. DEFINE accepted[k \in 0 .. n] == IF k = 0 THEN <<>> ELSE Accept(accepted[k - 1], q[k])
<1>5. accepted = [k \in 0 .. n |-> Body(accepted, k)]
  BY <1>4
<1>6. resolveCommands(q) = accepted[n]
  BY DEF resolveCommands
<1>. HIDE DEF accepted
<1>7. \A k \in 0 .. n : accepted[k] = f[k]
  <2>. DEFINE P == {k \in 0 .. n : accepted[k] = f[k]}
  <2>1. 0 \in P
    BY <1>0, <1>2, <1>5
  <2>2. ASSUME NEW k \in 1 .. n, k - 1 \in P PROVE k \in P
    <3>1. k \in 0 .. n /\ k # 0 /\ accepted[k - 1] = f[k - 1]
      BY <2>2
    <3>2. accepted[k] = Body(accepted, k)
      <4>. HIDE DEF Body, n
      <4>. QED
        BY <1>5, <3>1
    <3>3. f[k] = Body(f, k)
      BY <1>3, <3>1
    <3>4. Body(accepted, k) = Body(f, k)
      BY <3>1
    <3>. QED
      BY <3>1, <3>2, <3>3, <3>4
  <2>. HIDE DEF P, n
  <2>3. \A k \in 0 .. n : k \in P
    BY <1>0, <2>1, <2>2, Climb
  <2>. QED
    BY <2>3 DEF P
<1>8. resolveCommands(q) = f[n] /\ AcceptsAll(f, q)
  BY <1>0, <1>2, <1>3, <1>6, <1>7 DEF AcceptsAll
<1>. QED
  BY <1>8

(***************************************************************************)
(* The built-in commands                                                   *)
(***************************************************************************)
(* Each key belongs to one of them.                                        *)
Owner(key) ==
    CASE key \in {"help", "h"} -> 1
      [] key \in {"status", "s"} -> 2
      [] key = "mcp" -> 3
      [] key = "new" -> 4
      [] key \in {"compact", "c"} -> 5
      [] key = "memory" -> 6
      [] key = "session" -> 7
      [] key \in {"resume", "r"} -> 8
      [] key = "commands" -> 9
      [] key = "exit" -> 10
      [] key = "quit" -> 11
      [] key = "review" -> 12
      [] OTHER -> 0

(* No key occurs twice in it.                                              *)
Distinct(c) == ~(Cardinality(Keys(c)) < Len(KeySeq(c)))

LEMMA PlainKeys ==
    ASSUME NEW c, c.aliases = <<>>
    PROVE  Keys(c) = {c.name} /\ Distinct(c)
<1>1. KeySeq(c) = <<c.name>>
  BY DEF KeySeq
<1>2. Keys(c) = {c.name}
  BY <1>1 DEF Keys, Range
<1>3. Cardinality(Keys(c)) = 1 /\ Len(KeySeq(c)) = 1
  BY <1>1, <1>2, FS_Singleton
<1>. QED
  BY <1>2, <1>3 DEF Distinct

LEMMA AliasKeys ==
    ASSUME NEW c, NEW a, c.aliases = <<a>>, Lower[a] = a, a # c.name
    PROVE  Keys(c) = {c.name, a} /\ Distinct(c)
<1>1. [i \in DOMAIN c.aliases |-> Lower[c.aliases[i]]] = <<a>>
  OBVIOUS
<1>2. Len(KeySeq(c)) = 2 /\ KeySeq(c)[1] = c.name /\ KeySeq(c)[2] = a /\ DOMAIN KeySeq(c) = 1 .. 2
  <2>. DEFINE T == {c.name, a}
              p == <<c.name>>
              q == <<a>>
  <2>1. /\ p \in Seq(T) /\ Len(p) = 1 /\ p[1] = c.name
        /\ q \in Seq(T) /\ Len(q) = 1 /\ q[1] = a
    OBVIOUS
  <2>2. KeySeq(c) = p \o q
    BY <1>1 DEF KeySeq
  <2>. HIDE DEF p, q, T
  <2>3. p \o q \in Seq(T) /\ Len(p \o q) = 2 /\ (p \o q)[1] = p[1] /\ (p \o q)[2] = q[1]
    BY <2>1, ConcatProperties
  <2>. QED
    BY <2>1, <2>2, <2>3
<1>3. Keys(c) = {c.name, a}
  BY <1>2 DEF Keys, Range
<1>4. Cardinality({c.name} \cup {a}) = 2
  <2>1. IsFiniteSet({c.name}) /\ Cardinality({c.name}) = 1
    BY FS_Singleton
  <2>2. Cardinality({c.name} \cup {a}) = Cardinality({c.name}) + 1
    BY <2>1, FS_AddElement
  <2>. QED
    BY <2>1, <2>2
<1>5. {c.name, a} = {c.name} \cup {a}
  OBVIOUS
<1>6. Cardinality(Keys(c)) = 2 /\ Len(KeySeq(c)) = 2
  BY <1>2, <1>3, <1>4, <1>5
<1>. QED
  BY <1>3, <1>6 DEF Distinct

LEMMA BuiltinKeys ==
    /\ builtinCommands \in Seq(CommandSet) /\ Len(builtinCommands) = 12
    /\ \A i \in 1 .. 12 : /\ Distinct(builtinCommands[i])
                          /\ \A key \in Keys(builtinCommands[i]) : Owner(key) = i
                          /\ builtinCommands[i].source = "builtin"
<1>. DEFINE b == builtinCommands
<1>0. Len(b) = 12 /\ DOMAIN b = 1 .. 12
  BY DEF builtinCommands
<1>a. \A i \in 1 .. 12 : b[i] \in Range(b)
  BY <1>0 DEF Range
<1>. DEFINE Plain(i, name) == /\ b[i].name = name /\ b[i].aliases = <<>> /\ name \in Words
                              /\ b[i] \in CommandSet /\ b[i].source = "builtin"
            Aliased(i, name, a) == /\ b[i].name = name /\ b[i].aliases = <<a>>
                                   /\ name \in Words /\ a \in Words /\ Lower[a] = a
                                   /\ b[i] \in CommandSet /\ b[i].source = "builtin"
<1>b. ASSUME NEW i \in 1 .. 12
      PROVE  /\ b[i].name \in Words
             /\ \A w \in Range(b[i].aliases) : w \in Words /\ Lower[w] = w
  BY <1>a, CommandsAssumption
<1>c. ASSUME NEW i \in 1 .. 12, NEW name, b[i] = Local(name, <<>>)
      PROVE  Plain(i, name)
  BY <1>b, <1>c DEF Local, Command, CommandSet
<1>d. ASSUME NEW i \in 1 .. 12, NEW name, NEW a, b[i] = Local(name, <<a>>)
      PROVE  Aliased(i, name, a)
  <2>1. b[i].name = name /\ b[i].aliases = <<a>>
    BY <1>d DEF Local, Command
  <2>2. a \in Range(b[i].aliases)
    BY <2>1 DEF Range
  <2>. QED
    BY <1>b, <1>d, <2>1, <2>2 DEF Local, Command, CommandSet
<1>1. Aliased(1, "help", "h") /\ Aliased(2, "status", "s")
  <2>1. b[1] = Local("help", <<"h">>) /\ b[2] = Local("status", <<"s">>)
    BY DEF builtinCommands
  <2>. HIDE DEF b, Aliased
  <2>. QED
    BY <2>1, <1>d
<1>2. Plain(3, "mcp") /\ Plain(4, "new")
  <2>1. b[3] = Local("mcp", <<>>) /\ b[4] = Local("new", <<>>)
    BY DEF builtinCommands
  <2>. HIDE DEF b, Plain
  <2>. QED
    BY <2>1, <1>c
<1>3. Aliased(5, "compact", "c") /\ Aliased(8, "resume", "r")
  <2>1. b[5] = Local("compact", <<"c">>) /\ b[8] = Local("resume", <<"r">>)
    BY DEF builtinCommands
  <2>. HIDE DEF b, Aliased
  <2>. QED
    BY <2>1, <1>d
<1>4. Plain(6, "memory") /\ Plain(7, "session")
  <2>1. b[6] = Local("memory", <<>>) /\ b[7] = Local("session", <<>>)
    BY DEF builtinCommands
  <2>. HIDE DEF b, Plain
  <2>. QED
    BY <2>1, <1>c
<1>5. Plain(9, "commands") /\ Plain(10, "exit") /\ Plain(11, "quit")
  <2>1. b[9] = Local("commands", <<>>) /\ b[10] = Local("exit", <<>>) /\ b[11] = Local("quit", <<>>)
    BY DEF builtinCommands
  <2>. HIDE DEF b, Plain
  <2>. QED
    BY <2>1, <1>c
<1>6. Plain(12, "review")
  <2>1. b[12] = Command("review", <<>>, TRUE, "prompt", "builtin")
    BY DEF builtinCommands
  <2>. QED
    BY <2>1, <1>b DEF Command, CommandSet
<1>7. ASSUME NEW i \in 1 .. 12, NEW name, Plain(i, name), Owner(name) = i
      PROVE  /\ b[i] \in CommandSet /\ Distinct(b[i]) /\ b[i].source = "builtin"
             /\ \A key \in Keys(b[i]) : Owner(key) = i
  BY <1>7, PlainKeys
<1>8. ASSUME NEW i \in 1 .. 12, NEW name, NEW a, Aliased(i, name, a), a # name,
             Owner(name) = i, Owner(a) = i
      PROVE  /\ b[i] \in CommandSet /\ Distinct(b[i]) /\ b[i].source = "builtin"
             /\ \A key \in Keys(b[i]) : Owner(key) = i
  BY <1>8, AliasKeys
<1>9. /\ Owner("help") = 1 /\ Owner("h") = 1 /\ Owner("status") = 2 /\ Owner("s") = 2
      /\ Owner("mcp") = 3 /\ Owner("new") = 4 /\ Owner("compact") = 5 /\ Owner("c") = 5
      /\ Owner("memory") = 6 /\ Owner("session") = 7 /\ Owner("resume") = 8 /\ Owner("r") = 8
      /\ Owner("commands") = 9 /\ Owner("exit") = 10 /\ Owner("quit") = 11
      /\ Owner("review") = 12
  BY DEF Owner
<1>. HIDE DEF b, Plain, Aliased
<1>10. ASSUME NEW i \in 1 .. 12
       PROVE  /\ b[i] \in CommandSet /\ Distinct(b[i]) /\ b[i].source = "builtin"
              /\ \A key \in Keys(b[i]) : Owner(key) = i
  <2>1. \/ i = 1 \/ i = 2 \/ i = 3 \/ i = 4 \/ i = 5 \/ i = 6
        \/ i = 7 \/ i = 8 \/ i = 9 \/ i = 10 \/ i = 11 \/ i = 12
    OBVIOUS
  <2>2. CASE i \in {1, 2, 5, 8}
    BY <1>1, <1>3, <1>8, <1>9, <2>2
  <2>3. CASE i \in {3, 4, 6, 7}
    BY <1>2, <1>4, <1>7, <1>9, <2>3
  <2>4. CASE i \in {9, 10, 11, 12}
    BY <1>5, <1>6, <1>7, <1>9, <2>4
  <2>. QED
    BY <2>1, <2>2, <2>3, <2>4
<1>11. b \in Seq(CommandSet)
  <2>1. b = [i \in 1 .. 12 |-> b[i]]
    BY <1>0 DEF b, builtinCommands
  <2>2. [i \in 1 .. 12 |-> b[i]] \in Seq(CommandSet)
    BY <1>10
  <2>. QED
    BY <2>1, <2>2
<1>. QED
  BY <1>0, <1>10, <1>11 DEF b

(***************************************************************************)
(* What the registry keeps                                                 *)
(***************************************************************************)
Apart(q) == \A i, j \in DOMAIN q : i # j => Keys(q[i]) \cap Keys(q[j]) = {}

LEMMA AcceptKeepsApart ==
    ASSUME NEW S, NEW q \in Seq(S), NEW c \in S, Apart(q)
    PROVE  Apart(Accept(q, c))
<1>1. CASE Accept(q, c) = q
  BY <1>1
<1>2. CASE Accept(q, c) # q
  <2>1. /\ Accept(q, c) = Append(q, c)
        /\ \A i \in DOMAIN q : Keys(q[i]) \cap Keys(c) = {}
    BY <1>2 DEF Accept
  <2>. DEFINE r == Append(q, c)
              n == Len(q)
  <2>2. /\ n \in Nat /\ DOMAIN q = 1 .. n /\ DOMAIN r = 1 .. n + 1
        /\ r[n + 1] = c /\ \A i \in 1 .. n : r[i] = q[i]
    OBVIOUS
  <2>. HIDE DEF r, n
  <2>3. ASSUME NEW i \in DOMAIN r, NEW j \in DOMAIN r, i # j
        PROVE  Keys(r[i]) \cap Keys(r[j]) = {}
    <3>1. CASE i = n + 1
      <4>1. j \in 1 .. n
        BY <2>2, <2>3, <3>1
      <4>2. Keys(r[j]) \cap Keys(r[i]) = {}
        BY <2>1, <2>2, <3>1, <4>1
      <4>. QED
        BY <4>2
    <3>2. CASE j = n + 1
      <4>1. i \in 1 .. n
        BY <2>2, <2>3, <3>2
      <4>. QED
        BY <2>1, <2>2, <3>2, <4>1
    <3>3. CASE i \in 1 .. n /\ j \in 1 .. n
      BY <2>2, <2>3, <3>3 DEF Apart
    <3>. QED
      BY <2>2, <3>1, <3>2, <3>3
  <2>4. Apart(r)
    BY <2>3 DEF Apart
  <2>. QED
    BY <2>1, <2>4 DEF r
<1>. QED
  BY <1>1, <1>2

LEMMA Joined ==
    ASSUME NEW S, NEW p \in Seq(S), NEW r \in Seq(S)
    PROVE  /\ p \o r \in Seq(S) /\ Len(p \o r) = Len(p) + Len(r)
           /\ Len(p) \in Nat /\ Len(r) \in Nat
           /\ \A k \in 1 .. Len(p) : (p \o r)[k] = p[k]
           /\ \A k \in 1 .. Len(p) + Len(r) : k > Len(p) =>
                 k - Len(p) \in 1 .. Len(r) /\ (p \o r)[k] = r[k - Len(p)]
<1>. DEFINE m == Len(p)
            n == Len(r)
            q == p \o r
<1>1. /\ m \in Nat /\ n \in Nat /\ q \in Seq(S) /\ Len(q) = m + n
      /\ \A i \in 1 .. m + n : q[i] = IF i <= m THEN p[i] ELSE r[i - m]
  BY ConcatProperties, LenProperties
<1>. HIDE DEF m, n, q
<1>2. \A k \in 1 .. m : k \in 1 .. m + n /\ k <= m
  BY <1>1
<1>3. \A k \in 1 .. m + n : k > m => k - m \in 1 .. n /\ ~(k <= m)
  BY <1>1
<1>4. /\ \A k \in 1 .. m : q[k] = p[k]
      /\ \A k \in 1 .. m + n : k > m => k - m \in 1 .. n /\ q[k] = r[k - m]
  BY <1>1, <1>2, <1>3
<1>. QED
  BY <1>1, <1>4 DEF m, n, q

(* It holds the first k of the commands, or all built-in ones and some of  *)
(* the others.                                                             *)
Begins(a, k, b, entries) ==
    /\ k <= 12 => Len(a) = k
    /\ k > 12 => Len(a) >= 12
    /\ \A i \in 1 .. Len(a) : IF i <= 12 THEN a[i] = b[i] ELSE a[i] \in Range(entries)

LEMMA BeginsGrows ==
    ASSUME NEW a \in Seq(CommandSet), NEW k \in Nat, k > 0, NEW b, NEW entries,
           NEW c \in CommandSet, Begins(a, k - 1, b, entries),
           k <= 12 => c = b[k], k > 12 => c \in Range(entries)
    PROVE  Begins(Append(a, c), k, b, entries)
<1>. DEFINE n == Len(a)
            r == Append(a, c)
<1>1. /\ n \in Nat /\ Len(r) = n + 1 /\ r[n + 1] = c
      /\ \A i \in 1 .. n : r[i] = a[i]
  BY AppendProperties, LenProperties
<1>2. /\ k - 1 <= 12 => n = k - 1
      /\ k - 1 > 12 => n >= 12
      /\ \A i \in 1 .. n : IF i <= 12 THEN a[i] = b[i] ELSE a[i] \in Range(entries)
  BY DEF Begins
<1>. HIDE DEF n, r
<1>3. /\ k <= 12 => n + 1 = k
      /\ k > 12 => n + 1 > 12
  BY <1>1, <1>2
<1>4. ASSUME NEW i \in 1 .. n + 1
      PROVE  IF i <= 12 THEN r[i] = b[i] ELSE r[i] \in Range(entries)
  <2>1. CASE i \in 1 .. n
    BY <1>1, <1>2, <2>1
  <2>2. CASE i = n + 1
    <3>1. r[i] = c
      BY <1>1, <2>2
    <3>2. IF i <= 12 THEN i = k /\ k <= 12 ELSE k > 12
      BY <1>1, <1>3, <2>2
    <3>. QED
      BY <3>1, <3>2
  <2>. QED
    BY <1>1, <2>1, <2>2
<1>5. n + 1 > 12 => n + 1 >= 12
  BY <1>1
<1>. QED
  BY <1>1, <1>3, <1>4, <1>5 DEF Begins, r, n

(* A built-in command is accepted after those before it.                   *)
LEMMA BuiltinAccepted ==
    ASSUME NEW a \in Seq(CommandSet), NEW k \in 1 .. 12, NEW entries,
           Begins(a, k - 1, builtinCommands, entries)
    PROVE  Accept(a, builtinCommands[k]) = Append(a, builtinCommands[k])
<1>. DEFINE b == builtinCommands
            c == b[k]
<1>1. Distinct(c) /\ \A key \in Keys(c) : Owner(key) = k
  BY BuiltinKeys
<1>2. Len(a) = k - 1 /\ DOMAIN a = 1 .. Len(a)
  BY LenProperties DEF Begins
<1>3. \A i \in 1 .. k - 1 : i \in 1 .. 12 /\ i <= 12 /\ i # k
  OBVIOUS
<1>4. ASSUME NEW i \in DOMAIN a PROVE i \in 1 .. 12 /\ i # k /\ a[i] = b[i]
  BY <1>2, <1>3 DEF Begins
<1>5. ASSUME NEW i \in DOMAIN a PROVE Keys(a[i]) \cap Keys(c) = {}
  <2>1. \A key \in Keys(a[i]) : Owner(key) = i
    BY <1>4, BuiltinKeys
  <2>. HIDE DEF b, c
  <2>. QED
    BY <1>1, <1>4, <2>1
<1>. HIDE DEF b, c
<1>6. ~(\E i \in DOMAIN a : Keys(a[i]) \cap Keys(c) # {})
  BY <1>5
<1>7. Accept(a, c) = Append(a, c)
  BY <1>1, <1>6 DEF Accept, Distinct
<1>. QED
  BY <1>7 DEF b, c

(* The built-in commands come first, all of them, and no key is another's. *)
LEMMA RegistryIsApart ==
    ASSUME NEW entries, entries \in Seq(CommandSet)
    PROVE  LET d == ReplaceDynamic(entries)
           IN  /\ d \in Seq(CommandSet)
               /\ Range(d) \subseteq Range(entries)
               /\ Listing(d) \in Seq(CommandSet)
               /\ Apart(Listing(d))
<1>. DEFINE b == builtinCommands
            q == b \o entries
            n == Len(q)
<1>0. b \in Seq(CommandSet) /\ Len(b) = 12
  BY BuiltinKeys
<1>1. /\ q \in Seq(CommandSet) /\ n \in Nat /\ DOMAIN entries = 1 .. Len(entries)
      /\ \A k \in 1 .. 12 : q[k] = b[k]
      /\ \A k \in 1 .. n : k > 12 => k - 12 \in 1 .. Len(entries) /\ q[k] = entries[k - 12]
  <2>. HIDE DEF b
  <2>1. /\ b \o entries \in Seq(CommandSet) /\ Len(b \o entries) = Len(b) + Len(entries)
        /\ Len(entries) \in Nat
        /\ \A k \in 1 .. Len(b) : (b \o entries)[k] = b[k]
        /\ \A k \in 1 .. Len(b) + Len(entries) : k > Len(b) =>
              k - Len(b) \in 1 .. Len(entries) /\ (b \o entries)[k] = entries[k - Len(b)]
    BY <1>0, Joined, Zenon
  <2>2. DOMAIN entries = 1 .. Len(entries)
    BY LenProperties
  <2>. HIDE DEF q
  <2>3. Len(b \o entries) \in Nat
    BY <1>0, <2>1
  <2>. QED
    BY <1>0, <2>1, <2>2, <2>3 DEF q
<1>2. PICK f \in [0 .. n -> Seq(CommandSet)] : AcceptsAll(f, q) /\ resolveCommands(q) = f[n]
  BY <1>1, Accepted
<1>. DEFINE P == {k \in 0 .. n : Apart(f[k]) /\ Begins(f[k], k, b, entries)}
<1>3. f[0] = <<>> /\ \A k \in 1 .. n : f[k] = Accept(f[k - 1], q[k])
  BY <1>2 DEF AcceptsAll
<1>4. \A k \in 1 .. n : q[k] \in CommandSet
  BY <1>1, ElementOfSeq
<1>5. \A k \in 1 .. n : k > 12 => q[k] \in Range(entries)
  BY <1>1 DEF Range
<1>. HIDE DEF b, q, n
<1>6. 0 \in P
  <2>1. 0 \in 0 .. n
    BY <1>1
  <2>2. Apart(<<>>)
    BY DEF Apart
  <2>3. Begins(<<>>, 0, b, entries)
    BY DEF Begins
  <2>. QED
    BY <1>3, <2>1, <2>2, <2>3
<1>7. ASSUME NEW k \in 1 .. n, k - 1 \in P PROVE k \in P
  <2>. DEFINE a == f[k - 1]
              c == q[k]
  <2>0. k - 1 \in 0 .. n /\ k \in 0 .. n /\ k \in Nat /\ k > 0 /\ (k <= 12 => k \in 1 .. 12)
    BY <1>1
  <2>1. /\ a \in Seq(CommandSet) /\ Apart(a) /\ Begins(a, k - 1, b, entries)
        /\ c \in CommandSet /\ f[k] = Accept(a, c)
    BY <1>2, <1>3, <1>4, <1>7, <2>0
  <2>2. (k <= 12 => c = b[k]) /\ (k > 12 => c \in Range(entries))
    BY <1>1, <1>5, <2>0
  <2>. HIDE DEF a, c
  <2>3. Apart(f[k])
    BY <2>1, AcceptKeepsApart
  <2>4. CASE f[k] = Append(a, c)
    <3>1. Begins(Append(a, c), k, b, entries)
      BY <2>0, <2>1, <2>2, BeginsGrows
    <3>. QED
      BY <2>0, <2>3, <2>4, <3>1
  <2>5. CASE f[k] # Append(a, c)
    <3>1. f[k] = a
      BY <2>1, <2>5 DEF Accept
    <3>2. ~(k <= 12)
      <4>. SUFFICES ASSUME k <= 12 PROVE FALSE
        OBVIOUS
      <4>1. k \in 1 .. 12 /\ c = builtinCommands[k]
        BY <2>0, <2>2 DEF b
      <4>2. Accept(a, c) = Append(a, c)
        BY <2>1, <4>1, BuiltinAccepted DEF b
      <4>. QED
        BY <2>1, <2>5, <4>2
    <3>3. Begins(a, k, b, entries)
      <4>1. /\ k - 1 <= 12 => Len(a) = k - 1
            /\ k - 1 > 12 => Len(a) >= 12
        BY <2>1 DEF Begins
      <4>2. Len(a) >= 12
        BY <2>0, <3>2, <4>1
      <4>. QED
        BY <2>1, <3>2, <4>2 DEF Begins
    <3>. QED
      BY <2>0, <2>3, <3>1, <3>3
  <2>. QED
    BY <2>4, <2>5
<1>. DEFINE all == f[n]
            m == Len(all)
            d == SubSeq(all, 13, m)
<1>8. all \in Seq(CommandSet) /\ Apart(all) /\ Begins(all, n, b, entries)
  <2>. HIDE DEF P
  <2>1. \A k \in 0 .. n : k \in P
    BY <1>1, <1>6, <1>7, Climb
  <2>2. n \in 0 .. n
    BY <1>1
  <2>3. n \in P
    BY <2>1, <2>2
  <2>. QED
    BY <1>2, <2>2, <2>3 DEF P
<1>9. ReplaceDynamic(entries) = d
  <2>1. resolveCommands(builtinCommands \o entries) = all
    BY <1>2 DEF q, b
  <2>2. Len(builtinCommands) + 1 = 13
    BY BuiltinKeys
  <2>. HIDE DEF all
  <2>. QED
    BY <2>1, <2>2 DEF ReplaceDynamic
<1>. HIDE DEF all
<1>10. /\ m \in Nat /\ m >= 12
       /\ \A i \in 1 .. m : all[i] \in CommandSet
       /\ \A i \in 1 .. m : IF i <= 12 THEN all[i] = b[i] ELSE all[i] \in Range(entries)
  <2>1. n >= 12
    <3>1. Len(entries) \in Nat /\ n = 12 + Len(entries)
      <4>1. Len(b \o entries) = Len(b) + Len(entries) /\ Len(entries) \in Nat
        BY <1>0, Joined, Zenon
      <4>. QED
        BY <1>0, <4>1 DEF n, q
    <3>. HIDE DEF q
    <3>. QED
      BY <3>1
  <2>2. m \in Nat /\ \A i \in 1 .. m : all[i] \in CommandSet
    BY <1>8, LenProperties, ElementOfSeq
  <2>3. /\ n <= 12 => m = n
        /\ n > 12 => m >= 12
    BY <1>8 DEF Begins
  <2>4. m >= 12
    <3>. HIDE DEF m
    <3>. QED
      BY <1>1, <2>1, <2>2, <2>3
  <2>. QED
    BY <1>8, <2>2, <2>4 DEF Begins
<1>. HIDE DEF m
<1>11. \A i \in 13 .. m : i \in 1 .. m /\ ~(i <= 12)
  BY <1>10
<1>12. /\ d \in Seq(CommandSet) /\ Len(d) = m - 12
       /\ \A i \in 1 .. m - 12 : d[i] = all[i + 12] /\ i + 12 \in 13 .. m
  <2>1. 13 \in Int /\ m \in Int /\ \A i \in 13 .. m : all[i] \in CommandSet
    BY <1>10, <1>11
  <2>2. /\ d \in Seq(CommandSet)
        /\ Len(d) = IF 13 <= m THEN m - 13 + 1 ELSE 0
        /\ \A i \in 1 .. m - 13 + 1 : d[i] = all[13 + i - 1]
    BY <2>1, SubSeqProperties
  <2>. HIDE DEF d
  <2>3. Len(d) = m - 12 /\ m - 13 + 1 = m - 12
    BY <1>10, <2>2
  <2>4. \A i \in 1 .. m - 12 : 13 + i - 1 = i + 12 /\ i + 12 \in 13 .. m
    BY <1>10
  <2>5. \A i \in 1 .. m - 12 : d[i] = all[i + 12]
    BY <2>2, <2>3, <2>4
  <2>. QED
    BY <2>2, <2>3, <2>4, <2>5
<1>. HIDE DEF d
<1>13. Range(d) \subseteq Range(entries)
  <2>1. ASSUME NEW i \in DOMAIN d PROVE d[i] \in Range(entries)
    <3>1. DOMAIN d = 1 .. m - 12
      BY <1>12, LenProperties
    <3>2. d[i] = all[i + 12] /\ i + 12 \in 13 .. m
      BY <1>12, <3>1
    <3>. QED
      BY <1>10, <1>11, <3>2
  <2>. QED
    BY <2>1 DEF Range
<1>14. b \o d \in Seq(CommandSet) /\ b \o d = all
  <2>1. /\ b \o d \in Seq(CommandSet) /\ Len(b \o d) = 12 + Len(d)
        /\ \A k \in 1 .. 12 : (b \o d)[k] = b[k]
        /\ \A k \in 1 .. 12 + Len(d) : k > 12 =>
              k - 12 \in 1 .. Len(d) /\ (b \o d)[k] = d[k - 12]
    <3>1. /\ b \o d \in Seq(CommandSet) /\ Len(b \o d) = Len(b) + Len(d)
          /\ \A k \in 1 .. Len(b) : (b \o d)[k] = b[k]
          /\ \A k \in 1 .. Len(b) + Len(d) : k > Len(b) =>
                k - Len(b) \in 1 .. Len(d) /\ (b \o d)[k] = d[k - Len(b)]
      <4>1. b \in Seq(CommandSet) /\ d \in Seq(CommandSet)
        BY <1>0, <1>12
      <4>. QED
        BY <4>1, Joined, Zenon
    <3>. QED
      BY <1>0, <3>1
  <2>2. 12 + Len(d) = m /\ Len(d) = m - 12
    BY <1>10, <1>12
  <2>3. ASSUME NEW i \in 1 .. m PROVE (b \o d)[i] = all[i]
    <3>1. CASE i <= 12
      <4>1. i \in 1 .. 12
        BY <3>1
      <4>2. all[i] = b[i]
        BY <1>10, <3>1
      <4>. QED
        BY <2>1, <4>1, <4>2
    <3>2. CASE i > 12
      <4>1. i - 12 \in 1 .. Len(d) /\ (b \o d)[i] = d[i - 12]
        BY <2>1, <2>2, <3>2
      <4>2. d[i - 12] = all[(i - 12) + 12]
        BY <1>12, <2>2, <4>1
      <4>3. (i - 12) + 12 = i
        OBVIOUS
      <4>. QED
        BY <4>1, <4>2, <4>3
    <3>3. i <= 12 \/ i > 12
      BY <1>10
    <3>. QED
      BY <3>1, <3>2, <3>3
  <2>4. Len(b \o d) = Len(all)
    BY <2>1, <2>2 DEF m
  <2>5. \A i \in 1 .. Len(b \o d) : (b \o d)[i] = all[i]
    BY <2>1, <2>2, <2>3
  <2>6. b \o d = all
    BY <1>8, <2>1, <2>4, <2>5, SeqEqual
  <2>. QED
    BY <2>1, <2>6
<1>. QED
  BY <1>8, <1>9, <1>12, <1>13, <1>14 DEF Listing, b

(***************************************************************************)
(* What the loader makes of the two directories                            *)
(***************************************************************************)
LEMMA OverlayType ==
    ASSUME NEW S, NEW q \in Seq(S), NEW c \in S
    PROVE  Overlay(q, c) \in Seq(S)
<1>1. CASE Overlay(q, c) = Append(q, c)
  BY <1>1, AppendProperties
<1>2. CASE Overlay(q, c) # Append(q, c)
  <2>. DEFINE x == PlaceOf(c.name, q)
              r == [i \in DOMAIN q |-> IF i = x THEN c ELSE q[i]]
              n == Len(q)
  <2>1. Overlay(q, c) = r
    BY <1>2 DEF Overlay
  <2>2. n \in Nat /\ DOMAIN q = 1 .. n /\ \A i \in 1 .. n : q[i] \in S
    BY LenProperties, ElementOfSeq
  <2>. HIDE DEF x, n
  <2>3. r \in [1 .. n -> S]
    BY <2>2
  <2>. HIDE DEF r
  <2>4. r \in Seq(S)
    BY <2>2, <2>3
  <2>. QED
    BY <2>1, <2>4
<1>. QED
  BY <1>1, <1>2

OverlaysAll(f, u, q) ==
    /\ f[0] = u
    /\ \A k \in 1 .. Len(q) : f[k] = Overlay(f[k - 1], q[k])

LEMMA Overlaid ==
    ASSUME NEW S, NEW user, NEW project,
           LoadDir(user, "user") \in Seq(S), LoadDir(project, "project") \in Seq(S)
    PROVE  LET commands == LoadDir(project, "project")
           IN  \E f \in [0 .. Len(commands) -> Seq(S)] :
                  /\ OverlaysAll(f, LoadDir(user, "user"), commands)
                  /\ Load(user, project) = f[Len(commands)]
<1>. DEFINE q == LoadDir(project, "project")
            u == LoadDir(user, "user")
            n == Len(q)
            step == [k \in 1 .. n |-> [x \in Seq(S) |-> Overlay(x, q[k])]]
            Body(f, k) == IF k = 0 THEN u ELSE Overlay(f[k - 1], q[k])
<1>0. n \in Nat /\ \A k \in 1 .. n : q[k] \in S
  BY ElementOfSeq, LenProperties
<1>u. u \in Seq(S)
  OBVIOUS
<1>. HIDE DEF q, u
<1>1. step \in [1 .. n -> [Seq(S) -> Seq(S)]]
  <2>1. ASSUME NEW k \in 1 .. n, NEW x \in Seq(S) PROVE Overlay(x, q[k]) \in Seq(S)
    BY <1>0, OverlayType
  <2>. QED
    BY <2>1
<1>2. PICK f \in [0 .. n -> Seq(S)] :
          f[0] = u /\ \A k \in 1 .. n : f[k] = step[k][f[k - 1]]
  <2>. DEFINE X == Seq(S)
              x0 == u
  <2>1. x0 \in X /\ n \in Nat /\ step \in [1 .. n -> [X -> X]]
    BY <1>0, <1>1, <1>u
  <2>. HIDE DEF step, n, X, x0
  <2>2. \E f \in [0 .. n -> X] : Unfolds(f, n, x0, step)
    BY <2>1, Recursion, Zenon
  <2>. QED
    BY <2>2 DEF X, x0, Unfolds
<1>3. \A k \in 1 .. n : f[k] = Overlay(f[k - 1], q[k])
  <2>. SUFFICES ASSUME NEW k \in 1 .. n PROVE f[k] = Overlay(f[k - 1], q[k])
    OBVIOUS
  <2>1. k - 1 \in 0 .. n
    BY <1>0
  <2>2. f[k - 1] \in Seq(S)
    BY <2>1
  <2>. QED
    BY <1>2, <2>2
<1>4. f = [k \in 0 .. n |-> Body(f, k)]
  <2>1. ASSUME NEW k \in 0 .. n PROVE f[k] = Body(f, k)
    <3>1. CASE k = 0
      BY <1>2, <3>1
    <3>2. CASE k # 0
      <4>1. k \in 1 .. n
        BY <1>0, <3>2
      <4>. QED
        BY <1>3, <3>2, <4>1
    <3>. QED
      BY <3>1, <3>2
  <2>. HIDE DEF n, Body
  <2>. QED
    BY <1>2, <2>1
<1>. DEFINE overlaid[k \in 0 .. n] == IF k = 0 THEN u ELSE Overlay(overlaid[k - 1], q[k])
<1>5. overlaid = [k \in 0 .. n |-> Body(overlaid, k)]
  BY <1>4
<1>6. Load(user, project) = overlaid[n]
  BY DEF Load, q, u
<1>. HIDE DEF overlaid
<1>7. \A k \in 0 .. n : overlaid[k] = f[k]
  <2>. DEFINE P == {k \in 0 .. n : overlaid[k] = f[k]}
  <2>1. 0 \in P
    BY <1>0, <1>2, <1>5
  <2>2. ASSUME NEW k \in 1 .. n, k - 1 \in P PROVE k \in P
    <3>1. k \in 0 .. n /\ k # 0 /\ overlaid[k - 1] = f[k - 1]
      BY <2>2
    <3>2. overlaid[k] = Body(overlaid, k)
      <4>. HIDE DEF Body, n
      <4>. QED
        BY <1>5, <3>1
    <3>3. f[k] = Body(f, k)
      BY <1>3, <3>1
    <3>4. Body(overlaid, k) = Body(f, k)
      BY <3>1
    <3>. QED
      BY <3>1, <3>2, <3>3, <3>4
  <2>. HIDE DEF P, n
  <2>3. \A k \in 0 .. n : k \in P
    BY <1>0, <2>1, <2>2, Climb
  <2>. QED
    BY <2>3 DEF P
<1>8. Load(user, project) = f[n] /\ OverlaysAll(f, u, q)
  BY <1>0, <1>2, <1>3, <1>6, <1>7 DEF OverlaysAll
<1>. QED
  BY <1>8 DEF q, u

(* What Where selects: elements of the sequence, all that are to be kept,  *)
(* and each place of it once.                                              *)
Selects(w, q, kept) ==
    /\ \A i \in DOMAIN w : \E x \in DOMAIN q : q[x] \in kept /\ q[x] = w[i]
    /\ \A x \in DOMAIN q : q[x] \in kept => \E i \in DOMAIN w : w[i] = q[x]
    /\ \A i, j \in DOMAIN w : i # j =>
          \E x, y \in DOMAIN q : x # y /\ q[x] = w[i] /\ q[y] = w[j]

LEMMA WhereFaithful ==
    ASSUME NEW S, NEW q \in Seq(S), NEW kept
    PROVE  Where(q, kept) \in Seq(S) /\ Selects(Where(q, kept), q, kept)
<1>. DEFINE n == Len(q)
<1>1. PICK f \in [0 .. n -> Seq(S)] : SelectsTo(f, q, kept) /\ Where(q, kept) = f[n]
  BY WhereSelects
<1>2. n \in Nat /\ DOMAIN q = 1 .. n /\ \A x \in 1 .. n : q[x] \in S
  BY LenProperties, ElementOfSeq
<1>. HIDE DEF n
<1>. DEFINE From(w, k) == \A i \in DOMAIN w : \E x \in 1 .. k : q[x] \in kept /\ q[x] = w[i]
            All(w, k) == \A x \in 1 .. k : q[x] \in kept => \E i \in DOMAIN w : w[i] = q[x]
            Once(w, k) == \A i, j \in DOMAIN w : i # j =>
                             \E x, y \in 1 .. k : x # y /\ q[x] = w[i] /\ q[y] = w[j]
            P == {k \in 0 .. n : From(f[k], k) /\ All(f[k], k) /\ Once(f[k], k)}
<1>3. 0 \in P
  <2>1. f[0] = <<>> /\ 0 \in 0 .. n
    BY <1>1, <1>2 DEF SelectsTo
  <2>. QED
    BY <2>1
<1>4. ASSUME NEW k \in 1 .. n, k - 1 \in P PROVE k \in P
  <2>. DEFINE w == f[k - 1]
              v == f[k]
              m == Len(w)
  <2>1. k - 1 \in 0 .. n /\ k \in 0 .. n /\ k \in 1 .. k
    BY <1>2
  <2>2. w \in Seq(S) /\ From(w, k - 1) /\ All(w, k - 1) /\ Once(w, k - 1)
    BY <1>4, <2>1
  <2>3. v = IF q[k] \in kept THEN Append(w, q[k]) ELSE w
    BY <1>1 DEF SelectsTo, n
  <2>4. /\ \A x \in 1 .. k - 1 : x \in 1 .. k /\ x # k
        /\ \A x \in 1 .. k : x # k => x \in 1 .. k - 1
    BY <1>2
  <2>. HIDE DEF w, v
  <2>5. CASE q[k] \notin kept
    <3>1. v = w
      BY <2>3, <2>5
    <3>2. From(w, k)
      BY <2>2, <2>4
    <3>3. All(w, k)
      BY <2>2, <2>4, <2>5
    <3>4. Once(w, k)
      BY <2>2, <2>4
    <3>5. From(v, k) /\ All(v, k) /\ Once(v, k)
      <4>. HIDE DEF From, All, Once
      <4>. QED
        BY <3>1, <3>2, <3>3, <3>4
    <3>. QED
      BY <2>1, <3>5 DEF v
  <2>6. CASE q[k] \in kept
    <3>1. /\ m \in Nat /\ DOMAIN w = 1 .. m /\ DOMAIN v = 1 .. m + 1
          /\ v[m + 1] = q[k] /\ \A i \in 1 .. m : v[i] = w[i]
      <4>1. v = Append(w, q[k]) /\ q[k] \in S
        BY <1>2, <2>3, <2>6
      <4>. QED
        BY <2>2, <4>1, AppendProperties, LenProperties
    <3>. HIDE DEF m
    <3>2. \A i \in 1 .. m : i \in 1 .. m + 1
      BY <3>1
    <3>3. m + 1 \in 1 .. m + 1 /\ \A i \in 1 .. m + 1 : i # m + 1 => i \in 1 .. m
      BY <3>1
    <3>4. From(v, k)
      <4>. SUFFICES ASSUME NEW i \in DOMAIN v
                    PROVE  \E x \in 1 .. k : q[x] \in kept /\ q[x] = v[i]
        OBVIOUS
      <4>1. CASE i = m + 1
        BY <2>1, <2>6, <3>1, <4>1
      <4>2. CASE i # m + 1
        <5>1. i \in DOMAIN w /\ v[i] = w[i]
          BY <3>1, <3>3, <4>2
        <5>. QED
          BY <2>2, <2>4, <5>1
      <4>. QED
        BY <4>1, <4>2
    <3>5. All(v, k)
      <4>. SUFFICES ASSUME NEW x \in 1 .. k, q[x] \in kept
                    PROVE  \E i \in DOMAIN v : v[i] = q[x]
        OBVIOUS
      <4>1. CASE x = k
        BY <3>1, <3>3, <4>1
      <4>2. CASE x # k
        <5>1. PICK i \in DOMAIN w : w[i] = q[x]
          BY <2>2, <2>4, <4>2
        <5>. QED
          BY <3>1, <3>2, <5>1
      <4>. QED
        BY <4>1, <4>2
    <3>6. Once(v, k)
      <4>. SUFFICES ASSUME NEW i \in DOMAIN v, NEW j \in DOMAIN v, i # j
                    PROVE  \E x, y \in 1 .. k : x # y /\ q[x] = v[i] /\ q[y] = v[j]
        OBVIOUS
      <4>1. CASE i = m + 1
        <5>1. j \in DOMAIN w /\ v[j] = w[j] /\ v[i] = q[k]
          BY <3>1, <3>3, <4>1
        <5>2. PICK y \in 1 .. k - 1 : q[y] = w[j]
          BY <2>2, <5>1
        <5>. QED
          BY <2>1, <2>4, <5>1, <5>2
      <4>2. CASE j = m + 1
        <5>1. i \in DOMAIN w /\ v[i] = w[i] /\ v[j] = q[k]
          BY <3>1, <3>3, <4>2
        <5>2. PICK x \in 1 .. k - 1 : q[x] = w[i]
          BY <2>2, <5>1
        <5>. QED
          BY <2>1, <2>4, <5>1, <5>2
      <4>3. CASE i # m + 1 /\ j # m + 1
        <5>1. i \in DOMAIN w /\ v[i] = w[i] /\ j \in DOMAIN w /\ v[j] = w[j]
          BY <3>1, <3>3, <4>3
        <5>2. PICK x \in 1 .. k - 1, y \in 1 .. k - 1 : x # y /\ q[x] = w[i] /\ q[y] = w[j]
          BY <2>2, <5>1
        <5>. QED
          BY <2>4, <5>1, <5>2
      <4>. QED
        BY <4>1, <4>2, <4>3
    <3>. QED
      BY <2>1, <3>4, <3>5, <3>6 DEF v
  <2>. QED
    BY <2>5, <2>6
<1>5. n \in P
  <2>. HIDE DEF P
  <2>1. \A k \in 0 .. n : k \in P
    BY <1>2, <1>3, <1>4, Climb
  <2>2. n \in 0 .. n
    BY <1>2
  <2>. QED
    BY <2>1, <2>2
<1>6. n \in 0 .. n
  BY <1>2
<1>7. From(f[n], n) /\ All(f[n], n) /\ Once(f[n], n) /\ f[n] \in Seq(S)
  BY <1>5, <1>6
<1>. DEFINE w == f[n]
<1>8. Where(q, kept) = w /\ w \in Seq(S) /\ From(w, n) /\ All(w, n) /\ Once(w, n)
  BY <1>1, <1>7
<1>. HIDE DEF w
<1>9. Selects(w, q, kept)
  <2>. DEFINE D == 1 .. n
  <2>1. D = DOMAIN q
    BY <1>2
  <2>2. /\ \A i \in DOMAIN w : \E x \in D : q[x] \in kept /\ q[x] = w[i]
        /\ \A x \in D : q[x] \in kept => \E i \in DOMAIN w : w[i] = q[x]
        /\ \A i, j \in DOMAIN w : i # j => \E x, y \in D : x # y /\ q[x] = w[i] /\ q[y] = w[j]
    BY <1>8
  <2>. HIDE DEF D
  <2>. QED
    BY <2>1, <2>2 DEF Selects
<1>. QED
  BY <1>8, <1>9

LowerWords == {w \in Words : Lower[w] = w}
LoadedSet ==
    [name : LowerWords, aliases : Seq(Words), hint : BOOLEAN, kind : {"prompt"},
     source : {"user", "project"}]

(* What LoadDir makes of a directory: a command for each file that is well *)
(* formed, and no other.                                                   *)
LEMMA LoadDirFaithful ==
    ASSUME NEW dir \in Seq(Files), NEW source \in {"user", "project"}
    PROVE  LET l == LoadDir(dir, source)
               named(name) == {x \in DOMAIN dir : dir[x].ok /\ Lower[dir[x].name] = name}
           IN  /\ l \in Seq(LoadedSet)
               /\ \A i \in DOMAIN l : l[i].source = source
               /\ \A name : \A x \in named(name) : \E i \in DOMAIN l : l[i].name = name
               /\ \A name : \A i, j \in DOMAIN l :
                     i # j /\ l[i].name = name /\ l[j].name = name =>
                        \E x, y \in named(name) : x # y
<1>. DEFINE kept == {f \in Range(dir) : f.ok}
            w == Where(dir, kept)
            l == LoadDir(dir, source)
<1>1. /\ w \in Seq(Files)
      /\ \A i \in DOMAIN w : \E x \in DOMAIN dir : dir[x] \in kept /\ dir[x] = w[i]
      /\ \A x \in DOMAIN dir : dir[x] \in kept => \E i \in DOMAIN w : w[i] = dir[x]
      /\ \A i, j \in DOMAIN w : i # j =>
            \E x, y \in DOMAIN dir : x # y /\ dir[x] = w[i] /\ dir[y] = w[j]
  <2>1. w \in Seq(Files) /\ Selects(w, dir, kept)
    <3>. HIDE DEF kept
    <3>. QED
      BY WhereFaithful
  <2>. HIDE DEF w, kept
  <2>. QED
    BY <2>1 DEF Selects
<1>2. l = [i \in DOMAIN w |->
             Command(Lower[w[i].name], w[i].aliases, w[i].hint, "prompt", source)]
  BY DEF LoadDir
<1>3. \A x \in DOMAIN dir : dir[x].ok => dir[x] \in kept
  BY DEF Range
<1>4. \A f \in kept : f.ok
  OBVIOUS
<1>. HIDE DEF l, w, kept
<1>5. DOMAIN l = DOMAIN w /\ DOMAIN w = 1 .. Len(w) /\ Len(w) \in Nat
  BY <1>1, <1>2, LenProperties
<1>6. ASSUME NEW i \in DOMAIN w
      PROVE  /\ l[i] \in LoadedSet /\ l[i].source = source
             /\ l[i].name = Lower[w[i].name] /\ w[i].ok
  <2>1. l[i] = Command(Lower[w[i].name], w[i].aliases, w[i].hint, "prompt", source)
    BY <1>2
  <2>2. w[i] \in Files
    BY <1>1, <1>5, ElementOfSeq
  <2>3. w[i].name \in Words /\ w[i].aliases \in Seq(Words) /\ w[i].hint \in BOOLEAN
    BY <2>2 DEF Files
  <2>4. Lower[w[i].name] \in LowerWords
    BY <2>3, CommandsAssumption DEF LowerWords
  <2>5. w[i].ok
    BY <1>1, <1>4
  <2>. QED
    BY <2>1, <2>3, <2>4, <2>5 DEF Command, LoadedSet
<1>7. l \in Seq(LoadedSet)
  <2>1. l \in [1 .. Len(w) -> LoadedSet]
    <3>1. \A i \in 1 .. Len(w) : l[i] \in LoadedSet
      BY <1>5, <1>6
    <3>2. l = [i \in 1 .. Len(w) |-> l[i]]
      BY <1>2, <1>5
    <3>. QED
      BY <3>1, <3>2
  <2>. QED
    BY <1>5, <2>1
<1>. DEFINE named(name) == {x \in DOMAIN dir : dir[x].ok /\ Lower[dir[x].name] = name}
<1>8. ASSUME NEW name, NEW x \in named(name)
      PROVE  \E i \in DOMAIN l : l[i].name = name
  <2>1. x \in DOMAIN dir /\ dir[x].ok /\ Lower[dir[x].name] = name
    OBVIOUS
  <2>2. PICK i \in DOMAIN w : w[i] = dir[x]
    BY <1>1, <1>3, <2>1
  <2>. QED
    BY <1>5, <1>6, <2>1, <2>2
<1>9. ASSUME NEW name, NEW i \in DOMAIN l, NEW j \in DOMAIN l,
             i # j, l[i].name = name, l[j].name = name
      PROVE  \E x, y \in named(name) : x # y
  <2>1. PICK x \in DOMAIN dir, y \in DOMAIN dir : x # y /\ dir[x] = w[i] /\ dir[y] = w[j]
    BY <1>1, <1>5, <1>9
  <2>2. x \in named(name) /\ y \in named(name)
    BY <1>5, <1>6, <1>9, <2>1
  <2>. QED
    BY <2>1, <2>2
<1>. QED
  BY <1>5, <1>6, <1>7, <1>8, <1>9 DEF l

(* At most one command has the name, and if an overlaid one does, it is    *)
(* one of the project.                                                     *)
Single(q, name) == \A i, j \in DOMAIN q : q[i].name = name /\ q[j].name = name => i = j
OfProject(q, name) == \A i \in DOMAIN q : q[i].name = name => q[i].source = "project"

LEMMA OverlayReplaces ==
    ASSUME NEW S, NEW q \in Seq(S), NEW c \in S, NEW name, Single(q, name),
           c.source = "project"
    PROVE  /\ Single(Overlay(q, c), name)
           /\ c.name = name \/ OfProject(q, name) => OfProject(Overlay(q, c), name)
<1>. DEFINE n == Len(q)
<1>1. n \in Nat /\ DOMAIN q = 1 .. n
  BY LenProperties
<1>2. CASE \E i \in DOMAIN q : q[i].name = c.name
  <2>. DEFINE x == PlaceOf(c.name, q)
              r == Overlay(q, c)
  <2>1. DOMAIN r = DOMAIN q /\ \A i \in DOMAIN q : r[i] = IF i = x THEN c ELSE q[i]
    BY <1>2 DEF Overlay
  <2>. HIDE DEF r
  <2>2. CASE c.name # name
    <3>. HIDE DEF x
    <3>1. \A i \in DOMAIN r : r[i].name = name => r[i] = q[i]
      BY <2>1, <2>2
    <3>2. Single(r, name)
      BY <2>1, <3>1 DEF Single
    <3>3. OfProject(q, name) => OfProject(r, name)
      BY <2>1, <3>1 DEF OfProject
    <3>. QED
      BY <2>2, <3>2, <3>3 DEF r
  <2>3. CASE c.name = name
    <3>1. PICK i \in DOMAIN q : q[i].name = name
      BY <1>2, <2>3
    <3>2. \A j \in DOMAIN q : q[j].name = name => j = i
      BY <3>1 DEF Single
    <3>3. x = i
      <4>1. i <= i
        BY <1>1, <3>1
      <4>. QED
        BY <2>3, <3>1, <3>2, <4>1 DEF PlaceOf
    <3>. HIDE DEF x
    <3>4. \A j \in DOMAIN r : r[j].name = name => j = i /\ r[j] = c
      BY <2>1, <3>1, <3>2, <3>3
    <3>5. Single(r, name) /\ OfProject(r, name)
      BY <3>4 DEF Single, OfProject
    <3>. QED
      BY <3>5 DEF r
  <2>. QED
    BY <2>2, <2>3
<1>3. CASE \A i \in DOMAIN q : q[i].name # c.name
  <2>. DEFINE r == Overlay(q, c)
  <2>1. r = Append(q, c)
    BY <1>3 DEF Overlay
  <2>2. /\ DOMAIN r = 1 .. n + 1 /\ r[n + 1] = c /\ \A i \in 1 .. n : r[i] = q[i]
    BY <2>1, AppendProperties, LenProperties
  <2>. HIDE DEF r, n
  <2>3. \A i \in DOMAIN r : (i \in DOMAIN q /\ r[i] = q[i]) \/ (i = n + 1 /\ r[i] = c)
    <3>1. \A i \in 1 .. n + 1 : i \in 1 .. n \/ i = n + 1
      BY <1>1
    <3>. QED
      BY <1>1, <2>2, <3>1
  <2>4. Single(r, name)
    <3>. SUFFICES ASSUME NEW i \in DOMAIN r, NEW j \in DOMAIN r,
                         r[i].name = name, r[j].name = name
                  PROVE  i = j
      BY DEF Single
    <3>1. CASE c.name = name
      BY <1>3, <2>3, <3>1
    <3>2. CASE c.name # name
      BY <2>3, <3>2 DEF Single
    <3>. QED
      BY <3>1, <3>2
  <2>5. c.name = name \/ OfProject(q, name) => OfProject(r, name)
    BY <1>3, <2>3 DEF OfProject
  <2>. QED
    BY <2>4, <2>5 DEF r
<1>. QED
  BY <1>2, <1>3

(* A command of the user is overlaid by every command of the project of    *)
(* its name, unless the user has two of the name.                          *)
LEMMA ProjectFirst ==
    ASSUME NEW user \in Seq(Files), NEW project \in Seq(Files), NEW c,
           c \in Range(Load(user, project)),
           c.source = "user",
           \A x, y \in DOMAIN user :
              user[x].ok /\ Lower[user[x].name] = c.name
              /\ user[y].ok /\ Lower[user[y].name] = c.name => x = y
    PROVE  \A x \in DOMAIN project : ~(project[x].ok /\ Lower[project[x].name] = c.name)
<1>. DEFINE u == LoadDir(user, "user")
            q == LoadDir(project, "project")
            n == Len(q)
            name == c.name
<1>. DEFINE named(nm) == {x \in DOMAIN user : user[x].ok /\ Lower[user[x].name] = nm}
<1>1. /\ u \in Seq(LoadedSet)
      /\ \A nm : \A i, j \in DOMAIN u : i # j /\ u[i].name = nm /\ u[j].name = nm =>
            \E x, y \in named(nm) : x # y
  BY LoadDirFaithful, Zenon
<1>2. Single(u, name)
  <2>. SUFFICES ASSUME NEW i \in DOMAIN u, NEW j \in DOMAIN u, i # j,
                       u[i].name = name, u[j].name = name
                PROVE  FALSE
    BY Zenon DEF Single
  <2>1. PICK x \in named(name), y \in named(name) : x # y
    <3>. HIDE DEF named, u
    <3>. QED
      BY <1>1, Zenon
  <2>2. /\ x \in DOMAIN user /\ user[x].ok /\ Lower[user[x].name] = name
        /\ y \in DOMAIN user /\ user[y].ok /\ Lower[user[y].name] = name
    BY <2>1
  <2>. HIDE DEF u
  <2>. QED
    BY <2>1, <2>2
<1>3. /\ q \in Seq(LoadedSet)
      /\ \A i \in DOMAIN q : q[i].source = "project"
      /\ \A x \in DOMAIN project : project[x].ok /\ Lower[project[x].name] = name =>
            \E i \in DOMAIN q : q[i].name = name
  BY LoadDirFaithful
<1>4. n \in Nat /\ DOMAIN q = 1 .. n /\ \A k \in 1 .. n : q[k] \in LoadedSet
  <2>. HIDE DEF q
  <2>. QED
    BY <1>3, LenProperties, ElementOfSeq
<1>5. PICK f \in [0 .. n -> Seq(LoadedSet)] : OverlaysAll(f, u, q) /\ Load(user, project) = f[n]
  BY <1>1, <1>3, Overlaid
<1>. DEFINE P == {k \in 0 .. n : /\ Single(f[k], name)
                                 /\ (\E j \in 1 .. k : q[j].name = name) => OfProject(f[k], name)}
<1>6. f[0] = u /\ \A k \in 1 .. n : f[k] = Overlay(f[k - 1], q[k])
  BY <1>5 DEF OverlaysAll
<1>. HIDE DEF u, q, n
<1>7. 0 \in P
  <2>1. 0 \in 0 .. n /\ ~(\E j \in 1 .. 0 : TRUE)
    BY <1>4
  <2>. QED
    BY <1>2, <1>6, <2>1
<1>8. ASSUME NEW k \in 1 .. n, k - 1 \in P PROVE k \in P
  <2>1. k - 1 \in 0 .. n /\ k \in 0 .. n /\ \A j \in 1 .. k : j # k => j \in 1 .. k - 1
    BY <1>4
  <2>2. /\ f[k - 1] \in Seq(LoadedSet) /\ Single(f[k - 1], name)
        /\ (\E j \in 1 .. k - 1 : q[j].name = name) => OfProject(f[k - 1], name)
    BY <1>8, <2>1
  <2>3. q[k] \in LoadedSet /\ q[k].source = "project"
    BY <1>3, <1>4
  <2>4. f[k] = Overlay(f[k - 1], q[k])
    BY <1>6
  <2>5. /\ Single(f[k], name)
        /\ q[k].name = name \/ OfProject(f[k - 1], name) => OfProject(f[k], name)
    BY <2>2, <2>3, <2>4, OverlayReplaces
  <2>6. (\E j \in 1 .. k : q[j].name = name) => OfProject(f[k], name)
    BY <2>1, <2>2, <2>5
  <2>. QED
    BY <2>1, <2>5, <2>6
<1>9. n \in P
  <2>. HIDE DEF P
  <2>1. \A k \in 0 .. n : k \in P
    BY <1>4, <1>7, <1>8, Climb
  <2>2. n \in 0 .. n
    BY <1>4
  <2>. QED
    BY <2>1, <2>2
<1>10. PICK i \in DOMAIN f[n] : f[n][i] = c
  BY <1>5 DEF Range
<1>11. ~OfProject(f[n], name)
  BY <1>10 DEF OfProject
<1>. QED
  BY <1>3, <1>4, <1>9, <1>11

LEMMA LoadType ==
    ASSUME NEW user \in Seq(Files), NEW project \in Seq(Files)
    PROVE  Load(user, project) \in Seq(LoadedSet)
<1>. DEFINE q == LoadDir(project, "project")
            u == LoadDir(user, "user")
            n == Len(q)
<1>1. u \in Seq(LoadedSet) /\ q \in Seq(LoadedSet)
  BY LoadDirFaithful
<1>2. n \in Nat
  <2>. HIDE DEF q
  <2>. QED
    BY <1>1, LenProperties
<1>3. PICK f \in [0 .. n -> Seq(LoadedSet)] : OverlaysAll(f, u, q) /\ Load(user, project) = f[n]
  BY <1>1, Overlaid
<1>. HIDE DEF n
<1>. QED
  BY <1>2, <1>3

(***************************************************************************)
(* What the registry finds                                                 *)
(***************************************************************************)
LEMMA KeysAreLower ==
    ASSUME NEW c \in LoadedSet
    PROVE  \A key \in Keys(c) : Lower[key] = key
<1>. DEFINE p == <<c.name>>
            r == [i \in DOMAIN c.aliases |-> Lower[c.aliases[i]]]
<1>1. p \in Seq(LowerWords)
  BY DEF LoadedSet
<1>2. r \in Seq(LowerWords)
  <2>1. c.aliases \in Seq(Words)
    BY DEF LoadedSet
  <2>2. \A w \in Words : Lower[w] \in LowerWords
    BY CommandsAssumption DEF LowerWords
  <2>3. r \in [1 .. Len(c.aliases) -> LowerWords] /\ Len(c.aliases) \in Nat
    BY <2>1, <2>2, LenProperties, ElementOfSeq
  <2>. HIDE DEF r
  <2>. QED
    BY <2>3
<1>3. KeySeq(c) = p \o r
  BY DEF KeySeq
<1>. HIDE DEF p, r
<1>4. KeySeq(c) \in Seq(LowerWords)
  BY <1>1, <1>2, <1>3, ConcatProperties
<1>5. \A i \in DOMAIN KeySeq(c) : KeySeq(c)[i] \in LowerWords
  BY <1>4, LenProperties, ElementOfSeq
<1>. QED
  BY <1>5 DEF Keys, Range, LowerWords

LEMMA FindsOwner ==
    ASSUME NEW d, Listing(d) \in Seq(CommandSet), Apart(Listing(d)),
           NEW i \in DOMAIN Listing(d), NEW key \in Keys(Listing(d)[i]), Lower[key] = key
    PROVE  Find(d, key) = Listing(d)[i]
<1>. DEFINE q == Listing(d)
<1>1. Candidates(d, key) = {i}
  <2>1. \A j \in DOMAIN q : key \in Keys(q[j]) => j = i
    BY DEF Apart
  <2>. QED
    BY <2>1 DEF Candidates
<1>2. i \in Nat
  BY LenProperties
<1>3. (CHOOSE x \in {i} : \A j \in {i} : x <= j) = i
  BY <1>2
<1>. QED
  BY <1>1, <1>3 DEF Find

(* The registry holds what the loader made of the directories when they    *)
(* were last read.                                                         *)
Registered ==
    /\ dirs \in [user : Seq(Files), project : Seq(Files)]
    /\ dynamic = ReplaceDynamic(Load(dirs.user, dirs.project))

LEMMA RegisteredResolves == Registered => CommandsResolve
<1>. SUFFICES ASSUME Registered PROVE CommandsResolve
  OBVIOUS
<1>. DEFINE entries == Load(dirs.user, dirs.project)
            b == builtinCommands
<1>1. dirs.user \in Seq(Files) /\ dirs.project \in Seq(Files)
  BY DEF Registered
<1>2. entries \in Seq(LoadedSet)
  BY <1>1, LoadType
<1>3. entries \in Seq(CommandSet)
  <2>1. LoadedSet \subseteq CommandSet
    BY DEF LoadedSet, CommandSet, LowerWords
  <2>. QED
    BY <1>2, <2>1, SeqMonotonic
<1>4. /\ dynamic \in Seq(CommandSet) /\ Range(dynamic) \subseteq Range(entries)
      /\ Listing(dynamic) \in Seq(CommandSet) /\ Apart(Listing(dynamic))
  <2>1. dynamic = ReplaceDynamic(entries)
    BY DEF Registered
  <2>. HIDE DEF entries
  <2>. QED
    BY <1>3, <2>1, RegistryIsApart
<1>5. Range(entries) \subseteq LoadedSet
  <2>. HIDE DEF entries
  <2>. QED
    BY <1>2, LenProperties, ElementOfSeq DEF Range
<1>6. ASSUME NEW c \in Range(dynamic), NEW key \in Keys(c)
      PROVE  Find(dynamic, key) = c
  <2>1. Lower[key] = key
    BY <1>4, <1>5, KeysAreLower
  <2>2. PICK k \in DOMAIN dynamic : dynamic[k] = c
    BY DEF Range
  <2>3. k \in 1 .. Len(dynamic) /\ Len(dynamic) \in Nat
    BY <1>4, LenProperties
  <2>4. b \in Seq(CommandSet) /\ Len(b) = 12
    BY BuiltinKeys
  <2>. HIDE DEF b
  <2>a. dynamic \in Seq(CommandSet)
    BY <1>4
  <2>b. /\ Len(b \o dynamic) = Len(b) + Len(dynamic)
        /\ \A x \in 1 .. Len(b) + Len(dynamic) : x > Len(b) =>
              x - Len(b) \in 1 .. Len(dynamic) /\ (b \o dynamic)[x] = dynamic[x - Len(b)]
    BY <2>4, <2>a, Joined, Zenon
  <2>5. Len(b \o dynamic) = 12 + Len(dynamic) /\ 12 + k \in 1 .. 12 + Len(dynamic)
    BY <2>3, <2>4, <2>b
  <2>6. (b \o dynamic)[12 + k] = dynamic[k]
    <3>1. 12 + k > 12 /\ (12 + k) - 12 = k
      BY <2>3
    <3>2. (b \o dynamic)[12 + k] = dynamic[(12 + k) - 12]
      BY <2>4, <2>5, <2>b, <3>1
    <3>. QED
      BY <3>1, <3>2
  <2>7. b \o dynamic = Listing(dynamic)
    BY DEF Listing, b
  <2>8. 12 + k \in DOMAIN Listing(dynamic) /\ Listing(dynamic)[12 + k] = c
    BY <1>4, <2>2, <2>5, <2>6, <2>7, LenProperties
  <2>. QED
    BY <1>4, <2>1, <2>8, FindsOwner
<1>7. ASSUME NEW c \in Range(dynamic), c.source = "user",
             Cardinality({i \in DOMAIN dirs.user :
                            dirs.user[i].ok /\ Lower[dirs.user[i].name] = c.name}) = 1
      PROVE  \A x \in DOMAIN dirs.project :
                ~(dirs.project[x].ok /\ Lower[dirs.project[x].name] = c.name)
  <2>. DEFINE u == dirs.user
              N == {i \in DOMAIN u : u[i].ok /\ Lower[u[i].name] = c.name}
  <2>1. IsFiniteSet(N)
    <3>1. IsFiniteSet(1 .. Len(u)) /\ DOMAIN u = 1 .. Len(u)
      <4>1. Len(u) \in Nat /\ DOMAIN u = 1 .. Len(u) /\ 1 \in Int
        BY <1>1, LenProperties
      <4>. QED
        BY <4>1, FS_Interval
    <3>2. N \subseteq 1 .. Len(u)
      BY <3>1
    <3>. QED
      BY <3>1, <3>2, FS_Subset
  <2>2. PICK x : N = {x}
    <3>1. Cardinality(N) = 1
      BY <1>7
    <3>. HIDE DEF N
    <3>. QED
      BY <2>1, <3>1, FS_Singleton
  <2>3. \A x1, y1 \in DOMAIN u :
           u[x1].ok /\ Lower[u[x1].name] = c.name
           /\ u[y1].ok /\ Lower[u[y1].name] = c.name => x1 = y1
    <3>1. \A x1 \in DOMAIN u : u[x1].ok /\ Lower[u[x1].name] = c.name => x1 \in N
      OBVIOUS
    <3>2. \A x1 \in N : x1 = x
      BY <2>2
    <3>. HIDE DEF N
    <3>3. \A x1 \in DOMAIN u : u[x1].ok /\ Lower[u[x1].name] = c.name => x1 = x
      BY <3>1, <3>2, Zenon
    <3>. HIDE DEF u
    <3>. QED
      BY <3>3, Zenon
  <2>4. c \in Range(entries)
    BY <1>4
  <2>. QED
    BY <1>1, <1>7, <2>3, <2>4, ProjectFirst
<1>8. ASSUME NEW c \in Range(dynamic), c.source = "user",
             Cardinality({i \in DOMAIN dirs.user :
                            dirs.user[i].ok /\ Lower[dirs.user[i].name] = c.name}) = 1
      PROVE  {i \in DOMAIN dirs.project :
                dirs.project[i].ok /\ Lower[dirs.project[i].name] = c.name} = {}
  BY <1>7, <1>8
<1>. QED
  BY <1>6, <1>8 DEF CommandsResolve

LEMMA RegisteredStep == Registered /\ [ComposerNext]_composer => Registered'
<1>. SUFFICES ASSUME Registered, [ComposerNext]_composer PROVE Registered'
  OBVIOUS
<1>1. UNCHANGED commandVars \/ Reload
  <2>1. CASE Submit
    <3>1. CASE editor.kind = "text"
      BY <2>1, <3>1 DEF Submit, StartSubmission
    <3>2. CASE editor.kind # "text" /\ Refused(editor.word, editor.args)
      BY <2>1, <3>2 DEF Submit
    <3>3. CASE editor.kind # "text" /\ ~Refused(editor.word, editor.args)
      <4>. DEFINE c == Find(dynamic, editor.word)
      <4>1. (\E text : StartSubmission(text)) \/ ExecuteLocal(c.name, editor.args)
        BY <2>1, <3>3 DEF Submit
      <4>. HIDE DEF c
      <4>. QED
        BY <4>1, LocalCases DEF StartSubmission
    <3>. QED
      BY <3>1, <3>2, <3>3
  <2>2. CASE ~Submit
    BY <2>2 DEF ComposerNext, Type, Clear, MoveCompletion, CompleteCommand, HistoryUp,
       HistoryDown, MoveResume, ConfirmResume, CancelResume, RunEnds, Cancel,
       SessionRemoved, composer, commandVars
  <2>. QED
    BY <2>1, <2>2
<1>2. CASE UNCHANGED commandVars
  BY <1>2 DEF commandVars, Registered
<1>3. CASE Reload
  BY <1>3, ComposerAssumption DEF Reload, Registered
<1>. QED
  BY <1>1, <1>2, <1>3

(* Every loaded command in the registry is the one its name and each of    *)
(* its aliases find, and one of the user is there only where the project   *)
(* has none of the name, for any files in the two directories and however  *)
(* often they are read again.                                              *)
THEOREM CommandsAreFound == ComposerSpec => []CommandsResolve
<1>1. ComposerInit => Registered
  BY ComposerAssumption DEF ComposerInit, Registered
<1>. QED
  BY <1>1, RegisteredResolves, RegisteredStep, PTL DEF ComposerSpec
=============================================================================
