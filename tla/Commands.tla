------------------------------- MODULE Commands -----------------------------
(***************************************************************************)
(* Slash commands: what the loader makes of the Markdown files of the user *)
(* and of the project (internal/infra/command/loader.go), and what the     *)
(* registry accepts and finds (internal/svc/command.go), as operators.     *)
(* A directory is the sequence of its files in the order of their paths.   *)
(***************************************************************************)
EXTENDS Selection, FiniteSets, Functions

CONSTANT Lower   \* strings.ToLower, on the words in use

Words == DOMAIN Lower

(* A Markdown file; ok says that parse finds nothing wrong with it.        *)
Files == [name : Words, aliases : Seq(Words), hint : BOOLEAN, ok : BOOLEAN]

Command(name, aliases, hint, kind, source) ==
    [name |-> name, aliases |-> aliases, hint |-> hint, kind |-> kind, source |-> source]

Local(name, aliases) == Command(name, aliases, FALSE, "local", "builtin")

builtinCommands ==
    <<Local("help", <<"h">>), Local("status", <<"s">>), Local("mcp", <<>>),
      Local("new", <<>>), Local("compact", <<"c">>), Local("memory", <<>>),
      Local("session", <<>>), Local("resume", <<"r">>), Local("commands", <<>>),
      Local("exit", <<>>), Local("quit", <<>>),
      Command("review", <<>>, TRUE, "prompt", "builtin")>>

(* Names and aliases of the built-in commands are written in lower case.   *)
ASSUME CommandsAssumption ==
    /\ \A w \in Words : Lower[w] \in Words /\ Lower[Lower[w]] = Lower[w]
    /\ \A c \in Range(builtinCommands) :
          \A w \in {c.name} \cup Range(c.aliases) : w \in Words /\ Lower[w] = w

(* parse: a file that is too large, whose name or alias is not valid, whose *)
(* header cannot be read or whose body is empty yields a diagnostic.       *)
LoadDir(dir, source) ==
    LET files == Where(dir, {f \in Range(dir) : f.ok})
    IN  [i \in DOMAIN files |->
           Command(Lower[files[i].name], files[i].aliases, files[i].hint, "prompt", source)]

(* The place Load replaces: the last command of the name. *)
PlaceOf(name, commands) ==
    CHOOSE i \in DOMAIN commands :
        /\ commands[i].name = name
        /\ \A j \in DOMAIN commands : commands[j].name = name => j <= i

Overlay(commands, c) ==
    IF \E i \in DOMAIN commands : commands[i].name = c.name
    THEN [i \in DOMAIN commands |-> IF i = PlaceOf(c.name, commands) THEN c ELSE commands[i]]
    ELSE Append(commands, c)

(* A command of the project takes the place of the user's of that name.    *)
Load(user, project) ==
    LET commands == LoadDir(project, "project")
        overlaid[n \in 0 .. Len(commands)] ==
            IF n = 0 THEN LoadDir(user, "user")
            ELSE Overlay(overlaid[n - 1], commands[n])
    IN  overlaid[Len(commands)]

KeySeq(c) == <<c.name>> \o [i \in DOMAIN c.aliases |-> Lower[c.aliases[i]]]
Keys(c)   == Range(KeySeq(c))

(* Fault: only names are compared. *)
AcceptNames(accepted, c) ==
    IF \E i \in DOMAIN accepted : accepted[i].name = c.name
    THEN accepted
    ELSE Append(accepted, c)

(* A command is accepted with all of its keys or not at all: none may be   *)
(* in use, and none may occur twice in it.                                 *)
Accept(accepted, c) ==
    IF \/ \E i \in DOMAIN accepted : Keys(accepted[i]) \cap Keys(c) # {}
       \/ Cardinality(Keys(c)) < Len(KeySeq(c))
    THEN accepted
    ELSE Append(accepted, c)

resolveCommands(commands) ==
    LET accepted[n \in 0 .. Len(commands)] ==
            IF n = 0 THEN <<>> ELSE Accept(accepted[n - 1], commands[n])
    IN  accepted[Len(commands)]

(* What ReplaceDynamic keeps: the accepted ones after the built-in ones.   *)
ReplaceDynamic(commands) ==
    LET accepted == resolveCommands(builtinCommands \o commands)
    IN  SubSeq(accepted, Len(builtinCommands) + 1, Len(accepted))

(* Find: the first command with the key, a built-in one before others.    *)
Listing(dynamic) == builtinCommands \o dynamic

Candidates(dynamic, word) ==
    {i \in DOMAIN Listing(dynamic) : Lower[word] \in Keys(Listing(dynamic)[i])}

Known(dynamic, word) == Candidates(dynamic, word) # {}

Find(dynamic, word) ==
    LET first == CHOOSE i \in Candidates(dynamic, word) :
                    \A j \in Candidates(dynamic, word) : i <= j
    IN  Listing(dynamic)[first]
=============================================================================
