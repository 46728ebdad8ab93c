----------------------------- MODULE MCComposer -----------------------------
(* An instance of Composer for TLC: files that agree with each other, with *)
(* built-in commands and with themselves in every way the registry refuses.*)
EXTENDS Composer

File(name, aliases) == [name |-> name, aliases |-> aliases, hint |-> FALSE, ok |-> TRUE]
Bad(name) == [File(name, <<>>) EXCEPT !.ok = FALSE]

MCTyped == {Prompt("p"), Slash("re"), Slash("new"),
            Full("resume", "reload"), Full("commands", "reload")}

MCAlphabet == <<"commands", "compact", "exit", "help", "mcp", "memory", "new", "quit",
                "resume", "retry", "review", "session", "status", "x", "y">>
MCHasPrefix ==
    [w \in {"re", "new"} |-> IF w = "re" THEN {"resume", "retry", "review"} ELSE {"new"}]

AllWords == {MCAlphabet[i] : i \in DOMAIN MCAlphabet} \cup {"re"}
              \cup {"h", "s", "c", "r", "X", "Y", "H"}
MCLower == [w \in AllWords |-> CASE w = "X" -> "x" [] w = "Y" -> "y" [] w = "H" -> "h"
                                 [] OTHER -> w]

MCDirs ==
    {[user    |-> <<File("X", <<"Y">>), File("y", <<>>)>>,
      project |-> <<File("new", <<>>), File("x", <<"y">>)>>],
     [user    |-> <<File("X", <<"H">>), File("x", <<>>), File("retry", <<>>)>>,
      project |-> <<File("y", <<"x">>), Bad("retry")>>]}
=============================================================================
