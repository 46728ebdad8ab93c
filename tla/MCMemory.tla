------------------------------ MODULE MCMemory ------------------------------
(* Instances of Memory for TLC: one topic of the user, one of the project, *)
(* and proposals that are refused, one for every reason.                   *)
EXTENDS Memory

CONSTANTS n1, n2

Good(t, n) == [type |-> t, name |-> n, told |-> TRUE, secret |-> FALSE]

MCNames == {n1, n2}
MCProposals == {Good("feedback", n1), Good("project", n1), Good("project", n2),
                Good("user", ""), [Good("user", n2) EXCEPT !.secret = TRUE]}
=============================================================================
