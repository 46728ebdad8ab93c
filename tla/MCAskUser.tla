------------------------------ MODULE MCAskUser -----------------------------
(* Instances of AskUser for TLC: two calls in a first response, one in the *)
(* next.                                                                   *)
EXTENDS AskUser

CONSTANTS c1, c2, c3, h1, h2

MCCalls == {c1, c2, c3}
MCRuns  == {1, 2}
MCRunOf == [c \in MCCalls |-> IF c = c3 THEN 2 ELSE 1]
MCHeaders == {h1, h2}

Q(h, n) == [header |-> h, options |-> n]

(* One question; two; two with one header; too many options; none. *)
MCRequests == {<<Q(h1, 2)>>, <<Q(h1, 2), Q(h2, 3)>>, <<Q(h1, 3), Q(h1, 2)>>,
               <<Q(h1, 5)>>, <<>>}
=============================================================================
