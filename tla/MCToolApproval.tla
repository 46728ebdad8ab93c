--------------------------- MODULE MCToolApproval ---------------------------
(* An instance of ToolApproval for TLC: two calls of a first run, and one of *)
(* a second, out of a few invocations that take the policy's branches.     *)
EXTENDS ToolApproval

CONSTANTS c1, c2, c3, k1, k2

Base == [known |-> TRUE, parsed |-> TRUE, name |-> "builtin",
         profile |-> "build", category |-> "read", dangerous |-> FALSE,
         outside |-> FALSE, sensitive |-> FALSE, planFile |-> FALSE,
         modifies |-> FALSE, key |-> k1]

AskedCommand == [Base EXCEPT !.name = "Bash", !.category = "command"]

(* In the plan profile: a read outside asks, a write is denied. *)
OutsideRead == [Base EXCEPT !.profile = "plan", !.outside = TRUE, !.key = k2]
PlanWrite   == [Base EXCEPT !.profile = "plan", !.category = "write"]

Unknown == [Base EXCEPT !.known = FALSE]

MCCalls == {c1, c2, c3}
MCKeys  == {k1, k2}
MCKinds == {AskedCommand, OutsideRead, PlanWrite, Unknown}
MCRunOf == [c \in MCCalls |-> IF c = c3 THEN 2 ELSE 1]
=============================================================================
