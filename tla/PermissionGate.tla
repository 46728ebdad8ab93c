---------------------------- MODULE PermissionGate --------------------------
(***************************************************************************)
(* What the user is promised of the agent's tools, whatever goroutines,    *)
(* channels and dialogs lie in between: he is asked only about what the    *)
(* policy leaves to him, his answer to a call is given once and is final,  *)
(* only "allow for this session" is remembered, and for the calls of its   *)
(* key alone; a tool is entered with permission and before its run is      *)
(* withdrawn, and a call that was refused is never entered.                *)
(***************************************************************************)
CONSTANTS Calls, Keys

VARIABLES
    verdict,    \* the policy's on each call
    key,        \* what a permission for the session would cover
    consent,    \* what the user has answered to each call
    granted,    \* the keys allowed for the session
    withdrawn,  \* calls of runs the user has cancelled
    state       \* what has become of each call

vars == <<verdict, key, consent, granted, withdrawn, state>>

Init ==
    /\ verdict \in [Calls -> {"allow", "ask", "deny"}]
    /\ key \in [Calls -> Keys]
    /\ consent = [c \in Calls |-> "none"]
    /\ granted = {} /\ withdrawn = {}
    /\ state = [c \in Calls |-> "pending"]

(* The user may answer late, when the call has been refused meanwhile. *)
Answer(c) ==
    /\ verdict[c] = "ask" /\ consent[c] = "none"
    /\ state[c] \in {"pending", "refused"}
    /\ \E answer \in {"once", "session", "deny"} : consent' = [consent EXCEPT ![c] = answer]
    /\ UNCHANGED <<verdict, key, granted, withdrawn, state>>

(* An answer that comes too late for its call allows nothing else either. *)
Grant(c) ==
    /\ state[c] = "pending" /\ consent[c] = "session"
    /\ granted' = granted \cup {key[c]}
    /\ UNCHANGED <<verdict, key, consent, withdrawn, state>>

Withdraw ==
    /\ withdrawn' \in SUBSET Calls /\ withdrawn \subseteq withdrawn'
    /\ UNCHANGED <<verdict, key, consent, granted, state>>

Permitted(c) ==
    \/ verdict[c] = "allow"
    \/ /\ verdict[c] = "ask"
       /\ \/ consent[c] \in {"once", "session"}
          \/ consent[c] = "none" /\ key[c] \in granted

Moves(c, from, to) ==
    /\ state[c] = from
    /\ state' = [state EXCEPT ![c] = to]
    /\ UNCHANGED <<verdict, key, consent, granted, withdrawn>>

Execute(c) == Permitted(c) /\ c \notin withdrawn /\ Moves(c, "pending", "executing")
Refuse(c)  == Moves(c, "pending", "refused")
Return(c)  == Moves(c, "executing", "executed")

Next ==
    \/ Withdraw
    \/ \E c \in Calls : Answer(c) \/ Grant(c) \/ Execute(c) \/ Refuse(c) \/ Return(c)

Spec == Init /\ [][Next]_vars
=============================================================================
