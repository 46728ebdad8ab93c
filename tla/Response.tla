------------------------------- MODULE Response -----------------------------
(***************************************************************************)
(* What the reader of a model's response is promised, whatever driver,     *)
(* channels and cancellation lie in between: it hears what was said, in    *)
(* order and nothing else, and it takes a response for complete only when  *)
(* it has heard all of one that came to its end.                           *)
(***************************************************************************)
EXTENDS Naturals, Sequences, SequencesExt

CONSTANT Delta   \* the pieces of a response

VARIABLES
    said,     \* the pieces of the response so far
    ended,    \* the response has come to its end, and not to an error
    heard,    \* the pieces the reader has
    outcome   \* what the reader makes of it

vars == <<said, ended, heard, outcome>>

Init == said = <<>> /\ ended = FALSE /\ heard = <<>> /\ outcome = "none"

Say ==
    /\ ~ended
    /\ said' \in Seq(Delta) /\ IsPrefix(said, said')
    /\ ended' \in BOOLEAN
    /\ UNCHANGED <<heard, outcome>>

Hear ==
    /\ outcome = "none"
    /\ Len(heard) < Len(said)
    /\ heard' = Append(heard, said[Len(heard) + 1])
    /\ UNCHANGED <<said, ended, outcome>>

Complete ==
    /\ outcome = "none"
    /\ ended /\ heard = said
    /\ outcome' = "complete"
    /\ UNCHANGED <<said, ended, heard>>

GiveUp ==
    /\ outcome = "none"
    /\ outcome' \in {"failed", "cancelled"}
    /\ UNCHANGED <<said, ended, heard>>

(* The next request, once the response before it is complete. *)
Again ==
    /\ outcome = "complete"
    /\ said' = <<>> /\ ended' = FALSE /\ heard' = <<>> /\ outcome' = "none"

Next == Say \/ Hear \/ Complete \/ GiveUp \/ Again

Spec == Init /\ [][Next]_vars
=============================================================================
