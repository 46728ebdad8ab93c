--------------------------- MODULE MCConversation ---------------------------
(* Instances of Conversation for TLC: a tool result of two pieces is over  *)
(* the limit of one.  Calls are interchangeable.                           *)
EXTENDS Conversation, TLC

MCOutputs == {<<>>, <<"head", "rest">>}
Symmetry == Permutations(Calls)
=============================================================================
