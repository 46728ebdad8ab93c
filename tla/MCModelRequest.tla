--------------------------- MODULE MCModelRequest ---------------------------
(* An instance of ModelRequest for TLC: both protocols, two calls in a     *)
(* response, limits at their boundaries.                                   *)
EXTENDS ModelRequest

E(kind, call) == [kind |-> kind, call |-> call]
Chunk(text, pieces, finish, usage) ==
    [text |-> text, pieces |-> pieces, finish |-> finish, usage |-> usage]
Piece(index, call, first, args) ==
    [index |-> index, call |-> call, first |-> first, args |-> args]

MCScripts ==
    [anthropic |->
        {<<E("text", "")>>,
         <<E("start", "a"), E("input", "a"), E("start", "b"), E("input", "b"),
           E("input", "b"), E("usage", "")>>},
     openai |->
        {<<Chunk("text", <<>>, "stop", TRUE)>>,
         <<Chunk("", <<Piece(0, "a", TRUE, FALSE)>>, "", FALSE),
           Chunk("", <<Piece(1, "b", TRUE, TRUE), Piece(0, "a", FALSE, TRUE)>>, "", FALSE),
           Chunk("", <<Piece(1, "b", FALSE, TRUE)>>, "tool_calls", FALSE)>>}]

Limits(w, o) == [windowTokens |-> w, maxOutputTokens |-> o]

(* The defaults; half of the window for the answer; two that leave nothing *)
(* for the input; two that are refused.                                    *)
MCConfigs == {Limits(0, 0), Limits(10000, 5000), Limits(2000, 0),
              Limits(100, 100), Limits(-1, 0)}

(* Around the soft and the hard limit of the second, and the hard limit of *)
(* the first.                                                              *)
MCEstimates == {3499, 3500, 4100, 8199, 23511, 23512}
=============================================================================
