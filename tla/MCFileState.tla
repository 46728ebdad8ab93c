---------------------------- MODULE MCFileState ----------------------------
(* An instance of FileState for TLC: a read, a write and two edits of      *)
(* different passages against a change from outside.                       *)
EXTENDS FileState

CONSTANTS r1, w1, e1, e2, a, b, o1

MixedCalls == {r1, w1, e1, e2}
MixedOp    == [c \in MixedCalls |-> CASE c = w1 -> "write" [] c = r1 -> "read"
                                      [] OTHER  -> "edit"]
MixedOld   == [c \in MixedCalls |-> IF c = e2 THEN b ELSE a]

TwoPassages == {a, b}
Outsiders  == {o1}
=============================================================================
