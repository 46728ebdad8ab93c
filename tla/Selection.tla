------------------------------ MODULE Selection -----------------------------
(***************************************************************************)
(* Selecting from a sequence, and joining sequences, by recursive          *)
(* functions: what SelectSeq and FlattenSeq do, in a form that can be      *)
(* reasoned about.                                                         *)
(***************************************************************************)
EXTENDS Integers, Sequences

(* The elements of a set, in the order of the sequence. *)
Where(sequence, kept) ==
    LET selected[n \in 0 .. Len(sequence)] ==
            IF n = 0 THEN <<>>
            ELSE IF sequence[n] \in kept THEN Append(selected[n - 1], sequence[n])
            ELSE selected[n - 1]
    IN  selected[Len(sequence)]

(* The first n of the sequences one after the other, for each n. *)
Joins(sequences) ==
    LET joined[n \in 0 .. Len(sequences)] ==
            IF n = 0 THEN <<>> ELSE joined[n - 1] \o sequences[n]
    IN  joined

Join(sequences) == Joins(sequences)[Len(sequences)]
=============================================================================
