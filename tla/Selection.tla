----------------------------- MODULE Selection -----------------------------
(***************************************************************************)
(* The elements of a sequence that are in a set, in their order: what a    *)
(* loop over a list that removes some of its nodes leaves.  SelectSeq with *)
(* a set for its predicate, written as a recursive function so that proofs *)
(* can be about it.                                                        *)
(***************************************************************************)
EXTENDS Integers, Sequences

(* For each i what is selected of the first i elements. *)
Upto(s, S) ==
  LET upto[i \in 0 .. Len(s)] ==
        IF i = 0 THEN <<>>
        ELSE IF s[i] \in S THEN Append(upto[i - 1], s[i]) ELSE upto[i - 1] IN
  upto

Selected(s, S) == Upto(s, S)[Len(s)]
=============================================================================
