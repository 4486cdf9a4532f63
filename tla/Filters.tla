------------------------------- MODULE Filters -------------------------------
(***************************************************************************)
(* Selecting from a sequence: SelectSeq of the standard library with the   *)
(* test given as a set, and as a recursive function, the form of recursion *)
(* that TLAPS can expand.                                                  *)
(***************************************************************************)
EXTENDS Integers, Sequences

(* The elements of s that are in S, in their order. *)
Filter(s, S) ==
  LET upTo[i \in 0..Len(s)] ==
        IF i = 0 THEN <<>>
        ELSE IF s[i] \in S THEN Append(upTo[i - 1], s[i])
        ELSE upTo[i - 1]
  IN  upTo[Len(s)]
=============================================================================
