----------------------------- MODULE Selection ------------------------------
(***************************************************************************)
(* A list comprehension with a condition: the elements of a sequence that  *)
(* are wanted, in their order.  It is a fold, which can be reasoned about. *)
(***************************************************************************)
EXTENDS Integers, SequencesExt

\* The elements of s at the indices in K.
Kept(s, K) ==
  FoldLeft(LAMBDA kept, k : IF k \in K THEN Append(kept, s[k]) ELSE kept, <<>>,
           [k \in 1 .. Len(s) |-> k])
=============================================================================
