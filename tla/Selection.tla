----------------------------- MODULE Selection -----------------------------
(***************************************************************************)
(* SelectSeq for a set instead of a predicate, as a recursive function,    *)
(* which the provers can unfold (they know nothing of SelectSeq).          *)
(***************************************************************************)
EXTENDS Integers, Sequences

\* The elements of s that are in kept, in their order.
Select(s, kept) ==
  LET taken[i \in 0..Len(s)] ==
        IF i = 0 THEN << >>
        ELSE IF s[i] \in kept THEN Append(taken[i - 1], s[i])
        ELSE taken[i - 1]
  IN taken[Len(s)]
=============================================================================
