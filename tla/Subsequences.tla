---------------------------- MODULE Subsequences ----------------------------
(***************************************************************************)
(* What is kept of a sequence when some of its positions are chosen: the   *)
(* elements there, in their order, taken one by one.                       *)
(***************************************************************************)
EXTENDS Naturals, Sequences, FiniteSets

\* The elements of s at the positions P.
Kept(s, P) ==
    LET kept[n \in 0..Len(s)] ==
          IF n = 0 THEN <<>>
          ELSE IF n \in P THEN Append(kept[n - 1], s[n]) ELSE kept[n - 1]
    IN  kept[Len(s)]
=============================================================================
