---------------------------- MODULE MCSubsetRing ----------------------------
(* Instances of SubsetRing for TLC. *)
EXTENDS SubsetRing, TLC

CONSTANTS a, b, c, d

Four == {a, b, c, d}

\* Two instances with one replica each and two with one or two.  Each has a
\* point of its own, replicas besides may fall on any point.
OwnPoint(h, m) == h[m] \ UNION {h[o] : o \in Four \ {m}} # {}

AllHashings ==
    {h \in [Four -> {S \in SUBSET Points : Cardinality(S) \in {1, 2}}] :
        /\ Cardinality(h[a]) = 1 /\ Cardinality(h[b]) = 1
        /\ \A m \in Four : OwnPoint(h, m)}

Symmetric == Permutations({a, b}) \cup Permutations({c, d})
=============================================================================
