-------------------------- MODULE MCWebitelTokens --------------------------
(* Instances of WebitelTokens for TLC. *)
EXTENDS WebitelTokens, TLC

\* Concurrent calls are interchangeable.
Symmetric == Permutations(Calls)
=============================================================================
