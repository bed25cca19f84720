--------------------------- MODULE MCDumpHandler ---------------------------
(* An instance of DumpHandler for TLC. *)
EXTENDS DumpHandler

\* Connections and RPCs are interchangeable.
Symmetric == Permutations(Conns) \cup Permutations(Calls)
=============================================================================
