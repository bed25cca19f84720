------------------------- MODULE MCServiceResolver -------------------------
(* Instances of ServiceResolver for TLC. *)
EXTENDS ServiceResolver, TLC

CONSTANTS a, b, c, d, e, host1, host2, host3

Five == {a, b, c, d, e}

\* The order of registration at the start, and that of the ring.
Order == <<c, e, a, d, b>>

\* Two instances serve at one address, one serves no gRPC.
Hosts == (a :> host1) @@ (b :> host1) @@ (c :> host2) @@ (d :> host3) @@ (e :> None)
=============================================================================
