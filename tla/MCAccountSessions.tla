------------------------- MODULE MCAccountSessions -------------------------
(* Instances of AccountSessions for TLC. *)
EXTENDS AccountSessions, TLC

\* Slots, applications, devices and the end-users of applications are
\* interchangeable.
Symmetric == UNION {Permutations(S) : S \in {Slots, Apps, Devices, Identities}}
=============================================================================
