---------------------------- MODULE AccessGrants ----------------------------
(***************************************************************************)
(* What the account service promises about access tokens, without          *)
(* sessions, rows or RPCs: a token is granted to one contact at one        *)
(* device, is live until a later login at that device replaces it or it is *)
(* revoked, and is dead for good afterwards.                               *)
(***************************************************************************)

CONSTANTS Tokens, Contacts, Devices

VARIABLES live,     \* the live grants
          issued    \* every token ever granted

Grants == [token : Tokens, contact : Contacts, device : Devices]

Init == live = {} /\ issued = {}

\* A login: a grant with a fresh token, in place of at most one of its device.
Issue(g) ==
    /\ g.token \notin issued
    /\ issued' = issued \cup {g.token}
    /\ \/ live' = live \cup {g}
       \/ \E old \in live : /\ old.device = g.device
                            /\ live' = (live \ {old}) \cup {g}

\* A logout: the grant of one session ends.
Revoke(g) ==
    /\ live' = live \ {g}
    /\ UNCHANGED issued

Next ==
    \/ \E g \in Grants : Issue(g)
    \/ \E g \in live : Revoke(g)

Spec == Init /\ [][Next]_<<live, issued>>
=============================================================================
