--------------------------- MODULE WebitelTokens ---------------------------
(***************************************************************************)
(* The client of the Webitel authorization service                         *)
(* (internal/client/webitel/auth): Inspect asks the service about an       *)
(* access token, keeps the answer in a cache for a minute and judges it by *)
(* its dates.  RPCs share the cache and take no lock between the lookup    *)
(* and the fill.  AccountSessions takes the verdict as a choice.           *)
(*                                                                         *)
(* Time is counted in steps shorter than the TTL; 0 is the zero time.  The *)
(* cache (hashicorp/golang-lru, expirable) and the Webitel service are     *)
(* external; the cache has no size limit (client.go passes 0).             *)
(***************************************************************************)
EXTENDS Naturals

CONSTANTS
    Calls,      \* calls of Inspect that are in progress at the same time
    Tokens,     \* access tokens the Webitel service issued
    Expiries,   \* expiry dates a token may have, 0: it does not expire
    TTL,        \* how long the cache keeps an answer
    MaxTime,    \* bound: the last date considered
    None        \* no entry, no answer

ASSUME TimesAssumption == TTL \in Nat /\ MaxTime \in Nat /\ Expiries \subseteq Nat

\* The part of adpb.Userinfo that Inspect looks at, and the date at which the
\* service gave it (history).
Userinfo == [updated : Nat, expires : Nat, taken : Nat]

ASSUME NoneAssumption ==
    None \notin Tokens /\ None \notin Userinfo /\ None \notin [info : Userinfo, until : Nat]

VARIABLES
    now,        \* the clock
    account,    \* external: per token [updated, expires, revoked] (0: not revoked)
    cache,      \* Client.cache, per token [info, until] or None
    notices,    \* invalidations published and not consumed yet
    call,       \* per call [pc, token, opDate, date, info]
    received    \* history: per token, the date of the last answer

vars == <<now, account, cache, notices, call, received>>

\* "userinfo": the request was sent; "answered": the service replied.
PCs == {"idle", "inspect", "userinfo", "answered", "accepted", "refused", "unknown"}

TypeOK ==
    /\ now \in Nat
    /\ account \in [Tokens -> [updated : Nat, expires : Nat, revoked : Nat]]
    /\ cache \in [Tokens -> [info : Userinfo, until : Nat] \cup {None}]
    /\ notices \subseteq Tokens
    /\ call \in [Calls -> [pc : PCs, token : Tokens \cup {None}, opDate : Nat,
                           date : Nat, info : Userinfo \cup {None}]]
    /\ received \in [Tokens -> Nat]

\* A call that has returned, and how.
Done(verdict) ==
    [pc |-> verdict, token |-> None, opDate |-> 0, date |-> 0, info |-> None]

Init ==
    /\ now = 1
    /\ account \in [Tokens -> [updated : {1}, expires : Expiries, revoked : {0}]]
    /\ cache = [t \in Tokens |-> None]
    /\ notices = {}
    /\ call = [c \in Calls |-> Done("idle")]
    /\ received = [t \in Tokens |-> 0]

-----------------------------------------------------------------------------
(* Parts of Inspect *)

\* checkDateIsZero: true of every date after 1970 as well.
DateIsZero(d) == d = 0 \/ 0 < d

\* NewInspectRequest with the option InspectDate(opDate).
InspectionDate(opDate) ==
    LET given == IF DateIsZero(opDate) THEN 0 ELSE opDate
    IN  IF DateIsZero(given) THEN now ELSE given

\* Mutant: no dates are checked.
Valid_Any(date, info) == TRUE

\* checkTokenIsValid: the last update of the user is taken for the date the
\* token becomes valid.
Valid(date, info) ==
    /\ 0 < info.updated => info.updated <= date
    /\ 0 < info.expires => date < info.expires

Verdict(date, info) == IF Valid(date, info) THEN "accepted" ELSE "refused"

Return(c, verdict) == call' = [call EXCEPT ![c] = Done(verdict)]

\* external: the cache returns an entry up to the end of its TTL.
Cached(t) == IF cache[t] = None THEN FALSE ELSE now <= cache[t].until

\* external: the entry the cache makes of an answer.
Entry(t, info) == [info |-> info, until |-> now + TTL]

-----------------------------------------------------------------------------
(* Steps of a call *)

\* An RPC arrives (its date is taken then) and will inspect its token.
Begin(c) ==
    /\ call[c].pc \in {"idle", "accepted", "refused", "unknown"}
    /\ \E t \in Tokens :
          call' = [call EXCEPT ![c] = [pc |-> "inspect", token |-> t, opDate |-> now,
                                       date |-> 0, info |-> None]]
    /\ UNCHANGED <<now, account, cache, notices, received>>

\* Mutant: an answer found in the cache is added again.
Lookup_Readds(c) ==
    LET t == call[c].token
        date == InspectionDate(call[c].opDate)
    IN  /\ call[c].pc = "inspect"
        /\ \/ /\ Cached(t)
              /\ cache' = [cache EXCEPT ![t] = Entry(t, cache[t].info)]
              /\ Return(c, Verdict(date, cache[t].info))
           \/ /\ ~Cached(t)
              /\ call' = [call EXCEPT ![c].pc = "userinfo", ![c].date = date]
              /\ UNCHANGED cache
        /\ UNCHANGED <<now, account, notices, received>>

\* Inspect, up to the request: the date is set, the cache is asked.
Lookup(c) ==
    LET t == call[c].token
        date == InspectionDate(call[c].opDate)
    IN  /\ call[c].pc = "inspect"
        /\ \/ Cached(t) /\ Return(c, Verdict(date, cache[t].info))
           \/ /\ ~Cached(t)
              /\ call' = [call EXCEPT ![c].pc = "userinfo", ![c].date = date]
        /\ UNCHANGED <<now, account, cache, notices, received>>

\* external: the service answers with what it knows of a token that was not
\* revoked.
Answer(c) ==
    LET a == account[call[c].token]
    IN  /\ call[c].pc = "userinfo"
        /\ a.revoked = 0
        /\ call' = [call EXCEPT ![c].pc = "answered",
                                ![c].info = [updated |-> a.updated, expires |-> a.expires,
                                             taken |-> now]]
        /\ UNCHANGED <<now, account, cache, notices, received>>

\* Inspect, from the answer on: it is cached first and judged then.
Receive(c) ==
    /\ call[c].pc = "answered"
    /\ cache' = [cache EXCEPT ![call[c].token] =
                                Entry(call[c].token, call[c].info)]
    /\ received' = [received EXCEPT ![call[c].token] = now]
    /\ Return(c, Verdict(call[c].date, call[c].info))
    /\ UNCHANGED <<now, account, notices>>

\* The service does not know the token, or the request fails: Inspect returns
\* no user, and the scheme is skipped.
Fail(c) ==
    /\ call[c].pc \in {"userinfo", "answered"}
    /\ Return(c, "unknown")
    /\ UNCHANGED <<now, account, cache, notices, received>>

-----------------------------------------------------------------------------
(* The broker and the environment *)

\* An invalidation is consumed and logged; what it is about stays cached.
OnInvalidate(t) ==
    /\ t \in notices
    /\ notices' = notices \ {t}
    /\ UNCHANGED <<now, account, cache, call, received>>

\* external: the token is revoked, and that is published.
Revoke(t) ==
    /\ account[t].revoked = 0
    /\ account' = [account EXCEPT ![t].revoked = now]
    /\ notices' = notices \cup {t}
    /\ UNCHANGED <<now, cache, call, received>>

\* external: the profile of the user is edited.
UpdateUser(t) ==
    /\ account[t].updated # now
    /\ account' = [account EXCEPT ![t].updated = now]
    /\ UNCHANGED <<now, cache, notices, call, received>>

Tick ==
    /\ now < MaxTime
    /\ now' = now + 1
    /\ UNCHANGED <<account, cache, notices, call, received>>

Next ==
    \/ \E c \in Calls : Begin(c) \/ Lookup(c) \/ Answer(c) \/ Receive(c) \/ Fail(c)
    \/ \E t \in Tokens : OnInvalidate(t) \/ Revoke(t) \/ UpdateUser(t)
    \/ Tick

Spec == Init /\ [][Next]_vars

-----------------------------------------------------------------------------
(* Properties *)

\* The step in which a call accepts or refuses its token: on the word of the
\* cache, or of an answer of its own.
Accepts(c) == call[c].pc \in {"inspect", "answered"} /\ call[c]'.pc = "accepted"
Refuses(c) == call[c].pc \in {"inspect", "answered"} /\ call[c]'.pc = "refused"
FromCache(c) == call[c].pc = "inspect"
WordFor(c) == IF FromCache(c) THEN cache[call[c].token].info ELSE call[c].info
JudgedAt(c) == IF FromCache(c) THEN InspectionDate(call[c].opDate) ELSE call[c].date

\* A revoked token is accepted only on the word the service gave before the
\* revocation, and out of the cache only until TTL after some call last
\* received it, although concurrent calls fill the cache in any order and an
\* answer may be received long after it was given.
RevocationHonoured ==
    [][\A c \in Calls : Accepts(c) =>
            LET t == call[c].token
            IN  /\ account[t].revoked # 0 => WordFor(c).taken <= account[t].revoked
                /\ FromCache(c) => now <= received[t] + TTL]_vars

\* An expired token is refused: out of the cache from its expiry on, and after
\* a request at least when it had expired before the RPC arrived.
ExpiredRefused ==
    [][\A c \in Calls : Accepts(c) =>
            LET expires == account[call[c].token].expires
            IN  expires # 0 => /\ call[c].opDate < expires
                               /\ FromCache(c) => now < expires]_vars

-----------------------------------------------------------------------------
(* The inductive invariant behind the theorems of WebitelTokens_proofs *)

\* An answer about token t was given in the past, before the revocation if
\* there was one, and names the expiry of the token.
AnswerOK(t, info) ==
    /\ info.taken <= now
    /\ info.expires = account[t].expires
    /\ account[t].revoked # 0 => info.taken <= account[t].revoked

\* Cached answers and those on their way are such answers, and no entry
\* outlives the TTL of the last receipt.
AnswersOK ==
    /\ \A t \in Tokens : cache[t] # None =>
            AnswerOK(t, cache[t].info) /\ cache[t].until <= received[t] + TTL
    /\ \A c \in Calls :
            /\ call[c].pc \in {"inspect", "userinfo", "answered"} =>
                    call[c].token \in Tokens /\ call[c].opDate <= now
            /\ call[c].pc \in {"userinfo", "answered"} =>
                    call[c].opDate <= call[c].date /\ call[c].date <= now
            /\ call[c].pc = "answered" =>
                    call[c].info # None /\ AnswerOK(call[c].token, call[c].info)

IInv == TypeOK /\ AnswersOK

-----------------------------------------------------------------------------
(* What names and comments in the code say and the code does not do *)

\* inspect.go:181, the option InspectDate makes Inspect judge the token at the
\* given date, that of the operation, unless it is invalid.
InspectsAtGivenDate ==
    [][\A c \in Calls : Accepts(c) \/ Refuses(c) => JudgedAt(c) = call[c].opDate]_vars
=============================================================================
