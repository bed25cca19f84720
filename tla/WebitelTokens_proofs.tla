------------------------ MODULE WebitelTokens_proofs ------------------------
(***************************************************************************)
(* Theorems about WebitelTokens, for every number of calls and tokens, any *)
(* TTL and any bound on time.                                              *)
(***************************************************************************)
EXTENDS WebitelTokens, TLAPS

\* What AnswersOK says of one entry of the cache and of one call.
EntryOK(t) ==
    cache[t] # None => AnswerOK(t, cache[t].info) /\ cache[t].until <= received[t] + TTL

CallOK(c) ==
    /\ call[c].pc \in {"inspect", "userinfo", "answered"} =>
            call[c].token \in Tokens /\ call[c].opDate <= now
    /\ call[c].pc \in {"userinfo", "answered"} =>
            call[c].opDate <= call[c].date /\ call[c].date <= now
    /\ call[c].pc = "answered" =>
            call[c].info # None /\ AnswerOK(call[c].token, call[c].info)

Account == [updated : Nat, expires : Nat, revoked : Nat]
CacheEntry == [info : Userinfo, until : Nat]
CallType == [pc : PCs, token : Tokens \cup {None}, opDate : Nat,
             date : Nat, info : Userinfo \cup {None}]

\* Every date of an operation counts as zero, so Inspect judges at its own.
LEMMA InspectsNow == \A d \in Nat : InspectionDate(d) = now
  BY DEF InspectionDate, DateIsZero

\* A call that returns leaves nothing to hold.
LEMMA DoneType == \A v \in {"idle", "accepted", "refused", "unknown"} : Done(v) \in CallType
  BY DEF Done, CallType, PCs

LEMMA InitIInv == Init => IInv
  <1> SUFFICES ASSUME Init PROVE IInv
    OBVIOUS
  <1>1. TypeOK
    <2>1. account \in [Tokens -> [updated : Nat, expires : Nat, revoked : Nat]]
      <3>1. [updated : {1}, expires : Expiries, revoked : {0}]
              \subseteq [updated : Nat, expires : Nat, revoked : Nat]
        <4>1. ASSUME NEW a \in [updated : {1}, expires : Expiries, revoked : {0}]
              PROVE  a \in [updated : Nat, expires : Nat, revoked : Nat]
          <5>1. a = [updated |-> a.updated, expires |-> a.expires, revoked |-> a.revoked]
            OBVIOUS
          <5>2. a.updated \in {1} /\ a.expires \in Expiries /\ a.revoked \in {0}
            OBVIOUS
          <5>3. a.expires \in Nat
            BY <5>2, TimesAssumption
          <5>4. a.updated \in Nat /\ a.revoked \in Nat
            BY <5>2
          <5> QED BY <5>1, <5>3, <5>4
        <4> QED BY <4>1
      <3>2. account \in [Tokens -> [updated : {1}, expires : Expiries, revoked : {0}]]
        BY DEF Init
      <3> QED BY <3>1, <3>2
    <2>2. call \in [Calls -> CallType]
      BY DoneType DEF Init
    <2> QED BY <2>1, <2>2 DEF Init, TypeOK, CallType
  <1>2. AnswersOK
    BY DEF Init, AnswersOK, Done
  <1> QED BY <1>1, <1>2 DEF IInv

\* A step that leaves the clock, the accounts and the cache alone keeps IInv
\* when the one call c it moves is left as CallOK says.
LEMMA OneCall ==
    ASSUME IInv, NEW c \in Calls, NEW new \in CallType, call' = [call EXCEPT ![c] = new],
           UNCHANGED <<now, account, cache, notices, received>>, CallOK(c)'
    PROVE  IInv'
  <1>1. TypeOK'
    BY DEF IInv, TypeOK, CallType
  <1>2. \A t \in Tokens : EntryOK(t)'
    BY DEF IInv, AnswersOK, EntryOK, AnswerOK
  <1>3. \A d \in Calls : CallOK(d)'
    <2>1. ASSUME NEW d \in Calls, d # c PROVE CallOK(d)'
      <3>1. call'[d] = call[d]
        BY <2>1 DEF IInv, TypeOK
      <3> QED BY <3>1 DEF IInv, AnswersOK, CallOK, AnswerOK
    <2> QED BY <2>1
  <1> QED BY <1>1, <1>2, <1>3 DEF IInv, AnswersOK, EntryOK, CallOK

LEMMA BeginKeeps ==
    ASSUME IInv, NEW c \in Calls, Begin(c) PROVE IInv'
  <1>1. PICK t \in Tokens :
          call' = [call EXCEPT ![c] = [pc |-> "inspect", token |-> t, opDate |-> now,
                                       date |-> 0, info |-> None]]
    BY DEF Begin
  <1> DEFINE new == [pc |-> "inspect", token |-> t, opDate |-> now, date |-> 0, info |-> None]
  <1>2. new \in CallType /\ now \in Nat
    BY DEF IInv, TypeOK, CallType, PCs
  <1>3. call'[c] = new /\ now' = now
    BY <1>1 DEF IInv, TypeOK, Begin
  <1>4. CallOK(c)'
    BY <1>2, <1>3 DEF CallOK
  <1> QED BY <1>1, <1>2, <1>4, OneCall DEF Begin

\* A call that returns keeps IInv.
LEMMA ReturnKeeps ==
    ASSUME IInv, NEW c \in Calls, NEW v \in {"accepted", "refused", "unknown"}, Return(c, v),
           UNCHANGED <<now, account, cache, notices, received>>
    PROVE  IInv'
  <1>1. call'[c] = Done(v)
    BY DEF IInv, TypeOK, Return
  <1>2. CallOK(c)'
    BY <1>1 DEF CallOK, Done
  <1> QED BY <1>2, DoneType, OneCall DEF Return

LEMMA LookupKeeps ==
    ASSUME IInv, NEW c \in Calls, Lookup(c) PROVE IInv'
  <1> DEFINE date == InspectionDate(call[c].opDate)
  <1>1. call[c] \in CallType /\ call[c].pc = "inspect" /\ CallOK(c)
    BY DEF IInv, TypeOK, CallType, AnswersOK, CallOK, Lookup
  <1>2. date = now /\ now \in Nat
    BY <1>1, InspectsNow DEF CallType, IInv, TypeOK
  <1>3. CASE Return(c, Verdict(date, cache[call[c].token].info))
    BY <1>3, ReturnKeeps DEF Lookup, Verdict
  <1>4. CASE call' = [call EXCEPT ![c].pc = "userinfo", ![c].date = date]
    <2> DEFINE new == [call[c] EXCEPT !.pc = "userinfo", !.date = date]
    <2>1. new \in CallType
      BY <1>1, <1>2 DEF CallType, PCs
    <2>2. call' = [call EXCEPT ![c] = new] /\ call'[c] = new /\ now' = now
      BY <1>4 DEF IInv, TypeOK, Lookup
    <2>3. CallOK(c)'
      BY <1>1, <1>2, <2>2 DEF CallOK, CallType
    <2> QED BY <2>1, <2>2, <2>3, OneCall DEF Lookup
  <1> QED BY <1>3, <1>4 DEF Lookup

LEMMA AnswerKeeps ==
    ASSUME IInv, NEW c \in Calls, Answer(c) PROVE IInv'
  <1> DEFINE a == account[call[c].token]
             info == [updated |-> a.updated, expires |-> a.expires, taken |-> now]
             new == [call[c] EXCEPT !.pc = "answered", !.info = info]
  <1>1. call[c] \in CallType /\ call[c].pc = "userinfo" /\ CallOK(c) /\ now \in Nat
    BY DEF IInv, TypeOK, CallType, AnswersOK, CallOK, Answer
  <1>2. call[c].token \in Tokens /\ a \in Account /\ a.revoked = 0
    BY <1>1 DEF IInv, TypeOK, CallOK, Account, Answer
  <1>3. info \in Userinfo
    BY <1>1, <1>2 DEF Userinfo, Account
  <1>4. new \in CallType
    BY <1>1, <1>3 DEF CallType, PCs
  <1>5. /\ call' = [call EXCEPT ![c] = new] /\ call'[c] = new
        /\ UNCHANGED <<now, account, cache, notices, received>>
    BY DEF IInv, TypeOK, Answer
  <1>6. new.pc = "answered" /\ new.info = info /\ new.token = call[c].token
        /\ new.opDate = call[c].opDate /\ new.date = call[c].date
    BY <1>1 DEF CallType
  <1>7. CallOK(c)'
    BY <1>1, <1>2, <1>3, <1>5, <1>6, NoneAssumption DEF CallOK, AnswerOK
  <1> QED BY <1>4, <1>5, <1>7, OneCall

\* The entry made of an answer expires TTL after the receipt.
LEMMA ReceiveKeeps ==
    ASSUME IInv, NEW c \in Calls, Receive(c) PROVE IInv'
  <1>1. call[c] \in CallType /\ call[c].pc = "answered" /\ CallOK(c) /\ now \in Nat
    BY DEF IInv, TypeOK, CallType, AnswersOK, CallOK, Receive
  <1>2. PICK t \in Tokens : /\ t = call[c].token
                           /\ call[c].info \in Userinfo /\ AnswerOK(t, call[c].info)
    BY <1>1 DEF CallOK, CallType
  <1> DEFINE entry == Entry(t, call[c].info)
             v == Verdict(call[c].date, call[c].info)
  <1>3. entry \in CacheEntry /\ entry.info = call[c].info /\ entry.until = now + TTL
    BY <1>1, <1>2, TimesAssumption DEF Entry, CacheEntry
  <1>4. /\ cache' = [cache EXCEPT ![t] = entry] /\ received' = [received EXCEPT ![t] = now]
        /\ call' = [call EXCEPT ![c] = Done(v)] /\ UNCHANGED <<now, account, notices>>
    BY <1>2 DEF Receive, Return
  <1>5. Done(v) \in CallType
    BY DoneType DEF Verdict
  <1>6. TypeOK'
    <2> HIDE DEF entry
    <2> QED BY <1>1, <1>3, <1>4, <1>5 DEF IInv, TypeOK, CallType, CacheEntry
  <1>7. \A u \in Tokens : EntryOK(u)'
    <2>1. EntryOK(t)'
      <3>1. cache'[t] = entry /\ received'[t] = now
        BY <1>2, <1>4 DEF IInv, TypeOK
      <3> HIDE DEF entry
      <3> QED BY <1>1, <1>2, <1>3, <1>4, <3>1, TimesAssumption DEF EntryOK, AnswerOK
    <2>2. ASSUME NEW u \in Tokens, u # t PROVE EntryOK(u)'
      <3>1. cache'[u] = cache[u] /\ received'[u] = received[u]
        BY <1>4, <2>2 DEF IInv, TypeOK
      <3> QED BY <1>4, <3>1 DEF IInv, AnswersOK, EntryOK, AnswerOK
    <2> QED BY <2>1, <2>2
  <1>8. \A d \in Calls : CallOK(d)'
    <2>1. CallOK(c)'
      BY <1>4 DEF IInv, TypeOK, CallOK, Done, Verdict
    <2>2. ASSUME NEW d \in Calls, d # c PROVE CallOK(d)'
      <3>1. call'[d] = call[d]
        BY <1>4, <2>2 DEF IInv, TypeOK
      <3> QED BY <1>4, <3>1 DEF IInv, AnswersOK, CallOK, AnswerOK
    <2> QED BY <2>1, <2>2
  <1> QED BY <1>6, <1>7, <1>8 DEF IInv, AnswersOK, EntryOK, CallOK

LEMMA FailKeeps ==
    ASSUME IInv, NEW c \in Calls, Fail(c) PROVE IInv'
  BY ReturnKeeps DEF Fail

LEMMA OnInvalidateKeeps ==
    ASSUME IInv, NEW t \in Tokens, OnInvalidate(t) PROVE IInv'
  BY DEF IInv, TypeOK, AnswersOK, AnswerOK, OnInvalidate

\* Answers given so far were given before a revocation that happens now.
LEMMA RevokeKeeps ==
    ASSUME IInv, NEW t \in Tokens, Revoke(t) PROVE IInv'
  <1>1. TypeOK'
    BY DEF IInv, TypeOK, Revoke
  <1>2. /\ UNCHANGED <<now, cache, call, received>>
        /\ \A u \in Tokens : account'[u].expires = account[u].expires
        /\ \A u \in Tokens : account'[u].revoked = account[u].revoked
                             \/ account'[u].revoked = now
    BY DEF IInv, TypeOK, Revoke
  <1>3. ASSUME NEW u \in Tokens, NEW info, AnswerOK(u, info) PROVE AnswerOK(u, info)'
    <2>1. account'[u].expires = account[u].expires /\ now' = now
      BY <1>2
    <2>2. CASE account'[u].revoked = account[u].revoked
      BY <1>3, <2>1, <2>2 DEF AnswerOK
    <2>3. CASE account'[u].revoked = now
      BY <1>3, <2>1, <2>3 DEF AnswerOK
    <2> QED BY <1>2, <2>2, <2>3
  <1>4. AnswersOK'
    BY <1>2, <1>3 DEF IInv, AnswersOK
  <1> QED BY <1>1, <1>4 DEF IInv

LEMMA UpdateUserKeeps ==
    ASSUME IInv, NEW t \in Tokens, UpdateUser(t) PROVE IInv'
  <1>1. TypeOK'
    BY DEF IInv, TypeOK, UpdateUser
  <1>2. /\ UNCHANGED <<now, cache, call, received>>
        /\ \A u \in Tokens : account'[u].expires = account[u].expires
        /\ \A u \in Tokens : account'[u].revoked = account[u].revoked
    BY DEF IInv, TypeOK, UpdateUser
  <1>3. AnswersOK'
    BY <1>2 DEF IInv, AnswersOK, AnswerOK
  <1> QED BY <1>1, <1>3 DEF IInv

LEMMA TickKeeps ==
    ASSUME IInv, Tick PROVE IInv'
  <1>1. now \in Nat /\ now' = now + 1 /\ UNCHANGED <<account, cache, notices, call, received>>
    BY DEF IInv, TypeOK, Tick
  <1>2. TypeOK'
    BY <1>1 DEF IInv, TypeOK
  <1>3. ASSUME NEW u \in Tokens, NEW info \in Userinfo, AnswerOK(u, info)
        PROVE  AnswerOK(u, info)'
    BY <1>1, <1>3 DEF AnswerOK, Userinfo
  <1>4. \A t \in Tokens : EntryOK(t)'
    <2> SUFFICES ASSUME NEW t \in Tokens, cache[t] # None PROVE EntryOK(t)'
      BY <1>1 DEF EntryOK
    <2>1. cache[t] \in CacheEntry
      BY DEF IInv, TypeOK, CacheEntry
    <2>2. cache[t].info \in Userinfo
      BY <2>1 DEF CacheEntry
    <2> QED BY <1>1, <1>3, <2>2 DEF IInv, AnswersOK, EntryOK
  <1>5. \A c \in Calls : CallOK(c)'
    <2> SUFFICES ASSUME NEW c \in Calls PROVE CallOK(c)'
      OBVIOUS
    <2>1. call[c] \in CallType /\ CallOK(c)
      BY DEF IInv, TypeOK, CallType, AnswersOK, CallOK
    <2> QED BY <1>1, <1>3, <2>1 DEF CallOK, CallType
  <1> QED BY <1>2, <1>4, <1>5 DEF IInv, AnswersOK, EntryOK, CallOK

LEMMA StepKeeps ==
    ASSUME IInv, [Next]_vars PROVE IInv'
  <1>1. ASSUME NEW c \in Calls, Begin(c) \/ Lookup(c) \/ Answer(c) \/ Receive(c) \/ Fail(c)
        PROVE  IInv'
    BY <1>1, BeginKeeps, LookupKeeps, AnswerKeeps, ReceiveKeeps, FailKeeps
  <1>2. ASSUME NEW t \in Tokens, OnInvalidate(t) \/ Revoke(t) \/ UpdateUser(t) PROVE IInv'
    BY <1>2, OnInvalidateKeeps, RevokeKeeps, UpdateUserKeeps
  <1>3. CASE Tick
    BY <1>3, TickKeeps
  <1>4. CASE UNCHANGED vars
    BY <1>4 DEF vars, IInv, TypeOK, AnswersOK, AnswerOK
  <1> QED BY <1>1, <1>2, <1>3, <1>4 DEF Next

\* The cache and the answers on their way stay true to what the service said
\* and when, whatever the order in which calls fill the cache.
THEOREM InductiveInvariant == Spec => []IInv
  BY InitIInv, StepKeeps, PTL DEF Spec

-----------------------------------------------------------------------------
(* What a step that accepts a token rests on *)

LEMMA AcceptingStep ==
    ASSUME IInv, Next, NEW c \in Calls, Accepts(c)
    PROVE  /\ call[c].token \in Tokens /\ call[c].opDate \in Nat /\ now \in Nat
           /\ AnswerOK(call[c].token, WordFor(c))
           /\ Valid(JudgedAt(c), WordFor(c))
           /\ FromCache(c) => Cached(call[c].token) /\ JudgedAt(c) = now
                              /\ cache[call[c].token] # None
           /\ ~FromCache(c) => call[c].opDate <= JudgedAt(c)
  <1>1. call \in [Calls -> CallType] /\ CallOK(c) /\ now \in Nat
    BY DEF IInv, TypeOK, CallType, AnswersOK, CallOK
  <1>2. call[c].token \in Tokens /\ call[c].opDate \in Nat
    BY <1>1 DEF Accepts, CallOK, CallType
  <1>3. PICK d \in Calls : Begin(d) \/ Lookup(d) \/ Answer(d) \/ Receive(d) \/ Fail(d)
    <2>1. call'[c] # call[c]
      BY DEF Accepts
    <2> QED BY <2>1 DEF Next, OnInvalidate, Revoke, UpdateUser, Tick
  <1>4. \E new : call' = [call EXCEPT ![d] = new]
    <2>1. CASE Begin(d)
      BY <2>1 DEF Begin
    <2>2. CASE Lookup(d) /\ Return(d, Verdict(InspectionDate(call[d].opDate), cache[call[d].token].info))
      BY <2>2 DEF Return
    <2>3. CASE Lookup(d) /\ call' = [call EXCEPT ![d].pc = "userinfo",
                                        ![d].date = InspectionDate(call[d].opDate)]
      BY <2>3
    <2>4. CASE Answer(d)
      BY <2>4 DEF Answer
    <2>5. CASE Receive(d)
      BY <2>5 DEF Receive, Return
    <2>6. CASE Fail(d)
      BY <2>6 DEF Fail, Return
    <2> QED BY <1>3, <2>1, <2>2, <2>3, <2>4, <2>5, <2>6 DEF Lookup
  <1>5. d = c
    <2>1. call'[c] # call[c]
      BY DEF Accepts
    <2> QED BY <1>1, <1>4, <2>1
  <1>6. CASE call[c].pc = "inspect"
    <2>1. Lookup(c) /\ FromCache(c)
      BY <1>3, <1>5, <1>6 DEF Begin, Answer, Receive, Fail, FromCache
    <2>2. ~(call' = [call EXCEPT ![c].pc = "userinfo",
                              ![c].date = InspectionDate(call[c].opDate)])
      BY <1>1 DEF Accepts, CallType
    <2>3. /\ Cached(call[c].token)
          /\ Return(c, Verdict(JudgedAt(c), WordFor(c)))
      BY <2>1, <2>2 DEF Lookup, JudgedAt, WordFor
    <2>4. Verdict(JudgedAt(c), WordFor(c)) = "accepted"
      BY <1>1, <2>3 DEF Return, Done, Accepts
    <2>5. cache[call[c].token] # None /\ AnswerOK(call[c].token, WordFor(c))
      BY <1>2, <2>1, <2>3 DEF Cached, IInv, AnswersOK, WordFor
    <2>6. JudgedAt(c) = now
      BY <1>2, <2>1, InspectsNow DEF JudgedAt
    <2> QED BY <1>1, <1>2, <2>1, <2>3, <2>4, <2>5, <2>6 DEF Verdict
  <1>7. CASE call[c].pc = "answered"
    <2>1. ~FromCache(c) /\ WordFor(c) = call[c].info /\ JudgedAt(c) = call[c].date
      BY <1>7 DEF FromCache, WordFor, JudgedAt
    <2>2. ~Fail(c)
      BY <1>1 DEF Fail, Return, Done, Accepts
    <2>3. Receive(c)
      BY <1>3, <1>5, <1>7, <2>2 DEF Begin, Lookup, Answer
    <2>4. Verdict(JudgedAt(c), WordFor(c)) = "accepted"
      BY <1>1, <2>1, <2>3 DEF Receive, Return, Done, Accepts
    <2> QED BY <1>1, <1>2, <1>7, <2>1, <2>4 DEF Verdict, CallOK
  <1> QED BY <1>6, <1>7 DEF Accepts

\* A revoked token is accepted on old word only, and out of the cache no
\* longer than TTL after the last receipt.
THEOREM RevokedTokens == Spec => RevocationHonoured
  <1> DEFINE A == \A c \in Calls : Accepts(c) =>
                    LET t == call[c].token
                    IN  /\ account[t].revoked # 0 => WordFor(c).taken <= account[t].revoked
                        /\ FromCache(c) => now <= received[t] + TTL
  <1>1. ASSUME IInv, [Next]_vars PROVE [A]_vars
    <2> SUFFICES ASSUME Next, NEW c \in Calls, Accepts(c)
                 PROVE  /\ account[call[c].token].revoked # 0 =>
                              WordFor(c).taken <= account[call[c].token].revoked
                        /\ FromCache(c) => now <= received[call[c].token] + TTL
      BY <1>1
    <2>1. account[call[c].token].revoked # 0 =>
            WordFor(c).taken <= account[call[c].token].revoked
      BY <1>1, AcceptingStep DEF AnswerOK
    <2>2. ASSUME FromCache(c) PROVE now <= received[call[c].token] + TTL
      <3> DEFINE t == call[c].token
      <3>1. t \in Tokens /\ cache[t] # None /\ Cached(t) /\ now \in Nat
        BY <1>1, <2>2, AcceptingStep
      <3>2. now <= cache[t].until /\ cache[t].until <= received[t] + TTL
        BY <1>1, <3>1 DEF Cached, IInv, AnswersOK
      <3>3. cache[t].until \in Nat /\ received[t] \in Nat
        BY <1>1, <3>1 DEF IInv, TypeOK
      <3> QED BY <3>1, <3>2, <3>3, TimesAssumption
    <2> QED BY <2>1, <2>2
  <1>2. IInv /\ [Next]_vars => [A]_vars
    BY <1>1
  <1> QED BY <1>2, InductiveInvariant, PTL DEF Spec, RevocationHonoured

\* An expired token is refused: from its expiry on out of the cache, and in
\* any case when it had expired before the RPC arrived.
THEOREM ExpiredTokens == Spec => ExpiredRefused
  <1> DEFINE A == \A c \in Calls : Accepts(c) =>
                    LET expires == account[call[c].token].expires
                    IN  expires # 0 => /\ call[c].opDate < expires
                                       /\ FromCache(c) => now < expires
  <1>1. ASSUME IInv, [Next]_vars PROVE [A]_vars
    <2> SUFFICES ASSUME Next, NEW c \in Calls, Accepts(c),
                        account[call[c].token].expires # 0
                 PROVE  /\ call[c].opDate < account[call[c].token].expires
                        /\ FromCache(c) => now < account[call[c].token].expires
      BY <1>1
    <2> DEFINE expires == account[call[c].token].expires
    <2>1. call[c].opDate \in Nat /\ now \in Nat /\ expires \in Nat
      BY <1>1, AcceptingStep DEF IInv, TypeOK
    <2>2. WordFor(c).expires = expires /\ Valid(JudgedAt(c), WordFor(c))
      BY <1>1, AcceptingStep DEF AnswerOK
    <2>3. JudgedAt(c) < expires
      BY <2>1, <2>2 DEF Valid
    <2>4. CASE FromCache(c)
      <3>1. JudgedAt(c) = now /\ call[c].opDate <= now
        BY <1>1, <2>4, AcceptingStep DEF FromCache, IInv, AnswersOK
      <3> QED BY <2>1, <2>3, <3>1
    <2>5. CASE ~FromCache(c)
      <3>1. call[c].opDate <= JudgedAt(c) /\ JudgedAt(c) \in Nat
        BY <1>1, <2>5, AcceptingStep DEF JudgedAt, IInv, TypeOK
      <3> QED BY <2>1, <2>3, <2>5, <3>1
    <2> QED BY <2>4, <2>5
  <1>2. IInv /\ [Next]_vars => [A]_vars
    BY <1>1
  <1> QED BY <1>2, InductiveInvariant, PTL DEF Spec, ExpiredRefused
=============================================================================
