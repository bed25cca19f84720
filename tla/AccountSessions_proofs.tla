----------------------- MODULE AccountSessions_proofs -----------------------
(***************************************************************************)
(* Theorems about AccountSessions, for every number of slots, end-users,   *)
(* devices and applications and every bound.  IInv is inductive: one lemma *)
(* per action shows that the action preserves it.                          *)
(***************************************************************************)
EXTENDS AccountSessions, TLAPS

\* The context of one slot, as TypeOK has it.
SlotType ==
    [pc : PCs, req : Request \cup {None}, hint : Session \cup {None},
     signIn : Contact \cup {None}, reply : Replies]

\* What IInv says of one slot, given the grants made so far.
SlotInv(c, grants) == c \in SlotType /\ SlotOK(c) /\ ActsFor(c, grants)

SlotsInv == rpc \in [Slots -> SlotType] /\ \A r \in Slots : SlotInv(rpc[r], granted)

\* What IInv says of the session table and the grants.
StoreInv ==
    /\ sessions \subseteq Session
    /\ serial \in Nat
    /\ granted \subseteq Grant
    /\ SerialsOK
    /\ TokenNamesItsGrantee
    /\ TokensAreUnique

ContactsInv == contacts \in [Users -> [id : Nat, live : BOOLEAN]]

\* IInv splits into the store, the contact service and the slots.
LEMMA IInvSplits == IInv <=> StoreInv /\ ContactsInv /\ SlotsInv
  BY DEF IInv, TypeOK, ContextOK, ActsAsGrantee,
         StoreInv, ContactsInv, SlotsInv, SlotInv, SlotType

LEMMA IInvNext == StoreInv' /\ ContactsInv' /\ SlotsInv' => IInv'
  BY DEF IInv, TypeOK, ContextOK, ActsAsGrantee,
         StoreInv, ContactsInv, SlotsInv, SlotInv, SlotType

\* When one slot moves the others keep their invariant: grants are never lost.
LEMMA OneSlot ==
    ASSUME NEW r \in Slots, NEW c, SlotsInv,
           rpc' = [rpc EXCEPT ![r] = c], granted \subseteq granted',
           SlotInv(c, granted')
    PROVE  SlotsInv'
  <1>1. \A s \in Slots : rpc'[s] = IF s = r THEN c ELSE rpc[s]
    BY DEF SlotsInv
  <1>2. c \in SlotType
    BY DEF SlotInv
  <1>3. ASSUME NEW s \in Slots, s # r PROVE SlotInv(rpc[s], granted')
    BY DEF SlotsInv, SlotInv, ActsFor
  <1>4. rpc' \in [Slots -> SlotType]
    BY <1>2 DEF SlotsInv
  <1> QED BY <1>1, <1>3, <1>4 DEF SlotsInv

\* An RPC that ends leaves nothing behind in its slot.
LEMMA AnswerKeepsSlots ==
    ASSUME NEW r \in Slots, NEW status \in Replies, SlotsInv,
           Answer(r, status), granted \subseteq granted'
    PROVE  SlotsInv'
  <1>1. SlotInv(Idle(status), granted')
    BY DEF SlotInv, SlotType, SlotOK, ActsFor, Idle, PCs
  <1> QED BY <1>1, OneSlot DEF Answer

\* Actions that leave the store and the contacts alone.
LEMMA StoreUnchanged ==
    ASSUME IInv, UNCHANGED <<sessions, contacts, serial, granted>>
    PROVE  StoreInv' /\ ContactsInv' /\ SlotsInv /\ granted \subseteq granted'
  BY IInvSplits DEF StoreInv, ContactsInv, SerialsOK, TokenNamesItsGrantee, TokensAreUnique

-----------------------------------------------------------------------------
(* Authentication *)

LEMMA BeginKeeps ==
    ASSUME IInv, NEW r \in Slots, Begin(r) PROVE IInv'
  <1>1. StoreInv' /\ ContactsInv' /\ SlotsInv /\ granted \subseteq granted'
    BY StoreUnchanged DEF Begin
  <1>2. PICK q \in Request : \/ HeadersAccepted(q) /\ rpc' = [rpc EXCEPT ![r] = Started(q)]
                             \/ Answer(r, "error")
    BY DEF Begin
  <1>3. CASE Answer(r, "error")
    BY <1>1, <1>3, IInvNext, AnswerKeepsSlots DEF Replies
  <1>4. CASE HeadersAccepted(q) /\ rpc' = [rpc EXCEPT ![r] = Started(q)]
    <2>1. Started(q) \in SlotType
      BY DEF SlotType, Started, FirstStep, PCs, Replies
    <2>2. SlotOK(Started(q))
      BY <1>4, NoneAssumption DEF SlotOK, Started, FirstStep, HeadersAccepted, Request
    <2>3. SlotInv(Started(q), granted')
      BY <2>1, <2>2 DEF SlotInv, ActsFor, Started
    <2> QED BY <1>1, <1>4, <2>3, IInvNext, OneSlot
  <1> QED BY <1>2, <1>3, <1>4

\* The token of the request leads to the row that carries it, and that row's
\* grant is the one the RPC acts for.
LEMMA AuthenticateSessionKeeps ==
    ASSUME IInv, NEW r \in Slots, AuthenticateSession(r) PROVE IInv'
  <1>1. StoreInv' /\ ContactsInv' /\ SlotsInv /\ granted \subseteq granted'
    BY StoreUnchanged DEF AuthenticateSession
  <1>2. CASE Answer(r, "error")
    BY <1>1, <1>2, IInvNext, AnswerKeepsSlots DEF Replies
  <1>3. ASSUME NEW s \in sessions, s.token = rpc[r].req.token, MatchesHeaders(rpc[r].req, s),
               Goto(r, "getContact", s, None)
        PROVE  IInv'
    <2> DEFINE c == [pc |-> "getContact", req |-> rpc[r].req, hint |-> s,
                     signIn |-> None, reply |-> "none"]
    <2>1. /\ rpc[r] \in SlotType /\ SlotOK(rpc[r]) /\ rpc[r].pc = "session"
          /\ s \in Session /\ s.id \in 1..serial /\ serial \in Nat
      BY <1>1, IInvSplits DEF AuthenticateSession, SlotsInv, SlotInv, StoreInv, SerialsOK
    <2>2. c \in SlotType
      BY <2>1 DEF SlotType, PCs, Replies
    <2>3. SlotOK(c)
      BY <2>1, <1>3, NoneAssumption DEF SlotOK, MatchesHeaders
    <2>4. ActsFor(c, granted')
      <3>1. rpc[r].req.token # 0
        BY <2>1 DEF SlotOK
      <3>2. PICK g \in granted : g.token = s.token /\ g.contact = s.contact
                                                   /\ g.device = s.device
        BY <1>3, <3>1, IInvSplits DEF StoreInv, TokenNamesItsGrantee
      <3> QED BY <1>1, <1>3, <3>2 DEF ActsFor, MatchesHeaders
    <2> QED BY <1>1, <1>3, <2>2, <2>3, <2>4, IInvNext, OneSlot DEF SlotInv, Goto
  <1> QED BY <1>2, <1>3 DEF AuthenticateSession

\* An authorized RPC either is answered or goes on with the session it found.
LEMMA ProceedKeepsSlots ==
    ASSUME NEW r \in Slots, NEW h \in Session, SlotsInv, Proceed(r, h),
           granted \subseteq granted', rpc[r].req \in Request, HeadersAccepted(rpc[r].req),
           h.id = 0 => h.token = 0, h.device = rpc[r].req.device,
           \/ rpc[r].req.token = 0
           \/ h = rpc[r].hint /\ rpc[r].pc # "idle"
    PROVE  SlotsInv'
  <1>1. CASE rpc[r].req.op = "Inspect"
    BY <1>1, AnswerKeepsSlots DEF Proceed, Replies
  <1>2. CASE rpc[r].req.op # "Inspect"
    <2> DEFINE c == [pc |-> Authorized(rpc[r].req.op), req |-> rpc[r].req, hint |-> h,
                     signIn |-> None, reply |-> "none"]
    <2>1. rpc[r].req.op \in Operations \ {"Inspect"}
      BY <1>2, OpsAssumption DEF Request
    <2>2. c \in SlotType
      BY <2>1 DEF SlotType, PCs, Replies, Authorized, Operations
    <2>3. SlotOK(c)
      BY <2>1, NoneAssumption DEF SlotOK, Authorized, Operations
    <2>4. ActsFor(c, granted')
      BY NoneAssumption DEF SlotsInv, SlotInv, ActsFor
    <2> QED BY <1>2, <2>2, <2>3, <2>4, OneSlot DEF SlotInv, Proceed, Goto
  <1> QED BY <1>1, <1>2

LEMMA ResolveContactKeeps ==
    ASSUME IInv, NEW r \in Slots, ResolveContact(r) PROVE IInv'
  <1>1. StoreInv' /\ ContactsInv' /\ SlotsInv /\ granted \subseteq granted'
    BY StoreUnchanged DEF ResolveContact
  <1>2. CASE Answer(r, "error")
    BY <1>1, <1>2, IInvNext, AnswerKeepsSlots DEF Replies
  <1>3. CASE Proceed(r, rpc[r].hint)
    <2>1. rpc[r] \in SlotType /\ SlotOK(rpc[r]) /\ rpc[r].pc = "getContact"
      BY <1>1 DEF ResolveContact, SlotsInv, SlotInv
    <2>2. /\ rpc[r].hint \in Session /\ rpc[r].req \in Request /\ HeadersAccepted(rpc[r].req)
          /\ rpc[r].hint.id = 0 => rpc[r].hint.token = 0
          /\ rpc[r].hint.device = rpc[r].req.device
      BY <2>1 DEF SlotType, SlotOK
    <2> QED BY <1>1, <1>3, <2>1, <2>2, IInvNext, ProceedKeepsSlots
  <1> QED BY <1>2, <1>3 DEF ResolveContact

\* Actions that change the contacts only.
LEMMA TablesUnchanged ==
    ASSUME IInv, UNCHANGED <<sessions, serial, granted>>
    PROVE  StoreInv' /\ SlotsInv /\ granted \subseteq granted'
  BY IInvSplits DEF StoreInv, SerialsOK, TokenNamesItsGrantee, TokensAreUnique

\* A contact is saved as a contact, and the contact service stays well typed.
LEMMA UpsertTypes ==
    ASSUME NEW u \in Users, ContactsInv
    PROVE  Upserted(u) \in Contact /\ (Upsert(u) => ContactsInv')
  <1>1. contacts[u] \in [id : Nat, live : BOOLEAN]
    BY DEF ContactsInv
  <1>2. Upserted(u) \in Contact
    BY <1>1 DEF Upserted, Contact
  <1>3. Upserted(u).id \in Nat
    BY <1>2 DEF Contact
  <1>4. ASSUME Upsert(u) PROVE ContactsInv'
    BY <1>3, <1>4 DEF Upsert, ContactsInv
  <1> QED BY <1>2, <1>4

LEMMA AddWebitelContactKeeps ==
    ASSUME IInv, NEW r \in Slots, AddWebitelContact(r) PROVE IInv'
  <1>1. StoreInv' /\ SlotsInv /\ ContactsInv /\ granted \subseteq granted'
    BY TablesUnchanged, IInvSplits DEF AddWebitelContact
  <1>2. /\ rpc[r] \in SlotType /\ SlotOK(rpc[r]) /\ rpc[r].pc = "webitel"
        /\ rpc[r].req \in Request /\ HeadersAccepted(rpc[r].req)
        /\ rpc[r].req.webitel # None
    BY <1>1 DEF AddWebitelContact, SlotsInv, SlotInv, SlotOK
  <1> DEFINE u == rpc[r].req.webitel
  <1>3. u \in Users /\ rpc[r].req.token = 0
    BY <1>2 DEF Request, Users
  <1>4. CASE UNCHANGED contacts /\ Answer(r, "error")
    BY <1>1, <1>4, IInvNext, AnswerKeepsSlots DEF Replies, ContactsInv
  <1>5. CASE Upsert(u) /\ Goto(r, "findSession", None, Upserted(u))
    <2> DEFINE c == [pc |-> "findSession", req |-> rpc[r].req, hint |-> None,
                     signIn |-> Upserted(u), reply |-> "none"]
    <2>1. Upserted(u) \in Contact /\ ContactsInv'
      BY <1>1, <1>3, <1>5, UpsertTypes
    <2>2. c \in SlotType
      BY <1>2, <2>1 DEF SlotType, PCs, Replies
    <2>3. SlotOK(c) /\ ActsFor(c, granted')
      BY <1>2, <1>3, <2>1, NoneAssumption DEF SlotOK, ActsFor
    <2> QED BY <1>1, <1>5, <2>1, <2>2, <2>3, IInvNext, OneSlot DEF SlotInv, Goto
  <1> QED BY <1>4, <1>5 DEF AddWebitelContact

LEMMA FindWebitelSessionKeeps ==
    ASSUME IInv, NEW r \in Slots, FindWebitelSession(r) PROVE IInv'
  <1>1. StoreInv' /\ ContactsInv' /\ SlotsInv /\ granted \subseteq granted'
    BY StoreUnchanged DEF FindWebitelSession
  <1>2. /\ rpc[r] \in SlotType /\ SlotOK(rpc[r]) /\ rpc[r].pc = "findSession"
        /\ rpc[r].req \in Request /\ HeadersAccepted(rpc[r].req)
        /\ rpc[r].req.token = 0 /\ rpc[r].signIn \in Contact
    BY <1>1 DEF FindWebitelSession, SlotsInv, SlotInv, SlotOK, SlotType
  <1>3. ASSUME NEW s \in sessions, s.device = rpc[r].req.device, Proceed(r, s)
        PROVE  IInv'
    <2>1. s \in Session /\ s.id \in 1..serial /\ serial \in Nat
      BY IInvSplits DEF StoreInv, SerialsOK
    <2> QED BY <1>1, <1>2, <1>3, <2>1, IInvNext, ProceedKeepsSlots
  <1> DEFINE h == [id |-> 0, app |-> rpc[r].req.app, device |-> rpc[r].req.device,
                   contact |-> rpc[r].signIn, ip |-> rpc[r].req.ip,
                   push |-> None, token |-> 0]
  <1>4. CASE Proceed(r, h)
    <2>1. h \in Session /\ h.device = rpc[r].req.device /\ h.token = 0
      BY <1>2 DEF Request, Session
    <2> QED BY <1>1, <1>2, <1>4, <2>1, IInvNext, ProceedKeepsSlots
  <1> QED BY <1>3, <1>4 DEF FindWebitelSession

-----------------------------------------------------------------------------
(* Token *)

LEMMA AddContactKeeps ==
    ASSUME IInv, NEW r \in Slots, AddContact(r) PROVE IInv'
  <1>1. StoreInv' /\ SlotsInv /\ ContactsInv /\ granted \subseteq granted'
    BY TablesUnchanged, IInvSplits DEF AddContact
  <1>2. /\ rpc[r] \in SlotType /\ SlotOK(rpc[r]) /\ ActsFor(rpc[r], granted)
        /\ rpc[r].pc = "addContact"
        /\ rpc[r].req \in Request /\ HeadersAccepted(rpc[r].req)
        /\ rpc[r].req.op = "Token"
    BY <1>1 DEF AddContact, SlotsInv, SlotInv, SlotOK
  <1> DEFINE u == rpc[r].req.user
             pc == IF rpc[r].hint = None THEN "lookup" ELSE "update"
             c == [pc |-> pc, req |-> rpc[r].req, hint |-> rpc[r].hint,
                   signIn |-> Upserted(u), reply |-> "none"]
  <1>3. u \in Users
    BY <1>2 DEF Request, Users
  <1>4. Upserted(u) \in Contact /\ ContactsInv'
    BY <1>1, <1>3, UpsertTypes DEF AddContact
  <1>5. c \in SlotType
    BY <1>2, <1>4 DEF SlotType, PCs, Replies
  <1>6. SlotOK(c)
    BY <1>2, <1>4, NoneAssumption DEF SlotOK
  <1>7. ActsFor(c, granted')
    BY <1>1, <1>2 DEF ActsFor
  <1> QED BY <1>1, <1>4, <1>5, <1>6, <1>7, IInvNext, OneSlot DEF SlotInv, Goto, AddContact

LEMMA LookupSessionKeeps ==
    ASSUME IInv, NEW r \in Slots, LookupSession(r) PROVE IInv'
  <1>1. StoreInv' /\ ContactsInv' /\ SlotsInv /\ granted \subseteq granted'
    BY StoreUnchanged DEF LookupSession
  <1>2. /\ rpc[r] \in SlotType /\ SlotOK(rpc[r]) /\ rpc[r].pc = "lookup"
        /\ rpc[r].req \in Request /\ HeadersAccepted(rpc[r].req)
        /\ rpc[r].req.token = 0 /\ rpc[r].req.op = "Token"
        /\ rpc[r].signIn \in Contact
    BY <1>1 DEF LookupSession, SlotsInv, SlotInv, SlotOK, SlotType
  <1>3. ASSUME NEW s \in sessions, s.device = rpc[r].req.device,
               Goto(r, "update", s, rpc[r].signIn)
        PROVE  IInv'
    <2> DEFINE c == [pc |-> "update", req |-> rpc[r].req, hint |-> s,
                     signIn |-> rpc[r].signIn, reply |-> "none"]
    <2>1. s \in Session /\ s.id \in 1..serial /\ serial \in Nat
      BY IInvSplits DEF StoreInv, SerialsOK
    <2>2. c \in SlotType
      BY <1>2, <2>1 DEF SlotType, PCs, Replies
    <2>3. SlotOK(c) /\ ActsFor(c, granted')
      BY <1>2, <1>3, <2>1, NoneAssumption DEF SlotOK, ActsFor
    <2> QED BY <1>1, <1>3, <2>2, <2>3, IInvNext, OneSlot DEF SlotInv, Goto
  <1>4. CASE Goto(r, "create", None, rpc[r].signIn)
    <2> DEFINE c == [pc |-> "create", req |-> rpc[r].req, hint |-> None,
                     signIn |-> rpc[r].signIn, reply |-> "none"]
    <2>1. c \in SlotType
      BY <1>2 DEF SlotType, PCs, Replies
    <2>2. SlotOK(c) /\ ActsFor(c, granted')
      BY <1>2, NoneAssumption DEF SlotOK, ActsFor
    <2> QED BY <1>1, <1>4, <2>1, <2>2, IInvNext, OneSlot DEF SlotInv, Goto
  <1> QED BY <1>3, <1>4 DEF LookupSession, FindSession

\* The facts a login has by the time it writes to the store.
LEMMA LoginContext ==
    ASSUME IInv, NEW r \in Slots, rpc[r].pc \in {"create", "update"}
    PROVE  /\ rpc[r] \in SlotType /\ rpc[r].signIn \in Contact
           /\ rpc[r].req \in Request
           /\ rpc[r].req.device \in Devices /\ rpc[r].req.app \in Apps
           /\ rpc[r].pc = "update" => /\ rpc[r].hint \in Session
                                      /\ rpc[r].hint.device = rpc[r].req.device
  <1>1. rpc[r] \in SlotType /\ SlotOK(rpc[r])
    BY IInvSplits DEF SlotsInv, SlotInv
  <1>2. rpc[r].req \in Request /\ HeadersAccepted(rpc[r].req) /\ rpc[r].req.op = "Token"
    BY <1>1 DEF SlotOK
  <1>3. rpc[r].req.device \in Devices /\ rpc[r].req.app \in Apps
    BY <1>2 DEF HeadersAccepted, Request
  <1> QED BY <1>1, <1>2, <1>3 DEF SlotOK, SlotType

\* A login that writes: one row t takes the fresh token, all others were there
\* before, and the grant says what the row says.
LEMMA GrantKeepsStore ==
    ASSUME IInv, NEW t \in Session, NEW g \in Grant,
           \A s \in sessions' : s = t \/ s \in sessions,
           serial' = serial + 1, granted' = granted \cup {g},
           t.id \in 1..serial', t.token = serial + 1,
           g.token = serial + 1, g.contact = t.contact, g.device = t.device
    PROVE  StoreInv'
  <1>1. StoreInv /\ serial \in Nat
    BY IInvSplits DEF StoreInv
  <1>2. sessions' \subseteq Session /\ granted' \subseteq Grant /\ serial' \in Nat
    BY <1>1 DEF StoreInv
  <1>3. \A s \in sessions : s.id \in 1..serial /\ s.token <= serial /\ s.token \in Nat
    BY <1>1 DEF StoreInv, SerialsOK, Session
  <1>4. \A h \in granted : h.token \in 1..serial
    BY <1>1 DEF StoreInv, SerialsOK
  <1>5. SerialsOK'
    BY <1>1, <1>3, <1>4 DEF SerialsOK
  <1>6. TokenNamesItsGrantee'
    BY <1>1 DEF StoreInv, TokenNamesItsGrantee
  <1>7. TokensAreUnique'
    <2>1. \A s \in sessions : s.token # serial + 1
      BY <1>1, <1>3
    <2>2. \A h \in granted : h.token # serial + 1
      BY <1>1, <1>4
    <2> QED BY <1>1, <2>1, <2>2 DEF StoreInv, TokensAreUnique
  <1> QED BY <1>2, <1>5, <1>6, <1>7 DEF StoreInv

LEMMA CreateSessionKeeps ==
    ASSUME IInv, NEW r \in Slots, CreateSession(r) PROVE IInv'
  <1>1. /\ rpc[r].signIn \in Contact /\ rpc[r].req \in Request
        /\ rpc[r].req.device \in Devices /\ rpc[r].req.app \in Apps
    BY LoginContext DEF CreateSession
  <1>2. ContactsInv' /\ SlotsInv /\ serial \in Nat
    BY IInvSplits DEF CreateSession, ContactsInv, StoreInv
  <1>3. CASE UNCHANGED <<sessions, serial, granted>> /\ Answer(r, "error")
    BY <1>2, <1>3, TablesUnchanged, IInvNext, AnswerKeepsSlots DEF Replies
  <1> DEFINE q == rpc[r].req
             row == [id |-> serial + 1, app |-> q.app, device |-> q.device,
                     contact |-> rpc[r].signIn, ip |-> q.ip, push |-> None,
                     token |-> NewToken(r)]
             g == [token |-> NewToken(r), contact |-> rpc[r].signIn,
                   device |-> q.device, app |-> q.app, webitel |-> q.webitel]
  <1>4. CASE /\ sessions' = sessions \cup {row} /\ serial' = serial + 1
             /\ RecordGrant(r) /\ Answer(r, "ok")
    <2>1. row \in Session /\ g \in Grant
      BY <1>1, <1>2 DEF Session, Grant, NewToken, Request
    <2>2. /\ \A s \in sessions' : s = row \/ s \in sessions
          /\ granted' = granted \cup {g}
      BY <1>4 DEF RecordGrant
    <2>3. row.id \in 1..serial' /\ row.token = serial + 1 /\ g.token = serial + 1
      BY <1>2, <1>4 DEF NewToken
    <2>4. StoreInv'
      <3> HIDE DEF row, g
      <3>1. g.contact = row.contact /\ g.device = row.device
        BY DEF g, row
      <3> QED BY <1>4, <2>1, <2>2, <2>3, <3>1, GrantKeepsStore
    <2> QED BY <1>2, <1>4, <2>2, <2>4, IInvNext, AnswerKeepsSlots DEF Replies
  <1> QED BY <1>3, <1>4 DEF CreateSession

LEMMA WriteBackType ==
    ASSUME NEW s \in Session, NEW h \in Session, NEW c \in Contact, NEW t
    PROVE  /\ t \in Nat => WriteBack(s, h, c, t) \in Session
           /\ WriteBack(s, h, c, t).id = s.id
           /\ WriteBack(s, h, c, t).device = s.device
           /\ WriteBack(s, h, c, t).contact = c
           /\ WriteBack(s, h, c, t).token = t
  BY DEF WriteBack, Session

LEMMA UpdateSessionKeeps ==
    ASSUME IInv, NEW r \in Slots, UpdateSession(r) PROVE IInv'
  <1>1. /\ rpc[r].signIn \in Contact /\ rpc[r].req \in Request
        /\ rpc[r].req.device \in Devices /\ rpc[r].req.app \in Apps
        /\ rpc[r].hint \in Session /\ rpc[r].hint.device = rpc[r].req.device
    BY LoginContext DEF UpdateSession
  <1>2. ContactsInv' /\ SlotsInv /\ serial \in Nat
    BY IInvSplits DEF UpdateSession, ContactsInv, StoreInv
  <1>3. CASE UNCHANGED <<sessions, serial, granted>> /\ Answer(r, "error")
    BY <1>2, <1>3, TablesUnchanged, IInvNext, AnswerKeepsSlots DEF Replies
  <1> DEFINE h == rpc[r].hint
             New(s) == WriteBack(s, h, rpc[r].signIn, NewToken(r))
             g == [token |-> NewToken(r), contact |-> rpc[r].signIn,
                   device |-> rpc[r].req.device, app |-> rpc[r].req.app,
                   webitel |-> rpc[r].req.webitel]
  <1>4. ASSUME NEW s \in UpdateTarget(h),
               sessions' = (sessions \ {s}) \cup {New(s)},
               serial' = serial + 1, RecordGrant(r), Answer(r, "ok")
        PROVE  IInv'
    <2>1. /\ s \in sessions /\ s \in Session /\ s.id \in 1..serial
          /\ s.device = rpc[r].req.device
      BY <1>1, IInvSplits DEF UpdateTarget, StoreInv, SerialsOK
    <2>2. NewToken(r) \in Nat /\ NewToken(r) = serial + 1
      BY <1>2 DEF NewToken
    <2>3. /\ New(s) \in Session /\ New(s).id = s.id /\ New(s).device = s.device
          /\ New(s).contact = rpc[r].signIn /\ New(s).token = serial + 1
      <3>1. h \in Session /\ rpc[r].signIn \in Contact
        BY <1>1
      <3> DEFINE c == rpc[r].signIn
                 n == NewToken(r)
      <3>2. c \in Contact /\ n \in Nat
        BY <3>1, <2>2
      <3> HIDE DEF h, c, n
      <3>3. WriteBack(s, h, c, n) \in Session
        BY <3>1, <3>2, <2>1, WriteBackType
      <3>4. WriteBack(s, h, c, n).id = s.id
        BY <3>1, <3>2, <2>1, WriteBackType
      <3>5. WriteBack(s, h, c, n).device = s.device
        BY <3>1, <3>2, <2>1, WriteBackType
      <3>6. WriteBack(s, h, c, n).contact = c
        BY <3>1, <3>2, <2>1, WriteBackType
      <3>7. WriteBack(s, h, c, n).token = n
        BY <3>1, <3>2, <2>1, WriteBackType
      <3>8. New(s) = WriteBack(s, h, c, n) /\ n = serial + 1
        BY <2>2 DEF h, c, n
      <3> QED BY <3>3, <3>4, <3>5, <3>6, <3>7, <3>8 DEF c
    <2>4. g \in Grant /\ granted' = granted \cup {g}
      <3>1. rpc[r].req.webitel \in WebitelUsers \cup {None}
        BY <1>1 DEF Request
      <3> QED BY <1>1, <1>2, <1>4, <3>1 DEF Grant, NewToken, RecordGrant
    <2>5. /\ New(s).id \in 1..serial' /\ New(s).token = serial + 1
          /\ g.token = serial + 1 /\ g.contact = New(s).contact /\ g.device = New(s).device
      BY <1>2, <1>4, <2>1, <2>3 DEF NewToken
    <2>6. StoreInv'
      <3>1. \A t \in sessions' : t = New(s) \/ t \in sessions
        BY <1>4
      <3> HIDE DEF New, g
      <3> QED BY <1>4, <2>1, <2>3, <2>4, <2>5, <3>1, GrantKeepsStore
    <2> QED BY <1>2, <1>4, <2>4, <2>6, IInvNext, AnswerKeepsSlots DEF Replies
  <1> QED BY <1>3, <1>4 DEF UpdateSession

-----------------------------------------------------------------------------
(* Logout, RegisterDevice and UnregisterDevice *)

\* Rows that go, and rows whose id, contact, device and token stay (F maps a
\* row to what becomes of it), take nothing from what the store promises.
LEMMA RowsKeepStore ==
    ASSUME IInv, UNCHANGED <<serial, granted>>, NEW F,
           \A t \in sessions' : \E s \in sessions : t = F[s],
           \A s \in sessions : /\ F[s] \in Session
                               /\ F[s].id = s.id /\ F[s].contact = s.contact
                               /\ F[s].device = s.device /\ F[s].token = s.token
    PROVE  StoreInv'
  <1>1. StoreInv /\ serial \in Nat
    BY IInvSplits DEF StoreInv
  <1>2. SerialsOK'
    BY <1>1 DEF StoreInv, SerialsOK
  <1>3. TokenNamesItsGrantee'
    BY <1>1 DEF StoreInv, TokenNamesItsGrantee
  <1>4. TokensAreUnique'
    BY <1>1 DEF StoreInv, TokensAreUnique
  <1>5. sessions' \subseteq Session
    OBVIOUS
  <1> QED BY <1>1, <1>2, <1>3, <1>4, <1>5 DEF StoreInv

\* What an RPC at one of the last three steps holds.
LEMMA DeviceContext ==
    ASSUME IInv, NEW r \in Slots, rpc[r].pc \in {"delete", "register", "unregister"}
    PROVE  /\ rpc[r].req \in Request /\ HeadersAccepted(rpc[r].req)
           /\ rpc[r].hint \in Session
           /\ rpc[r].hint.id = 0 => rpc[r].hint.token = 0
           /\ rpc[r].pc # "delete" =>
                rpc[r].req.op \in {"RegisterDevice", "UnregisterDevice"}
  <1>1. rpc[r] \in SlotType /\ SlotOK(rpc[r])
    BY IInvSplits DEF SlotsInv, SlotInv
  <1> QED BY <1>1 DEF SlotOK, SlotType

LEMMA DeleteSessionKeeps ==
    ASSUME IInv, NEW r \in Slots, DeleteSession(r) PROVE IInv'
  <1> DEFINE F == [s \in sessions |-> s]
  <1>1. ContactsInv' /\ SlotsInv /\ UNCHANGED <<serial, granted>>
    BY IInvSplits DEF DeleteSession, ContactsInv
  <1>2. \A t \in sessions' : \E s \in sessions : t = F[s]
    BY DEF DeleteSession, Deleted
  <1>3. \A s \in sessions : F[s] \in Session /\ F[s] = s
    BY IInvSplits DEF StoreInv
  <1>4. StoreInv'
    <2> HIDE DEF F
    <2> QED BY <1>1, <1>2, <1>3, RowsKeepStore
  <1> QED BY <1>1, <1>4, IInvNext, AnswerKeepsSlots DEF DeleteSession, Replies

LEMMA UnregisterDeviceKeeps ==
    ASSUME IInv, NEW r \in Slots, UnregisterDevice(r) PROVE IInv'
  <1>1. ContactsInv' /\ SlotsInv /\ UNCHANGED <<serial, granted>>
    BY IInvSplits DEF UnregisterDevice, ContactsInv
  <1>2. CASE UNCHANGED sessions /\ Answer(r, "error")
    BY <1>1, <1>2, TablesUnchanged, IInvNext, AnswerKeepsSlots DEF Replies
  <1> DEFINE current == {s \in sessions : s.id = rpc[r].hint.id}
             F == [s \in sessions |-> IF s \in current THEN [s EXCEPT !.push = None] ELSE s]
  <1>3. CASE /\ sessions' = (sessions \ current) \cup {[s EXCEPT !.push = None] : s \in current}
             /\ Answer(r, "ok")
    <2>1. \A t \in sessions' : \E s \in sessions : t = F[s]
      BY <1>3
    <2>2. ASSUME NEW s \in sessions
          PROVE  /\ F[s] \in Session
                 /\ F[s].id = s.id /\ F[s].contact = s.contact
                 /\ F[s].device = s.device /\ F[s].token = s.token
      <3>1. s \in Session
        BY IInvSplits DEF StoreInv
      <3> QED BY <3>1 DEF Session
    <2>3. StoreInv'
      <3> HIDE DEF F
      <3> QED BY <1>1, <2>1, <2>2, RowsKeepStore
    <2> QED BY <1>1, <1>3, <2>3, IInvNext, AnswerKeepsSlots DEF Replies
  <1> QED BY <1>2, <1>3 DEF UnregisterDevice, Unregistered, Current

\* A session made up for a Webitel end-user is stored without a token.
LEMMA RegisterNewSession ==
    ASSUME IInv, NEW row \in Session, row.id = serial + 1, row.token = 0,
           sessions' = sessions \cup {row}, serial' = serial + 1, UNCHANGED granted
    PROVE  StoreInv'
  <1>1. StoreInv /\ serial \in Nat
    BY IInvSplits DEF StoreInv
  <1>2. \A s \in sessions : s \in Session /\ s.id \in 1..serial /\ s.token <= serial
                                         /\ s.token \in Nat
    BY <1>1 DEF StoreInv, SerialsOK, Session
  <1>3. SerialsOK'
    BY <1>1, <1>2 DEF StoreInv, SerialsOK
  <1>4. TokenNamesItsGrantee' /\ TokensAreUnique'
    BY <1>1 DEF StoreInv, TokenNamesItsGrantee, TokensAreUnique
  <1> QED BY <1>1, <1>2, <1>3, <1>4 DEF StoreInv

LEMMA StoredType ==
    ASSUME NEW h \in Session, NEW push \in PushToken, NEW id
    PROVE  /\ id \in Nat => Stored(h, id, push) \in Session
           /\ Stored(h, id, push).id = id
           /\ Stored(h, id, push).token = h.token
  BY DEF Stored, Session

LEMMA RegisterDeviceKeeps ==
    ASSUME IInv, NEW r \in Slots, RegisterDevice(r) PROVE IInv'
  <1> DEFINE h == rpc[r].hint
             push == rpc[r].req.push
             Updated(s) == [s EXCEPT !.ip = h.ip, !.push = push]
             F == [s \in sessions |-> IF s.id = h.id THEN Updated(s) ELSE s]
             row == Stored(h, serial + 1, push)
  <1>1. /\ ContactsInv' /\ SlotsInv /\ UNCHANGED granted /\ serial \in Nat
        /\ Answer(r, "ok")
    BY IInvSplits DEF RegisterDevice, ContactsInv, StoreInv
  <1>2. /\ h \in Session /\ push \in PushToken
        /\ h.id = 0 => h.token = 0
    <2>1. rpc[r].req \in Request /\ rpc[r].req.op \in {"RegisterDevice", "UnregisterDevice"}
      BY DeviceContext DEF RegisterDevice
    <2> QED BY <2>1, DeviceContext DEF RegisterDevice, Request
  <1>3. CASE UNCHANGED <<sessions, serial>>
    BY <1>1, <1>3, TablesUnchanged, IInvNext, AnswerKeepsSlots DEF Replies
  <1>4. CASE /\ sessions' = {IF s.id = h.id THEN Updated(s) ELSE s : s \in sessions}
             /\ UNCHANGED serial
    <2>1. \A t \in sessions' : \E s \in sessions : t = F[s]
      BY <1>4
    <2>2. ASSUME NEW s \in sessions
          PROVE  /\ F[s] \in Session
                 /\ F[s].id = s.id /\ F[s].contact = s.contact
                 /\ F[s].device = s.device /\ F[s].token = s.token
      <3>1. s \in Session
        BY IInvSplits DEF StoreInv
      <3> QED BY <1>2, <3>1 DEF Session
    <2>3. StoreInv'
      <3> HIDE DEF F
      <3> QED BY <1>1, <1>4, <2>1, <2>2, RowsKeepStore
    <2> QED BY <1>1, <2>3, IInvNext, AnswerKeepsSlots DEF Replies
  <1>5. CASE /\ h.id = 0 /\ sessions' = sessions \cup {row} /\ serial' = serial + 1
    <2>1. row \in Session /\ row.id = serial + 1 /\ row.token = 0
      <3> DEFINE n == serial + 1
      <3>1. n \in Nat /\ h.token = 0
        BY <1>1, <1>2, <1>5
      <3> HIDE DEF h, push, n
      <3>2. Stored(h, n, push) \in Session
        BY <1>2, <3>1, StoredType
      <3>3. Stored(h, n, push).id = n
        BY <1>2, StoredType
      <3>4. Stored(h, n, push).token = 0
        BY <1>2, <3>1, StoredType
      <3> QED BY <3>2, <3>3, <3>4 DEF n
    <2>2. StoreInv'
      <3> HIDE DEF row
      <3> QED BY <1>1, <1>5, <2>1, RegisterNewSession
    <2> QED BY <1>1, <2>2, IInvNext, AnswerKeepsSlots DEF Replies
  <1> QED BY <1>3, <1>4, <1>5 DEF RegisterDevice, Registered

-----------------------------------------------------------------------------
(* Faults and the environment *)

LEMMA FailKeeps ==
    ASSUME IInv, NEW r \in Slots, Fail(r) PROVE IInv'
  BY StoreUnchanged, IInvNext, AnswerKeepsSlots DEF Fail, Replies

LEMMA DeleteContactKeeps ==
    ASSUME IInv, NEW u \in Users, DeleteContact(u) PROVE IInv'
  <1>1. StoreInv' /\ SlotsInv /\ granted' = granted /\ rpc' = rpc
    BY TablesUnchanged DEF DeleteContact
  <1>2. ContactsInv'
    BY IInvSplits DEF DeleteContact, ContactsInv
  <1>3. SlotsInv'
    BY <1>1 DEF SlotsInv, SlotInv, ActsFor
  <1> QED BY <1>1, <1>2, <1>3, IInvNext

LEMMA StutterKeeps ==
    ASSUME IInv, UNCHANGED vars PROVE IInv'
  <1>1. StoreInv' /\ ContactsInv' /\ SlotsInv /\ granted' = granted /\ rpc' = rpc
    BY StoreUnchanged DEF vars
  <1>2. SlotsInv'
    BY <1>1 DEF SlotsInv, SlotInv, ActsFor
  <1> QED BY <1>1, <1>2, IInvNext

LEMMA InitIInv == Init => IInv
  <1> SUFFICES ASSUME Init PROVE IInv
    OBVIOUS
  <1>1. StoreInv
    BY DEF Init, StoreInv, SerialsOK, TokenNamesItsGrantee, TokensAreUnique
  <1>2. ContactsInv
    BY DEF Init, ContactsInv
  <1>3. SlotInv(Idle("none"), granted)
    BY DEF SlotInv, SlotType, SlotOK, ActsFor, Idle, PCs, Replies
  <1>4. SlotsInv
    BY <1>3 DEF Init, SlotsInv, SlotInv
  <1> QED BY <1>1, <1>2, <1>4, IInvSplits

\* One case per action.
LEMMA StepKeeps ==
    ASSUME IInv, [Next]_vars PROVE IInv'
  <1>1. ASSUME NEW r \in Slots, Begin(r) PROVE IInv'
    BY <1>1, BeginKeeps
  <1>2. ASSUME NEW r \in Slots, Step(r) PROVE IInv'
    BY <1>2, AuthenticateSessionKeeps, ResolveContactKeeps, AddWebitelContactKeeps,
       FindWebitelSessionKeeps, AddContactKeeps, LookupSessionKeeps, CreateSessionKeeps,
       UpdateSessionKeeps, DeleteSessionKeeps, RegisterDeviceKeeps,
       UnregisterDeviceKeeps, FailKeeps
       DEF Step
  <1>3. ASSUME NEW u \in Users, DeleteContact(u) PROVE IInv'
    BY <1>3, DeleteContactKeeps
  <1>4. CASE UNCHANGED vars
    BY <1>4, StutterKeeps
  <1> QED BY <1>1, <1>2, <1>3, <1>4 DEF Next

-----------------------------------------------------------------------------
(* What a step does to the session table, and to what the RPCs hold of it *)

\* Row t is what a step made of row s: the same session at the same place,
\* with its token and its contact or with the next token.
Follows(s, t) ==
    /\ t.id = s.id /\ t.app = s.app /\ t.device = s.device
    /\ t.push = s.push \/ (t.push # None => t.push.device = t.device)
    /\ \/ t.token = s.token /\ t.contact = s.contact
       \/ t.token = serial + 1

\* Row t is new.
Created(t) ==
    /\ t.id = serial + 1
    /\ t.token \in {0, serial + 1}
    /\ t.push # None => t.push.device = t.device

\* The steps that add one.
RowAdded ==
    /\ serial' = serial + 1
    /\ \E r \in Slots : CreateSession(r) \/ (RegisterDevice(r) /\ rpc[r].hint.id = 0)

TableStep ==
    /\ serial' \in {serial, serial + 1}
    /\ \A t \in sessions' : (\E s \in sessions : Follows(s, t)) \/ (Created(t) /\ RowAdded)
    /\ \A t, u \in sessions' : t.id = u.id => t = u

\* A session an RPC holds was read in this step, or before, or is not stored.
HintsStep ==
    \A q \in Slots :
        \/ rpc'[q].hint \in {None, rpc[q].hint}
        \/ rpc'[q].hint \in sessions /\ UNCHANGED <<sessions, serial>>
        \/ rpc'[q].hint.id = 0

\* The numbers of the rows, as the lemmas below use them.
LEMMA RowNumbers ==
    ASSUME IInv
    PROVE  /\ serial \in Nat
           /\ \A s \in sessions : /\ s \in Session /\ s.id \in 1..serial
                                  /\ s.token \in Nat /\ s.token <= serial
  BY IInvSplits DEF StoreInv, SerialsOK, Session

\* Rows that are rewritten in place (F maps a row to what becomes of it).
LEMMA RewrittenRows ==
    ASSUME RowsOK, UNCHANGED serial \/ serial' = serial + 1, NEW F,
           \A t \in sessions' : \E s \in sessions : t = F[s],
           \A s \in sessions : Follows(s, F[s])
    PROVE  TableStep
  <1>1. \A t, u \in sessions' : t.id = u.id => t = u
    BY DEF RowsOK, Follows
  <1> QED BY <1>1 DEF TableStep

\* A row that is added gets an id no row has.
LEMMA AddedRow ==
    ASSUME IInv, RowsOK, NEW row, Created(row),
           sessions' = sessions \cup {row}, RowAdded
    PROVE  TableStep
  <1>1. \A s \in sessions : s.id # row.id
    BY RowNumbers DEF Created
  <1>2. \A t, u \in sessions' : t.id = u.id => t = u
    BY <1>1 DEF RowsOK
  <1>3. \A s \in sessions : Follows(s, s)
    BY DEF Follows
  <1>4. serial' = serial + 1
    BY DEF RowAdded
  <1> QED BY <1>2, <1>3, <1>4 DEF TableStep

LEMMA SameTable ==
    ASSUME RowsOK, UNCHANGED <<sessions, serial>> PROVE TableStep
  BY DEF TableStep, Follows, RowsOK

LEMMA CreateSessionTable ==
    ASSUME IInv, RowsOK, NEW r \in Slots, CreateSession(r) PROVE TableStep
  <1> DEFINE q == rpc[r].req
             row == [id |-> serial + 1, app |-> q.app, device |-> q.device,
                     contact |-> rpc[r].signIn, ip |-> q.ip, push |-> None,
                     token |-> NewToken(r)]
  <1>1. Created(row)
    BY DEF Created, NewToken
  <1>2. CASE sessions' = sessions \cup {row} /\ serial' = serial + 1
    <2>1. RowAdded
      BY <1>2 DEF RowAdded
    <2> HIDE DEF row
    <2> QED BY <1>1, <1>2, <2>1, AddedRow
  <1>3. CASE UNCHANGED <<sessions, serial>>
    BY <1>3, SameTable
  <1> QED BY <1>2, <1>3 DEF CreateSession

LEMMA UpdateSessionTable ==
    ASSUME IInv, RowsOK, NEW r \in Slots, UpdateSession(r) PROVE TableStep
  <1> DEFINE New(s) == WriteBack(s, rpc[r].hint, rpc[r].signIn, NewToken(r))
  <1>1. ASSUME NEW s \in UpdateTarget(rpc[r].hint),
               sessions' = (sessions \ {s}) \cup {New(s)}, serial' = serial + 1
        PROVE  TableStep
    <2> DEFINE F == [t \in sessions |-> IF t = s THEN New(s) ELSE t]
    <2>1. s \in sessions /\ s \in Session
      BY RowNumbers DEF UpdateTarget
    <2>2. \A t \in sessions' : \E u \in sessions : t = F[u]
      BY <1>1, <2>1
    <2>3. /\ New(s).id = s.id /\ New(s).app = s.app /\ New(s).device = s.device
          /\ New(s).push = s.push /\ New(s).token = serial + 1
      BY <2>1 DEF WriteBack, NewToken, Session
    <2>4. \A t \in sessions : Follows(t, F[t])
      <3> HIDE DEF New
      <3> QED BY <2>3 DEF Follows
    <2> HIDE DEF F
    <2> QED BY <1>1, <2>2, <2>4, RewrittenRows
  <1>2. CASE UNCHANGED <<sessions, serial>>
    BY <1>2, SameTable
  <1> QED BY <1>1, <1>2 DEF UpdateSession

LEMMA DeleteSessionTable ==
    ASSUME IInv, RowsOK, NEW r \in Slots, DeleteSession(r) PROVE TableStep
  BY DEF DeleteSession, Deleted, TableStep, Follows, RowsOK

\* A PUSH registration is for the device of the request, and so of the session
\* that the RPC holds.
LEMMA PushContext ==
    ASSUME IInv, NEW r \in Slots, rpc[r].pc = "register"
    PROVE  /\ rpc[r].hint \in Session /\ rpc[r].hint # None
           /\ rpc[r].req.push # None => rpc[r].req.push.device = rpc[r].hint.device
           /\ rpc[r].hint.id = 0 => rpc[r].hint.token = 0
  <1>1. rpc[r] \in SlotType /\ SlotOK(rpc[r])
    BY IInvSplits DEF SlotsInv, SlotInv
  <1>2. rpc[r].req \in Request /\ rpc[r].hint # None /\ rpc[r].hint \in Session
    BY <1>1 DEF SlotOK, SlotType
  <1> QED BY <1>1, <1>2 DEF SlotOK, Request

LEMMA RegisterDeviceTable ==
    ASSUME IInv, RowsOK, NEW r \in Slots, RegisterDevice(r) PROVE TableStep
  <1> DEFINE h == rpc[r].hint
             push == rpc[r].req.push
             Updated(s) == [s EXCEPT !.ip = h.ip, !.push = push]
             row == Stored(h, serial + 1, push)
  <1>1. /\ h \in Session /\ h # None
        /\ push # None => push.device = h.device
        /\ h.id = 0 => h.token = 0
    BY PushContext DEF RegisterDevice
  <1>2. CASE /\ sessions' = {IF s.id = h.id THEN Updated(s) ELSE s : s \in sessions}
             /\ UNCHANGED serial
    <2> DEFINE F == [s \in sessions |-> IF s.id = h.id THEN Updated(s) ELSE s]
    <2>1. \A t \in sessions' : \E s \in sessions : t = F[s]
      BY <1>2
    <2>2. ASSUME NEW s \in sessions PROVE Follows(s, F[s])
      <3>1. s \in Session
        BY RowNumbers
      <3>2. s.id = h.id => s.device = h.device
        BY <1>1 DEF RowsOK, HintOK
      <3>3. CASE s.id = h.id
        <4>1. /\ Updated(s).id = s.id /\ Updated(s).app = s.app /\ Updated(s).device = s.device
              /\ Updated(s).push = push /\ Updated(s).token = s.token
              /\ Updated(s).contact = s.contact
          BY <3>1 DEF Session
        <4>2. F[s] = Updated(s)
          BY <3>3
        <4> HIDE DEF F, Updated, h, push
        <4> QED BY <1>1, <3>2, <3>3, <4>1, <4>2 DEF Follows
      <3>4. CASE s.id # h.id
        BY <3>4 DEF Follows
      <3> QED BY <3>3, <3>4
    <2> HIDE DEF F
    <2> QED BY <1>2, <2>1, <2>2, RewrittenRows
  <1>3. CASE h.id = 0 /\ sessions' = sessions \cup {row} /\ serial' = serial + 1
    <2>1. Created(row)
      <3>1. /\ row.id = serial + 1 /\ row.push = push /\ row.token = 0
            /\ row.device = h.device
        BY <1>1, <1>3 DEF Stored, Session
      <3> HIDE DEF row
      <3> QED BY <1>1, <3>1 DEF Created
    <2>2. RowAdded
      BY <1>3 DEF RowAdded
    <2> HIDE DEF row
    <2> QED BY <1>3, <2>1, <2>2, AddedRow
  <1>4. CASE UNCHANGED <<sessions, serial>>
    BY <1>4, SameTable
  <1> QED BY <1>2, <1>3, <1>4 DEF RegisterDevice, Registered

LEMMA UnregisterDeviceTable ==
    ASSUME IInv, RowsOK, NEW r \in Slots, UnregisterDevice(r) PROVE TableStep
  <1> DEFINE current == {s \in sessions : s.id = rpc[r].hint.id}
             F == [s \in sessions |-> IF s \in current THEN [s EXCEPT !.push = None] ELSE s]
  <1>1. CASE sessions' = (sessions \ current) \cup {[s EXCEPT !.push = None] : s \in current}
    <2>1. \A t \in sessions' : \E s \in sessions : t = F[s]
      BY <1>1
    <2>2. ASSUME NEW s \in sessions PROVE Follows(s, F[s])
      <3>1. s \in Session
        BY RowNumbers
      <3> QED BY <3>1 DEF Follows, Session
    <2> HIDE DEF F
    <2> QED BY <2>1, <2>2, RewrittenRows DEF UnregisterDevice
  <1>2. CASE UNCHANGED sessions
    BY <1>2, SameTable DEF UnregisterDevice
  <1> QED BY <1>1, <1>2 DEF UnregisterDevice, Unregistered, Current

\* Every step keeps the rows at their places, adds at most one row with the
\* next id, and gives no token but the next.
LEMMA TableSteps ==
    ASSUME IInv, RowsOK, [Next]_vars PROVE TableStep
  <1>1. ASSUME NEW r \in Slots, Begin(r) PROVE TableStep
    BY <1>1, SameTable DEF Begin
  <1>2. ASSUME NEW r \in Slots, Step(r) PROVE TableStep
    BY <1>2, SameTable, CreateSessionTable, UpdateSessionTable, DeleteSessionTable,
       RegisterDeviceTable, UnregisterDeviceTable
       DEF Step, AuthenticateSession, ResolveContact, AddWebitelContact,
           FindWebitelSession, AddContact, LookupSession, Fail
  <1>3. ASSUME NEW u \in Users, DeleteContact(u) PROVE TableStep
    BY <1>3, SameTable DEF DeleteContact
  <1>4. CASE UNCHANGED vars
    BY <1>4, SameTable DEF vars
  <1> QED BY <1>1, <1>2, <1>3, <1>4 DEF Next

\* When one slot moves, the others hold what they held.
LEMMA OneHint ==
    ASSUME IInv, NEW r \in Slots, NEW c, rpc' = [rpc EXCEPT ![r] = c],
           \/ c.hint \in {None, rpc[r].hint}
           \/ c.hint \in sessions /\ UNCHANGED <<sessions, serial>>
           \/ c.hint.id = 0
    PROVE  HintsStep
  <1>1. \A q \in Slots : rpc'[q] = IF q = r THEN c ELSE rpc[q]
    BY IInvSplits DEF SlotsInv
  <1> QED BY <1>1 DEF HintsStep

LEMMA AnswerHint ==
    ASSUME IInv, NEW r \in Slots, NEW status, Answer(r, status) PROVE HintsStep
  BY OneHint DEF Answer, Idle

LEMMA GotoHint ==
    ASSUME IInv, NEW r \in Slots, NEW pc, NEW hint, NEW signIn, Goto(r, pc, hint, signIn),
           \/ hint \in {None, rpc[r].hint}
           \/ hint \in sessions /\ UNCHANGED <<sessions, serial>>
           \/ hint.id = 0
    PROVE  HintsStep
  BY OneHint DEF Goto

LEMMA ProceedHint ==
    ASSUME IInv, NEW r \in Slots, NEW hint, Proceed(r, hint),
           \/ hint = rpc[r].hint
           \/ hint \in sessions /\ UNCHANGED <<sessions, serial>>
           \/ hint.id = 0
    PROVE  HintsStep
  BY AnswerHint, GotoHint DEF Proceed

LEMMA HintsSteps ==
    ASSUME IInv, [Next]_vars PROVE HintsStep
  <1>1. ASSUME NEW r \in Slots, Begin(r) PROVE HintsStep
    BY <1>1, AnswerHint, OneHint DEF Begin, Started
  <1>2. ASSUME NEW r \in Slots, Step(r) PROVE HintsStep
    <2>1. CASE AuthenticateSession(r)
      BY <2>1, AnswerHint, GotoHint DEF AuthenticateSession
    <2>2. CASE ResolveContact(r)
      BY <2>2, AnswerHint, ProceedHint DEF ResolveContact
    <2>3. CASE AddWebitelContact(r)
      BY <2>3, AnswerHint, GotoHint DEF AddWebitelContact
    <2>4. CASE FindWebitelSession(r)
      BY <2>4, ProceedHint DEF FindWebitelSession
    <2>5. CASE AddContact(r)
      BY <2>5, GotoHint DEF AddContact
    <2>6. CASE LookupSession(r)
      BY <2>6, GotoHint DEF LookupSession, FindSession
    <2>7. CASE \/ CreateSession(r) \/ UpdateSession(r) \/ DeleteSession(r)
               \/ RegisterDevice(r) \/ UnregisterDevice(r) \/ Fail(r)
      BY <2>7, AnswerHint DEF CreateSession, UpdateSession, DeleteSession,
                              RegisterDevice, UnregisterDevice, Fail
    <2> QED BY <1>2, <2>1, <2>2, <2>3, <2>4, <2>5, <2>6, <2>7 DEF Step
  <1>3. CASE UNCHANGED rpc
    BY <1>3 DEF HintsStep
  <1> QED BY <1>1, <1>2, <1>3 DEF Next, DeleteContact, vars

LEMMA InitRowsOK == Init => RowsOK
  BY DEF Init, RowsOK, PushStaysOnDevice, HintOK, Idle

LEMMA RowsOKKeeps ==
    ASSUME IInv, RowsOK, [Next]_vars PROVE RowsOK'
  <1>1. TableStep /\ HintsStep
    BY TableSteps, HintsSteps
  <1>2. \A s, t \in sessions' : s.id = t.id => s = t
    BY <1>1 DEF TableStep
  <1>3. PushStaysOnDevice'
    BY <1>1 DEF TableStep, Follows, Created, RowsOK, PushStaysOnDevice
  <1>4. ASSUME NEW q \in Slots, rpc'[q].hint # None
        PROVE  /\ rpc'[q].hint.id <= serial'
               /\ \A t \in sessions' : t.id = rpc'[q].hint.id =>
                    t.device = rpc'[q].hint.device /\ t.app = rpc'[q].hint.app
    <2> DEFINE h == rpc'[q].hint
    <2>1. serial \in Nat /\ serial' \in {serial, serial + 1}
      BY <1>1, RowNumbers DEF TableStep
    <2>2. CASE h = rpc[q].hint
      <3>1. /\ h.id <= serial
            /\ \A s \in sessions : s.id = h.id => s.device = h.device /\ s.app = h.app
        BY <1>4, <2>2 DEF RowsOK, HintOK
      <3>2. h.id \in Nat
        BY <1>4, <2>2, IInvSplits DEF SlotsInv, SlotType, Session
      <3>3. \A t \in sessions' : t.id = h.id => \E s \in sessions : Follows(s, t)
        BY <1>1, <2>1, <3>1, <3>2 DEF TableStep, Created
      <3> QED BY <2>1, <3>1, <3>2, <3>3 DEF Follows
    <2>3. CASE h \in sessions /\ UNCHANGED <<sessions, serial>>
      BY <2>3, RowNumbers DEF RowsOK
    <2>4. CASE h.id = 0
      <3>1. \A t \in sessions' : t.id # 0
        BY <1>1, RowNumbers DEF TableStep, Follows, Created
      <3> QED BY <2>1, <2>4, <3>1
    <2> QED BY <1>1, <1>4, <2>2, <2>3, <2>4 DEF HintsStep
  <1> QED BY <1>2, <1>3, <1>4 DEF RowsOK, HintOK

-----------------------------------------------------------------------------
(* What a step never does to the tokens, the rows and the sign-ins *)

\* A token that is not live stays that way: rows keep their tokens or get the
\* next one.
LEMMA DeadStays ==
    ASSUME IInv, RowsOK, [Next]_vars, NEW t \in 1..serial, ~Live(t)
    PROVE  ~Live(t)'
  <1>1. TableStep /\ serial \in Nat
    BY TableSteps, RowNumbers
  <1> QED BY <1>1 DEF TableStep, Follows, Created, Live

LEMMA GoneStays ==
    ASSUME IInv, RowsOK, [Next]_vars, NEW i \in 1..serial, \A s \in sessions : s.id # i
    PROVE  \A s \in sessions' : s.id # i
  <1>1. TableStep /\ serial \in Nat
    BY TableSteps, RowNumbers
  <1> QED BY <1>1 DEF TableStep, Follows, Created

LEMMA HandoverRotates ==
    ASSUME IInv, RowsOK, [Next]_vars, NEW s \in sessions, NEW t \in sessions', s.id = t.id
    PROVE  /\ s.device = t.device
           /\ s.app = t.app
           /\ s.contact # t.contact => t.token > s.token
  <1>1. TableStep
    BY TableSteps
  <1>2. serial \in Nat /\ s.id \in 1..serial /\ s.token \in Nat /\ s.token <= serial
    BY RowNumbers
  <1>3. PICK u \in sessions : Follows(u, t)
    BY <1>1, <1>2 DEF TableStep, Created
  <1>4. u = s
    BY <1>3 DEF Follows, RowsOK
  <1> QED BY <1>2, <1>3, <1>4 DEF Follows

-----------------------------------------------------------------------------
(* The bounds *)

\* A slot that moves holds no sign-in, the one it held, or one within bounds.
LEMMA OneSignIn ==
    ASSUME IInv, BoundsOK, NEW r \in Slots, NEW c, rpc' = [rpc EXCEPT ![r] = c],
           c.signIn \in {None, rpc[r].signIn} \/ c.signIn.id <= MaxContactId
    PROVE  \A q \in Slots : rpc'[q].signIn # None => rpc'[q].signIn.id <= MaxContactId
  <1>1. \A q \in Slots : rpc'[q] = IF q = r THEN c ELSE rpc[q]
    BY IInvSplits DEF SlotsInv
  <1> QED BY <1>1 DEF BoundsOK

\* A sign-in that is saved is within bounds, and so are the contacts then.
LEMMA UpsertBounds ==
    ASSUME IInv, BoundsOK, NEW u \in Users, Upsert(u)
    PROVE  /\ Upserted(u).id <= MaxContactId
           /\ \A v \in Users : contacts'[v].id <= MaxContactId
  BY IInvSplits DEF ContactsInv, BoundsOK, Upsert

LEMMA InitBoundsOK == Init => BoundsOK
  BY BoundsAssumption DEF Init, BoundsOK, Idle

LEMMA BoundsOKKeeps ==
    ASSUME IInv, BoundsOK, [Next]_vars PROVE BoundsOK'
  <1>1. serial \in Nat /\ MaxSerial \in Nat
    BY RowNumbers, BoundsAssumption
  <1>2. ASSUME NEW r \in Slots, Begin(r) PROVE BoundsOK'
    <2>1. \A q \in Slots : rpc'[q].signIn # None => rpc'[q].signIn.id <= MaxContactId
      BY <1>2, OneSignIn DEF Begin, Started, Answer, Idle
    <2> QED BY <1>2, <2>1 DEF Begin, BoundsOK
  <1>3. ASSUME NEW r \in Slots, AddWebitelContact(r) PROVE BoundsOK'
    <2> DEFINE u == rpc[r].req.webitel
    <2>1. rpc[r] \in SlotType /\ SlotOK(rpc[r]) /\ rpc[r].pc = "webitel"
      BY <1>3, IInvSplits DEF AddWebitelContact, SlotsInv, SlotInv
    <2>2. u \in Users
      BY <2>1 DEF SlotOK, Request, Users
    <2>3. CASE UNCHANGED contacts /\ Answer(r, "error")
      <3>1. \A q \in Slots : rpc'[q].signIn # None => rpc'[q].signIn.id <= MaxContactId
        BY <2>3, OneSignIn DEF Answer, Idle
      <3> QED BY <1>3, <2>3, <3>1 DEF AddWebitelContact, BoundsOK
    <2>4. CASE Upsert(u) /\ Goto(r, "findSession", None, Upserted(u))
      <3>1. /\ Upserted(u).id <= MaxContactId
            /\ \A v \in Users : contacts'[v].id <= MaxContactId
        BY <2>2, <2>4, UpsertBounds
      <3>2. \A q \in Slots : rpc'[q].signIn # None => rpc'[q].signIn.id <= MaxContactId
        BY <2>4, <3>1, OneSignIn DEF Goto
      <3> QED BY <1>3, <3>1, <3>2 DEF AddWebitelContact, BoundsOK
    <2> QED BY <1>3, <2>3, <2>4 DEF AddWebitelContact
  <1>4. ASSUME NEW r \in Slots, AddContact(r) PROVE BoundsOK'
    <2> DEFINE u == rpc[r].req.user
    <2>1. rpc[r] \in SlotType /\ SlotOK(rpc[r]) /\ rpc[r].pc = "addContact"
      BY <1>4, IInvSplits DEF AddContact, SlotsInv, SlotInv
    <2>2. u \in Users
      BY <2>1 DEF SlotOK, Request, Users
    <2>3. /\ Upserted(u).id <= MaxContactId
          /\ \A v \in Users : contacts'[v].id <= MaxContactId
      BY <1>4, <2>2, UpsertBounds DEF AddContact
    <2>4. \A q \in Slots : rpc'[q].signIn # None => rpc'[q].signIn.id <= MaxContactId
      BY <1>4, <2>3, OneSignIn DEF AddContact, Goto
    <2> QED BY <1>4, <2>3, <2>4 DEF AddContact, BoundsOK
  <1>5. ASSUME NEW r \in Slots, Step(r), ~AddWebitelContact(r), ~AddContact(r)
        PROVE  BoundsOK'
    <2>1. UNCHANGED contacts
      BY <1>5 DEF Step, AuthenticateSession, ResolveContact, FindWebitelSession, LookupSession,
                  CreateSession, UpdateSession, DeleteSession, RegisterDevice,
                  UnregisterDevice, Fail
    <2>2. UNCHANGED serial \/ (serial < MaxSerial /\ serial' = serial + 1)
      BY <1>5 DEF Step, AuthenticateSession, ResolveContact, FindWebitelSession, LookupSession,
                  CreateSession, UpdateSession, DeleteSession, RegisterDevice,
                  UnregisterDevice, Fail
    <2>3. \A q \in Slots : rpc'[q].signIn # None => rpc'[q].signIn.id <= MaxContactId
      BY <1>5, OneSignIn
         DEF Step, AuthenticateSession, ResolveContact, FindWebitelSession, LookupSession,
             CreateSession, UpdateSession, DeleteSession, RegisterDevice, UnregisterDevice,
             Fail, Answer, Idle, Goto, Proceed
    <2> QED BY <1>1, <2>1, <2>2, <2>3 DEF BoundsOK
  <1>6. ASSUME NEW u \in Users, DeleteContact(u) PROVE BoundsOK'
    BY <1>6, IInvSplits DEF DeleteContact, BoundsOK, ContactsInv
  <1>7. CASE UNCHANGED vars
    BY <1>7 DEF vars, BoundsOK
  <1> QED BY <1>2, <1>3, <1>4, <1>5, <1>6, <1>7 DEF Next

-----------------------------------------------------------------------------
(* The refinement of AccessGrants *)

\* Steps that leave the tokens to their contacts and devices are steps that
\* AccessGrants does not see.
SameGrants == LiveGrants' = LiveGrants /\ IssuedTokens' = IssuedTokens

\* Rows that are rewritten with their token, contact and device.
LEMMA RewrittenGrants ==
    ASSUME UNCHANGED granted, NEW F, sessions' = {F[s] : s \in sessions},
           \A s \in sessions : F[s].token = s.token /\ GrantOf(F[s]) = GrantOf(s)
    PROVE  SameGrants
  BY DEF SameGrants, LiveGrants, IssuedTokens

\* No two rows are the same grant.
LEMMA GrantsDiffer ==
    ASSUME IInv, NEW s \in sessions, NEW t \in sessions, s.token # 0,
           GrantOf(s) = GrantOf(t)
    PROVE  s = t
  BY IInvSplits DEF StoreInv, TokensAreUnique, GrantOf

\* A login issues one token, the next.
LEMMA IssuedOne ==
    ASSUME NEW r \in Slots, RecordGrant(r)
    PROVE  IssuedTokens' = IssuedTokens \cup {serial + 1}
  <1> DEFINE g == [token |-> NewToken(r), contact |-> rpc[r].signIn,
                   device |-> rpc[r].req.device, app |-> rpc[r].req.app,
                   webitel |-> rpc[r].req.webitel]
  <1>1. granted' = granted \cup {g} /\ g.token = serial + 1
    BY DEF RecordGrant, NewToken
  <1> HIDE DEF g
  <1> QED BY <1>1 DEF IssuedTokens

LEMMA CreateSessionIssues ==
    ASSUME IInv, BoundsOK, NEW r \in Slots, CreateSession(r)
    PROVE  SameGrants \/ Abstract!Next
  <1> DEFINE q == rpc[r].req
             row == [id |-> serial + 1, app |-> q.app, device |-> q.device,
                     contact |-> rpc[r].signIn, ip |-> q.ip, push |-> None,
                     token |-> NewToken(r)]
  <1>1. CASE /\ sessions' = sessions \cup {row} /\ serial < MaxSerial
             /\ RecordGrant(r)
    <2>1. /\ rpc[r].signIn \in Contact /\ q.device \in Devices
          /\ rpc[r].signIn.id <= MaxContactId
      <3>1. rpc[r].signIn # None
        BY LoginContext, NoneAssumption DEF CreateSession
      <3> QED BY <3>1, LoginContext DEF CreateSession, BoundsOK
    <2>2. GrantOf(row) \in Abstract!Grants
      BY <1>1, <2>1, RowNumbers, BoundsAssumption
         DEF Abstract!Grants, GrantOf, NewToken, Contact
    <2>3. IssuedTokens' = IssuedTokens \cup {GrantOf(row).token}
      BY <1>1, IssuedOne DEF GrantOf, NewToken
    <2>4. GrantOf(row).token \notin IssuedTokens
      BY RowNumbers, IInvSplits DEF StoreInv, SerialsOK, IssuedTokens, GrantOf, NewToken
    <2>5. LiveGrants' = LiveGrants \cup {GrantOf(row)}
      <3>1. row.token # 0
        BY RowNumbers DEF NewToken
      <3> HIDE DEF row
      <3> QED BY <1>1, <3>1 DEF LiveGrants
    <2> HIDE DEF row
    <2> QED BY <2>2, <2>3, <2>4, <2>5 DEF Abstract!Next, Abstract!Issue
  <1>2. CASE UNCHANGED <<sessions, granted>>
    BY <1>2 DEF SameGrants, LiveGrants, IssuedTokens
  <1> QED BY <1>1, <1>2 DEF CreateSession

LEMMA UpdateSessionIssues ==
    ASSUME IInv, BoundsOK, NEW r \in Slots, UpdateSession(r)
    PROVE  SameGrants \/ Abstract!Next
  <1> DEFINE h == rpc[r].hint
             New(s) == WriteBack(s, h, rpc[r].signIn, NewToken(r))
  <1>1. ASSUME NEW s \in UpdateTarget(h), sessions' = (sessions \ {s}) \cup {New(s)},
               serial < MaxSerial, RecordGrant(r)
        PROVE  Abstract!Next
    <2> DEFINE g == GrantOf(New(s))
    <2>1. /\ rpc[r].signIn \in Contact /\ rpc[r].req.device \in Devices
          /\ rpc[r].signIn.id <= MaxContactId
          /\ h \in Session /\ h.device = rpc[r].req.device
      <3>1. rpc[r].signIn # None
        BY LoginContext, NoneAssumption DEF UpdateSession
      <3> QED BY <3>1, LoginContext DEF UpdateSession, BoundsOK
    <2>2. s \in sessions /\ s \in Session /\ s.device = h.device /\ serial \in Nat
      BY RowNumbers DEF UpdateTarget
    <2>3. New(s).token = serial + 1 /\ New(s).contact = rpc[r].signIn /\ New(s).device = s.device
      BY <2>2 DEF WriteBack, NewToken, Session
    <2>4. g = [token |-> serial + 1, contact |-> rpc[r].signIn, device |-> s.device]
      BY <2>3 DEF GrantOf
    <2>5. g \in Abstract!Grants
      BY <1>1, <2>1, <2>2, <2>4, BoundsAssumption DEF Abstract!Grants, Contact
    <2>6. IssuedTokens' = IssuedTokens \cup {g.token}
      <3>1. IssuedTokens' = IssuedTokens \cup {serial + 1}
        BY <1>1, IssuedOne
      <3>2. g.token = serial + 1
        BY <2>4
      <3> QED BY <3>1, <3>2
    <2>7. g.token \notin IssuedTokens
      BY <2>2, <2>4, IInvSplits DEF StoreInv, SerialsOK, IssuedTokens
    <2> HIDE DEF New
    <2>8. LiveGrants' = {GrantOf(t) : t \in {t \in sessions \ {s} : t.token # 0}} \cup {g}
      BY <1>1, <2>2, <2>3 DEF LiveGrants
    <2>9. CASE s.token = 0
      <3>1. LiveGrants' = LiveGrants \cup {g}
        BY <2>8, <2>9 DEF LiveGrants
      <3> QED BY <2>5, <2>6, <2>7, <3>1 DEF Abstract!Next, Abstract!Issue
    <2>10. CASE s.token # 0
      <3>1. GrantOf(s) \in LiveGrants /\ GrantOf(s).device = g.device
        BY <2>2, <2>4, <2>10 DEF LiveGrants, GrantOf
      <3>2. LiveGrants' = (LiveGrants \ {GrantOf(s)}) \cup {g}
        BY <2>2, <2>8, <2>10, GrantsDiffer DEF LiveGrants
      <3> QED BY <2>5, <2>6, <2>7, <3>1, <3>2 DEF Abstract!Next, Abstract!Issue
    <2> QED BY <2>9, <2>10
  <1>2. CASE UNCHANGED <<sessions, granted>>
    BY <1>2 DEF SameGrants, LiveGrants, IssuedTokens
  <1> QED BY <1>1, <1>2 DEF UpdateSession

LEMMA DeleteSessionRevokes ==
    ASSUME IInv, RowsOK, NEW r \in Slots, DeleteSession(r)
    PROVE  SameGrants \/ Abstract!Next
  <1> DEFINE i == rpc[r].hint.id
  <1>1. sessions' = {s \in sessions : s.id # i} /\ IssuedTokens' = IssuedTokens
    BY DEF DeleteSession, Deleted, IssuedTokens
  <1>2. ASSUME NEW s \in sessions, s.id = i, s.token # 0 PROVE Abstract!Next
    <2>1. sessions' = sessions \ {s}
      BY <1>1, <1>2 DEF RowsOK
    <2>2. GrantOf(s) \in LiveGrants
      BY <1>2 DEF LiveGrants
    <2>3. LiveGrants' = LiveGrants \ {GrantOf(s)}
      BY <1>2, <2>1, GrantsDiffer DEF LiveGrants
    <2> QED BY <1>1, <2>2, <2>3 DEF Abstract!Next, Abstract!Revoke
  <1>3. CASE \A s \in sessions : s.id = i => s.token = 0
    BY <1>1, <1>3 DEF SameGrants, LiveGrants
  <1> QED BY <1>2, <1>3

LEMMA RegisterDeviceUnseen ==
    ASSUME IInv, NEW r \in Slots, RegisterDevice(r) PROVE SameGrants
  <1> DEFINE h == rpc[r].hint
             push == rpc[r].req.push
             Updated(s) == [s EXCEPT !.ip = h.ip, !.push = push]
             row == Stored(h, serial + 1, push)
  <1>1. UNCHANGED granted
    BY DEF RegisterDevice
  <1>2. CASE sessions' = {IF s.id = h.id THEN Updated(s) ELSE s : s \in sessions}
    <2> DEFINE F == [s \in sessions |-> IF s.id = h.id THEN Updated(s) ELSE s]
    <2>1. \A s \in sessions : F[s].token = s.token /\ GrantOf(F[s]) = GrantOf(s)
      BY RowNumbers DEF GrantOf, Session
    <2>2. sessions' = {F[s] : s \in sessions}
      BY <1>2
    <2> HIDE DEF F
    <2> QED BY <1>1, <2>1, <2>2, RewrittenGrants
  <1>3. CASE h.id = 0 /\ sessions' = sessions \cup {row}
    <2>1. row.token = 0
      BY <1>3, PushContext DEF RegisterDevice, Stored, Session
    <2> HIDE DEF row
    <2> QED BY <1>1, <1>3, <2>1 DEF SameGrants, LiveGrants, IssuedTokens
  <1>4. CASE UNCHANGED sessions
    BY <1>1, <1>4 DEF SameGrants, LiveGrants, IssuedTokens
  <1> QED BY <1>2, <1>3, <1>4 DEF RegisterDevice, Registered

LEMMA UnregisterDeviceUnseen ==
    ASSUME IInv, NEW r \in Slots, UnregisterDevice(r) PROVE SameGrants
  <1> DEFINE current == {s \in sessions : s.id = rpc[r].hint.id}
             F == [s \in sessions |-> IF s \in current THEN [s EXCEPT !.push = None] ELSE s]
  <1>1. UNCHANGED granted
    BY DEF UnregisterDevice
  <1>2. CASE sessions' = (sessions \ current) \cup {[s EXCEPT !.push = None] : s \in current}
    <2>1. \A s \in sessions : F[s].token = s.token /\ GrantOf(F[s]) = GrantOf(s)
      BY RowNumbers DEF GrantOf, Session
    <2>2. sessions' = {F[s] : s \in sessions}
      BY <1>2
    <2> HIDE DEF F
    <2> QED BY <1>1, <2>1, <2>2, RewrittenGrants
  <1>3. CASE UNCHANGED sessions
    BY <1>1, <1>3 DEF SameGrants, LiveGrants, IssuedTokens
  <1> QED BY <1>2, <1>3 DEF UnregisterDevice, Unregistered, Current

LEMMA StepRefines ==
    ASSUME IInv, RowsOK, BoundsOK, [Next]_vars
    PROVE  SameGrants \/ Abstract!Next
  <1>1. ASSUME UNCHANGED <<sessions, granted>> PROVE SameGrants
    BY <1>1 DEF SameGrants, LiveGrants, IssuedTokens
  <1>2. ASSUME NEW r \in Slots, Step(r) PROVE SameGrants \/ Abstract!Next
    BY <1>1, <1>2, CreateSessionIssues, UpdateSessionIssues, DeleteSessionRevokes,
       RegisterDeviceUnseen, UnregisterDeviceUnseen
       DEF Step, AuthenticateSession, ResolveContact, AddWebitelContact,
           FindWebitelSession, AddContact, LookupSession, Fail
  <1>3. CASE UNCHANGED <<sessions, granted>>
    BY <1>1, <1>3
  <1> QED BY <1>2, <1>3 DEF Next, Begin, DeleteContact, vars

-----------------------------------------------------------------------------
(* Sessions and the applications of their tokens *)

\* Rows that keep their applications and tokens.
LEMMA AppsOfSameRows ==
    ASSUME IInv, AppsOK, UNCHANGED granted,
           \A t \in sessions' :
               t.token = 0 \/ \E s \in sessions : t.app = s.app /\ t.token = s.token
    PROVE  TokenWorksViaItsApp'
  <1>1. \A g \in granted : g.token # 0
    BY IInvSplits DEF StoreInv, SerialsOK
  <1> QED BY <1>1 DEF AppsOK, TokenWorksViaItsApp

\* A login that writes: the row that takes the token is of its application,
\* unless the login presented a Webitel token.
LEMMA AppOfGrant ==
    ASSUME IInv, AppsOK, NEW t, NEW g, \A u \in sessions' : u = t \/ u \in sessions,
           granted' = granted \cup {g}, t.token = serial + 1, g.token = serial + 1,
           g.webitel = None => t.app = g.app
    PROVE  TokenWorksViaItsApp'
  <1>1. \A h \in granted : h.token \in 1..serial
    BY IInvSplits DEF StoreInv, SerialsOK
  <1>2. \A s \in sessions : s.token # serial + 1
    BY RowNumbers
  <1>3. \A h \in granted : h.token # serial + 1
    BY <1>1, RowNumbers
  <1> QED BY <1>2, <1>3 DEF AppsOK, TokenWorksViaItsApp

LEMMA CreateSessionApps ==
    ASSUME IInv, AppsOK, NEW r \in Slots, CreateSession(r)
    PROVE  TokenWorksViaItsApp'
  <1> DEFINE q == rpc[r].req
             row == [id |-> serial + 1, app |-> q.app, device |-> q.device,
                     contact |-> rpc[r].signIn, ip |-> q.ip, push |-> None,
                     token |-> NewToken(r)]
             g == [token |-> NewToken(r), contact |-> rpc[r].signIn,
                   device |-> q.device, app |-> q.app, webitel |-> q.webitel]
  <1>1. CASE sessions' = sessions \cup {row} /\ RecordGrant(r)
    <2>1. row.token = serial + 1 /\ g.token = serial + 1 /\ row.app = g.app
      BY DEF NewToken
    <2>2. granted' = granted \cup {g}
      BY <1>1 DEF RecordGrant
    <2> HIDE DEF row, g
    <2> QED BY <1>1, <2>1, <2>2, AppOfGrant
  <1>2. CASE UNCHANGED <<sessions, granted>>
    BY <1>2, AppsOfSameRows
  <1> QED BY <1>1, <1>2 DEF CreateSession

LEMMA UpdateSessionApps ==
    ASSUME IInv, RowsOK, AppsOK, NEW r \in Slots, UpdateSession(r)
    PROVE  TokenWorksViaItsApp'
  <1> DEFINE h == rpc[r].hint
             New(s) == WriteBack(s, h, rpc[r].signIn, NewToken(r))
             g == [token |-> NewToken(r), contact |-> rpc[r].signIn,
                   device |-> rpc[r].req.device, app |-> rpc[r].req.app,
                   webitel |-> rpc[r].req.webitel]
  <1>1. ASSUME NEW s \in UpdateTarget(h), sessions' = (sessions \ {s}) \cup {New(s)},
               RecordGrant(r)
        PROVE  TokenWorksViaItsApp'
    <2>1. h \in Session /\ h # None
      BY LoginContext, NoneAssumption DEF UpdateSession
    <2>2. rpc[r].req.webitel = None => h.app = rpc[r].req.app
      <3>1. rpc[r].req.op = "Token"
        BY IInvSplits DEF SlotsInv, SlotInv, SlotOK, UpdateSession
      <3> QED BY <2>1, <3>1 DEF AppsOK, AppContext, UpdateSession
    <2>3. s \in Session /\ s.app = h.app
      BY <2>1, RowNumbers DEF UpdateTarget, RowsOK, HintOK
    <2>4. New(s).token = serial + 1 /\ New(s).app = s.app
      BY <2>3 DEF WriteBack, NewToken, Session
    <2>5. /\ g.token = serial + 1 /\ g.app = rpc[r].req.app
          /\ g.webitel = rpc[r].req.webitel /\ granted' = granted \cup {g}
      BY <1>1 DEF NewToken, RecordGrant
    <2> HIDE DEF New, g
    <2> QED BY <1>1, <2>2, <2>3, <2>4, <2>5, AppOfGrant
  <1>2. CASE UNCHANGED <<sessions, granted>>
    BY <1>2, AppsOfSameRows
  <1> QED BY <1>1, <1>2 DEF UpdateSession

\* A registration: a session that is not stored yet has no token.
LEMMA RegisterDeviceApps ==
    ASSUME IInv, NEW r \in Slots, RegisterDevice(r)
    PROVE  \A t \in sessions' :
               t.token = 0 \/ \E s \in sessions : t.app = s.app /\ t.token = s.token
  <1> DEFINE h == rpc[r].hint
             push == rpc[r].req.push
  <1>1. h \in Session /\ push \in PushToken /\ (h.id = 0 => h.token = 0)
    <2>1. rpc[r].req \in Request /\ rpc[r].req.op \in {"RegisterDevice", "UnregisterDevice"}
      BY DeviceContext DEF RegisterDevice
    <2> QED BY <2>1, DeviceContext DEF RegisterDevice, Request
  <1> HIDE DEF h, push
  <1>2. CASE UNCHANGED sessions
    BY <1>2
  <1>3. CASE sessions' = Registered(h, push)
    BY <1>3, RowNumbers DEF Registered, Session
  <1>4. CASE h.id = 0 /\ sessions' = sessions \cup {Stored(h, serial + 1, push)}
    <2>1. Stored(h, serial + 1, push).token = 0
      BY <1>1, <1>4, StoredType
    <2> QED BY <1>4, <2>1
  <1> QED BY <1>2, <1>3, <1>4 DEF RegisterDevice, h, push

LEMMA RowsKeepApps ==
    ASSUME IInv, RowsOK, AppsOK, [Next]_vars
    PROVE  TokenWorksViaItsApp'
  <1>1. ASSUME NEW r \in Slots, UnregisterDevice(r)
        PROVE  \A t \in sessions' : \E s \in sessions : t.app = s.app /\ t.token = s.token
    BY <1>1, RowNumbers DEF UnregisterDevice, Unregistered, Current, Session
  <1>2. ASSUME NEW r \in Slots, DeleteSession(r)
        PROVE  \A t \in sessions' : \E s \in sessions : t.app = s.app /\ t.token = s.token
    BY <1>2 DEF DeleteSession, Deleted
  <1>3. ASSUME NEW r \in Slots, Step(r)
        PROVE  TokenWorksViaItsApp'
    <2>1. CASE \/ AuthenticateSession(r) \/ ResolveContact(r) \/ AddWebitelContact(r)
               \/ FindWebitelSession(r) \/ AddContact(r) \/ LookupSession(r) \/ Fail(r)
      BY <2>1, AppsOfSameRows
         DEF AuthenticateSession, ResolveContact, AddWebitelContact, FindWebitelSession,
             AddContact, LookupSession, Fail
    <2>2. CASE RegisterDevice(r) \/ UnregisterDevice(r) \/ DeleteSession(r)
      <3>1. UNCHANGED granted
        BY <2>2 DEF RegisterDevice, UnregisterDevice, DeleteSession
      <3> QED BY <1>1, <1>2, <2>2, <3>1, RegisterDeviceApps, AppsOfSameRows
    <2> QED BY <1>3, <2>1, <2>2, CreateSessionApps, UpdateSessionApps DEF Step
  <1>4. CASE UNCHANGED <<sessions, granted>>
    BY <1>4, AppsOfSameRows
  <1> QED BY <1>3, <1>4 DEF Next, Begin, DeleteContact, vars

\* When one slot moves, the others are at the step they were at.
LEMMA OneAppContext ==
    ASSUME IInv, AppsOK, NEW r \in Slots, NEW c, rpc' = [rpc EXCEPT ![r] = c], AppContext(c)
    PROVE  \A q \in Slots : AppContext(rpc'[q])
  <1>1. \A q \in Slots : rpc'[q] = IF q = r THEN c ELSE rpc[q]
    BY IInvSplits DEF SlotsInv
  <1> QED BY <1>1 DEF AppsOK

LEMMA AnswerApps ==
    ASSUME IInv, AppsOK, NEW r \in Slots, NEW status, Answer(r, status)
    PROVE  \A q \in Slots : AppContext(rpc'[q])
  <1>1. AppContext(Idle(status))
    BY DEF AppContext, Idle
  <1> QED BY <1>1, OneAppContext DEF Answer

LEMMA GotoApps ==
    ASSUME IInv, AppsOK, NEW r \in Slots, NEW pc, NEW hint, NEW signIn,
           Goto(r, pc, hint, signIn),
           hint # None /\ rpc[r].req.op = "Token" /\ rpc[r].req.webitel = None =>
               hint.app = rpc[r].req.app
    PROVE  \A q \in Slots : AppContext(rpc'[q])
  <1> DEFINE c == [pc |-> pc, req |-> rpc[r].req, hint |-> hint, signIn |-> signIn,
                   reply |-> "none"]
  <1>1. AppContext(c)
    BY DEF AppContext
  <1> QED BY <1>1, OneAppContext DEF Goto

\* The end of authentication: the RPC goes on with the session it found.
LEMMA ProceedApps ==
    ASSUME IInv, AppsOK, NEW r \in Slots, NEW hint, Proceed(r, hint),
           rpc[r].req.op = "Token" /\ rpc[r].req.webitel = None =>
               hint.app = rpc[r].req.app
    PROVE  \A q \in Slots : AppContext(rpc'[q])
  BY AnswerApps, GotoApps DEF Proceed

LEMMA ContextsKeepApps ==
    ASSUME IInv, AppsOK, [Next]_vars
    PROVE  \A q \in Slots : AppContext(rpc'[q])
  <1>1. ASSUME NEW r \in Slots, Begin(r) PROVE \A q \in Slots : AppContext(rpc'[q])
    <2>1. ASSUME NEW q \in Request, rpc' = [rpc EXCEPT ![r] = Started(q)]
          PROVE  \A p \in Slots : AppContext(rpc'[p])
      <3>1. AppContext(Started(q))
        BY DEF AppContext, Started
      <3> QED BY <2>1, <3>1, OneAppContext
    <2> QED BY <1>1, <2>1, AnswerApps DEF Begin
  <1>2. ASSUME NEW r \in Slots, Step(r) PROVE \A q \in Slots : AppContext(rpc'[q])
    <2>1. CASE AuthenticateSession(r)
      <3>1. HeadersAccepted(rpc[r].req)
        BY <2>1, IInvSplits DEF AuthenticateSession, SlotsInv, SlotInv, SlotOK
      <3>2. ASSUME NEW s \in sessions, MatchesHeaders(rpc[r].req, s),
                   Goto(r, "getContact", s, None)
            PROVE  \A q \in Slots : AppContext(rpc'[q])
        <4>1. rpc[r].req.op = "Token" => s.app = rpc[r].req.app
          BY <3>1, <3>2 DEF MatchesHeaders, HeadersAccepted
        <4> QED BY <3>2, <4>1, GotoApps
      <3> QED BY <2>1, <3>2, AnswerApps DEF AuthenticateSession
    <2>2. CASE ResolveContact(r)
      <3>1. rpc[r].req.op = "Token" /\ rpc[r].req.webitel = None =>
                rpc[r].hint.app = rpc[r].req.app
        BY <2>2, IInvSplits DEF ResolveContact, SlotsInv, SlotInv, SlotOK, AppsOK, AppContext
      <3> QED BY <2>2, <3>1, AnswerApps, ProceedApps DEF ResolveContact
    <2>3. CASE AddWebitelContact(r)
      BY <2>3, AnswerApps, GotoApps DEF AddWebitelContact
    <2>4. CASE FindWebitelSession(r)
      <3>1. rpc[r].req.webitel # None
        BY <2>4, IInvSplits DEF FindWebitelSession, SlotsInv, SlotInv, SlotOK
      <3> QED BY <2>4, <3>1, ProceedApps DEF FindWebitelSession
    <2>5. CASE AddContact(r)
      <3>1. rpc[r].pc = "addContact"
        BY <2>5 DEF AddContact
      <3>2. rpc[r].hint # None /\ rpc[r].req.op = "Token" /\ rpc[r].req.webitel = None =>
                rpc[r].hint.app = rpc[r].req.app
        BY <3>1 DEF AppsOK, AppContext
      <3> QED BY <2>5, <3>2, GotoApps DEF AddContact
    <2>6. CASE LookupSession(r)
      <3>1. \A s \in FindSession(rpc[r].req) : s.app = rpc[r].req.app
        BY DEF FindSession
      <3> QED BY <2>6, <3>1, GotoApps DEF LookupSession
    <2>7. CASE \/ CreateSession(r) \/ UpdateSession(r) \/ DeleteSession(r)
               \/ RegisterDevice(r) \/ UnregisterDevice(r) \/ Fail(r)
      BY <2>7, AnswerApps DEF CreateSession, UpdateSession, DeleteSession, RegisterDevice,
                              UnregisterDevice, Fail
    <2> QED BY <1>2, <2>1, <2>2, <2>3, <2>4, <2>5, <2>6, <2>7 DEF Step
  <1>3. CASE UNCHANGED rpc
    BY <1>3 DEF AppsOK
  <1> QED BY <1>1, <1>2, <1>3 DEF Next, DeleteContact, vars

LEMMA InitAppsOK == Init => AppsOK
  BY DEF Init, AppsOK, TokenWorksViaItsApp, AppContext, Idle

LEMMA AppsOKKeeps ==
    ASSUME IInv, RowsOK, AppsOK, [Next]_vars PROVE AppsOK'
  <1>1. TokenWorksViaItsApp'
    BY RowsKeepApps
  <1>2. \A q \in Slots : AppContext(rpc'[q])
    BY ContextsKeepApps
  <1>3. (\A q \in Slots : AppContext(rpc[q]))'
    BY <1>2 DEF AppContext
  <1> QED BY <1>1, <1>3 DEF AppsOK

-----------------------------------------------------------------------------
(* The theorems *)

\* The account service keeps IInv: whatever the RPCs in flight, their contexts,
\* the session table and the grants stay consistent with each other.
THEOREM InductiveInvariant == Spec => []IInv
  BY InitIInv, StepKeeps, PTL DEF Spec

\* The session table, the contexts and the grants keep their types.
THEOREM TypeCorrect == Spec => []TypeOK
  <1>1. IInv => TypeOK
    BY DEF IInv
  <1> QED BY <1>1, InductiveInvariant, PTL

\* A live token is a credential for the contact and device it was granted to,
\* across logins that hand a session over and stale write-backs.
THEOREM GrantsNamed == Spec => []TokenNamesItsGrantee
  <1>1. IInv => TokenNamesItsGrantee
    BY DEF IInv
  <1> QED BY <1>1, InductiveInvariant, PTL

\* No two logins, and no two sessions, ever share a token.
THEOREM TokensUnique == Spec => []TokensAreUnique
  <1>1. IInv => TokensAreUnique
    BY DEF IInv
  <1> QED BY <1>1, InductiveInvariant, PTL

\* An RPC past the session scheme acts for the grantee of the token it
\* presented, even when its session is handed over or deleted meanwhile.
THEOREM ActsForGrantee == Spec => []ActsAsGrantee
  <1>1. IInv => ActsAsGrantee
    BY DEF IInv
  <1> QED BY <1>1, InductiveInvariant, PTL

\* The rows and what the RPCs hold of them: ids name one row each, and rows
\* stay where the RPCs read them.
THEOREM RowsKeepTheirPlace == Spec => []RowsOK
  BY InitRowsOK, RowsOKKeeps, InductiveInvariant, PTL DEF Spec

\* A PUSH token is only ever attached to sessions of the device that obtained
\* it, also by registrations that were under way while rows changed.
THEOREM PushNeverStrays == Spec => []PushStaysOnDevice
  <1>1. RowsOK => PushStaysOnDevice
    BY DEF RowsOK
  <1> QED BY <1>1, RowsKeepTheirPlace, PTL

\* No RPC in flight revives a token that was replaced or ended.
THEOREM NoTokenRevives == Spec => DeadTokensStayDead
  <1>1. IInv /\ RowsOK /\ [Next]_vars =>
            [\A t \in 1..serial : ~Live(t) => ~Live(t)']_vars
    BY DeadStays
  <1> QED BY <1>1, InductiveInvariant, RowsKeepTheirPlace, PTL DEF Spec, DeadTokensStayDead

\* No RPC in flight brings a session back that was logged out.
THEOREM NoSessionRevives == Spec => LogoutIsFinal
  <1>1. IInv /\ RowsOK /\ [Next]_vars =>
            [\A i \in 1..serial : (\A s \in sessions : s.id # i)
                                   => (\A s \in sessions' : s.id # i)]_vars
    BY GoneStays
  <1> QED BY <1>1, InductiveInvariant, RowsKeepTheirPlace, PTL DEF Spec, LogoutIsFinal

\* A session never moves, and never passes to another contact with the token
\* it had.
THEOREM HandoversRotate == Spec => HandoverRotatesToken
  <1>1. IInv /\ RowsOK /\ [Next]_vars =>
            [\A s \in sessions, t \in sessions' : s.id = t.id =>
                /\ s.device = t.device
                /\ s.app = t.app
                /\ s.contact # t.contact => t.token > s.token]_vars
    BY HandoverRotates
  <1> QED BY <1>1, InductiveInvariant, RowsKeepTheirPlace, PTL DEF Spec, HandoverRotatesToken

\* The numbers and the contacts stay within the bounds of the model.
THEOREM BoundsKept == Spec => []BoundsOK
  BY InitBoundsOK, BoundsOKKeeps, InductiveInvariant, PTL DEF Spec

\* The service implements AccessGrants: whatever the RPCs do to the rows, what
\* becomes of the tokens is that a login issues a fresh one, in place of at
\* most one of the same device, and that a logout ends one.
THEOREM GrantsImplemented == Spec => ImplementsGrants
  <1>1. Init => Abstract!Init
    BY DEF Init, Abstract!Init, LiveGrants, IssuedTokens
  <1>2. IInv /\ RowsOK /\ BoundsOK /\ [Next]_vars => [Abstract!Next]_<<LiveGrants, IssuedTokens>>
    BY StepRefines DEF SameGrants
  <1> QED BY <1>1, <1>2, InductiveInvariant, RowsKeepTheirPlace, BoundsKept, PTL
          DEF Spec, ImplementsGrants, Abstract!Spec

\* A token is carried by a session of the application it was granted through,
\* but for the tokens of logins that presented a Webitel token; they may be
\* served beside all others.
THEOREM TokensStayWithTheirApp == Spec => []TokenWorksViaItsApp
  <1>1. IInv /\ RowsOK /\ AppsOK /\ [Next]_vars => AppsOK'
    BY AppsOKKeeps
  <1>2. Spec => []AppsOK
    BY <1>1, InitAppsOK, InductiveInvariant, RowsKeepTheirPlace, PTL DEF Spec
  <1>3. AppsOK => TokenWorksViaItsApp
    BY DEF AppsOK
  <1> QED BY <1>2, <1>3, PTL
=============================================================================
