-------------------------- MODULE AccountSessions --------------------------
(***************************************************************************)
(* The account service: the RPCs that grant, use and end the access tokens *)
(* of device sessions (internal/handler/grpc/v1/account.go), the           *)
(* authorization pipeline they share (internal/handler/auth_*.go) and the  *)
(* session store they write to (internal/store/postgres/sessions.go).      *)
(*                                                                         *)
(* Every RPC runs in a goroutine of its own and no transaction spans its   *)
(* calls: one action of this module is one SQL statement, or one call of   *)
(* the contact service, with the local computation that follows it.  What  *)
(* an RPC read stays in its context ("hint") while others go on.           *)
(*                                                                         *)
(* Abstractions.  A uuid and a random token are the next number of one     *)
(* counter, so a fresh one was never used.  All requests are of one        *)
(* business account (dc).  Names, user agents, metadata and scopes are     *)
(* left out.  The app table only grows, so the app a header names is known *)
(* for good, and a request naming an unknown one is refused before any     *)
(* step (Begin never starts it).                                           *)
(***************************************************************************)
EXTENDS Naturals, FiniteSets

CONSTANTS
    Slots,          \* RPCs that are served at the same time
    Ops,            \* operations the clients call, a subset of Operations
    Apps,           \* registered applications
    Devices,        \* device identifiers clients send
    Identities,     \* end-users (iss, sub) the applications vouch for
    WebitelUsers,   \* end-users that hold a Webitel access token
    Addresses,      \* remote addresses of the clients
    PushVersions,   \* PUSH tokens a device obtains, one after another
    StoreFaults,    \* TRUE when a lookup of the store may fail
    MaxSerial,      \* bound: uuids and tokens generated
    MaxContactId,   \* bound: times the contact of one end-user is created
    None            \* an absent header, value or row

Operations == {"Token", "Logout", "Inspect", "RegisterDevice", "UnregisterDevice"}

ASSUME BoundsAssumption == MaxSerial \in Nat /\ MaxContactId \in Nat
ASSUME OpsAssumption == Ops \subseteq Operations /\ StoreFaults \in BOOLEAN
ASSUME UsersAssumption == Identities \cap WebitelUsers = {}
Users == Identities \cup WebitelUsers

\* A contact of the contact service: the end-user and the id it got when it
\* was (re)created; two contacts are equal when both agree.
Contact == [user : Users, id : Nat]

\* A PUSH token names the device that obtained it.
PushToken == [device : Devices, version : PushVersions]

\* A row of im_account.session joined with its im_account.session_token;
\* token 0: there is no token row.  id 0: not a row of the table, a session
\* WebitelAuth made up for an end-user that has none.
Session ==
    [id : Nat, app : Apps \cup {None}, device : Devices \cup {None},
     contact : Contact, ip : Addresses, push : PushToken \cup {None}, token : Nat]

ASSUME NoneAssumption ==
    /\ None \notin Apps /\ None \notin Devices
    /\ None \notin Identities /\ None \notin WebitelUsers
    /\ None \notin Contact /\ None \notin PushToken /\ None \notin Session

\* A request: the headers (app, device, remote address, "im:" access token
\* or Webitel access token) and the argument of the operation.
Request ==
    {q \in [op : Ops, app : Apps \cup {None}, device : Devices \cup {None},
            ip : Addresses, token : 0..MaxSerial,
            webitel : WebitelUsers \cup {None},
            user : Identities \cup {None}, push : PushToken \cup {None}] :
        /\ q.op = "Token" <=> q.user # None
        /\ q.op \in {"RegisterDevice", "UnregisterDevice"} <=> q.push # None
        /\ q.push # None => q.push.device = q.device
        /\ q.token = 0 \/ q.webitel = None}

VARIABLES
    sessions,       \* the session table, a set of rows
    contacts,       \* external: the contact service, [id, live] per end-user
    serial,         \* uuids and tokens generated so far
    rpc,            \* per slot, the RPC it serves
    granted         \* history: to whom each token was granted

vars == <<sessions, contacts, serial, rpc, granted>>

PCs == {"idle", "session", "getContact", "webitel", "findSession", "addContact",
        "lookup", "create", "update", "delete", "register", "unregister"}

Replies == {"none", "ok", "error"}

\* The context of a slot that serves nothing and answered status last.
Idle(status) ==
    [pc |-> "idle", req |-> None, hint |-> None, signIn |-> None, reply |-> status]

\* What a login granted: the token, to whom, on which device, through which
\* application, and the Webitel end-user whose token the login presented.
Grant ==
    [token : Nat, contact : Contact, device : Devices, app : Apps,
     webitel : WebitelUsers \cup {None}]

TypeOK ==
    /\ sessions \subseteq Session
    /\ contacts \in [Users -> [id : Nat, live : BOOLEAN]]
    /\ serial \in Nat
    /\ rpc \in [Slots -> [pc : PCs, req : Request \cup {None}, hint : Session \cup {None},
                          signIn : Contact \cup {None}, reply : Replies]]
    /\ granted \subseteq Grant

Init ==
    /\ sessions = {}
    /\ contacts = [u \in Users |-> [id |-> 0, live |-> FALSE]]
    /\ serial = 0
    /\ rpc = [r \in Slots |-> Idle("none")]
    /\ granted = {}

-----------------------------------------------------------------------------
(* Parts of the handlers *)

\* The RPC of slot r ends: its context is dropped, the client is answered.
Answer(r, status) == rpc' = [rpc EXCEPT ![r] = Idle(status)]

\* The RPC of slot r goes on at pc with what it holds by then.
Goto(r, pc, hint, signIn) ==
    rpc' = [rpc EXCEPT ![r] = [pc |-> pc, req |-> rpc[r].req, hint |-> hint,
                               signIn |-> signIn, reply |-> "none"]]

\* The required headers: AppAuthorization, DeviceAuthorization and
\* EndUserAuthorization of each operation.
HeadersAccepted(q) ==
    /\ q.op = "Token" => q.app # None
    /\ q.op \in {"Token", "RegisterDevice", "UnregisterDevice"} => q.device # None
    /\ q.op # "Token" => q.token # 0 \/ q.webitel # None

\* The scheme that accepts the access header, by its prefix.
FirstStep(q) ==
    IF q.token # 0 THEN "session"
    ELSE IF q.webitel # None THEN "webitel" ELSE "addContact"

Started(q) ==
    [pc |-> FirstStep(q), req |-> q, hint |-> None, signIn |-> None, reply |-> "none"]

\* Where the operation goes on once the end-user is authorized.
Authorized(op) ==
    CASE op = "Token" -> "addContact"
      [] op = "Logout" -> "delete"
      [] op = "RegisterDevice" -> "register"
      [] op = "UnregisterDevice" -> "unregister"

Proceed(r, hint) ==
    IF rpc[r].req.op = "Inspect"
    THEN Answer(r, "ok")
    ELSE Goto(r, Authorized(rpc[r].req.op), hint, None)

\* The contact of end-user u: known to the contact service.
Known(u) == contacts[u].live
ContactOf(u) == [user |-> u, id |-> contacts[u].id]

\* Upsert of the contact service: a missing contact is created with a new id.
Upserted(u) ==
    [user |-> u, id |-> IF Known(u) THEN contacts[u].id ELSE contacts[u].id + 1]

Upsert(u) ==
    /\ Upserted(u).id <= MaxContactId
    /\ contacts' = [contacts EXCEPT ![u] = [id |-> Upserted(u).id, live |-> TRUE]]

\* UNIQUE (device_id, contact_id): some other row of the table has the pair.
Taken(device, contact, others) ==
    \E s \in others : s.device = device /\ s.contact = contact

\* Mutants: AuthorizeSession forgets one of its two checks.
MatchesHeaders_AnyDevice(q, s) == q.app # None => q.app = s.app
MatchesHeaders_AnyApp(q, s) == q.device = s.device

\* The session header check of AuthorizeSession.
MatchesHeaders(q, s) ==
    /\ q.app # None => q.app = s.app
    /\ q.device = s.device

-----------------------------------------------------------------------------
(* Authentication *)

\* A request arrives.
Begin(r) ==
    /\ rpc[r].pc = "idle"
    /\ \E q \in Request :
        /\ q.token <= serial
        /\ \/ /\ HeadersAccepted(q)
              /\ rpc' = [rpc EXCEPT ![r] = Started(q)]
           \/ /\ ~HeadersAccepted(q)
              /\ Answer(r, "error")
    /\ UNCHANGED <<sessions, contacts, serial, granted>>

\* SessionAuth: the row of the presented token, checked against the headers.
\* No grant made by this service expires or is revoked (TokenGen), so Verify
\* accepts every stored one.
AuthenticateSession(r) ==
    LET q == rpc[r].req
        found == {s \in sessions : s.token = q.token /\ MatchesHeaders(q, s)}
    IN  /\ rpc[r].pc = "session"
        /\ \/ \E s \in found : Goto(r, "getContact", s, None)
           \/ /\ found = {}
              /\ Answer(r, "error")
        /\ UNCHANGED <<sessions, contacts, serial, granted>>

\* AuthorizeSession, its last part: the contact of the row must still exist.
ResolveContact(r) ==
    LET h == rpc[r].hint
        exists == Known(h.contact.user) /\ ContactOf(h.contact.user) = h.contact
    IN  /\ rpc[r].pc = "getContact"
        /\ \/ exists /\ Proceed(r, h)
           \/ ~exists /\ Answer(r, "error")
        /\ UNCHANGED <<sessions, contacts, serial, granted>>

\* WebitelAuth: the Webitel token is inspected (its validity is the choice of
\* the Webitel service), then the end-user's contact is saved.  A token the
\* Webitel service does not vouch for makes the scheme stand aside: a login
\* with one is a request without, any other operation is refused (Fail).
AddWebitelContact(r) ==
    LET u == rpc[r].req.webitel
    IN  /\ rpc[r].pc = "webitel"
        /\ \/ /\ Upsert(u)
              /\ Goto(r, "findSession", None, Upserted(u))
           \/ /\ UNCHANGED contacts
              /\ Answer(r, "error")
        /\ UNCHANGED <<sessions, serial, granted>>

\* WebitelAuth: the stored session of ( device + contact ), or a session
\* without id when there is none.  A row lost with its stream is read as none
\* too: the store does not ask rows for an error.
FindWebitelSession(r) ==
    LET q == rpc[r].req
        found == {s \in sessions : q.device # None /\ s.device = q.device
                                                   /\ s.contact = rpc[r].signIn}
    IN  /\ rpc[r].pc = "findSession"
        /\ \/ \E s \in found : Proceed(r, s)
           \/ /\ StoreFaults \/ found = {}
              /\ Proceed(r, [id |-> 0, app |-> q.app, device |-> q.device,
                             contact |-> rpc[r].signIn, ip |-> q.ip,
                             push |-> None, token |-> 0])
        /\ UNCHANGED <<sessions, contacts, serial, granted>>

-----------------------------------------------------------------------------
(* Token: GrantTokenForUserIdentity *)

\* The identity is saved as a contact; its id is what signs in.
AddContact(r) ==
    LET u == rpc[r].req.user
    IN  /\ rpc[r].pc = "addContact"
        /\ Upsert(u)
        /\ Goto(r, IF rpc[r].hint = None THEN "lookup" ELSE "update",
                   rpc[r].hint, Upserted(u))
        /\ UNCHANGED <<sessions, serial, granted>>

\* Mutant: the lookup asks for the end-user as well.
FindSession_OfUser(q) ==
    {s \in sessions : s.app = q.app /\ s.device = q.device /\ s.contact.user = q.user}

\* Mutant: the lookup asks for the device alone.
FindSession_AnyApp(q) == {s \in sessions : s.device = q.device}

\* The sessions of ( app + device ).
FindSession(q) == {s \in sessions : s.app = q.app /\ s.device = q.device}

\* The one session of ( app + device ).  Two of them, or a failed query, are
\* logged and read as none; a stream of rows that breaks is not noticed, and
\* what it brought by then, no row or the first one, counts as all.
LookupSession(r) ==
    LET found == FindSession(rpc[r].req)
    IN  /\ rpc[r].pc = "lookup"
        /\ \/ \E s \in found :
                /\ StoreFaults \/ found = {s}
                /\ Goto(r, "update", s, rpc[r].signIn)
           \/ /\ StoreFaults \/ ~\E s \in found : found = {s}
              /\ Goto(r, "create", None, rpc[r].signIn)
        /\ UNCHANGED <<sessions, contacts, serial, granted>>

\* Mutant: an end-user who signs in again keeps the token the RPC read.
NewToken_KeepsOwn(r) ==
    LET h == rpc[r].hint
    IN  IF h = None THEN serial + 1
        ELSE IF h.token # 0 /\ h.contact = rpc[r].signIn THEN h.token ELSE serial + 1

\* TokenGen.Generate: every login gets a fresh token.
NewToken(r) == serial + 1

\* History: the token of slot r becomes the credential of the contact that
\* signs in.
RecordGrant(r) ==
    granted' = granted \cup {[token |-> NewToken(r), contact |-> rpc[r].signIn,
                              device |-> rpc[r].req.device, app |-> rpc[r].req.app,
                              webitel |-> rpc[r].req.webitel]}

\* SessionStore.Create: the session and its token, one statement.
CreateSession(r) ==
    LET q == rpc[r].req
        row == [id |-> serial + 1, app |-> q.app, device |-> q.device,
                contact |-> rpc[r].signIn, ip |-> q.ip, push |-> None,
                token |-> NewToken(r)]
    IN  /\ rpc[r].pc = "create"
        /\ \/ /\ ~Taken(q.device, rpc[r].signIn, sessions)
              /\ serial < MaxSerial
              /\ sessions' = sessions \cup {row}
              /\ serial' = serial + 1
              /\ RecordGrant(r)
              /\ Answer(r, "ok")
           \/ /\ Taken(q.device, rpc[r].signIn, sessions)
              /\ Answer(r, "error")
              /\ UNCHANGED <<sessions, serial, granted>>
        /\ UNCHANGED contacts

\* Mutant: a missing row is inserted again from what the RPC holds.
UpdateTarget_OrHeld(h) ==
    LET target == {s \in sessions : s.id = h.id /\ s.device = h.device}
    IN  IF target = {} /\ h.id # 0 THEN {h} ELSE target

\* The row an Update touches.
UpdateTarget(h) == {s \in sessions : s.id = h.id /\ s.device = h.device}

\* Mutants: the end-user before stays signed in; the token row is left alone.
WriteBack_ContactKept(s, h, signIn, token) == [s EXCEPT !.ip = h.ip, !.token = token]
WriteBack_ContactOnly(s, h, signIn, token) == [s EXCEPT !.ip = h.ip, !.contact = signIn]

\* The row after an Update: the address the RPC read with the session, the
\* contact that signs in and its token.
WriteBack(s, h, signIn, token) ==
    [s EXCEPT !.ip = h.ip, !.contact = signIn, !.token = token]

\* SessionStore.Update: what the RPC read earlier is written back, with the
\* new contact and a fresh token, to the row of that id and device.
UpdateSession(r) ==
    LET h == rpc[r].hint
        signIn == rpc[r].signIn
        target == UpdateTarget(h)
        clash == Taken(h.device, signIn, sessions \ target)
    IN  /\ rpc[r].pc = "update"
        /\ \/ /\ ~clash
              /\ serial < MaxSerial
              /\ \E s \in target :
                    sessions' = (sessions \ {s}) \cup
                                    {WriteBack(s, h, signIn, NewToken(r))}
              /\ serial' = serial + 1
              /\ RecordGrant(r)
              /\ Answer(r, "ok")
           \/ /\ target = {} \/ clash
              /\ Answer(r, "error")
              /\ UNCHANGED <<sessions, serial, granted>>
        /\ UNCHANGED contacts

-----------------------------------------------------------------------------
(* Logout, RegisterDevice and UnregisterDevice *)

\* SessionStore.Delete: the row, and its token by cascade.
Deleted(id) == {s \in sessions : s.id # id}

\* Logout: a session that is not stored, or is gone already, is no error.
DeleteSession(r) ==
    /\ rpc[r].pc = "delete"
    /\ sessions' = Deleted(rpc[r].hint.id)
    /\ Answer(r, "ok")
    /\ UNCHANGED <<contacts, serial, granted>>

\* SessionStore.RegisterDevice: the row of a stored session is updated, with
\* the address that was read with it.
Registered(h, push) ==
    {IF s.id = h.id THEN [s EXCEPT !.ip = h.ip, !.push = push] ELSE s : s \in sessions}

\* The row made of a session that is not stored yet.
Stored(h, id, push) == [h EXCEPT !.id = id, !.push = push]

\* RegisterDevice: a session that is not stored is inserted unless its
\* ( device + contact ) is taken; whatever the statement did, or found no row
\* to do, the answer is the same.
RegisterDevice(r) ==
    LET h == rpc[r].hint
        push == rpc[r].req.push
    IN  /\ rpc[r].pc = "register"
        /\ \/ /\ h.id # 0
              /\ sessions' = Registered(h, push)
              /\ UNCHANGED serial
           \/ /\ h.id = 0
              /\ ~Taken(h.device, h.contact, sessions)
              /\ serial < MaxSerial
              /\ sessions' = sessions \cup {Stored(h, serial + 1, push)}
              /\ serial' = serial + 1
           \/ /\ h.id = 0
              /\ Taken(h.device, h.contact, sessions)
              /\ UNCHANGED <<sessions, serial>>
        /\ Answer(r, "ok")
        /\ UNCHANGED <<contacts, granted>>

\* SessionStore.UnregisterDevice: the row as it is now and whether it lets go
\* of the PUSH token, because that is its own or because it has none.
Current(id) == {s \in sessions : s.id = id}
LetsGo(id, push) == \E s \in Current(id) : s.push \in {None, push}
Unregistered(id) ==
    (sessions \ Current(id)) \cup {[s EXCEPT !.push = None] : s \in Current(id)}

\* UnregisterDevice: a session that is gone, or has another PUSH token, is an
\* error.
UnregisterDevice(r) ==
    LET id == rpc[r].hint.id
        push == rpc[r].req.push
    IN  /\ rpc[r].pc = "unregister"
        /\ \/ /\ LetsGo(id, push)
              /\ sessions' = Unregistered(id)
              /\ Answer(r, "ok")
           \/ /\ ~LetsGo(id, push)
              /\ Answer(r, "error")
              /\ UNCHANGED sessions
        /\ UNCHANGED <<contacts, serial, granted>>

-----------------------------------------------------------------------------
(* Faults and the environment *)

\* The RPC ends before its next call: the call fails, its deadline passes, the
\* client cancels, the request is refused by a check of its content (an
\* identity the app does not trust, a PUSH service the app has not), or the
\* process stops.
Fail(r) ==
    /\ rpc[r].pc # "idle"
    /\ Answer(r, "error")
    /\ UNCHANGED <<sessions, contacts, serial, granted>>

\* external: the contact service deletes a contact.
DeleteContact(u) ==
    /\ Known(u)
    /\ contacts' = [contacts EXCEPT ![u].live = FALSE]
    /\ UNCHANGED <<sessions, serial, rpc, granted>>

Step(r) ==
    \/ AuthenticateSession(r) \/ ResolveContact(r)
    \/ AddWebitelContact(r) \/ FindWebitelSession(r)
    \/ AddContact(r) \/ LookupSession(r) \/ CreateSession(r) \/ UpdateSession(r)
    \/ DeleteSession(r) \/ RegisterDevice(r) \/ UnregisterDevice(r)
    \/ Fail(r)

Next ==
    \/ \E r \in Slots : Begin(r) \/ Step(r)
    \/ \E u \in Users : DeleteContact(u)

Spec == Init /\ [][Next]_vars

-----------------------------------------------------------------------------
(* Safety *)

Live(t) == \E s \in sessions : s.token = t

\* A live token is a credential for the contact and the device it was granted
\* to, whatever happened since to the session that carries it: logins that
\* hand the session over, PUSH registrations and stale write-backs.
TokenNamesItsGrantee ==
    \A s \in sessions : s.token # 0 =>
        \E g \in granted : /\ g.token = s.token
                           /\ g.contact = s.contact
                           /\ g.device = s.device

\* A token is granted once: no two logins, and no two rows, share one.
TokensAreUnique ==
    /\ \A g, h \in granted : g.token = h.token => g = h
    /\ \A s, t \in sessions : s.token = t.token /\ s.token # 0 => s = t

\* An RPC that got past the session scheme acts for the contact its access
\* token was granted to, from the device it was granted to, even when the
\* session was handed over or ended while the RPC was on its way.
ActsFor(c, grants) ==
    c.pc # "idle" /\ c.req.token # 0 /\ c.hint # None =>
        \E g \in grants : /\ g.token = c.req.token
                          /\ g.contact = c.hint.contact
                          /\ g.device = c.hint.device
                          /\ g.device = c.req.device

ActsAsGrantee == \A r \in Slots : ActsFor(rpc[r], granted)

\* A PUSH token is only ever attached to sessions of the device that obtained
\* it: nobody else's notifications reach that device.
PushStaysOnDevice ==
    \A s \in sessions : s.push # None => s.push.device = s.device

-----------------------------------------------------------------------------
(* Action properties *)

\* A token that was replaced by a login or ended by a logout never becomes
\* live again, although RPCs in flight still hold the row that carried it and
\* write it back.
DeadTokensStayDead ==
    [][\A t \in 1..serial : ~Live(t) => ~Live(t)']_vars

\* A session that was logged out is not brought back by an RPC that read it
\* before: Update touches existing rows only.
LogoutIsFinal ==
    [][\A i \in 1..serial : (\A s \in sessions : s.id # i) => (\A s \in sessions' : s.id # i)]_vars

\* A session stays at its device and its application for life, and passes to
\* another contact only together with a fresh token, so that the tokens of
\* the contact signed out are worthless.
HandoverRotatesToken ==
    [][\A s \in sessions, t \in sessions' : s.id = t.id =>
            /\ s.device = t.device
            /\ s.app = t.app
            /\ s.contact # t.contact => t.token > s.token]_vars

\* The rows that carry a token, as grants; the tokens ever granted.
GrantOf(s) == [token |-> s.token, contact |-> s.contact, device |-> s.device]
LiveGrants == {GrantOf(s) : s \in {t \in sessions : t.token # 0}}
IssuedTokens == {g.token : g \in granted}

\* What becomes of the tokens is what AccessGrants allows.
Abstract == INSTANCE AccessGrants WITH
    Tokens <- 1..MaxSerial,
    Contacts <- [user : Users, id : 0..MaxContactId],
    live <- LiveGrants,
    issued <- IssuedTokens

ImplementsGrants == Abstract!Spec

-----------------------------------------------------------------------------
(* What a login needs of the sessions that others left *)

SessionsOf(a, d) == {s \in sessions : s.app = a /\ s.device = d}

\* A login without access token finds the session of its application and
\* device: there is never a second one to make the lookup ambiguous.
OneSessionPerAppDevice ==
    \A a \in Apps, d \in Devices : \A s, t \in SessionsOf(a, d) : s = t

\* In no state would a login of a known end-user, served alone and without an
\* access token, be refused because of UNIQUE (device_id, contact_id).
LoginNeverLocked ==
    \A a \in Apps, d \in Devices, u \in Identities :
        LET found == SessionsOf(a, d)
            others == IF \E s \in found : found = {s} THEN sessions \ found ELSE sessions
        IN  Known(u) => ~Taken(d, ContactOf(u), others)

\* A token works through the application it was asked for: the session that
\* carries it is a session of that application.  Excepted is the token of a
\* login that presented a Webitel token, which takes over the session of
\* ( device + contact ), whatever its application.
TokenWorksViaItsApp ==
    \A s \in sessions, g \in granted :
        s.token = g.token /\ g.webitel = None => s.app = g.app

-----------------------------------------------------------------------------
(* The inductive invariant behind the theorems of AccountSessions_proofs *)

\* What the context of an RPC holds by the step it is at.  A session it holds
\* is of the device the request came from; one that is not stored has no token.
SlotOK(c) ==
    /\ c.pc = "idle" => c.hint = None
    /\ c.pc # "idle" => c.req \in Request /\ HeadersAccepted(c.req)
    /\ c.pc = "session" => c.req.token # 0 /\ c.hint = None
    /\ c.pc = "webitel" => c.req.webitel # None /\ c.hint = None
    /\ c.pc = "findSession" => c.req.webitel # None /\ c.req.token = 0 /\ c.hint = None
    /\ c.pc \in {"addContact", "lookup", "create", "update"} => c.req.op = "Token"
    /\ c.pc \in {"register", "unregister"} =>
            c.req.op \in {"RegisterDevice", "UnregisterDevice"}
    /\ c.pc \in {"getContact", "update", "delete", "register", "unregister"} => c.hint # None
    /\ c.pc \in {"findSession", "lookup", "create", "update"} => c.signIn # None
    /\ c.pc \in {"lookup", "create"} => c.hint = None
    /\ c.pc \in {"addContact", "lookup", "create"} /\ c.hint = None => c.req.token = 0
    /\ c.hint # None => /\ c.hint.id = 0 => c.hint.token = 0
                        /\ c.hint.device = c.req.device

ContextOK == \A r \in Slots : SlotOK(rpc[r])

\* Everything numbered so far has a number up to serial, and a stored session
\* has one and a device.
SerialsOK ==
    /\ \A s \in sessions : s.id \in 1..serial /\ s.token <= serial
    /\ \A g \in granted : g.token \in 1..serial

\* No step leads out of this; it is where TokenNamesItsGrantee and
\* ActsAsGrantee come from.
IInv == TypeOK /\ ContextOK /\ SerialsOK
              /\ TokenNamesItsGrantee /\ TokensAreUnique /\ ActsAsGrantee

\* An id names one row, and a session that an RPC holds is, as far as it is
\* still stored, of the device and the application it was read with.
HintOK(c) ==
    c.hint # None => /\ c.hint.id <= serial
                     /\ \A s \in sessions : s.id = c.hint.id =>
                            s.device = c.hint.device /\ s.app = c.hint.app

RowsOK ==
    /\ \A s, t \in sessions : s.id = t.id => s = t
    /\ PushStaysOnDevice
    /\ \A r \in Slots : HintOK(rpc[r])

\* What is numbered stays within the bounds, which AccessGrants knows as well.
BoundsOK ==
    /\ serial <= MaxSerial
    /\ \A u \in Users : contacts[u].id <= MaxContactId
    /\ \A r \in Slots : rpc[r].signIn # None => rpc[r].signIn.id <= MaxContactId

\* A login without a Webitel token holds a session of its application only.
AppContext(c) ==
    c.pc # "idle" /\ c.hint # None /\ c.req.op = "Token" /\ c.req.webitel = None =>
        c.hint.app = c.req.app

AppsOK ==
    /\ TokenWorksViaItsApp
    /\ \A r \in Slots : AppContext(rpc[r])

-----------------------------------------------------------------------------
(* What comments in the code say and the code does not do *)

\* account.go:329, a registration that was answered OK receives PUSH
\* notifications: some session has its PUSH token.
RegisteredReceivesPush ==
    [][\A r \in Slots : RegisterDevice(r) =>
            \E s \in sessions' : s.push = rpc[r].req.push]_vars

\* account.go:935, the access token of a login only helps to locate the
\* session: a login is not sent to update a session that does not exist
\* because it presented one.
HintLocatesSession ==
    [][\A r \in Slots : UpdateSession(r) => rpc[r].hint.id # 0]_vars
=============================================================================
