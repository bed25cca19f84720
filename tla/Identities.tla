------------------------------ MODULE Identities ------------------------------
(***************************************************************************)
(* The identity an application vouches for, from its claims to the contact *)
(* a later request acts for: CreateApp and the lookup of an application by *)
(* header (handler/auth_app.go, handler/apps.go), NewIdentity              *)
(* (model/app.go, contact_name.go), the conversions to and from the        *)
(* contact service (handler/contacts.go, model/epoch.go), the identifier a *)
(* session keeps and compares (model/contact.go), and the address of the   *)
(* device (model/device.go, headers.go).                                   *)
(*                                                                         *)
(* RPCs are taken one at a time: their interleavings are the subject of    *)
(* AccountSessions.  One session per application is enough here.           *)
(*                                                                         *)
(* Texts are sequences of words and blanks, header lines sequences of      *)
(* addresses.  The contact service knows a contact by its domain, issuer   *)
(* and subject; it keeps what it is sent and gives every contact an id.    *)
(***************************************************************************)
EXTENDS Integers, Subsequences

CONSTANTS
    Clients,      \* client ids of the applications that may be created
    Settings,     \* what applications are created with: dc, issuers, protos
    Issuers,      \* names of issuers
    Reserved,     \* those NewIdentity reserves, in whatever case
    Identities,   \* what is vouched: iss, sub, name, parts, claims, metadata
    Headers,      \* address headers of a request, with the client it is from
    Dates,        \* when the contact service may say a contact was created
    ContactIds,   \* ids the contact service may give
    Width,        \* bits of a domain of the contact service
    Second,       \* a second and a millisecond, in the ticks of time.Time
    Millisecond

ASSUME ReservedAssumption == Reserved \subseteq Issuers
ASSUME WidthAssumption == Width \in Nat \ {0}
ASSUME PrecisionAssumption ==
    Millisecond \in Nat \ {0} /\ Second \in Nat \ {0} /\ Second % Millisecond = 0

\* The contact service gives every contact an id, and the number of a business
\* account is one.
ASSUME ContactIdsAssumption == "" \notin ContactIds
ASSUME SettingsAssumption == \A s \in Settings : s.dc \in Int
ASSUME DatesAssumption == Dates \subseteq Int

\* So it is with powers of two; the proofs take it from here.
ASSUME PowerAssumption ==
    2 ^ Width = 2 * 2 ^ (Width - 1) /\ 2 ^ (Width - 1) \in Nat \ {0}

VARIABLES
    apps,         \* im_account.app: settings by client id
    contacts,     \* external: the contacts of the contact service
    spent,        \* external: ids it has given
    session,      \* per application, what its session keeps
    last          \* history: the last RPC and what became of it

vars == <<apps, contacts, spent, session, last>>

Created == DOMAIN apps

Blank == " "
Claims == {".email", ".email_verified"}
Flags == {".email_verified"}

Nobody == [dc |-> 0, id |-> "", iss |-> "", sub |-> ""]
NoSession == [contact |-> Nobody, dc |-> 0, ip |-> ""]
NoRPC == [op |-> "none", outcome |-> "none"]

Init ==
    /\ apps = [c \in {} |-> [dc |-> 0]]
    /\ contacts = {} /\ spent = {}
    /\ session = [c \in Clients |-> NoSession]
    /\ last = NoRPC

-----------------------------------------------------------------------------
(* Conversions *)

\* Mutant: half of the bits are kept.
AsInt32_Short(n) == n % 2 ^ (Width \div 2)

\* int32(n): the low bits of n, as a signed number.
AsInt32(n) ==
    LET low == n % 2 ^ Width
    IN  IF low < 2 ^ (Width - 1) THEN low ELSE low - 2 ^ Width

\* Epochtime.Time: milliseconds since the epoch, 0 for the dates before it.
Time(date) == IF date < 0 THEN 0 ELSE date \div Millisecond

\* Mutant: the milliseconds of a second are taken for its ticks.
Date_Ticks(tsec) ==
    LET perSecond == Second \div Millisecond
    IN  IF tsec > 0 THEN (tsec \div perSecond) * Second + (tsec % perSecond) ELSE -1

\* Epochtime.Date: the ticks of a timestamp; nothing below 1 is a date.
Date(tsec) ==
    LET perSecond == Second \div Millisecond
    IN  IF tsec > 0
        THEN (tsec \div perSecond) * Second + (tsec % perSecond) * Millisecond
        ELSE -1

\* The words of a text; ContactName.Parts and CommonName trim and collapse.
Words(text) == Kept(text, {i \in DOMAIN text : text[i] # Blank})

\* Mutant: parts are joined as they are.
CommonName_AsIs(parts) == parts[1] \o parts[2]

\* CommonName: the words of all parts, one blank between them.
CommonName(parts) ==
    LET words == Words(parts[1] \o <<Blank>> \o parts[2])
        n == Len(words)
    IN  [i \in 1..(IF n = 0 THEN 0 ELSE 2 * n - 1) |->
            IF i % 2 = 1 THEN words[(i + 1) \div 2] ELSE Blank]

\* Metadata: what is sent for a value (a text as it is, all else as JSON), and
\* what is read back (JSON where it parses to something, else the text).
Values == {"word", "one", "number", "numeral", "yes", "null", "nullWord", "empty"}
FormValue == [word |-> "word", one |-> "one", number |-> "digits", numeral |-> "digits",
              yes |-> "true", null |-> "null", nullWord |-> "null", empty |-> "quotes"]
ReadValue == [word |-> "word", one |-> "one", digits |-> "number", true |-> "yes",
              null |-> "nullWord", quotes |-> "empty"]
NoMetadata == [k \in {} |-> ""]

\* Mutant: metadata is written over the claims.
contactMdFormProtoV1_Over(claims, metadata) ==
    [k \in DOMAIN metadata \cup {c \in Claims : claims[c] # ""} |->
        IF k \in DOMAIN metadata THEN FormValue[metadata[k]] ELSE claims[k]]

\* Claims that are set are sent over metadata of the same name.
contactMdFormProtoV1(claims, metadata) ==
    [k \in DOMAIN metadata \cup {c \in Claims : claims[c] # ""} |->
        IF k \in Claims /\ claims[k] # "" THEN claims[k] ELSE FormValue[metadata[k]]]

\* The texts strconv.ParseBool takes for true (1, t, T, TRUE, true, True), of
\* which metadata named like a flag that is not set is sent as 1 or true.
TrueTexts == {"one", "true"}

ReadClaim(claim, text) ==
    IF claim \in Flags THEN (IF text \in TrueTexts THEN "true" ELSE "") ELSE text

contactMdFromProtoV1(md) ==
    [claims |-> [c \in Claims |-> IF c \in DOMAIN md THEN ReadClaim(c, md[c]) ELSE ""],
     metadata |-> [k \in DOMAIN md \ Claims |-> ReadValue[md[k]]]]

\* model.Contact of a contact of the service.
contactFromProtoV1(c) ==
    LET read == contactMdFromProtoV1(c.md)
    IN  [dc |-> IF c.domain > 0 THEN c.domain ELSE 0,
         id |-> c.id, iss |-> c.iss, sub |-> c.sub, created |-> Date(c.created),
         name |-> c.name, claims |-> read.claims, metadata |-> read.metadata]

ContactIdOf(c) ==
    LET m == contactFromProtoV1(c)
    IN  [dc |-> m.dc, id |-> m.id, iss |-> m.iss, sub |-> m.sub]

-----------------------------------------------------------------------------
(* ContactId *)

IsValid(e) == e.id # "" \/ (e.iss # "" /\ e.sub # "")

Mismatch(s, t) == s # "" /\ t # "" /\ s # t
SameNonEmpty(s, t) == s # "" /\ s = t

\* Mutant: issuers are not compared.
Equal_AnyIssuer(e, x) ==
    /\ IsValid(e) /\ IsValid(x)
    /\ ~(e.dc > 0 /\ x.dc > 0 /\ e.dc # x.dc)
    /\ ~Mismatch(e.sub, x.sub)
    /\ SameNonEmpty(e.id, x.id) \/ SameNonEmpty(e.sub, x.sub)

\* ContactId.Equal: what both have agrees, and that is the id or the whole
\* of issuer and subject.
Equal(e, x) ==
    /\ IsValid(e) /\ IsValid(x)
    /\ ~(e.dc > 0 /\ x.dc > 0 /\ e.dc # x.dc)
    /\ ~Mismatch(e.id, x.id) /\ ~Mismatch(e.iss, x.iss) /\ ~Mismatch(e.sub, x.sub)
    /\ \/ SameNonEmpty(e.iss, x.iss) /\ SameNonEmpty(e.sub, x.sub)
       \/ SameNonEmpty(e.id, x.id)

\* What is vouched: texts, claims of which one is a flag, metadata.
ASSUME IdentitiesAssumption ==
    \A t \in Identities :
        /\ t.name \in Seq(STRING) /\ t.parts \in Seq(STRING) \X Seq(STRING)
        /\ t.claims \in [Claims -> STRING] /\ \A c \in Flags : t.claims[c] \in {"", "true"}
        /\ t.metadata \in [DOMAIN t.metadata -> Values]

-----------------------------------------------------------------------------
(* Applications and headers *)

\* CreateApp: the application gets a new id; an INSERT that fails changes nothing.
CreateApp ==
    /\ \E client \in Clients \ Created, s \in Settings :
        apps' = [c \in Created \cup {client} |-> IF c = client THEN s ELSE apps[c]]
    /\ last' = NoRPC
    /\ UNCHANGED <<contacts, spent, session>>

\* The last value of a header that is not empty.
CoalesceLast(values) ==
    LET given == {i \in DOMAIN values : values[i] # ""}
    IN  IF given = {} THEN "" ELSE values[CHOOSE i \in given : \A k \in given : k <= i]

\* What clients send as X-Webitel-Client: "other" is the id of the first
\* value written otherwise, which finds the row but is not its id.
ClientHeaders ==
    {<<c>> : c \in Clients} \cup {<<"other", c, "">> : c \in Clients} \cup {<<"other">>, <<"">>}

GetApplication(values) == {c \in Created : c = CoalesceLast(values)}

\* The lines of a header that are not empty.
Lines(lines) == {i \in DOMAIN lines : lines[i] # <<>>}

\* The last of them, read: its first address, if it is one.
ParseForwardedFor(lines) ==
    LET line == lines[CHOOSE i \in Lines(lines) : \A k \in Lines(lines) : k <= i]
    IN  IF Lines(lines) = {} \/ line[1] = "unknown" THEN "" ELSE line[1]

\* Mutant: the peer of the connection first.
RemoteAddr_PeerFirst(h) == h.peer

RemoteAddr(h) ==
    CoalesceLast(<<h.peer, IF h.realIP = "unknown" THEN "" ELSE h.realIP,
                   ParseForwardedFor(h.forwarded)>>)

\* external: a proxy writes what it knows of the client, or nothing; where no
\* header tells who that is, the client is the peer.
ASSUME ProxiesAssumption ==
    \A h \in Headers :
        LET lines == Lines(h.forwarded)
            Silent == \A i \in lines : h.forwarded[i][1] = "unknown"
        IN  /\ h.client \notin {"", "unknown"} /\ h.forwarded \in Seq(Seq(STRING))
            /\ \A i \in lines : lines = {i} => h.forwarded[i][1] \in {h.client, "unknown"}
            /\ Silent => h.realIP \in {h.client, "", "unknown"}
            /\ Silent /\ h.realIP # h.client => h.peer = h.client

-----------------------------------------------------------------------------
(* NewIdentity *)

\* ContactName.IsValid: a common name of blanks is a name.
NameIsValid(t) == t.name # <<>> \/ CommonName(t.parts) # <<>>

NameOf(t) == IF t.name # <<>> THEN t.name ELSE CommonName(t.parts)

\* Mutant: what is trusted is not reserved.
NewIdentity_Trusting(app, t) == t.sub # "" /\ t.iss \in app.issuers /\ NameIsValid(t)

\* Application.NewIdentity accepts the identity.
NewIdentity(app, t) ==
    /\ t.sub # ""
    /\ t.iss \notin Reserved
    /\ t.iss \in app.issuers
    /\ NameIsValid(t)

TypeOf(app, iss) ==
    IF iss \in DOMAIN app.protos /\ app.protos[iss] # "" THEN app.protos[iss] ELSE iss

-----------------------------------------------------------------------------
(* RPCs *)

\* Mutant: the domain is searched with all of its bits.
FindContactDc_AsIs(dc) == dc

\* int32 of the domain of a search.
FindContactDc(dc) == AsInt32(dc)

\* The contact service: a contact is known by domain, issuer and subject.
Known(app, t) ==
    {c \in contacts : c.domain = AsInt32(app.dc) /\ c.iss = t.iss /\ c.sub = t.sub}

\* AddContact: the contact as it is after Upsert.
AddContact(client, t, id, created) ==
    [id |-> id, app |-> client, domain |-> AsInt32(apps[client].dc), iss |-> t.iss, sub |-> t.sub,
     type |-> TypeOf(apps[client], t.iss), name |-> NameOf(t),
     md |-> contactMdFormProtoV1(t.claims, t.metadata), created |-> created, vouched |-> t]

\* external: Upsert keeps the id and the date of a contact it has.
Upserts(client, t) ==
    IF Known(apps[client], t) # {}
    THEN {AddContact(client, t, c.id, c.created) : c \in Known(apps[client], t)}
    ELSE IF spent = ContactIds THEN {}
    ELSE LET id == CHOOSE n \in ContactIds : n \notin spent
         IN  {AddContact(client, t, id, created) : created \in Dates}

Save(client, t, c) ==
    /\ contacts' = (contacts \ Known(apps[client], t)) \cup {c}
    /\ spent' = spent \cup {c.id}
    /\ UNCHANGED apps

Refused(op, outcome) ==
    /\ last' = [op |-> op, outcome |-> outcome]
    /\ UNCHANGED <<apps, contacts, spent, session>>

\* Token without an application, or with an identity that is not accepted.
LoginRefused ==
    \E values \in ClientHeaders :
        \/ GetApplication(values) = {} /\ Refused("login", "client")
        \/ \E client \in GetApplication(values), t \in Identities :
                ~NewIdentity(apps[client], t) /\ Refused("login", "identity")

\* Who the session is for after the login: the end-user it is for already, if
\* that is the one who signs in.
SignIn(client, c) ==
    LET before == session[client].contact
    IN  IF session[client] # NoSession /\ Equal(ContactIdOf(c), before)
        THEN before ELSE ContactIdOf(c)

\* The address the session keeps: that of the login it was created by.
AddressKept(client, h) ==
    IF session[client] = NoSession THEN RemoteAddr(h) ELSE session[client].ip

\* What clients are told of a contact the contact service returned.
AnswerOf(c, ip, metadata) ==
    LET contact == contactFromProtoV1(c)
    IN  [contact |-> ContactIdOf(c), date |-> Time(contact.created), ip |-> ip,
         name |-> contact.name, claims |-> contact.claims, metadata |-> metadata]

\* The answer of Token: the contact Upsert returned, without its metadata, at
\* the address the session keeps.
Granted(client, c, h) == AnswerOf(c, AddressKept(client, h), NoMetadata)

\* The answer of Inspect: the contact found, with its metadata, at the address
\* of the request, whatever the session keeps.
currentAuthorizationProtoV1(c, h) ==
    AnswerOf(c, RemoteAddr(h), contactFromProtoV1(c).metadata)

\* Token: the identity is accepted, saved as a contact, and signed in at the
\* session of the application, instead of another end-user if there was one.
Login ==
    \E t \in Identities, h \in Headers :
    \E client \in UNION {GetApplication(values) : values \in ClientHeaders} :
        \E c \in Upserts(client, t) :
            /\ NewIdentity(apps[client], t)
            /\ Save(client, t, c)
            /\ session' = [session EXCEPT ![client] =
                    [contact |-> SignIn(client, c), dc |-> apps[client].dc,
                     ip |-> AddressKept(client, h)]]
            /\ last' = [op |-> "login", outcome |-> "ok", app |-> client, contact |-> c,
                        before |-> session[client].contact, header |-> h,
                        answer |-> Granted(client, c, h)]

\* Token: the contact is saved, the session is not.
LoginFails ==
    /\ \E client \in Created, t \in Identities : \E c \in Upserts(client, t) :
            NewIdentity(apps[client], t) /\ Save(client, t, c)
    /\ last' = [op |-> "login", outcome |-> "error"]
    /\ UNCHANGED session

\* The contacts GetContact finds for a session: all it knows of its own.
GetContact(s) ==
    {c \in contacts :
        /\ c.domain = FindContactDc(s.dc)
        /\ s.contact.id # "" => c.id = s.contact.id
        /\ s.contact.iss # "" /\ s.contact.sub # "" =>
                c.iss = s.contact.iss /\ c.sub = s.contact.sub}

Unresolved(client, outcome) ==
    last' = [op |-> "authorize", outcome |-> outcome, app |-> client]

\* Inspect: a later request resolves the contact its session is for.
AuthorizeSession ==
    /\ \E client \in {c \in Created : session[c] # NoSession} :
        LET found == GetContact(session[client])
        IN  \/ found = {} /\ Unresolved(client, "not found")
            \/ Cardinality(found) > 1 /\ Unresolved(client, "conflict")
            \/ \E c \in found, h \in Headers :
                /\ found = {c}
                /\ last' = [op |-> "authorize", outcome |-> "ok", app |-> client,
                            contact |-> c, header |-> h,
                            answer |-> currentAuthorizationProtoV1(c, h)]
    /\ UNCHANGED <<apps, contacts, spent, session>>

\* external: a contact is deleted.
DeleteContact ==
    /\ \E c \in contacts : contacts' = contacts \ {c}
    /\ last' = NoRPC
    /\ UNCHANGED <<apps, spent, session>>

Next ==
    \/ CreateApp \/ LoginRefused \/ Login \/ LoginFails
    \/ AuthorizeSession \/ DeleteContact

Spec == Init /\ [][Next]_vars

-----------------------------------------------------------------------------
(* Properties *)

Acting == {c \in Created : session[c] # NoSession}
LoggedIn == last.op = "login" /\ last.outcome = "ok"
Inspected == last.op = "authorize" /\ last.outcome = "ok"

\* Whoever a session acts for was vouched for by an issuer the session's own
\* application trusts and nobody reserves, and has a subject: no other
\* application, saved contact or kept identifier gets past NewIdentity
\* (model/app.go:86, account.go:948).
VouchedOnly ==
    \A client \in Acting :
        LET contact == session[client].contact
        IN  /\ contact.iss \in apps[client].issuers /\ contact.iss \notin Reserved
            /\ contact.sub # ""
            /\ session[client].dc = apps[client].dc

\* A login ends the session of another end-user, and only then: afterwards the
\* session is for the contact just saved, also when that end-user's contact
\* was deleted and created anew (account.go:1093, contact.go:21).
SignsInTheVouched ==
    LoggedIn =>
        LET now == session[last.app].contact
        IN  /\ now = ContactIdOf(last.contact)
            /\ last.before # Nobody =>
                    (Equal(now, last.before) <=> now.id = last.before.id)

\* A request of a session finds its contact, and nobody else's, exactly when
\* it was not deleted, also when the number of the business account has more
\* bits than the contact service keeps (contacts.go:21, auth_session.go:206).
SessionResolves ==
    last.op = "authorize" =>
        /\ last.outcome = "ok" <=>
                \E c \in contacts : c.id = session[last.app].contact.id
        /\ Inspected => last.answer.contact = session[last.app].contact

InRange(dc) == 0 < dc /\ dc < 2 ^ (Width - 1)

\* Business accounts share no contact as long as their numbers fit into what
\* the contact service keeps; numbers that do not may (contacts.go:126).
AccountsApart ==
    \A c, d \in Acting :
        /\ apps[c].dc # apps[d].dc
        /\ InRange(apps[c].dc) /\ InRange(apps[d].dc)
        => session[c].contact.id # session[d].contact.id

\* Of the contact a session is for, clients are told what was vouched for at its
\* last login: every claim that was set, and, unless metadata is named like a
\* claim, every other; from Inspect the metadata too, but for texts that read as
\* JSON and for null (contacts.go:292, account.go:722).  Token tells no metadata
\* (account.go:154).
ProfileComesBack ==
    LoggedIn \/ Inspected =>
        \A c \in contacts : c.id = last.answer.contact.id =>
            LET sent == c.vouched
                told == last.answer
            IN  /\ \A k \in Claims :
                        sent.claims[k] # "" \/ k \notin DOMAIN sent.metadata =>
                            told.claims[k] = sent.claims[k]
                /\ Inspected =>
                    /\ DOMAIN told.metadata = DOMAIN sent.metadata \ Claims
                    /\ \A k \in DOMAIN told.metadata :
                            sent.metadata[k] \notin {"numeral", "null"} =>
                                told.metadata[k] = sent.metadata[k]

\* A name clients are told is the one vouched for, or, put together from parts,
\* has a word, and one blank between words (contact_name.go:83).
NamesAreClean ==
    LoggedIn \/ Inspected =>
        \A c \in contacts : c.id = last.answer.contact.id =>
            LET name == last.answer.name
            IN  IF c.vouched.name # <<>> THEN name = c.vouched.name
                ELSE /\ name # <<>> /\ name[1] # Blank /\ name[Len(name)] # Blank
                     /\ \A i \in 1..Len(name) - 1 :
                            name[i] # Blank \/ name[i + 1] # Blank

\* The date the contact service gave is the date clients get (epoch.go:89).
DatesComeBack ==
    LoggedIn \/ Inspected =>
        last.answer.date = (IF last.contact.created > 0 THEN last.contact.created ELSE 0)

\* Behind any number of proxies the address clients are told is their own,
\* unless proxies wrote X-Forwarded-For on several lines; a login at a session
\* that is there already is told the address of an earlier one (headers.go:115,
\* device.go:124, account.go:671).
AddressIsClients ==
    Inspected \/ (LoggedIn /\ last.before = Nobody) =>
        \/ \E i, k \in Lines(last.header.forwarded) : i # k
        \/ last.answer.ip = last.header.client

\* What Token and Inspect tell a client is what was vouched for, saved and sent:
\* the claims and the name, from Inspect the metadata, the date, and, but from
\* Token at a session that is there already, the address (account.go:130, 695).
AnswersAreTrue == ProfileComesBack /\ NamesAreClean /\ DatesComeBack /\ AddressIsClients
=============================================================================
