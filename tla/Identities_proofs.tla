--------------------------- MODULE Identities_proofs ---------------------------
(* Proofs about Identities: whoever a session acts for was vouched for by an *)
(* issuer its own application trusts, sessions resolve to their own contact, *)
(* and what clients are told is what was vouched for.                        *)
EXTENDS Identities, Subsequences_proofs, FiniteSetTheorems, TLAPS

\* VouchedOnly, with what it takes to be inductive: a session is of an
\* application that was created.
IInv ==
    /\ session = [c \in Clients |-> session[c]]
    /\ apps = [c \in Created |-> apps[c]] /\ Created \subseteq Clients
    /\ \A c \in Clients \ Created : session[c] = NoSession
    /\ VouchedOnly

\* What Upsert returns has the issuer and the subject that were vouched for.
LEMMA UpsertedAsVouched ==
    ASSUME NEW client, NEW t, NEW c \in Upserts(client, t)
    PROVE  c.iss = t.iss /\ c.sub = t.sub
  BY DEF Upserts, AddContact

\* The identifier kept of a contact has its issuer and its subject.
LEMMA IdentifierOfContact ==
    ASSUME NEW c
    PROVE  ContactIdOf(c).iss = c.iss /\ ContactIdOf(c).sub = c.sub
  BY DEF ContactIdOf, contactFromProtoV1

\* What an answer holds.
LEMMA AnswerIs ==
  ASSUME NEW c, NEW ip, NEW md
  PROVE  /\ AnswerOf(c, ip, md).contact = ContactIdOf(c)
         /\ AnswerOf(c, ip, md).date = Time(Date(c.created)) /\ AnswerOf(c, ip, md).ip = ip
         /\ AnswerOf(c, ip, md).name = c.name
         /\ AnswerOf(c, ip, md).claims = contactMdFromProtoV1(c.md).claims
         /\ AnswerOf(c, ip, md).metadata = md
  <1>1. /\ contactFromProtoV1(c).created = Date(c.created)
        /\ contactFromProtoV1(c).name = c.name
        /\ contactFromProtoV1(c).claims = contactMdFromProtoV1(c.md).claims
    BY DEF contactFromProtoV1
  <1> QED BY <1>1 DEF AnswerOf

LEMMA InitIInv == Init => IInv
  BY DEF Init, IInv, VouchedOnly, Acting, Created, NoSession, Nobody

\* An application is created for an id no session is of.
LEMMA CreateAppIInv == IInv /\ CreateApp => IInv'
<1> SUFFICES ASSUME IInv, CreateApp PROVE IInv'
  OBVIOUS
<1>1. PICK client \in Clients \ Created, s \in Settings :
        apps' = [c \in Created \cup {client} |-> IF c = client THEN s ELSE apps[c]]
  BY DEF CreateApp
<1>2. Created' = Created \cup {client} /\ session' = session
  BY <1>1 DEF CreateApp, Created
<1>3. session[client] = NoSession
  BY <1>1 DEF IInv
<1>4. VouchedOnly'
  <2> SUFFICES ASSUME NEW a \in Acting'
               PROVE  /\ session'[a].contact.iss \in apps'[a].issuers
                      /\ session'[a].contact.iss \notin Reserved
                      /\ session'[a].contact.sub # ""
                      /\ session'[a].dc = apps'[a].dc
    BY DEF VouchedOnly
  <2>1. a \in Acting /\ a # client
    BY <1>2, <1>3 DEF Acting
  <2>2. apps'[a] = apps[a]
    BY <1>1, <2>1 DEF Acting
  <2> QED
    BY <1>2, <2>1, <2>2 DEF IInv, VouchedOnly
<1> QED
  BY <1>1, <1>2, <1>4 DEF IInv

\* A login signs in an identity that NewIdentity accepted, or keeps whom the
\* session was for.
LEMMA LoginIInv == IInv /\ Login => IInv'
<1> SUFFICES ASSUME IInv, Login PROVE IInv'
  OBVIOUS
<1>0. PICK t \in Identities, h \in Headers,
           client \in UNION {GetApplication(values) : values \in ClientHeaders} :
        \E c \in Upserts(client, t) :
            /\ NewIdentity(apps[client], t)
            /\ Save(client, t, c)
            /\ session' = [session EXCEPT ![client] =
                    [contact |-> SignIn(client, c), dc |-> apps[client].dc,
                     ip |-> AddressKept(client, h)]]
  BY DEF Login
<1>1. PICK c \in Upserts(client, t) :
        /\ NewIdentity(apps[client], t)
        /\ Save(client, t, c)
        /\ session' = [session EXCEPT ![client] =
                [contact |-> SignIn(client, c), dc |-> apps[client].dc,
                     ip |-> AddressKept(client, h)]]
  BY <1>0
<1>2. client \in Created /\ client \in Clients
  BY DEF GetApplication, IInv
<1>3. apps' = apps /\ Created' = Created
  BY <1>1 DEF Save, Created
<1>4. c.iss = t.iss /\ c.sub = t.sub
  BY UpsertedAsVouched
<1>5. /\ ContactIdOf(c).iss \in apps[client].issuers /\ ContactIdOf(c).iss \notin Reserved
      /\ ContactIdOf(c).sub # ""
  BY <1>1, <1>4, IdentifierOfContact DEF NewIdentity
<1>6. /\ SignIn(client, c).iss \in apps[client].issuers /\ SignIn(client, c).iss \notin Reserved
      /\ SignIn(client, c).sub # ""
  <2>1. CASE session[client] # NoSession /\ Equal(ContactIdOf(c), session[client].contact)
    <3>1. SignIn(client, c) = session[client].contact
      BY <2>1 DEF SignIn
    <3> QED
      BY <2>1, <3>1, <1>2 DEF IInv, VouchedOnly, Acting
  <2>2. CASE ~(session[client] # NoSession /\ Equal(ContactIdOf(c), session[client].contact))
    <3>1. SignIn(client, c) = ContactIdOf(c)
      BY <2>2 DEF SignIn
    <3> QED
      BY <3>1, <1>5
  <2> QED
    BY <2>1, <2>2
<1>7. session'[client] = [contact |-> SignIn(client, c), dc |-> apps[client].dc,
                         ip |-> AddressKept(client, h)]
  BY <1>1, <1>2 DEF IInv
<1>8. VouchedOnly'
  <2> SUFFICES ASSUME NEW a \in Acting'
               PROVE  /\ session'[a].contact.iss \in apps'[a].issuers
                      /\ session'[a].contact.iss \notin Reserved
                      /\ session'[a].contact.sub # ""
                      /\ session'[a].dc = apps'[a].dc
    BY DEF VouchedOnly
  <2>1. CASE a = client
    <3>1. session'[a].contact = SignIn(client, c) /\ session'[a].dc = apps[client].dc
      BY <2>1, <1>7
    <3>2. apps'[a] = apps[client]
      BY <2>1, <1>3
    <3> QED
      BY <3>1, <3>2, <1>6
  <2>2. CASE a # client
    <3>1. session'[a] = session[a] /\ a \in Acting
      BY <2>2, <1>1, <1>3 DEF IInv, Acting
    <3> QED
      BY <3>1, <1>3 DEF IInv, VouchedOnly
  <2> QED
    BY <2>1, <2>2
<1>9. \A a \in Clients \ Created' : session'[a] = NoSession
  BY <1>1, <1>2, <1>3 DEF IInv
<1>10. session' = [a \in Clients |-> session'[a]]
  BY <1>1 DEF IInv
<1>11. apps' = [a \in Created' |-> apps'[a]] /\ Created' \subseteq Clients
  BY <1>3 DEF IInv
<1> QED
  BY <1>8, <1>9, <1>10, <1>11 DEF IInv

LEMMA StepIInv == IInv /\ [Next]_vars => IInv'
<1> SUFFICES ASSUME IInv, [Next]_vars PROVE IInv'
  OBVIOUS
<1>1. ASSUME UNCHANGED <<apps, session>> PROVE IInv'
  BY <1>1 DEF IInv, VouchedOnly, Acting, Created
<1>2. CASE CreateApp
  BY <1>2, CreateAppIInv
<1>3. CASE LoginRefused
  BY <1>3, <1>1 DEF LoginRefused, Refused
<1>4. CASE Login
  BY <1>4, LoginIInv
<1>5. CASE LoginFails
  BY <1>5, <1>1 DEF LoginFails, Save
<1>6. CASE AuthorizeSession
  BY <1>6, <1>1 DEF AuthorizeSession
<1>7. CASE DeleteContact
  BY <1>7, <1>1 DEF DeleteContact
<1>8. CASE UNCHANGED vars
  BY <1>8, <1>1 DEF vars
<1> QED
  BY <1>2, <1>3, <1>4, <1>5, <1>6, <1>7, <1>8 DEF Next

-----------------------------------------------------------------------------
(* Ids and keys: the contact service knows a contact by its key, a session by *)
(* its id, and an id is never given to another key                            *)

KeyOf(c) == <<c.domain, c.iss, c.sub>>

\* The key of the contact a session is for.
HeldId(a) == session[a].contact.id
HeldKey(a) == <<AsInt32(session[a].dc), session[a].contact.iss, session[a].contact.sub>>

\* The domain of a contact, as clients know it.
Told(domain) == IF domain > 0 THEN domain ELSE 0

ContactsOK ==
    /\ spent \subseteq ContactIds
    /\ \A c \in contacts : c.id \in spent
    /\ \A c, d \in contacts : c.id = d.id \/ KeyOf(c) = KeyOf(d) => c = d

SessionsOK ==
    \A a \in Acting :
        /\ session[a].contact = [dc |-> Told(AsInt32(session[a].dc)), id |-> HeldId(a),
                                 iss |-> session[a].contact.iss, sub |-> session[a].contact.sub]
        /\ HeldId(a) \in spent
        /\ \A c \in contacts : c.id = HeldId(a) => KeyOf(c) = HeldKey(a)
        /\ \A b \in Acting : HeldId(b) = HeldId(a) => HeldKey(b) = HeldKey(a)

AppsOK == \A a \in Created : apps[a] \in Settings

JInv == IInv /\ ContactsOK /\ SessionsOK /\ AppsOK

LEMMA InitJInv == Init => JInv
  BY InitIInv DEF Init, JInv, ContactsOK, SessionsOK, AppsOK, Acting, Created

\* A contact that is saved has the key of the identity, and the id this key has
\* or one that nobody had.
LEMMA UpsertedKey ==
    ASSUME ContactsOK, NEW client, NEW t, NEW c \in Upserts(client, t)
    PROVE  /\ c.domain = AsInt32(apps[client].dc)
           /\ KeyOf(c) = <<AsInt32(apps[client].dc), t.iss, t.sub>>
           /\ \/ c.id \in ContactIds \ spent
              \/ \E k \in contacts : k.id = c.id /\ KeyOf(k) = KeyOf(c)
           /\ c.id \in ContactIds
  <1>1. \A id, created : LET a == AddContact(client, t, id, created)
                         IN  /\ a.id = id /\ a.domain = AsInt32(apps[client].dc)
                             /\ KeyOf(a) = <<AsInt32(apps[client].dc), t.iss, t.sub>>
    BY DEF AddContact, KeyOf
  <1>2. CASE Known(apps[client], t) # {}
    <2>1. PICK k \in Known(apps[client], t) : c = AddContact(client, t, k.id, k.created)
      BY <1>2 DEF Upserts
    <2>2. k \in contacts /\ KeyOf(k) = <<AsInt32(apps[client].dc), t.iss, t.sub>>
      BY DEF Known, KeyOf
    <2> QED BY <1>1, <2>1, <2>2 DEF ContactsOK
  <1>3. CASE Known(apps[client], t) = {}
    <2>1. spent # ContactIds
      BY <1>3 DEF Upserts
    <2>2. \E n \in ContactIds : n \notin spent
      BY <2>1 DEF ContactsOK
    <2>3. PICK created : c = AddContact(client, t, CHOOSE n \in ContactIds : n \notin spent, created)
      BY <1>3, <2>1 DEF Upserts
    <2> QED BY <1>1, <2>2, <2>3
  <1> QED BY <1>2, <1>3

\* Saving it leaves one contact to every id and to every key.
LEMMA SaveKeeps ==
    ASSUME ContactsOK, NEW client, NEW t, NEW c \in Upserts(client, t), Save(client, t, c)
    PROVE  /\ ContactsOK'
           /\ spent \subseteq spent' /\ c \in contacts' /\ c.id \in spent'
           /\ \A k \in contacts' : k = c \/ k \in contacts
           /\ \A k \in contacts' : k.id = c.id \/ KeyOf(k) = KeyOf(c) => k = c
  <1>1. contacts' = (contacts \ Known(apps[client], t)) \cup {c} /\ spent' = spent \cup {c.id}
    BY DEF Save
  <1>2. \A k \in contacts : KeyOf(k) = KeyOf(c) => k \in Known(apps[client], t)
    BY UpsertedKey DEF Known, KeyOf
  <1>3. \A k \in contacts \ Known(apps[client], t) : k.id # c.id /\ KeyOf(k) # KeyOf(c)
    BY <1>2, UpsertedKey DEF ContactsOK
  <1>4. ContactsOK'
    BY <1>1, <1>3, UpsertedKey DEF ContactsOK, KeyOf
  <1> QED BY <1>1, <1>3, <1>4

\* An identifier in full, and what it takes for two to be equal.
LEMMA Identifier ==
    ASSUME NEW c
    PROVE  ContactIdOf(c) = [dc |-> Told(c.domain), id |-> c.id, iss |-> c.iss, sub |-> c.sub]
  BY DEF ContactIdOf, contactFromProtoV1, Told

LEMMA EqualIds ==
    ASSUME NEW e, NEW x, e.id # "", x.id # ""
    PROVE  /\ Equal(e, x) => e.id = x.id
           /\ e = x => Equal(e, x)
  BY DEF Equal, IsValid, Mismatch, SameNonEmpty

\* Whoever signs in at a session is whom it is for already exactly when the id
\* is the same, and the session is for the contact just saved either way.
LEMMA SignInIsSaved ==
    ASSUME JInv, NEW client \in Created, NEW t, NEW c \in Upserts(client, t)
    PROVE  /\ SignIn(client, c) = ContactIdOf(c)
           /\ session[client] # NoSession =>
                /\ session[client].contact # Nobody
                /\ Equal(ContactIdOf(c), session[client].contact)
                        <=> ContactIdOf(c).id = session[client].contact.id
           /\ session[client] = NoSession => session[client].contact = Nobody
  <1> DEFINE before == session[client].contact
  <1>1. ContactIdOf(c) = [dc |-> Told(c.domain), id |-> c.id, iss |-> c.iss, sub |-> c.sub]
    BY Identifier
  <1>2. c.id \in ContactIds /\ c.id # ""
    BY UpsertedKey, ContactIdsAssumption DEF JInv
  <1>3. CASE session[client] # NoSession
    <2>1. client \in Acting
      BY <1>3 DEF Acting
    <2>2. /\ before = [dc |-> Told(AsInt32(apps[client].dc)), id |-> before.id,
                       iss |-> before.iss, sub |-> before.sub]
          /\ before.id \in spent /\ before.id # ""
      BY <2>1, ContactIdsAssumption DEF JInv, IInv, VouchedOnly, SessionsOK, HeldId, ContactsOK
    <2>3. c.id = before.id => KeyOf(c) = HeldKey(client)
      <3>1. \A k \in contacts : k.id = before.id => KeyOf(k) = HeldKey(client)
        BY <2>1 DEF JInv, SessionsOK, HeldId
      <3>2. c.id \in ContactIds \ spent \/ \E k \in contacts : k.id = c.id /\ KeyOf(k) = KeyOf(c)
        BY UpsertedKey DEF JInv
      <3> HIDE DEF before
      <3> QED BY <2>2, <3>1, <3>2
    <2>4. c.id = before.id => c.iss = before.iss /\ c.sub = before.sub
      BY <2>3 DEF KeyOf, HeldKey
    <2>5. c.domain = AsInt32(apps[client].dc)
      BY UpsertedKey DEF JInv
    <2>6. c.id = before.id => ContactIdOf(c) = before
      BY <1>1, <2>2, <2>4, <2>5
    <2>7. Equal(ContactIdOf(c), before) <=> c.id = before.id
      <3>1. ContactIdOf(c).id = c.id
        BY <1>1
      <3> HIDE DEF before
      <3> QED BY <1>2, <2>2, <2>6, <3>1, EqualIds
    <2>8. before # Nobody
      <3>1. Nobody.id = ""
        BY DEF Nobody
      <3> QED BY <2>2, <3>1
    <2> QED BY <1>1, <1>3, <2>6, <2>7, <2>8 DEF SignIn
  <1>4. CASE session[client] = NoSession
    <2>1. SignIn(client, c) = ContactIdOf(c)
      BY <1>4 DEF SignIn
    <2>2. NoSession.contact = Nobody
      BY DEF NoSession
    <2> QED BY <1>4, <2>1, <2>2
  <1> QED BY <1>3, <1>4

\* What a login did.
LEMMA LoginIs ==
    ASSUME JInv, Login
    PROVE  \E t \in Identities, h \in Headers, client \in Created : \E c \in Upserts(client, t) :
                /\ Save(client, t, c)
                /\ session' = [session EXCEPT ![client] =
                        [contact |-> ContactIdOf(c), dc |-> apps[client].dc,
                         ip |-> AddressKept(client, h)]]
                /\ last' = [op |-> "login", outcome |-> "ok", app |-> client, contact |-> c,
                            before |-> session[client].contact, header |-> h,
                            answer |-> Granted(client, c, h)]
  <1>1. PICK t \in Identities, h \in Headers,
             client \in UNION {GetApplication(values) : values \in ClientHeaders} :
          \E c \in Upserts(client, t) :
              /\ Save(client, t, c)
              /\ session' = [session EXCEPT ![client] =
                      [contact |-> SignIn(client, c), dc |-> apps[client].dc,
                       ip |-> AddressKept(client, h)]]
              /\ last' = [op |-> "login", outcome |-> "ok", app |-> client, contact |-> c,
                          before |-> session[client].contact, header |-> h,
                          answer |-> Granted(client, c, h)]
    BY DEF Login
  <1>2. client \in Created
    BY DEF GetApplication
  <1>3. \A c \in Upserts(client, t) : SignIn(client, c) = ContactIdOf(c)
    BY <1>2, SignInIsSaved
  <1> QED BY <1>1, <1>2, <1>3

LEMMA LoginKeepsSessions == ASSUME JInv, Login PROVE ContactsOK' /\ SessionsOK' /\ AppsOK'
  <1>1. PICK t \in Identities, h \in Headers, client \in Created : \E c \in Upserts(client, t) :
                /\ Save(client, t, c)
                /\ session' = [session EXCEPT ![client] =
                        [contact |-> ContactIdOf(c), dc |-> apps[client].dc,
                         ip |-> AddressKept(client, h)]]
    BY LoginIs
  <1>2. PICK c \in Upserts(client, t) :
                /\ Save(client, t, c)
                /\ session' = [session EXCEPT ![client] =
                        [contact |-> ContactIdOf(c), dc |-> apps[client].dc,
                         ip |-> AddressKept(client, h)]]
    BY <1>1
  <1>3. /\ ContactsOK'
        /\ spent \subseteq spent' /\ c.id \in spent'
        /\ \A k \in contacts' : k = c \/ k \in contacts
        /\ \A k \in contacts' : k.id = c.id \/ KeyOf(k) = KeyOf(c) => k = c
    BY <1>2, SaveKeeps DEF JInv
  <1>4. apps' = apps /\ Created' = Created /\ AppsOK'
    BY <1>2 DEF Save, JInv, AppsOK, Created
  <1>5. client \in Clients /\ session = [a \in Clients |-> session[a]]
    BY DEF JInv, IInv
  <1>6. /\ session'[client].contact = [dc |-> Told(c.domain), id |-> c.id, iss |-> c.iss, sub |-> c.sub]
        /\ session'[client].dc = apps[client].dc
    BY <1>2, <1>5, Identifier
  <1>7. c.domain = AsInt32(apps[client].dc) /\ KeyOf(c) = HeldKey(client)' /\ c.id = HeldId(client)'
    BY <1>6, UpsertedKey DEF JInv, KeyOf, HeldKey, HeldId
  <1>8. ASSUME NEW a \in Acting', a # client
        PROVE  /\ a \in Acting /\ session'[a] = session[a]
               /\ HeldKey(a)' = HeldKey(a) /\ HeldId(a)' = HeldId(a)
               /\ HeldId(a) = c.id => HeldKey(a) = KeyOf(c)
    <2>1. session'[a] = session[a] /\ a \in Acting
      BY <1>2, <1>4, <1>5, <1>8 DEF Acting, JInv, IInv
    <2>2. HeldId(a) \in spent /\ \A k \in contacts : k.id = HeldId(a) => KeyOf(k) = HeldKey(a)
      BY <2>1 DEF JInv, SessionsOK
    <2>3. HeldId(a) = c.id => HeldKey(a) = KeyOf(c)
      BY <2>2, UpsertedKey DEF JInv
    <2> QED BY <2>1, <2>3 DEF HeldKey, HeldId
  <1>9. ASSUME NEW a \in Acting'
        PROVE  /\ session'[a].contact = [dc |-> Told(AsInt32(session'[a].dc)), id |-> HeldId(a)',
                                 iss |-> session'[a].contact.iss, sub |-> session'[a].contact.sub]
               /\ HeldId(a)' \in spent'
               /\ \A k \in contacts' : k.id = HeldId(a)' => KeyOf(k) = HeldKey(a)'
               /\ \A b \in Acting' : HeldId(b)' = HeldId(a)' => HeldKey(b)' = HeldKey(a)'
    <2>1. CASE a = client
      BY <1>3, <1>6, <1>7, <1>8, <2>1
    <2>2. CASE a # client
      <3>1. /\ session[a].contact = [dc |-> Told(AsInt32(session[a].dc)), id |-> HeldId(a),
                                 iss |-> session[a].contact.iss, sub |-> session[a].contact.sub]
            /\ HeldId(a) \in spent
            /\ \A k \in contacts : k.id = HeldId(a) => KeyOf(k) = HeldKey(a)
            /\ \A b \in Acting : HeldId(b) = HeldId(a) => HeldKey(b) = HeldKey(a)
        BY <1>8, <2>2 DEF JInv, SessionsOK
      <3>2. \A b \in Acting' : HeldId(b)' = HeldId(a)' => HeldKey(b)' = HeldKey(a)'
        BY <1>7, <1>8, <2>2, <3>1
      <3> QED BY <1>3, <1>8, <2>2, <3>1, <3>2
    <2> QED BY <2>1, <2>2
  <1>10. SessionsOK'
    BY <1>9 DEF SessionsOK, HeldId
  <1> QED BY <1>3, <1>4, <1>10

\* A contact that is saved without its session, for ids that sessions hold.
LEMMA LoginFailsKeeps == ASSUME JInv, LoginFails PROVE ContactsOK' /\ SessionsOK' /\ AppsOK'
  <1>1. PICK client \in Created, t \in Identities : \E c \in Upserts(client, t) : Save(client, t, c)
    BY DEF LoginFails
  <1>2. PICK c \in Upserts(client, t) : Save(client, t, c)
    BY <1>1
  <1>3. /\ ContactsOK' /\ spent \subseteq spent'
        /\ \A k \in contacts' : k = c \/ k \in contacts
    BY <1>2, SaveKeeps DEF JInv
  <1>4. UNCHANGED <<apps, session>> /\ Acting' = Acting /\ AppsOK'
    BY <1>2 DEF Save, LoginFails, JInv, AppsOK, Created, Acting
  <1>5. \A a \in Acting : HeldKey(a)' = HeldKey(a) /\ HeldId(a)' = HeldId(a)
    BY <1>4 DEF HeldKey, HeldId
  <1>6. ASSUME NEW a \in Acting, c.id = HeldId(a) PROVE KeyOf(c) = HeldKey(a)
    <2>1. HeldId(a) \in spent /\ \A k \in contacts : k.id = HeldId(a) => KeyOf(k) = HeldKey(a)
      BY DEF JInv, SessionsOK
    <2> QED BY <1>6, <2>1, UpsertedKey DEF JInv
  <1>7. SessionsOK'
    BY <1>3, <1>4, <1>5, <1>6 DEF JInv, SessionsOK
  <1> QED BY <1>3, <1>4, <1>7

LEMMA StepJInv == JInv /\ [Next]_vars => JInv'
  <1> SUFFICES ASSUME JInv, [Next]_vars PROVE JInv'
    OBVIOUS
  <1>1. IInv'
    BY StepIInv DEF JInv
  <1>2. ASSUME UNCHANGED <<apps, session, spent>>, contacts' \subseteq contacts
        PROVE  ContactsOK' /\ SessionsOK' /\ AppsOK'
    BY <1>2 DEF JInv, ContactsOK, SessionsOK, AppsOK, Acting, Created, HeldId, HeldKey
  <1>3. CASE CreateApp
    <2>1. PICK client \in Clients \ Created, s \in Settings :
            apps' = [c \in Created \cup {client} |-> IF c = client THEN s ELSE apps[c]]
      BY <1>3 DEF CreateApp
    <2>2. UNCHANGED <<contacts, spent, session>>
      BY <1>3 DEF CreateApp
    <2>3. Created' = Created \cup {client}
      BY <2>1 DEF Created
    <2>4. Acting' = Acting
      BY <2>2, <2>3 DEF Acting, JInv, IInv
    <2>5. AppsOK'
      BY <2>1, <2>3 DEF JInv, AppsOK
    <2> QED BY <1>1, <2>2, <2>4, <2>5 DEF JInv, ContactsOK, SessionsOK, HeldId, HeldKey
  <1>4. CASE LoginRefused
    BY <1>1, <1>2, <1>4 DEF LoginRefused, Refused, JInv
  <1>5. CASE Login
    BY <1>1, <1>5, LoginKeepsSessions DEF JInv
  <1>6. CASE LoginFails
    BY <1>1, <1>6, LoginFailsKeeps DEF JInv
  <1>7. CASE AuthorizeSession
    BY <1>1, <1>2, <1>7 DEF AuthorizeSession, JInv
  <1>8. CASE DeleteContact
    BY <1>1, <1>2, <1>8 DEF DeleteContact, JInv
  <1>9. CASE UNCHANGED vars
    BY <1>1, <1>2, <1>9 DEF vars, JInv
  <1> QED BY <1>3, <1>4, <1>5, <1>6, <1>7, <1>8, <1>9 DEF Next

-----------------------------------------------------------------------------
(* What a step tells, and what follows for the accounts *)

LEMMA SignsIn == ASSUME JInv, SignsInTheVouched, [Next]_vars PROVE SignsInTheVouched'
  <1>1. CASE Login
    <2>1. PICK t \in Identities, h \in Headers, client \in Created : \E c \in Upserts(client, t) :
                /\ session' = [session EXCEPT ![client] =
                        [contact |-> ContactIdOf(c), dc |-> apps[client].dc,
                         ip |-> AddressKept(client, h)]]
                /\ last' = [op |-> "login", outcome |-> "ok", app |-> client, contact |-> c,
                            before |-> session[client].contact, header |-> h,
                            answer |-> Granted(client, c, h)]
      BY <1>1, LoginIs
    <2>2. PICK c \in Upserts(client, t) :
                /\ session' = [session EXCEPT ![client] =
                        [contact |-> ContactIdOf(c), dc |-> apps[client].dc,
                         ip |-> AddressKept(client, h)]]
                /\ last' = [op |-> "login", outcome |-> "ok", app |-> client, contact |-> c,
                            before |-> session[client].contact, header |-> h,
                            answer |-> Granted(client, c, h)]
      BY <2>1
    <2>3. session'[client].contact = ContactIdOf(c)
      BY <2>2 DEF JInv, IInv
    <2>4. /\ last'.app = client /\ last'.contact = c
          /\ last'.before = session[client].contact
      BY <2>2
    <2>5. session[client].contact # Nobody =>
                (Equal(ContactIdOf(c), session[client].contact)
                    <=> ContactIdOf(c).id = session[client].contact.id)
      BY SignInIsSaved
    <2> QED BY <2>3, <2>4, <2>5 DEF SignsInTheVouched
  <1>2. CASE CreateApp \/ LoginRefused \/ LoginFails \/ AuthorizeSession \/ DeleteContact
    <2>1. ~LoggedIn'
      <3>1. CASE AuthorizeSession
        <4>1. \A client, outcome : Unresolved(client, outcome) => last'.op = "authorize"
          BY DEF Unresolved
        <4>2. ASSUME NEW client, NEW c, NEW h,
                     last' = [op |-> "authorize", outcome |-> "ok", app |-> client,
                              contact |-> c, header |-> h,
                              answer |-> currentAuthorizationProtoV1(c, h)]
              PROVE  last'.op = "authorize"
          BY <4>2
        <4>3. last'.op = "authorize"
          BY <3>1, <4>1, <4>2 DEF AuthorizeSession
        <4> QED BY <4>3 DEF LoggedIn
      <3>2. CASE LoginRefused
        BY <3>2 DEF LoginRefused, Refused, LoggedIn
      <3>3. CASE CreateApp \/ LoginFails \/ DeleteContact
        BY <3>3 DEF CreateApp, LoginFails, DeleteContact, NoRPC, LoggedIn
      <3> QED BY <1>2, <3>1, <3>2, <3>3
    <2> QED BY <2>1 DEF SignsInTheVouched
  <1>3. CASE UNCHANGED vars
    BY <1>3 DEF vars, SignsInTheVouched, LoggedIn
  <1> QED BY <1>1, <1>2, <1>3 DEF Next

\* What is found for a session is the contact of its id.
LEMMA FoundById ==
    ASSUME JInv, NEW a \in Acting
    PROVE  /\ GetContact(session[a]) = {c \in contacts : c.id = HeldId(a)}
           /\ \A c, d \in GetContact(session[a]) : c = d
           /\ \A c \in GetContact(session[a]) : ContactIdOf(c) = session[a].contact
  <1>1. /\ session[a].contact = [dc |-> Told(AsInt32(session[a].dc)), id |-> HeldId(a),
                                 iss |-> session[a].contact.iss, sub |-> session[a].contact.sub]
        /\ HeldId(a) # ""
        /\ \A c \in contacts : c.id = HeldId(a) => KeyOf(c) = HeldKey(a)
    BY ContactIdsAssumption DEF JInv, SessionsOK, ContactsOK
  <1>2. \A c \in contacts : c.id = HeldId(a) =>
            /\ c.domain = AsInt32(session[a].dc)
            /\ c.iss = session[a].contact.iss /\ c.sub = session[a].contact.sub
    BY <1>1 DEF KeyOf, HeldKey
  <1>3. GetContact(session[a]) = {c \in contacts : c.id = HeldId(a)}
    BY <1>1, <1>2 DEF GetContact, FindContactDc, HeldId
  <1>4. \A c \in GetContact(session[a]) : ContactIdOf(c) = session[a].contact
    BY <1>1, <1>2, <1>3, Identifier
  <1> QED BY <1>3, <1>4 DEF JInv, ContactsOK

LEMMA Resolves == ASSUME JInv, SessionResolves, [Next]_vars PROVE SessionResolves'
  <1>1. CASE AuthorizeSession
    <2>1. PICK a \in {c \in Created : session[c] # NoSession} :
            \/ GetContact(session[a]) = {} /\ Unresolved(a, "not found")
            \/ Cardinality(GetContact(session[a])) > 1 /\ Unresolved(a, "conflict")
            \/ \E c \in GetContact(session[a]), h \in Headers :
                /\ GetContact(session[a]) = {c}
                /\ last' = [op |-> "authorize", outcome |-> "ok", app |-> a,
                            contact |-> c, header |-> h,
                            answer |-> currentAuthorizationProtoV1(c, h)]
      BY <1>1 DEF AuthorizeSession
    <2>2. a \in Acting /\ UNCHANGED <<contacts, session>>
      BY <1>1, <2>1 DEF AuthorizeSession, Acting
    <2>3. CASE GetContact(session[a]) = {} /\ Unresolved(a, "not found")
      <3>1. /\ last'.op = "authorize" /\ last'.outcome = "not found" /\ last'.app = a
            /\ ~Inspected'
        BY <2>3 DEF Unresolved, Inspected
      <3>2. \A c \in contacts : c.id # session[a].contact.id
        <4>1. GetContact(session[a]) = {c \in contacts : c.id = HeldId(a)}
          BY <2>2, FoundById
        <4> QED BY <2>3, <4>1 DEF HeldId
      <3> QED BY <2>2, <3>1, <3>2 DEF SessionResolves
    <2>4. CASE Cardinality(GetContact(session[a])) > 1 /\ Unresolved(a, "conflict")
      <3>1. PICK S : S = GetContact(session[a])
        OBVIOUS
      <3>2. S = {} \/ \E c : S = {c}
        <4>1. \A c, d \in S : c = d
          BY <2>2, <3>1, FoundById
        <4> QED BY <4>1
      <3>3. Cardinality(S) \in {0, 1}
        BY <3>2, FS_EmptySet, FS_Singleton
      <3> QED BY <2>4, <3>1, <3>3
    <2>5. ASSUME NEW c \in GetContact(session[a]), NEW h \in Headers,
                 last' = [op |-> "authorize", outcome |-> "ok", app |-> a,
                          contact |-> c, header |-> h,
                          answer |-> currentAuthorizationProtoV1(c, h)]
          PROVE  SessionResolves'
      <3>1. c \in contacts /\ c.id = session[a].contact.id /\ ContactIdOf(c) = session[a].contact
        BY <2>2, FoundById DEF HeldId
      <3>2. currentAuthorizationProtoV1(c, h).contact = ContactIdOf(c)
        BY AnswerIs DEF currentAuthorizationProtoV1
      <3>3. last'.outcome = "ok" /\ last'.app = a /\ last'.answer.contact = ContactIdOf(c)
        BY <2>5, <3>2
      <3> QED BY <2>2, <3>1, <3>3 DEF SessionResolves
    <2> QED BY <2>1, <2>3, <2>4, <2>5
  <1>2. CASE CreateApp \/ LoginRefused \/ Login \/ LoginFails \/ DeleteContact
    <2>1. last'.op # "authorize"
      BY <1>2 DEF CreateApp, LoginRefused, Refused, Login, LoginFails, DeleteContact, NoRPC
    <2> QED BY <2>1 DEF SessionResolves
  <1>3. CASE UNCHANGED vars
    BY <1>3 DEF vars, SessionResolves, Inspected
  <1> QED BY <1>1, <1>2, <1>3 DEF Next

\* Numbers in range are kept as they are.
LEMMA KeptInRange == ASSUME NEW dc \in Int, InRange(dc) PROVE AsInt32(dc) = dc
  <1>1. 2 ^ Width \in Nat \ {0} /\ dc < 2 ^ Width
    BY PowerAssumption DEF InRange
  <1>2. dc % 2 ^ Width = dc
    <2> DEFINE m == 2 ^ Width
    <2>1. m \in Nat \ {0} /\ dc \in 0..m - 1
      BY <1>1 DEF InRange
    <2> HIDE DEF m
    <2>2. dc % m = dc
      BY <2>1
    <2> QED BY <2>2 DEF m
  <1> QED BY <1>2 DEF AsInt32, InRange

LEMMA AccountsDiffer == JInv => AccountsApart
  <1> SUFFICES ASSUME JInv, NEW c \in Acting, NEW d \in Acting, apps[c].dc # apps[d].dc,
                      InRange(apps[c].dc), InRange(apps[d].dc), HeldId(c) = HeldId(d)
               PROVE  FALSE
    BY DEF AccountsApart, HeldId
  <1>1. AsInt32(session[c].dc) = AsInt32(session[d].dc)
    BY DEF JInv, SessionsOK, HeldKey
  <1>2. session[c].dc = apps[c].dc /\ session[d].dc = apps[d].dc
    BY DEF JInv, IInv, VouchedOnly
  <1>3. apps[c].dc \in Int /\ apps[d].dc \in Int
    BY SettingsAssumption DEF JInv, AppsOK, Acting
  <1> QED BY <1>1, <1>2, <1>3, KeptInRange

-----------------------------------------------------------------------------
(* Conversions: what was vouched comes back                                *)

\* The words of a text are none of its blanks.
LEMMA WordsAreWords ==
  ASSUME NEW S, NEW text \in Seq(S)
  PROVE  Words(text) \in Seq(S) /\ \A k \in 1..Len(Words(text)) : Words(text)[k] # Blank
  <1> DEFINE P == {i \in DOMAIN text : text[i] # Blank}
             w == Kept(text, P)
  <1>1. w \in Seq(S) /\ \E pos : From(pos, w, text, P, Len(text))
    <2> HIDE DEF P
    <2> QED BY KeptFrom
  <1>2. \A k \in 1..Len(w) : w[k] # Blank
    <2> HIDE DEF w
    <2> QED BY <1>1 DEF From
  <1>3. Words(text) = w
    BY DEF Words
  <1> HIDE DEF w
  <1> QED BY <1>1, <1>2, <1>3

\* A common name has a word at every odd place, the last one too, and a blank
\* at every even one.
LEMMA CommonNameIsClean ==
  ASSUME NEW S, NEW parts \in Seq(S) \X Seq(S), CommonName(parts) # <<>>
  PROVE  LET name == CommonName(parts)
         IN  /\ name[1] # Blank /\ name[Len(name)] # Blank
             /\ \A i \in 1..Len(name) - 1 : name[i] # Blank \/ name[i + 1] # Blank
  <1> DEFINE T == S \cup {Blank}
             text == parts[1] \o <<Blank>> \o parts[2]
             words == Words(text)
             n == Len(words)
             name == [i \in 1..(IF n = 0 THEN 0 ELSE 2 * n - 1) |->
                        IF i % 2 = 1 THEN words[(i + 1) \div 2] ELSE Blank]
  <1>1. text \in Seq(T)
    <2>1. \A s \in Seq(S) : s \in Seq(T)
      <3> SUFFICES ASSUME NEW s \in Seq(S) PROVE s \in Seq(T)
        OBVIOUS
      <3>1. s = [i \in 1..Len(s) |-> s[i]] /\ Len(s) \in Nat /\ \A i \in 1..Len(s) : s[i] \in S
        OBVIOUS
      <3>2. \A i \in 1..Len(s) : s[i] \in T
        BY <3>1
      <3> HIDE DEF T
      <3> QED BY <3>1, <3>2
    <2>2. parts[1] \in Seq(T) /\ parts[2] \in Seq(T) /\ Blank \in T
      BY <2>1
    <2> HIDE DEF T
    <2>3. <<Blank>> \in Seq(T)
      BY <2>2
    <2> QED BY <2>2, <2>3
  <1>2. words \in Seq(T) /\ \A k \in 1..n : words[k] # Blank
    <2> HIDE DEF text
    <2> QED BY <1>1, WordsAreWords
  <1>3. CommonName(parts) = name
    BY DEF CommonName
  <1> HIDE DEF words
  <1>4. n \in Nat /\ n # 0
    <2>1. n \in Nat
      BY <1>2
    <2>2. n = 0 => name = <<>>
      OBVIOUS
    <2> QED BY <1>3, <2>1, <2>2
  <1>5. name \in Seq(T) /\ Len(name) = 2 * n - 1
    <2> DEFINE f(i) == IF i % 2 = 1 THEN words[(i + 1) \div 2] ELSE Blank
    <2>1. name = [i \in 1..2 * n - 1 |-> f(i)] /\ 2 * n - 1 \in Nat
      BY <1>4
    <2>2. \A i \in 1..2 * n - 1 : f(i) \in T
      <3>1. ASSUME NEW i \in 1..2 * n - 1, i % 2 = 1 PROVE words[(i + 1) \div 2] \in T
        <4>1. (i + 1) \div 2 \in 1..n
          BY <1>4, <3>1
        <4> QED BY <1>2, <4>1
      <3> QED BY <3>1
    <2> HIDE DEF f, name
    <2> QED BY <2>1, <2>2
  <1>6. \A i \in 1..2 * n - 1 : i % 2 = 1 => name[i] # Blank
    <2>1. ASSUME NEW i \in 1..2 * n - 1, i % 2 = 1 PROVE name[i] # Blank
      <3>1. (i + 1) \div 2 \in 1..n
        BY <1>4, <2>1
      <3>2. name[i] = words[(i + 1) \div 2]
        BY <1>4, <2>1
      <3> HIDE DEF name
      <3> QED BY <1>2, <3>1, <3>2
    <2> QED BY <2>1
  <1> HIDE DEF name
  <1>7. 1 \in 1..2 * n - 1 /\ 1 % 2 = 1 /\ 2 * n - 1 \in 1..2 * n - 1 /\ (2 * n - 1) % 2 = 1
    BY <1>4
  <1>8. \A i \in 1..(2 * n - 1) - 1 :
            /\ i \in 1..2 * n - 1 /\ i + 1 \in 1..2 * n - 1
            /\ i % 2 = 1 \/ (i + 1) % 2 = 1
    BY <1>4
  <1> QED BY <1>3, <1>5, <1>6, <1>7, <1>8

\* The date of a timestamp is the timestamp again, and 0 for none.
LEMMA TimeOfDate ==
  ASSUME NEW t \in Int
  PROVE  Time(Date(t)) = IF t > 0 THEN t ELSE 0
  <1>1. CASE t <= 0
    BY <1>1 DEF Time, Date
  <1>2. CASE t > 0
    <2> DEFINE m == Millisecond
               p == Second \div m
               q == t \div p
               r == t % p
    <2>1. m \in Nat /\ m > 0 /\ Second \in Nat /\ Second > 0 /\ Second % m = 0
      BY PrecisionAssumption
    <2>2. p \in Nat /\ Second = m * p
      <3> HIDE DEF m
      <3> QED BY <2>1
    <2>3. p > 0
      <3>1. p = 0 => m * p = 0
        <4> HIDE DEF m, p
        <4> QED BY <2>1
      <3> HIDE DEF m, p
      <3> QED BY <2>1, <2>2, <3>1
    <2>4. q \in Nat /\ r \in Nat /\ t = p * q + r
      <3> HIDE DEF p
      <3> QED BY <1>2, <2>2, <2>3
    <2>5. Date(t) = q * Second + r * m
      BY <1>2 DEF Date
    <2>6. q * Second + r * m = t * m
      <3> HIDE DEF m, p, q, r
      <3>1. q * Second = (p * q) * m
        BY <2>1, <2>2, <2>4
      <3>2. t * m = (p * q) * m + r * m
        BY <2>1, <2>2, <2>4
      <3> QED BY <3>1, <3>2
    <2>7. t * m >= 0 /\ (t * m) \div m = t
      <3> HIDE DEF m
      <3> QED BY <1>2, <2>1
    <2>8. Date(t) = t * m /\ ~(t * m < 0)
      <3> HIDE DEF p, q, r
      <3>1. t * m \in Int
        BY <2>1
      <3> QED BY <2>5, <2>6, <2>7, <3>1
    <2> QED BY <1>2, <2>7, <2>8 DEF Time
  <1> QED BY <1>1, <1>2

\* The last value that is not e, and e if there is none.
LastOther(e, values) ==
    LET given == {i \in DOMAIN values : values[i] # e}
    IN  IF given = {} THEN e ELSE values[CHOOSE i \in given : \A k \in given : k <= i]

LEMMA LastOfThree ==
  ASSUME NEW e, NEW v, DOMAIN v = 1..3
  PROVE  LastOther(e, v) = IF v[3] # e THEN v[3] ELSE IF v[2] # e THEN v[2] ELSE v[1]
  <1> DEFINE given == {i \in DOMAIN v : v[i] # e}
             greatest == CHOOSE i \in given : \A k \in given : k <= i
  <1>0. LastOther(e, v) = IF given = {} THEN e ELSE v[greatest]
    BY DEF LastOther
  <1>1. \A i : i \in given <=> (i \in {1, 2, 3} /\ v[i] # e)
    OBVIOUS
  <1>2. ASSUME NEW n \in given, \A k \in given : k <= n PROVE greatest = n
    <2> HIDE DEF given
    <2>1. n \in 1..3 /\ \A k \in given : k \in 1..3
      BY <1>1
    <2>2. greatest \in given /\ \A k \in given : k <= greatest
      BY <1>2
    <2> HIDE DEF greatest
    <2>3. greatest \in 1..3 /\ greatest <= n /\ n <= greatest
      BY <1>2, <2>1, <2>2
    <2> QED BY <2>1, <2>3
  <1> HIDE DEF given, greatest
  <1>4. CASE v[3] # e
    <2>1. 3 \in given /\ \A k \in given : k <= 3
      BY <1>1, <1>4
    <2> QED BY <1>2, <1>4, <2>1, <1>0
  <1>5. CASE v[3] = e /\ v[2] # e
    <2>1. 2 \in given /\ \A k \in given : k <= 2
      BY <1>1, <1>5
    <2> QED BY <1>2, <1>5, <2>1, <1>0
  <1>6. CASE v[3] = e /\ v[2] = e /\ v[1] # e
    <2>1. 1 \in given /\ \A k \in given : k <= 1
      BY <1>1, <1>6
    <2> QED BY <1>2, <1>6, <2>1, <1>0
  <1>7. CASE v[3] = e /\ v[2] = e /\ v[1] = e
    <2>1. given = {}
      BY <1>1, <1>7
    <2> QED BY <1>7, <2>1, <1>0
  <1> QED BY <1>4, <1>5, <1>6, <1>7

\* The address of a request that came with at most one line of X-Forwarded-For
\* is that of the client.
LEMMA RemoteAddrIsClients ==
  ASSUME NEW h \in Headers, \A i, k \in Lines(h.forwarded) : i = k
  PROVE  RemoteAddr(h) = h.client
  <1> DEFINE lines == Lines(h.forwarded)
             Silent == \A i \in lines : h.forwarded[i][1] = "unknown"
             real == IF h.realIP = "unknown" THEN "" ELSE h.realIP
             told == ParseForwardedFor(h.forwarded)
  <1>1. /\ h.client # "" /\ h.client # "unknown"
        /\ \A i \in lines : lines = {i} => h.forwarded[i][1] \in {h.client, "unknown"}
        /\ Silent => h.realIP \in {h.client, "", "unknown"}
        /\ Silent /\ h.realIP # h.client => h.peer = h.client
    BY ProxiesAssumption
  <1>2. RemoteAddr(h) = IF told # "" THEN told ELSE IF real # "" THEN real ELSE h.peer
    <2> DEFINE v == <<h.peer, real, told>>
    <2>1. RemoteAddr(h) = LastOther("", v)
      BY DEF RemoteAddr, CoalesceLast, LastOther
    <2>2. DOMAIN v = 1..3 /\ v[1] = h.peer /\ v[2] = real /\ v[3] = told
      OBVIOUS
    <2> HIDE DEF v, real, told
    <2>3. LastOther("", v) = IF v[3] # "" THEN v[3] ELSE IF v[2] # "" THEN v[2] ELSE v[1]
      BY <2>2, LastOfThree, Zenon
    <2> QED BY <2>1, <2>2, <2>3
  <1>3. \/ told = h.client
        \/ told = "" /\ Silent
    <2>1. CASE lines = {}
      BY <2>1 DEF ParseForwardedFor
    <2>2. CASE lines # {}
      <3>1. PICK i \in lines : TRUE
        BY <2>2
      <3>2. lines = {i} /\ i <= i
        <4>1. lines = {i}
          BY <3>1
        <4>2. h.forwarded \in Seq(Seq(STRING)) /\ i \in DOMAIN h.forwarded
          BY ProxiesAssumption, <3>1 DEF Lines
        <4>3. i \in Nat
          BY <4>2
        <4> QED BY <4>1, <4>3
      <3>3. (CHOOSE j \in lines : \A k \in lines : k <= j) = i
        <4> HIDE DEF lines
        <4> QED BY <3>2
      <3>4. told = IF h.forwarded[i][1] = "unknown" THEN "" ELSE h.forwarded[i][1]
        BY <3>2, <3>3 DEF ParseForwardedFor
      <3> HIDE DEF told, lines
      <3> QED BY <1>1, <3>2, <3>4
    <2> QED BY <2>1, <2>2
  <1> HIDE DEF told, Silent
  <1> QED BY <1>1, <1>2, <1>3
-----------------------------------------------------------------------------
(* What clients are told                                                   *)

\* A contact is what was vouched for, converted.
ContactOK(c) ==
    /\ c.vouched \in Identities /\ NameIsValid(c.vouched)
    /\ c.name = NameOf(c.vouched)
    /\ c.md = contactMdFormProtoV1(c.vouched.claims, c.vouched.metadata)
    /\ c.created \in Dates

ProfilesOK == \A c \in contacts : ContactOK(c)

\* What was vouched comes back but for what the conversions are known to lose.
LEMMA VouchedComesBack ==
  ASSUME NEW c, ContactOK(c)
  PROVE  LET back == contactMdFromProtoV1(c.md)
             sent == c.vouched
         IN  /\ \A k \in Claims :
                    sent.claims[k] # "" \/ k \notin DOMAIN sent.metadata =>
                        back.claims[k] = sent.claims[k]
             /\ DOMAIN back.metadata = DOMAIN sent.metadata \ Claims
             /\ \A k \in DOMAIN back.metadata :
                    sent.metadata[k] \notin {"numeral", "null"} =>
                        back.metadata[k] = sent.metadata[k]
  <1> DEFINE claims == c.vouched.claims
             metadata == c.vouched.metadata
             md == c.md
             set == {k \in Claims : claims[k] # ""}
             back == contactMdFromProtoV1(md)
  <1>1. /\ claims \in [Claims -> STRING] /\ \A k \in Flags : claims[k] \in {"", "true"}
        /\ metadata \in [DOMAIN metadata -> Values]
    BY IdentitiesAssumption DEF ContactOK
  <1>2. md = [k \in DOMAIN metadata \cup set |->
                IF k \in Claims /\ claims[k] # "" THEN claims[k] ELSE FormValue[metadata[k]]]
    BY DEF ContactOK, contactMdFormProtoV1
  <1>3. /\ back.claims = [k \in Claims |-> IF k \in DOMAIN md THEN ReadClaim(k, md[k]) ELSE ""]
        /\ back.metadata = [k \in DOMAIN md \ Claims |-> ReadValue[md[k]]]
    BY DEF contactMdFromProtoV1
  <1> HIDE DEF claims, metadata, md, back
  <1>4. /\ DOMAIN md = DOMAIN metadata \cup set
        /\ \A k \in set : md[k] = claims[k]
        /\ \A k \in DOMAIN metadata \ Claims : md[k] = FormValue[metadata[k]]
    BY <1>2
  <1>5. ASSUME NEW k \in Claims, claims[k] # "" \/ k \notin DOMAIN metadata
        PROVE  back.claims[k] = claims[k]
    <2>1. CASE claims[k] # ""
      <3>1. k \in DOMAIN md /\ md[k] = claims[k] /\ back.claims[k] = ReadClaim(k, md[k])
        BY <1>3, <1>4, <2>1
      <3>2. k \in Flags => claims[k] = "true"
        BY <1>1, <2>1
      <3> QED BY <3>1, <3>2 DEF ReadClaim, TrueTexts
    <2>2. CASE claims[k] = "" /\ k \notin DOMAIN metadata
      <3>1. k \notin DOMAIN md
        BY <1>4, <2>2
      <3> QED BY <1>3, <2>2, <3>1
    <2> QED BY <1>5, <2>1, <2>2
  <1>6. DOMAIN back.metadata = DOMAIN metadata \ Claims
    BY <1>3, <1>4
  <1>7. ASSUME NEW k \in DOMAIN back.metadata, metadata[k] \notin {"numeral", "null"}
        PROVE  back.metadata[k] = metadata[k]
    <2>1. k \in DOMAIN metadata \ Claims /\ back.metadata[k] = ReadValue[FormValue[metadata[k]]]
      <3>1. k \in DOMAIN metadata \ Claims /\ k \in DOMAIN md \ Claims
        BY <1>4, <1>6
      <3>2. md[k] = FormValue[metadata[k]]
        BY <1>4, <3>1
      <3>3. back.metadata[k] = ReadValue[md[k]]
        BY <1>3, <3>1
      <3> QED BY <3>1, <3>2, <3>3
    <2>2. metadata[k] \in {"word", "one", "number", "yes", "nullWord", "empty"}
      BY <1>1, <1>7, <2>1 DEF Values
    <2>3. \A v \in {"word", "one", "number", "yes", "nullWord", "empty"} : ReadValue[FormValue[v]] = v
      BY DEF FormValue, ReadValue
    <2> QED BY <2>1, <2>2, <2>3
  <1> QED BY <1>5, <1>6, <1>7 DEF claims, metadata, md, back

\* A contact that is saved is what NewIdentity accepted.
LEMMA UpsertedOK ==
  ASSUME ProfilesOK, NEW client, NEW t \in Identities, NameIsValid(t), NEW c \in Upserts(client, t)
  PROVE  ContactOK(c)
  <1>1. \A id, created : LET a == AddContact(client, t, id, created)
                         IN  /\ a.vouched = t /\ a.name = NameOf(t) /\ a.created = created
                             /\ a.md = contactMdFormProtoV1(t.claims, t.metadata)
    BY DEF AddContact
  <1>2. \A id, created : created \in Dates => ContactOK(AddContact(client, t, id, created))
    BY <1>1 DEF ContactOK
  <1>3. \A k \in Known(apps[client], t) : k.created \in Dates
    BY DEF Known, ProfilesOK, ContactOK
  <1>4. \E id, created : created \in Dates /\ c = AddContact(client, t, id, created)
    BY <1>3 DEF Upserts
  <1> QED BY <1>2, <1>4

LEMMA StepProfilesOK == ProfilesOK /\ [Next]_vars => ProfilesOK'
  <1> SUFFICES ASSUME ProfilesOK, [Next]_vars PROVE ProfilesOK'
    OBVIOUS
  <1>1. ASSUME contacts' \subseteq contacts PROVE ProfilesOK'
    BY <1>1 DEF ProfilesOK
  <1>2. ASSUME NEW client, NEW t \in Identities, NameIsValid(t),
               NEW c \in Upserts(client, t), Save(client, t, c)
        PROVE  ProfilesOK'
    <2>1. \A k \in contacts' : k = c \/ k \in contacts
      BY <1>2 DEF Save
    <2>2. ContactOK(c)
      BY <1>2, UpsertedOK
    <2> QED BY <2>1, <2>2 DEF ProfilesOK
  <1>3. CASE Login
    <2>1. \E client : \E t \in Identities : \E c \in Upserts(client, t) :
            NewIdentity(apps[client], t) /\ Save(client, t, c)
      BY <1>3 DEF Login
    <2> QED BY <1>2, <2>1 DEF NewIdentity
  <1>4. CASE LoginFails
    <2>1. \E client : \E t \in Identities : \E c \in Upserts(client, t) :
            NewIdentity(apps[client], t) /\ Save(client, t, c)
      BY <1>4 DEF LoginFails
    <2> QED BY <1>2, <2>1 DEF NewIdentity
  <1>5. CASE CreateApp \/ LoginRefused \/ AuthorizeSession \/ DeleteContact \/ UNCHANGED vars
    <2>1. contacts' \subseteq contacts
      BY <1>5 DEF CreateApp, LoginRefused, Refused, AuthorizeSession, DeleteContact, vars
    <2> QED BY <1>1, <2>1
  <1> QED BY <1>3, <1>4, <1>5 DEF Next

\* The name of a contact is the one vouched for, or clean.
LEMMA NameComesOutClean ==
  ASSUME NEW c, ContactOK(c)
  PROVE  IF c.vouched.name # <<>> THEN c.name = c.vouched.name
         ELSE /\ c.name # <<>> /\ c.name[1] # Blank /\ c.name[Len(c.name)] # Blank
              /\ \A i \in 1..Len(c.name) - 1 : c.name[i] # Blank \/ c.name[i + 1] # Blank
  <1>1. c.vouched \in Identities /\ NameIsValid(c.vouched) /\ c.name = NameOf(c.vouched)
    BY DEF ContactOK
  <1>2. CASE c.vouched.name # <<>>
    BY <1>1, <1>2 DEF NameOf
  <1>3. CASE c.vouched.name = <<>>
    <2>1. c.name = CommonName(c.vouched.parts) /\ CommonName(c.vouched.parts) # <<>>
      BY <1>1, <1>3 DEF NameOf, NameIsValid
    <2>2. c.vouched.parts \in Seq(STRING) \X Seq(STRING)
      BY <1>1, IdentitiesAssumption
    <2> QED BY <1>3, <2>1, <2>2, CommonNameIsClean
  <1> QED BY <1>2, <1>3

\* An answer about a contact of the service, with the address of the request.
AnswerOK ==
    /\ last.contact \in contacts /\ last.header \in Headers
    /\ last.answer.contact.id = last.contact.id
    /\ last.answer.name = last.contact.name
    /\ last.answer.claims = contactMdFromProtoV1(last.contact.md).claims
    /\ Inspected => last.answer.metadata = contactMdFromProtoV1(last.contact.md).metadata
    /\ last.answer.date = Time(Date(last.contact.created))
    /\ last.answer.ip = RemoteAddr(last.header)
       \/ (last.op = "login" /\ last.before # Nobody)

AnswersOK == LoggedIn \/ Inspected => AnswerOK

LEMMA AnswersOKAreTrue ==
    ContactsOK /\ ProfilesOK /\ AnswersOK => AnswersAreTrue
  <1> SUFFICES ASSUME ContactsOK, ProfilesOK, AnswersOK PROVE AnswersAreTrue
    OBVIOUS
  <1>1. DatesComeBack
    BY TimeOfDate, DatesAssumption
    DEF AnswersOK, AnswerOK, ProfilesOK, ContactOK, DatesComeBack
  <1>2. ASSUME Inspected \/ (LoggedIn /\ last.before = Nobody),
               \A i, k \in Lines(last.header.forwarded) : i = k
        PROVE  last.answer.ip = last.header.client
    <2>1. last.header \in Headers /\ last.answer.ip = RemoteAddr(last.header)
      BY <1>2 DEF AnswersOK, AnswerOK, Inspected
    <2> QED BY <1>2, <2>1, RemoteAddrIsClients
  <1>3. AddressIsClients
    BY <1>2 DEF AddressIsClients
  <1>4. ASSUME LoggedIn \/ Inspected, NEW c \in contacts, c.id = last.answer.contact.id
        PROVE  c = last.contact /\ ContactOK(c)
    BY <1>4 DEF AnswersOK, AnswerOK, ContactsOK, ProfilesOK
  <1>5. ProfileComesBack
    <2> SUFFICES ASSUME LoggedIn \/ Inspected, NEW c \in contacts, c.id = last.answer.contact.id
        PROVE  /\ \A k \in Claims :
                    c.vouched.claims[k] # "" \/ k \notin DOMAIN c.vouched.metadata =>
                        last.answer.claims[k] = c.vouched.claims[k]
               /\ Inspected =>
                    /\ DOMAIN last.answer.metadata = DOMAIN c.vouched.metadata \ Claims
                    /\ \A k \in DOMAIN last.answer.metadata :
                            c.vouched.metadata[k] \notin {"numeral", "null"} =>
                                last.answer.metadata[k] = c.vouched.metadata[k]
      BY DEF ProfileComesBack
    <2>1. c = last.contact /\ ContactOK(c)
      BY <1>4
    <2>2. /\ last.answer.claims = contactMdFromProtoV1(c.md).claims
          /\ Inspected => last.answer.metadata = contactMdFromProtoV1(c.md).metadata
      BY <2>1 DEF AnswersOK, AnswerOK
    <2> DEFINE back == contactMdFromProtoV1(c.md)
               claims == c.vouched.claims
               metadata == c.vouched.metadata
    <2>3. /\ \A k \in Claims : claims[k] # "" \/ k \notin DOMAIN metadata =>
                back.claims[k] = claims[k]
          /\ DOMAIN back.metadata = DOMAIN metadata \ Claims
          /\ \A k \in DOMAIN back.metadata :
                metadata[k] \notin {"numeral", "null"} => back.metadata[k] = metadata[k]
      BY <2>1, VouchedComesBack
    <2> HIDE DEF back
    <2> QED BY <2>2, <2>3 DEF back
  <1>6. NamesAreClean
    <2> SUFFICES ASSUME LoggedIn \/ Inspected, NEW c \in contacts, c.id = last.answer.contact.id
        PROVE  LET name == last.answer.name
               IN  IF c.vouched.name # <<>> THEN name = c.vouched.name
                   ELSE /\ name # <<>> /\ name[1] # Blank /\ name[Len(name)] # Blank
                        /\ \A i \in 1..Len(name) - 1 :
                                name[i] # Blank \/ name[i + 1] # Blank
      BY DEF NamesAreClean
    <2>1. c = last.contact /\ ContactOK(c)
      BY <1>4
    <2>2. last.answer.name = c.name
      BY <2>1 DEF AnswersOK, AnswerOK
    <2> QED BY <2>1, <2>2, NameComesOutClean
  <1> QED BY <1>1, <1>3, <1>5, <1>6 DEF AnswersAreTrue

LEMMA LoginAnswers == ASSUME JInv, ProfilesOK, ProfilesOK', Login PROVE AnswersOK'
  <1>1. PICK t \in Identities, h \in Headers, client \in Created : \E c \in Upserts(client, t) :
                /\ Save(client, t, c)
                /\ last' = [op |-> "login", outcome |-> "ok", app |-> client, contact |-> c,
                            before |-> session[client].contact, header |-> h,
                            answer |-> Granted(client, c, h)]
    BY LoginIs
  <1>2. PICK c \in Upserts(client, t) :
                /\ Save(client, t, c)
                /\ last' = [op |-> "login", outcome |-> "ok", app |-> client, contact |-> c,
                            before |-> session[client].contact, header |-> h,
                            answer |-> Granted(client, c, h)]
    BY <1>1
  <1>3. /\ last'.op = "login" /\ last'.contact = c /\ last'.header = h
        /\ last'.before = session[client].contact
        /\ last'.answer = AnswerOf(c, AddressKept(client, h), NoMetadata) /\ ~Inspected'
    BY <1>2 DEF Granted, Inspected
  <1>4. c \in contacts' /\ ContactIdOf(c).id = c.id
    BY <1>2 DEF Save, ContactIdOf, contactFromProtoV1
  <1>5. session[client] # NoSession => session[client].contact # Nobody
    BY SignInIsSaved
  <1>6. session[client] = NoSession => AddressKept(client, h) = RemoteAddr(h)
    BY DEF AddressKept
  <1> QED BY <1>3, <1>4, <1>5, <1>6, AnswerIs DEF AnswersOK, AnswerOK

LEMMA StepAnswersOK == JInv /\ ProfilesOK /\ AnswersOK /\ [Next]_vars => AnswersOK'
  <1> SUFFICES ASSUME JInv, ProfilesOK, AnswersOK, [Next]_vars PROVE AnswersOK'
    OBVIOUS
  <1>1. CASE Login
    BY <1>1, LoginAnswers, StepProfilesOK
  <1>2. CASE AuthorizeSession
    <2>1. PICK client : \/ \E outcome \in {"not found", "conflict"} : Unresolved(client, outcome)
                        \/ \E c \in contacts, h \in Headers :
                            last' = [op |-> "authorize", outcome |-> "ok", app |-> client,
                                     contact |-> c, header |-> h,
                                     answer |-> currentAuthorizationProtoV1(c, h)]
      BY <1>2 DEF AuthorizeSession, GetContact
    <2>2. ASSUME NEW outcome \in {"not found", "conflict"}, Unresolved(client, outcome)
          PROVE  AnswersOK'
      BY <2>2 DEF Unresolved, AnswersOK, LoggedIn, Inspected
    <2>3. ASSUME NEW c \in contacts, NEW h \in Headers,
                 last' = [op |-> "authorize", outcome |-> "ok", app |-> client,
                          contact |-> c, header |-> h,
                          answer |-> currentAuthorizationProtoV1(c, h)]
          PROVE  AnswersOK'
      <3>1. /\ last'.contact = c /\ last'.header = h
            /\ last'.answer = AnswerOf(c, RemoteAddr(h), contactMdFromProtoV1(c.md).metadata)
        BY <2>3 DEF currentAuthorizationProtoV1, contactFromProtoV1
      <3>2. c \in contacts' /\ ContactIdOf(c).id = c.id
        BY <1>2 DEF AuthorizeSession, ContactIdOf, contactFromProtoV1
      <3> QED BY <3>1, <3>2, AnswerIs DEF AnswersOK, AnswerOK
    <2> QED BY <2>1, <2>2, <2>3
  <1>3. CASE CreateApp \/ LoginRefused \/ LoginFails \/ DeleteContact
    <2>1. ~LoggedIn' /\ ~Inspected'
      BY <1>3 DEF CreateApp, LoginRefused, Refused, LoginFails, DeleteContact, NoRPC,
                  LoggedIn, Inspected
    <2> QED BY <2>1 DEF AnswersOK
  <1>4. CASE UNCHANGED vars
    BY <1>4 DEF vars, AnswersOK, AnswerOK, LoggedIn, Inspected
  <1> QED BY <1>1, <1>2, <1>3, <1>4 DEF Next

-----------------------------------------------------------------------------
(* The theorems *)

\* Whoever a session acts for was vouched for by an issuer its own application
\* trusts and nobody reserves (NewIdentity, GrantTokenForUserIdentity).
THEOREM SessionsAreVouched == Spec => []VouchedOnly
<1>1. IInv => VouchedOnly
  BY DEF IInv
<1> QED
  BY InitIInv, StepIInv, <1>1, PTL DEF Spec

\* A session is for the contact that was just saved, and was for another
\* end-user exactly when the id is another.
THEOREM SignsInWhomVouched == Spec => []SignsInTheVouched
<1>1. Init => SignsInTheVouched
  BY DEF Init, SignsInTheVouched, LoggedIn, NoRPC
<1> QED
  BY <1>1, SignsIn, InitJInv, StepJInv, PTL DEF Spec

\* A request of a session resolves to its own contact exactly as long as that
\* was not deleted.
THEOREM SessionsResolve == Spec => []SessionResolves
<1>1. Init => SessionResolves
  BY DEF Init, SessionResolves, Inspected, NoRPC
<1> QED
  BY <1>1, Resolves, InitJInv, StepJInv, PTL DEF Spec

\* Two business accounts whose numbers fit share no contact.
THEOREM AccountsStayApart == Spec => []AccountsApart
  BY AccountsDiffer, InitJInv, StepJInv, PTL DEF Spec

\* What Token and Inspect tell a client of its contact is what was vouched for
\* at the contact's last login and saved: the claims, the name and the date, and
\* from Inspect the metadata, all but what the conversions are known to change;
\* the address is that of the request, but from Token at a session that is there
\* already (account.go:130, 616).
THEOREM AnswersComeTrue == Spec => []AnswersAreTrue
<1>1. Init => ProfilesOK /\ AnswersOK
  BY DEF Init, ProfilesOK, AnswersOK, LoggedIn, Inspected, NoRPC
<1>2. JInv /\ ProfilesOK /\ AnswersOK => AnswersAreTrue
  BY AnswersOKAreTrue DEF JInv
<1> QED
  BY <1>1, <1>2, StepProfilesOK, StepAnswersOK, InitJInv, StepJInv, PTL DEF Spec
=============================================================================
