# Verification of im-account-service

TLA+ modules for the account service of the messaging platform: who may act for
which end-user from which device, how access tokens come to be and end, and
what concurrent RPCs, lost sessions, deleted contacts and stale caches do to
that. TLC checks the modules on small instances, TLAPS proves the invariants for
every value of the constants. Paths below are those of the repository (`src/`).

## The system

The service (`cmd/server`) answers gRPC. An application (a client) sends an
identity it vouches for and gets an opaque access token for a *device session*;
the gateways of the platform then present that token, with the headers
`X-Webitel-Client` (application), `X-Webitel-Device` and `X-Webitel-Access`, to
learn whom a request is from. Webitel's own end-users present a token of the
Webitel authorization service instead.

| component | state it keeps | operations | hard behaviour |
|---|---|---|---|
| account service, `internal/handler/grpc/v1/account.go` | none between RPCs; a `Context` per RPC | Token, Logout, Inspect, RegisterDevice, UnregisterDevice, GetAuthorizations | no transaction spans an RPC: what it read is stale when it writes |
| authorization pipeline, `internal/handler/context.go`, `auth_*.go` | the `Context` | header checks; schemes: session token, JWT (accepts nothing), Webitel token | schemes with different ideas of a session |
| session store, `internal/store/postgres/sessions.go` | tables `session` and `session_token` | Search, Create, Update, Delete, RegisterDevice, UnregisterDevice: one SQL statement each | UNIQUE (device_id, contact_id); updates by id of rows that changed or are gone |
| access tokens, `internal/model/token.go` | none | Generate, Verify | dates and their zero values |
| contacts, `internal/handler/contacts.go`, `internal/client/contacts` | none; the contact service is external | Search, Upsert | contacts may be deleted and created anew with another id |
| Webitel inspection, `internal/client/webitel/auth` | a cache with a TTL of one minute | Inspect, onInvalidate | stale answers, late answers, concurrent fills, dates |
| contact identifiers, `internal/model/contact.go` | none | Equal on partial identifiers | not an equivalence |
| applications, `internal/handler/apps.go`, `internal/store/postgres/apps.go`, `internal/model/app.go` | table `app` | search, create (update and revoke are not implemented), NewIdentity | whom an application may vouch for; ids cut to 32 bits |
| datasets, `internal/model/dataset.go`, `internal/store/postgres/pgtypex` | a cursor, read row by row | pages of limit + 1, Get | the row after the page; streams that break; pages beside writers |
| field queries, `internal/graphql`, `pgtypex/datatype.go`, `internal/store/postgres/schema.go` | none | parse, expand, select columns and joins | lists changed while they are iterated; columns scanned by position; order of joins |
| devices and headers, `internal/model/device.go`, `headers.go` | none | GetDeviceAuthorization, RemoteAddr | which of several headers and lines counts |
| epoch time, contact names, `internal/model/epoch.go`, `contact_name.go` | none | conversions | resolutions, the zero date, blanks |
| resolver, `infra/discovery/resolver` | addresses of a service | Build, watch, update, Close | a goroutine that races Close |
| ring and subsets, `infra/transport` | a ring of hash points | add, remove, Set, Get, GetTwo, GetN | colliding points, wrap at 0 |
| configuration, `config` | the configuration | load, reload, validate | a reload while it is read |
| process, `cmd`, `infra/server/grpc`, `infra/pubsub`, `infra/db/pg`, `infra/tls` | fx's list of hooks, listener, router, pool | construct, start, serve, stop | the order of hooks; failures of each; a signal at any time |
| debugging of gRPC, `infra/x/grpcx` | a tag per connection and RPC | one handler per event | two goroutines report the events of one RPC; events that never came |
| migrations, other logging, errors, generated code | | | library objects, text |

How they interact: an RPC builds a context (pipeline), which asks the session
store, the application table, the contact service and the Webitel client, one
call after another; the operation then calls the session store again. RPCs share
nothing but those and the Webitel cache. Around them, fx builds and starts the
log, the server, the router of the broker, the pool and the registration, in
this order, and stops them in the reverse one.

Each component's correctness, in a sentence. A token acts for the contact, the
device and the application it was granted to, until a login replaces it or a
logout ends it, and never after (service, pipeline, store). Whoever a session
acts for was vouched for by an issuer its application trusts, and later requests
find that same contact (applications, contacts, identifiers). A revoked or
expired Webitel token is refused within the TTL (inspection). A page is the rows
asked for, Get is unambiguous, a walk beside insertions misses nothing
(datasets). What was asked for is what is selected and scanned (field queries).
A lookup on the ring ends and returns distinct members (ring); the addresses in
use are those last discovered (resolver). Settings in use were validated together
(configuration). While an instance is registered it can work, as long as `Serve`
does not fail, and it leaves nothing under way (process). Log entries are about the RPC they
name, and debugging leaves the process alive but in one case (grpcx). The hazards,
each at its line, are listed in `PROJECT.json`.

## Modules

| module | what it is |
|---|---|
| `AccountSessions` | the RPCs, the pipeline and the session store, call by call |
| `AccessGrants` | abstract: what the service promises about access tokens |
| `MCAccountSessions` | TLC: the symmetry of the instances |
| `AccountSessions_proofs` | theorems about `AccountSessions` |
| `WebitelTokens` | the inspection of Webitel tokens, its cache, the consumer of invalidations |
| `MCWebitelTokens` | TLC: the symmetry of the instances |
| `WebitelTokens_proofs` | theorems about `WebitelTokens` |
| `SubsetRing` | the subset of a service's instances taken on a ring of hash points |
| `MCSubsetRing` | TLC: the hash functions tried, the symmetry of the instances |
| `ServiceResolver` | the resolver of a service's addresses: Build, its goroutine, Close |
| `MCServiceResolver` | TLC: the instances, their addresses, their order on the ring |
| `ServiceResolver_proofs` | theorems about `ServiceResolver`, and about the ring of `SubsetRing` it takes its subset from |
| `Subsequences`, `Subsequences_proofs` | what is kept of a sequence when some of its positions are chosen; lemmas |
| `Datasets`, `Datasets_proofs` | a query and the cursor that reads it, Get, and walks of pages beside writers; theorems, also those about `SelectPlan` and `FieldArguments` |
| `ConfigReload` | the configuration, its watcher and the reload |
| `ServiceLifecycle`, `ServiceLifecycle_proofs` | the process around it: extends `ConfigReload` with the hooks, server, router, pool, registration, and RPCs; theorems |
| `Identities`, `Identities_proofs` | from the identity an application vouches for to the contact later requests act for; theorems |
| `MCIdentities` | TLC: identities, headers, settings |
| `FieldArguments` | the types of arguments, their values and defaults |
| `FieldSyntax` | text of a field query: parse, split, encode; extends `FieldArguments` |
| `FieldExpansion` | its expansion against metadata; extends `FieldSyntax` |
| `SelectPlan` | the columns, joins and scans of a SELECT, made of the fields of a request |
| `FieldQueries` | the request as a whole; extends `FieldExpansion` and `SelectPlan` |
| `MCFieldQueries` | TLC: the texts, the metadata, the tables |
| `DumpHandler`, `DumpHandler_proofs`, `MCDumpHandler` | what debugging of gRPC logs; theorems; TLC: symmetry |

### AccountSessions

`sessions` is the table `session` joined with `session_token` (one to one, by
cascade): `token = 0` is a session without token row. `contacts` is the external
contact service: per end-user whether a contact exists, and how many times one
was created (its id). `rpc[r]` is what the goroutine of slot `r` holds in its
`Context`: the request, the session it read (`hint`) and the contact that signs
in (`signIn`). `serial` numbers uuids and random tokens. `granted`, which `RecordGrant`
adds to, is a history variable that no code corresponds to.

One action is one call to the store or to the contact service with the
computation that follows it up to the next call:

| action | code |
|---|---|
| `Begin` | the RPC arrives; `AppAuthorization`, `DeviceAuthorization`, prefix of the access header |
| `AuthenticateSession`, `ResolveContact` | `SessionAuth`: the row of the token, the header check, the contact of the row |
| `AddWebitelContact`, `FindWebitelSession` | `WebitelAuth`: inspection (a choice, see `WebitelTokens`), upsert of the contact, the session of ( device + contact ) or a session without id made up |
| `AddContact`, `LookupSession`, `CreateSession`, `UpdateSession` | `GrantTokenForUserIdentity`; a lookup whose stream of rows breaks finds none or the first of several |
| `DeleteSession` | `Logout`, `SessionStore.Delete` |
| `RegisterDevice`, `UnregisterDevice` | the RPCs of that name and the statements they run |
| `Fail` | any error return, deadline, cancellation or stop of the process before the next call |
| `DeleteContact` | external |

Abstracted: one business account; names, user agents, metadata and scopes; the
grant's dates (`TokenGen` issues tokens without expiry, so `Verify` accepts each
stored one); the application row, which is never deleted by the code; the JWT
scheme, which refuses everything. `GetAuthorizations`, a query, is in `Datasets`.

### AccessGrants and the refinement

`AccessGrants` knows no sessions: a grant is a token for a contact at a device;
`Issue` adds one with a fresh token, possibly in place of one of the same
device; `Revoke` ends one. `ImplementsGrants` maps the rows that carry a token to
the live grants. It fails as soon as a write-back revives a token, changes its
contact without a new one, or ends two grants in one step.

### WebitelTokens

`cache` is the expirable LRU (external, without size limit); `call[c]` the local
variables of an `Inspect` in progress, between its calls: `Begin` takes the date
of the operation (`rpc.Date`), `Lookup` makes the request and asks the cache,
`Answer` is the service, `Receive` fills the cache and judges, `Fail` is an
error. `notices` are the published invalidations; `OnInvalidate` consumes one and,
as in the code, drops nothing. `account` is what the Webitel service knows.
`received` and the field `taken` are history. Time is a counter; one step is
shorter than the TTL.

### SubsetRing

One `Subset` after the other, as instances are discovered (`Join`) or are gone
(`Leave`). Each call builds a new ring, as the code does, so `Circle` is all of
`Set` and `Add`: who owns which point once all are added, the later instance
taking a shared point. `Locate` is `GetN` up to its loop, `Walk` one iteration,
with the code's indices from 0 (`index` is its `i`) and its comparison before the wrap. The hash
function is any of `Hashings`, chosen once: CRC32 of an instance and a replica's
number is a point of the ring like any other. `OwnPointAssumption` says that no
instance loses *all* of its points to others (160 of 2^32 each). If one did, `GetN`
would wait for an instance it counts and never meets, and from index 0 its loop
has no other end.

Not modelled: `Add` and `Remove` on a ring in use, `Get`, `GetTwo`, the lock. Nothing
calls them on a ring that is shared.

### ServiceResolver

| action | code |
|---|---|
| `GetWatcher` | external: the goroutine of `Build` gets its watcher, or an error, or neither |
| `BuildReturns`, `BuildTimesOut` | `Build`: the two cases of its select |
| `Check`, `NextReturns`, `NextFails`, `NextCancelled`, `Wake` | the loop of `watch`: the context, the call of `Next` and its outcomes, the second of sleep |
| `Update` | `update`: filter, subset, addresses, `UpdateState` |
| `Close`, `StopWatcher` | the two statements of `Close` |
| `Change` | external: the registry |

The registry, the watcher and the connection are external: `registry` and `news`
stand for what the watcher has to tell, `addrs` for the last state handed to the
connection. The subset is the first `SubsetSize` instances in the order of the ring
(what `GetN` of `SubsetRing` returns, `ResolverTakesTheNearest`). `UpdateState` may
fail, which the code logs and forgets; the model has the connection accept.
A watcher that arrives after `Build` gave up stays open: no code stops it, and
only its cancelled context can end what it holds.

### Datasets

`Query` is one statement: it takes `Matching`, the rows of that moment, and
`Result`, their window by `Offset` and `Fetched` (LIMIT size + 1). The rows then
arrive one by one (`ScanRow`), until there are no more (`Finish`), the stream
breaks (`StreamBreaks`: `rows.Err` is asked by nobody) or the call fails. `Get` is
`model.Get` over a page of one. `StartWalk`, `NextPage` and `Abandon` are a client of
`GetAuthorizations` or `SearchApps`. `Insert`, `Delete` and `Update` are other nodes of
the service: no statement has an ORDER BY, so a new version of a row may lie
anywhere. The planner is assumed to scan an unchanged table in the same order.

### ConfigReload and ServiceLifecycle

`loader` is LoadConfig, `watcher` the goroutine of viper: it decodes, validates and
then copies the new settings over the structure others read, field by field
(`copying`); `raced` is set when that overlaps with a read. No file may be named
(`NoConfigFile`), the file may not be read (`ReadFails`) or not decode (`DecodeFails`), each
of which ends the process; a change that does not decode is logged (`ChangeUndecoded`).
Of the settings two are
kept, the ones validation relates: whether to verify and whether there are
certificates. `Build`, `Start` and `Stop` are fx, one component or hook at a time, in
the order `RegisterAccountService` needs them; `Serve` and `RouterRuns` are the
goroutines the hooks start; `ServeFails` and a router that cannot subscribe are
their failures; `Signal` and `Killed` the signal, after and before `signal.Notify`.
RPCs arrive, take connections of the pool and are answered or fail, or are dropped
with their connection before they are accepted. `advert` is
the registry, external: `Expire` ends what a killed process left there.

### Identities

RPCs one at a time, over what `AccountSessions` abstracts: `CreateApp`, `Login` with
`NewIdentity`, the conversions to and from the contact service (names, dates,
claims and metadata, 32-bit domains), the session's contact compared by `Equal` on
partial identifiers, `AuthorizeSession` with the answer of Inspect, the address out
of the headers. `last.answer` is what the client was told: the contact with its claims,
name and date, from Inspect with its metadata (Token answers none, `account.go:154`),
and the address. The contact service is external: it knows a contact by domain,
issuer and subject.

### FieldArguments, FieldSyntax, FieldExpansion, SelectPlan, FieldQueries

Texts are sequences of tokens: words, blanks, commas, brackets, quotes, the escape.
`FieldSyntax` has the parser, the splitter and the
encoder, `FieldExpansion` wildcards and defaults, as recursive operators.
`FieldArguments` is what the types of arguments make of what is given
(`SizeValue`, `PageValue`, `SortValue`) and what `InputArgs.Add` and `Parse` make of
a list of arguments (`DefaultOf`, `ParseArgs`); it has no recursion.

`SelectPlan` is `DataType.Columns` and `JoinDeps`, whose recursion is kept as what it is
at run time: `calls` is the stack of calls of `Columns` in progress, each with the fields
it was called with, the one it is at and the plan it has made, and `join` what `resolve`
has to look at yet and what it has found. A name that is taken is passed over (`Skip`);
another is taken and what it comes from is joined (`Take`, `Resolve`, `DepsJoined`), before
it becomes a column (`SelectColumn`), or calls `Columns` for what it needs (`Nest`), which
returns its plan to be appended (`Return`). The names taken belong to the SELECT, not to
a call: this is what a caller reads before the inner call and uses after it.

`FieldQueries` is the request step by step: parse, expand, and the SELECT of what that
gave, with the filters last. The schema is that of `schema.go` (`SessionFields`,
`SessionDeps`); the run adds a calculation that needs another, and tables that need others.

### DumpHandler

With `WBTL_LOG_DEBUG=grpc` every event of a connection or RPC comes to
`infra/x/grpcx/handler.go`, which keeps it in a tag. One action per kind of event
(headers, payloads, end; client and server), in the orders grpc-go has, which is
external: for a client the goroutine that reads the transport may report before
the caller does. A call may fail until its header has gone out (`NewStream`), with a
connection picked or without, which is one to the handler: it has seen the begin only.
Trailers are left out, no entry reads them, and so are events
before an RPC has its tag.

## Runs

Two RPCs or calls at a time unless said otherwise. An action that would exceed a
bound is not taken; no property needs it to be.

| run | instance | states | shows |
|---|---|---|---|
| `concurrent` | 1 application, 2 devices, an end-user of it and one of Webitel; Token, Logout, RegisterDevice; failing lookups | 1 366 000 | `TokenNamesItsGrantee`, `TokenWorksViaItsApp`, `PushStaysOnDevice`, `ImplementsGrants` |
| `rotation` | 2 applications, 1 device, 2 end-users; Token, Logout; failing lookups | 1 230 000 | `TokenWorksViaItsApp`, `ActsAsGrantee`, `DeadTokensStayDead`, `LogoutIsFinal`, `HandoverRotatesToken` |
| `sequential` | one RPC at a time, every operation, 2 applications at 1 device, contacts deleted and created anew | 1 683 000 | `OneSessionPerAppDevice` |
| `two_logins` | two logins at once at one device | | ends in a violation of `LoginNeverLocked` |
| `webitel_tokens` | 2 calls, 1 token, expiry never or at 3, TTL 2 | 823 000 | `RevocationHonoured`, `ExpiredRefused` |
| `subset` | 4 instances on 6 points, 2 selected; each with a point of its own and two of them with up to one more, anywhere | 412 000 | `ResultIsNearest`, `WalkEndsInARound`, `SubsetStable` |
| `resolver` | 5 instances, two at one address and one without, 2 selected; 3 changes of the registry, 1 error | 40 000 | `AddressesDistinct`, `CloseStopsUpdates`, `GoroutinesEnd`, `AddressesCatchUp` |
| `pages` | 1 client, tables of up to 3 rows, 2 filters, pages of 1, 2 or all; at most 1 write, at any step | 269 000 | `PageIsExact`, `GetIsExact`, `InsertsHideNothing`, `DeletesRepeatNothing`, `WalkEnds` |
| `lifecycle` | 2 RPCs of one query each for 1 connection, 1 edit of the file, every failure, a signal at any time | 710 000 | `SettingsAreValid`, `AdvertisedIsServing`, `FailuresMeanShutdown`, `ExitIsClean`, `HooksEnd` |
| `identities` | 2 applications, 3 business accounts, 7 identities (3 acceptable), 4 sets of headers, 2 contacts | 161 000 | `VouchedOnly`, `SignsInTheVouched`, `SessionResolves`, `AccountsApart`, `AnswersAreTrue` |
| `fields` | every text of up to 4 tokens of small alphabets, requests of two texts, encoded trees of two levels, the request the store always makes; 4 syntaxes | 207 000 | `ReadIsExact`, `ExpansionIsExact`, `SelectIsExact`, `JoinsFollowLeft` |
| `dump` | 2 RPCs, served or called, 2 connections, every failure, 3 levels | 1 581 000 | `PanicsOnlyUnconnected`, `LogIsTrue` |

Some of these are conjunctions of named properties, each commented at its definition:

| property | what it asks for |
|---|---|
| `AnswersAreTrue` | `ProfileComesBack`, `NamesAreClean`, `DatesComeBack`, `AddressIsClients` |
| `ReadIsExact` | `ParseIsExact`, `SplitIsExact` |
| `ExpansionIsExact` | `FieldsAreSets`, `ExpandedIsKnown`, `AskedIsKept`, `ExpansionSettles` |
| `SelectIsExact` | `PlanMatchesColumns`, `CalcsFollowNeeds` |
| `LogIsTrue` | `EntriesNameTheirOwn`, `TimesWithinCall`, `EndsAreLogged` |
| `SettingsAreValid` | `ConfigSettles`, `TLSIsValid` |
| `HooksEnd` | `StartEnds`, `StopEnds` |
| `GoroutinesEnd` | `BuildEnds`, `WatchEnds` |

The type invariants, the other inductive invariants, `TokensAreUnique` and `ScansOK` are
proved and in no cfg; TLC finds them to hold on the instances above as well.

Bounds. `MaxSerial` bounds uuids and tokens (2: a login and one more, enough for a
token to be replaced or a second session to appear; 3: a replaced token, its
successor and another session), `MaxContactId` the creations of one contact (2:
deleted and created anew), `MaxTime` the dates (5: twice the TTL and a step). On
six points every kind of walk occurs: from index 0, across the end of the ring,
past points of instances met before, over shared points. Three changes of the
registry with one error suffice for a change while the goroutine updates, one while
it sleeps, and one more. Three rows in pages of one make walks of three pages with
the write before, within and after each. One connection for two RPCs is the
smallest pool that can run out. Domains of 4 bits and a second of 3 milliseconds
stand for 32 bits and 1000: 25 is a number that does not fit.

Deadlock is checked except in `resolver` (a closed resolver, or a quiet registry,
has nothing left to do), `lifecycle` (the process ends), `fields` (the request is
answered) and `dump` (all RPCs have ended).

### Where a property is weaker than one might expect

There the code is, or a library; each exception names just what it excepts.

- `RevocationHonoured` allows the TTL *after the last receipt*, and the receipt may
  come long after the answer, since `Receive` adds to the cache whatever arrives.
- `OneSessionPerAppDevice` is about one RPC at a time, without Webitel end-users and
  failing lookups: with any of them the code makes a second session (`two_logins` shows
  how). It is checked, not proved, and says nothing of the concurrent service.
- `TokenWorksViaItsApp` excepts the token of a login that presented a Webitel token:
  RegisterDevice stores a session for a Webitel end-user, and the hint of such a login
  may be a session of another application, whose `app_id` `Update` leaves alone.
- `PushStaysOnDevice` is about devices: whose session it is by the time a registration
  reaches it, or whether it is still there, is another matter (below).
- `UnregisterDevice` is in `sequential` only: with it `concurrent` is three times as large.
- A login at a session that is there is answered with the address of an earlier
  login, and writes it back (`account.go:1216`): `AddressIsClients` is about first
  logins and Inspect. Of several `X-Forwarded-For` lines the last counts. Token answers
  with no metadata (`account.go:154`), so `ProfileComesBack` asks for it of Inspect only.
- `AccountsApart` is about business account ids that fit into 32 bits.
- `ProfileComesBack`: metadata named like a claim becomes the claim; a text that reads
  as JSON becomes what it reads as, and null becomes the text "null".
- `PageIsExact`, `GetIsExact`: not after a stream that broke, which nobody notices.
  `InsertsHideNothing`, `DeletesRepeatNothing`: walks by offset promise nothing when
  both happen, or when rows are updated.
- `StartEnds`: when the router cannot subscribe, `Running` is never closed and Start
  waits for ever (`providers.go:376`).
- `FailuresMeanShutdown`, `ExitIsClean`: an RPC between two queries fails when the pool is closed
  under it, before the server is asked to stop. An error of `Serve` is logged only,
  and the instance stays registered (`server = "broken"` in `AdvertisedIsServing`): then
  nobody is told. A `Deregister` that fails leaves a stale entry behind an exit.
- `TLSIsValid`: not when the reload copied the settings while the certificates were
  read. After construction nothing reads the configuration, so a reload that
  succeeds changes nothing that runs.
- `FieldsAreSets`: where `*` leaves nothing to add, the metadata's own defaults are
  added, asked for or not (`metadata.go:121`), although the type says SET (`query.go:16`).
  A request `name,list,id,*` with the defaults `name,list` has `id` twice; the run has it.
- `SplitIsExact`: the parser ends an argument at the next parenthesis, the splitter
  knows brackets, quotes and escapes. `id.page('),name` is parsed as two fields and split
  as one, and so may be whatever argument has one of these signs: `ReadOtherwise`.
- `ExpansionSettles`: not with a list to sort by that has commas and blanks only.
  `JoinsFollowLeft`: tables needed by two others may be joined too early; no table of
  `schema.go` needs another.
- `PlanMatchesColumns` goes up to the first record: a record is one scan for several
  columns, and a column whose name is taken is left out of it (`datatype.go:62`). The
  SELECT of the repository has the record of a token (`schema.go:166`): 16 columns and
  11 scans. Its rows could not be read that way; `SearchV2`, its only user, is called by
  nothing.
- `PanicsOnlyUnconnected`: an RPC to another service that fails before its header went
  out, with a connection picked or without, takes the process down when its end is
  logged (`handler.go:923`).
- `TimesWithinCall`: a failed RPC logs durations counted from the year one.

### The violation, and what was seen beside it

`two_logins`: two first logins at one device find no session and create two; later
logins there are refused. `PROJECT.json` quotes the line that says otherwise.

None of what is under `internal/graphql`, `pgtypex/datatype.go` and `SearchV2` is reached by
an RPC at this commit. `fields` checks it as a library: what is said of it above are
errors of that library, not of answers the service gives.

Modelled as the code does it and stated by no run:

- one end-user who signs in at one device through two applications is locked out
  without any concurrency: the second login finds no session of its application,
  creates one, and UNIQUE (device_id, contact_id) refuses it, as `account.go:936` says
  (`LoginNeverLocked` in `sequential` shows it);
- a registration beside a logout is answered OK and stored nowhere: the check of the
  rows affected is commented out (`sessions.go:699`; `RegisteredReceivesPush` in
  `AccountSessions` says what would be expected);
- a login with a Webitel token and no session yet is sent to update a session with
  an empty id, and fails (`account.go:973`, `auth_webitel.go:149`; `HintLocatesSession`);
- `checkDateIsZero` holds for every date after 1970, so the date given to Inspect is
  ignored (`inspect.go:87`; `InspectsAtGivenDate` in `WebitelTokens`);
- all instances are gone: the branch that says it refuses to write only logs, and
  the connection loses its addresses (`resolver.go:80`; `EmptyRefused` in
  `ServiceResolver`);
- `UnregisterDevice` clears the PUSH token of the caller's session alone, also when
  the device has more (`account.go:429`); a registration may reach a session that was
  handed to another contact since it was authorized (`account.go:409`);
- an edit of the profile during a request makes the answer newer than its date and
  the token "not active" (`inspect.go:115`);
- the client id of a header finds its application's row in any spelling of the uuid,
  but is then compared as text and refused (`auth_app.go:45`); a common name of
  blanks is accepted as a name (`contact_name.go:68`);
- a signal before `signal.Notify` kills the process and leaves its registration;
- all nodes consume from one queue, so an invalidation reaches one node's cache
  only, and that node drops nothing (`updates.go:27`).

The five properties named in this list can be put into a cfg to see the
counterexample. Found while reading, not modelled: the answers of Inspect and of
`GetAuthorizations` fill `Tablet` with `Mobile` (`account.go:646`, `685`, `793`);
`methodConfig` of the client's service config names no method, which makes grpc-go
skip it (`client_grpc.go:23`); `fields_test.go:37` expects arguments as typed values,
where the parser keeps their text.

Each property of a passing run has a mutant of the code that breaks it: a device
or application check forgotten, a lookup for one end-user only, a token that is not
rotated, a stale write-back, an answer that is cached again, dates not checked, a
selector key drawn at every update, a walk that is never content, a row too many on
a page, hooks in another order, a close that waits, an issuer that is not compared,
a bracket closed by the last sign, an id given twice, a lookup that asks for the
device alone.

### Fairness

`AccountSessions`, `WebitelTokens`, `SubsetRing`, `Identities`, `FieldQueries` with `SelectPlan`, and
`DumpHandler` assume none: their properties are safety properties, and an RPC may stop at any
step. `ServiceResolver` assumes weak fairness of the goroutines' own steps (the Go
scheduler runs them), of the timers of `Build` and of the sleep, of a watcher
that has something to tell and of `Next` honouring its cancelled context, which is
what the registry's interface asks of it. It assumes nothing of `GetWatcher`, which
may never return, of `Close`, which may never be called, of errors, or of the
registry. No errors come after the first `MaxErrors`: were `Next` to fail for ever,
the addresses could not catch up. `Datasets` assumes that rows arrive, or the
connection ends, and that a client that walks goes on; writers come to an end
(`MaxChanges`). `ServiceLifecycle` assumes weak fairness of fx (`Start`, `Stop`), of the
goroutines `Serve` and `RouterRuns`, and of handlers; none of signals, failures,
edits, or new RPCs. Nothing in the code has a deadline there, so what ends does
so because nobody waits in a circle.

## Proofs

For any sets of RPCs, devices, applications and so on, and any bounds, `*_proofs`
prove:

| module | proved | left to TLC |
|---|---|---|
| `AccountSessions` | all its properties but one, and the refinement of `AccessGrants` | `OneSessionPerAppDevice`, in `sequential` |
| `WebitelTokens` | both its properties | |
| `ServiceResolver` | `CloseStopsUpdates`, `AddressesDistinct` | `AddressesCatchUp`, `GoroutinesEnd` |
| `Datasets` | `PageIsExact`, `ScansOK`, `GetIsExact`, `InsertsHideNothing`, `DeletesRepeatNothing` | `WalkEnds` |
| `ServiceLifecycle` | `AdvertisedIsServing`, `FailuresMeanShutdown`, `ExitIsClean`, `SettingsAreValid` | `HooksEnd` |
| `Identities` | all its properties | |
| `DumpHandler` | `PanicsOnlyUnconnected`, `LogIsTrue` | |
| `SubsetRing` | all its properties | |
| `SelectPlan` | `SelectIsExact`, `JoinsFollowLeft` | |
| `FieldQueries` | of what is expanded, the arguments of a field: `ArgumentsSettle` | `ReadIsExact`, `ExpansionIsExact` |

Each rests on an inductive invariant, of which TLC found no counterexample on the
instances of the runs before it was proved, and there is one lemma per action.

Assumed of the constants is what the named ASSUMEs of each module say: bounds are
natural numbers, `None` is none of the values it stands beside, `Ops` is a set of
the operations, `Identities` and `WebitelUsers` are disjoint, the order of the ring
has every instance once, what is vouched for is texts and flags. `ProxiesAssumption` says
of the proxies, which are external, that on their way a request's headers name its
client or nobody, and that the peer is the client where none does; several lines of
`X-Forwarded-For` are free of it, as is the answer about them. `PowerAssumption` of `Identities` states two facts of powers
of two, which the provers do not know. No theorem
that states a property of a run has a hypothesis of its own; what a property excepts is in its definition, and above.

`AccountSessions`. `TokenNamesItsGrantee` is not inductive: `UpdateSession` gives a
row a fresh token *and* the contact of the login, so it must record exactly that
grant (`RecordGrant`), for a device that is the row's: `UpdateTarget` compares the
device of the session the RPC holds, which must be the device of its request
(`ContextOK`). `RegisterDevice` inserts a session the RPC holds, which must carry no
token when it is not stored (`ContextOK` again). `ActsAsGrantee` needs
`TokenNamesItsGrantee` at the one moment the row is read, and later only that
`granted` grows: whatever becomes of the row, the RPC goes on with what it read.
Freshness is `SerialsOK`. The rest is about what an RPC holds of a row while others
change it (`RowsOK`): ids name one row each, and a row an RPC has read, if it is
still there, is of the device and application that were read. So each step changes
the rows in one of a few ways (`TableStep`), and of each way it is shown
that it brings no token and no session back and rotates the token of whoever takes
a session over, and which step of `AccessGrants` it is. The refinement needs that
the counters stay within their bounds, too (`BoundsOK`). `AppsOK` follows the
application of a token through the contexts: but for a login that presented a Webitel
token, what a login holds is a session of its own application.

`WebitelTokens`. `AnswerOK` is the core: an answer, in the cache or on its way, was
given in the past, before the revocation if there was one, and names the expiry of
the token.

`ServiceResolver`. An update after `Close` leads back to the head of the loop, where
the context is cancelled by then, so no second one follows (`ClosedOK`). The registry
may list an address twice; `filterEndpoints` keeps the first of each (`FilteredApart`),
and the part of the ring that is taken has each instance once (`OnRingOnce`).

`SubsetRing`. The points in use are in ascending order, each once (`SortedIs`), so from the
first past the key on, a round meets each of them once and further from the key at
every step (`RoundIs`). `Seen` says of a walk: whom it met is in the result, the nearest first,
and everybody else is further than the walk has come. After a round everybody has been
met (`SeenAll`), so `Enough` ends the loop before it returns to where it began.
`SubsetStable` compares two rings, of which the model keeps one: where instances share no
points, the result is told by the hash function and the list alone (`Selected`), which is
kept of the call before. `ResolverTakesTheNearest` joins the two models: where instances
share no points and `RingOrder` is their order on the ring, the subset `ServiceResolver`
takes is the one `GetN` returns (whose k-th instance is the k-th on the ring, once those
before agree: `ChosenIsOnRing`). TLC finds it false with shared points: who keeps one
depends on who else is there, of which `RingOrder` knows nothing. `OwnPointAssumption` is what makes the count of `Enough` right:
every instance is on the ring. The proofs are in `ServiceResolver_proofs`, which extends
both modules.

`Subsequences`. `filterEndpoints` and the part of the ring that the resolver takes, the
points in use of `SubsetRing`, `Matching` in `Datasets` and `Words` in `Identities` keep some
positions of a sequence, with the recursive function `Kept`. What it returns is proved
by induction over numbers (`InductionUpTo`): a statement about `0..n`, given as the set of the numbers
it holds for, follows from the well-foundedness of the strict subsets of a finite set,
which the library states without an operator parameter.

`Datasets`. What a page holds depends on the rows the statement saw, which no writer
changes (`reader[c].all`); the invariant says, of every reader, what `Result` is of
`all` and what `data` is of the rows read so far. A walk (`WInv`) is tied to the table: the
rows not yet given that were there at its start lie, in the table, at or after
the offset of the next page, as long as rows were only inserted (`RestAhead`), and the
rows given before it, as long as rows were only deleted (`GivenBehind`). A page
that is being read has the same of the rows its statement saw. An insert or a delete
moves rows to one side of the offset only (`RestStaysAhead`, `GivenStaysBehind`).

`ServiceLifecycle`. The invariant ties each part to the number of hooks started: a part
runs exactly when its hook has started and has not been stopped. For the settings
(`CInv`) it follows the copy field by field, and what it left where the certificates
read it.

`Identities`. A login keeps whom the session was for, or signs in what `NewIdentity`
accepted. `JInv` ties the identifier a session has to the contact it was made of, with
the bits of the domain that the contact service keeps. A contact is what was vouched
for, converted (`ContactOK`), and each conversion has a lemma of what comes back
(`VouchedComesBack`, `CommonNameIsClean`, `TimeOfDate`, `RemoteAddrIsClients`). An answer
(`AnswerOK`) has the address of its request unless the session was there before:
there was nobody before exactly when there was no session (`SignInIsSaved`).

`DumpHandler`. `HInv` says, for each point in the life of an RPC, what its tag has
(`StageOK`), in which order the times follow each other (`TimesOK`), and which entries were
written by then (`LoggedOK`); a tag keeps the id it got, and no other has it (`TagsApart`).
The two goroutines of a call meet in `ReadHeaderKeeps`: what the reader writes into the
tag is none of what the caller has still to write.

`SelectPlan`. The theorems are about any fields a client may ask for: `PlanSpec` begins
with whatever it likes, and a step of `FieldQueries` is one of `PlanSpec` or leaves its
variables alone. A caller appends what the inner call returned, so the plan of
everything is in no variable while `Columns` is at work. The invariant (`CallsInv`, in
`PlanInv`) is about the stack. Each call but the last is at the field the next one is
called for (`FramesOK`). The scans of the calls lie one after another in the columns that
were selected, up to marks the invariant says exist (`MarksOK`). A calculation in a plan
comes after those it needs, which are in its own plan or in one below (`PlansOK`). A
calculation whose name is taken is planned already or being made by a call in progress
(`TakenOK`). And what a calculation needs is taken as far as its call has come
(`NeedsOK`). A name that is taken is skipped without being scanned, which is
right when its own call has returned, and wrong while that is in progress below: then
it would need itself. `NotInACircle` is that argument, and all that `NeedsAssumption` is
assumed for. `JoinDeps` joins what it found from the last to the first, which is the
order asked for while each table is needed by one other: `FoundOK` says where the left
of a table found is (to be resolved yet, joined, found later, or needed twice), and
`TwiceGrows` that a table needed twice remains so. `SchemaAssumption`, `RowsAssumption` and
`NeedsAssumption` say of the schema what `schema.go` has: the columns of a record are
plain columns with no name of a calculation, and calculations need fields of the table,
not each other in a circle. With one, `Columns` still returns, and a calculation would
run before what it needs.

`FieldArguments`. `ArgumentsSettle` is about arguments as `InputArgs.Add` registers them
(`Registered`): of a type of `ArgumentTypes`, with a default that is a value of that
type, if any. Each type has a lemma (`SizeSettles`, `PageSettles`, `SortSettles`) that what it
makes of a value is `Usable` and that it makes the same of that again. The exception
is an empty list to sort by: a text of commas and blanks gives one, and the list, given, gives
the default (`list.go:245`). That words taken out of a text have no comma or blank
left, and are all of a text without either, is `WordsStay`, from the lemmas about `Kept`. The maximum
of a size and the default of a page are taken to be natural numbers; the words of a default
to sort by have no comma and no blank.

Only model-checked: liveness (`ServiceResolver`, `Datasets`, `ServiceLifecycle`), which is
out of the prover's reach; and the parser and the expansion of `FieldQueries`, whose
operators are recursive over texts and trees: what they compute for every text would
be proved by induction over data.

## Not modelled

- Generated code: the `.pb.go` files, almost half of the lines of Go.
- `internal/errors`, the loggers but for the handler of gRPC's events, the profiler
  of the database: text.
- `cmd/migrate` and the version command: goose runs the migrations, outside of the
  service. The schema they leave is in `AccountSessions` and `Datasets`.
- Codecs of single columns, quoting of SQL, the text form of contacts and
  addresses: conversions of a library or of one line.
- The JWT scheme, which refuses everything (`auth_jwt.go:23`); `AccessToken.Verify`:
  no token the service issues has a date that could refuse it.
- `Add` and `Remove` on a ring in use, `Get`, `GetTwo`; `Device.FromAddr`; Bool inputs and
  the hook for unknown fields: called by nothing.
- Retries of the clients, delivery of the broker: the libraries'.

## What is left

1. `GetAuthorizations` as a reader inside `AccountSessions`, with the error it
   overwrites (`account.go:580`).
2. Two nodes of the service with a cache each in `WebitelTokens`.
