# Verification of go-platform

TLA+ models of the Go library `go-platform`, the TLC runs that check them on
small instances, and TLAPS proofs for all instances. Paths such as
`lib/pgtx/pgtx.go` are those of the repository.

## The system

A process built on the library serves `/api/v2` for a set of modules. Requests
come from the gateway over HTTP; every request is one database transaction; a
WebSocket to the gateway announces the process, its prefixes and its load.

| Part | State it keeps | Operations | Talks to | Correct when |
|---|---|---|---|---|
| host (`module.go`), `lib/auth/jwt` | the mux, the in-flight count | `New`, `Prefixes`, `OpenPrefixes`, `ServeHTTP` | the gateway (prefixes), handlers (session) | announced prefixes are taken; a route only sees a verified caller; the client cannot choose its address; every answer is the host's or a route's |
| request transaction (`lib/pgtx`) | one transaction per request, the pool, one title cache | `Do`, `doDaemon`, `explain`, `journalRefusal`, `salvage` | PostgreSQL through pgx | the answer tells what is durable; the audit row stands or falls with the work; sessions and connections do not leak |
| REST form (`lib/rest`, `lib/entity`, packages) | the idempotency store; rows in the database | get, create, update, action, run, delete, grant; `Once` | `Do` | answers describe the call's own effect; conditions were true; a replay is the caller's own |
| lists (`lib/query`, `lib/entity`) and the packages' own handlers (`admin`, `object`, `current`, `workflow`, `registry`, `verification`, `notification`, `log`, `observer`, `error`, `kladr`) | parts of a row or of the session, in the database | count and page; IP tables, memberships, files, codes, values, `/me` | `Do` | a list is what was asked for and adds up; a success changed all it was to change, a problem nothing; nothing is taken twice |
| control connection (`lib/gatewayclient`: `Run`, `Drain`, session) | state, registration, drain channel, session | `Run`, `Drain`, register, heartbeat, drain, `/reload` | the gateway | a drain spares requests and ends; silence is noticed; no reload is lost |
| load announcements (`Load`, `SetOverloaded`, `syncStatus`) | the count, the capacity, the flag, `session.said` | `Add`, `watch`, `syncStatus`, `/reload` | the gateway (`/status`) | the gateway ends on the current flag; nothing follows draining |
| gateway's double (`internal/gatewaystub`), `lib/gateway/frame` | the current connection, close codes, registrations; per connection a reader, a timer, a watcher | handshake, `serve`, `close`, `watchHeartbeat`, `Kick`, `Replace` | `lib/gatewayclient` | one close code per connection, with its cause; no connection is kept for ever; a frame is read as it was sent |
| description (`lib/openapi`, `lib/entity/openapi.go`) | none: a document is built from the modules | `Operations`, `Build`, `Gaps` | the mux | the document describes the routes that are there |
| `lib/problem`, route tables of the packages | none | translation, formatting, routing tables | | |

What is hard to test in it: statements that fail, or whose answer is lost, at
every point of a transaction; a client that hangs up anywhere; a pool with no
connection left while each request wants a second one; goroutines of the
gateway client (Run, watcher, reader, handlers, callers of Drain) that meet in
any order over sockets that end at any moment; a gateway that stays connected
and silent; overlapping calls under one idempotency key or one row.
`PROJECT.json` lists these hazards with their lines and the properties that
watch them.

## Modules

| Module | Models |
|---|---|
| `RequestTx` | `Runner.Do` and `Runner.doDaemon`, one action per statement sent to the database, for several requests over one pool |
| `RequestContract` | the abstract promise: one durable decision per request, then one answer that tells it |
| `RequestTxInv` | the inductive invariants of `RequestTx` |
| `RequestTxProofs` | the theorems about `RequestTx` |
| `StatusSync` | `Load`, its watcher, `SetOverloaded`, `syncStatus`, `runSession` as far as `State` and `said` go, the draining announcement, the capacity and the handlers of `/reload` that change it |
| `ControlPlane` | `Run`, `runSession`, `session.loop`, `session.drain`, `Client.drain`, the handler of `/reload`, the reader's end |
| `EntityRest` | the handlers of `lib/rest` and `lib/entity` (and `admin`'s and `object`'s made the same way), `Once` and its store, `If-Match` |
| `PackageRest` | extends `EntityRest`: lists and their parameters, and the handlers of the packages that make several calls in one transaction |
| `Host` | `New`, `Prefixes`, `OpenPrefixes`, `ServeHTTP`, `clientAddr`, `Keyring.Verify`, the gateway's check of the prefixes |
| `OpenApi` | extends `Host`: the routes an entity mounts and describes, `Build`, `Gaps` |
| `Frames` | `Parse`, `Encode` and the makers of frames |
| `GatewayStub` | extends `Frames`: the connections of `internal/gatewaystub` |
| `StatusSyncProofs`, `ControlPlaneProofs`, `EntityRestProofs`, `PackageRestProofs`, `HostProofs`, `OpenApiProofs` | the inductive invariants and the theorems of the module each is named after |
| `GatewayStubProofs` | the theorems of `Frames` and of `GatewayStub` |
| `MC*` | the same modules with the constants of the small instances |

`EntityRest` stands on the contract of `RequestTx`: its `Commit` and `DoFails`
are the outcomes `RequestContract` leaves to a caller. `StatusSync` and
`ControlPlane` are two views of one client: the first has the `/status` traffic
and the capacity, and treats a session as connecting, registered, draining or
gone; the second has the whole life of the connection and leaves `overloaded`
out.

### RequestTx

`pc[r]` is the place of request `r` in `Do`; `tx[r]` the transaction as the
database sees it (`active`, `aborted`, `lost`), `work[r]` and `line[r]` what it
holds uncommitted, `done`, `rows`, `row` what is committed. `pool` and `sess`
are the connections and the session context on each. One action is one
statement with all its outcomes: it works, it raises (the transaction is
aborted), the connection is lost, or its context is already cancelled
(`HangUp` may come at any time). Statements under `journalCtx` are not
cancelled by the client. A handler may fail with any kind `classify` knows, or
swallow an error of its own and return nil over an aborted transaction.
`explain` may need a second connection of the pool while the first is still
held: `LookupStart`, `LookupDone`, `LookupTimeout`. `Commit` may work, be
refused, or happen without its acknowledgement (`doubt`). `FeatureSets` says
what `Detect` may have found: the daemon road, or the direct road with and
without the journal and `authorize_local`.

The database and pgx are outside the repository (`Works`, `Failures`,
`Durable`, `CommitUndone`, `CommitInDoubt`): their part is what the code relies
on. The history variable `fault` says that the journal's own means failed. It is
also set when the commit of a success is refused, for a deferred constraint too:
its row goes with the work (pgtx.go:479-484), and `RefusalIsJournalled` says
nothing of such a refusal.

### StatusSync

`Add` is two steps, the count and the marks; `wake` is the channel of one;
`lock` is `statusMu`, held across the call. `capacity` is loaded anew by every
`Add` and by the watcher (`LoadCapacity`, then the count), and a `/reload` may
change it at any time: each frame has a handler of its own, which may outlive
its session, writes the capacity (`Reload`) and then closes the session its
frame came on (`ReloadCloses`). The session goroutine publishes itself, marks
`said`, sets the state and syncs, as four steps, because a watcher may come
between any two. `RunState` is what `Run` does with the state when a session is
over: `Offline`, or nothing when its context is done (client.go:234-235), so that
a process that stops may keep `Ready`.

Two exceptions are part of `GatewayKnowsTheLoad`, and a run of their own,
`status_said`, shows that the code reaches both. `slipped` records the sessions
on which a `/status` went out before `said` was set (session.go:117 runs under no
lock): there the comment on `statusMu` ("what the gateway last heard is then
session.said") does not hold. `stale` is the session whose handler changed the
capacity after the last registration had woken the watcher: while it is an
earlier one, nothing wakes the watcher before the next `Add` that crosses a
mark, and the gateway holds the old capacity.

### ControlPlane

`rpc` is where `Run` is. `pend` is the answer to the one call `Run` makes at a
time; the gateway reads `inbox` in order, so a late answer finds no pending
call: that is how `session.call` works, which deletes the id of a call it gave
up, and it is built into the model and not a property of it. `sock` ends once,
with the reason `endError` translates. `reg` is `Client.reg`, `snap` the copy a
session registers. `cycle` numbers the channel `Client.drained`.
`DrainAbandoned` is a caller whose own context ends: its request stays in
`drainCh`. `row` counts the 1001s that really came in a row.

One handler of `/reload` runs at a time here; the code starts one for every
frame (session.go:281), as `StatusSync` has it. `NothingInFlight` is of a client
that has a `Load` or an `InFlight` hook; one with neither counts no requests
(client.go:192-201), and its drain waits for none. A request to drain that a
caller left in `drainCh` is found by the next `Run`, which drains at once. The
code is so, no text of the repository promises otherwise, and no property
forbids it: `DrainedClosedOnce` only says that the channel survives it, and
`control_live` has one `Run`.

### EntityRest

One action is one `api.*` call inside a handler's transaction; a read sees what
is committed by then, a write holds the row to the end of its transaction
(READ COMMITTED). `Lookup` and `Store` are the two halves of `Once`. `lived`,
`effect`, `doubt`, `owed`, `ran`, `lapsed` are history. A run that drops its own
row reads 404 and is undone; an action answers 204. A grant's mask is bounded by
six bits or by ten (`max`), and cast to as many by the database (`Cast`).

`If-Match` is compared with a row that is read without a lock.
`ConditionsWereTrue` therefore asks only that the tag was true at some moment of
the call, which is what such a comparison can promise; that of two PATCHes with
one tag only one is accepted, as the comment on `IfMatch` and the README of the
repository have it, is `OneWritePerTag`, and `rest_guards` refutes it. In the
same way `AnsweredKeyIsNotRunAgain` is about keys that have been answered; two
calls under one key that overlap are `OncePerKey`'s.

### PackageRest

`Script` gives each handler the `api.*` calls of its transaction in the code's
order; `todo` is what is left of them, and one action is one call. A part of a
row or of a user's session (`Cells`) is worth the call that wrote it last.
`mine` is what a transaction has written: its own reads see it, another writer
of the same part waits for its end. That every part has a lock of its own is
what PostgreSQL gives a row that is updated (`Held`, `Now`, external); the
bodies of the `api.*` functions are in db-platform. `Close` is the commit, with
the outcomes of `RequestContract`; `CallFails` a call that raises or fails. The
rows of a list come and go by the calls of `EntityRest` (`RowStep`).

`OfARow`, `OfASession`, `OfAClass` and `OfRows` group the handlers by what
their request names; `Given` is a field of `PATCH /me` that is set only when it
is in the body.

A list parameter is its kind, whether its text is well formed, its number, and
the rows the client means by it. A repeated parameter counts by its last value,
so a request has one of each kind, except filters; the condition
`filter[x][null]` with any text but `true` selects what is not null, and its
rows are those.

### Host

`announced` and the sets `Prefixes` and `OpenPrefixes` return are sets of places
in `Claimed`, the concatenated manifests, so that one prefix claimed twice is
two. `Blank` is the empty segment. A path is a sequence of segments, an address
a model value, and a token a record of what `Verify` looks at. `ForwardedChain`
is what arrives: the client's own header followed by what each hop appended (a
hop may hide its sender). The header is a chain without its blank elements, which
`forwardedChain` drops wherever they stand (module.go:324); no hop appends a blank
one. A client may be no address (`None`), as a `RemoteAddr` that does not parse.
One composition mounts a path with nothing but a PUT, and is asked for it with
GET and PUT. `MuxServes` is what `net/http.ServeMux` does by
itself. `PatternAssumption` says that no pattern ends in a slash or `{name...}`,
as none of the repository does: the mux then never redirects a canonical path.

### OpenApi

A setup of `Host` composes modules at prefixes; `Entities` says which of them
are wired by `entity.New`, with which name, row type and body, and what a
package describes beside the form. `Form` is both what is mounted and what is
described, as in the code. `Describe` builds the document of a composed process
and asks `Gaps`; both are kept in `described`. The compositions include one
whose package mounts a route it does not describe, one whose description is of
a route that is not there, one whose schema names clash (`Build` panics) and an
entity without a row. `DocumentIsTheService` then asks the mux with other
values for `{name}` than the `v` `Gaps` probes with. A name is a sequence of
words, because `pascalOf` and the operation ids drop separators: names that
differ only there are one name. What `net/http` chooses among patterns
(`MoreSpecific`, `Chosen`) is external.
`Ops` is a function from places, a module's and an operation's in it, so that
an operation described twice counts twice. `MuxAssumption` is what the mux
checks when a pattern is added (of two patterns that meet one is the more
specific), and two things about the repository's tables: only GET, POST, PUT,
PATCH and DELETE are mounted, and no pattern has the segment `v`. On a table
with a literal `v` where another pattern has a `{name}` the one try of `Gaps`
would find the literal one, and so would say nothing about the other.

### GatewayStub

`rd` is where `serve` is, `closing` the set of those who have decided to close
a connection (the watcher, a replacement, `Kick`, `Replace`) and have not taken
the lock for it: between the two anything may happen. Whoever is first in
`close` or `observeClose` records the code; the others find it closed.
`registered` is written by `serve` and read by the register timer without a
lock, a data race, so `TimerFires` may see either value. The socket is open,
closing (what was sent may still be read) or dead. `Kick` may be called with any
code, also those the stub uses itself, and a peer may close with any; `kicked`
remembers which a control asked for. `FailRegister` is folded into
`RegisterRefused`, `DropConnection` into `PeerEnds` with 1006; `Call`, its
answers and `SilenceHeartbeats` change no connection and are stutters here, as
are `/status` and `/unregister`.

The stub never calls `SetReadLimit`. `OverLimit` is what exceeds the default of
the websocket library, 32 KiB, half of `frame.MaxSize`: `Read` fails, the peer
is told 1009 and `observeClose` records 1006 (`ReadLarge`), and the branch of
`serve` for `frame.ErrTooLarge` is never reached. The library is not part of the
repository, so that this default is an assumption
(`GatewayStubAssumption`: what is below the limit is not too large for `Parse`).

## Runs

Bounds are the constants of each `.cfg`; all runs finish within five minutes.

| Run | Instance | Shows |
|---|---|---|
| `request_tx` | 2 requests, 2 connections, 4 kinds of database; 137,617 states | the seven invariants, `RequestTx` implements `RequestContract`, and every request is answered, also when both hold a connection and want a second |
| `request_hangup` | as `request_tx` | *violation*: a hang-up takes the row of a success with it |
| `status_sync` | 2 workers, capacities 1 and 2, 1 reload, 2 sessions; 2.7 M states | the gateway ends on the current flag, nothing follows draining, no late `/status` rewrites `State` |
| `status_said` | 1 worker, capacities 1 and 2, 1 reload, 2 sessions | *violation*: `said` is not what the gateway heard, and a slow reload that crosses a reconnect is not announced |
| `control_plane` | 2 runs, 2 sockets, 1 caller of Drain that may give up and call again, 1 request, 1 reload; 4.4 M states | drains spare requests and close their channel once, twins slow down, reloads are not undone |
| `control_live` | 1 run, 1 socket, 1 caller; 126 k states | silence is noticed, a drain ends, a cancelled Run returns |
| `control_register` | as `control_live` | *violation*: a `/register` without an answer holds Run for ever |
| `control_drain` | as `control_live` | *violation*: Drain after the context is done does not return |
| `entity_rest` | 3 calls, 1 row, 2 users, 2 keys, or 2 calls when one is of `PackageRest` (`MaxTogether`); 1.6 M states | answers tell their effect, conditions were true, replays are the caller's own, an answered key is not run again; IP tables are of one PUT, handlers do not wait in a circle, a success changed what it was to change, a list gives what was asked for |
| `rest_guards` | 4 calls: creates under one key, updates with one tag | *violation*: two overlapping POSTs under one key both create, and two overlapping PATCHes with one `If-Match` are both accepted |
| `host` | 2 calls, 20 compositions, 2 proxies, up to 2 hops; 830 k states | the announced prefixes are accepted and leave nothing out, unsigned callers learn nothing, routes see verified callers, the address is one on the way, every answer is the host's or a route's with a true `Allow`; a document without gaps is the service |
| `gateway_stub` | 2 connections, 8 messages, `Kick` with 1001 or `Replace` once, peers that close with 4001 or without a code; 595 k states | each connection ends with one close code that has its cause, and a silent, unregistered or replaced connection is let go |

Why these bounds are enough for the questions asked. Requests of `RequestTx`
meet only over the pool and the title cache: two requests give every pairing,
two connections the reuse of one after a release, one connection the
exhaustion. In `ControlPlane` every channel and lock relates a session to the
one before it or a run to the one before it: two of each. Three calls of
`EntityRest` give a call that races another while a third is answered from the
store; two handlers of `PackageRest`, or one and a call that creates or deletes
a row, give every pairing over a part, a row and a list. The hops of `Host` are
as many as make a trusted proxy stand before and behind an untrusted one.

Two connections of `GatewayStub` are one and the one that replaces it; each is
closed by up to six parties at once. 1001, of `Replace` and what
`Kick` is called with by default (standalone.go:50-55), is a code that a newer
registration uses too; 4001 stands for the codes of the peer, which nothing tells
apart. The proof has `Kick` and the peers with any codes.

The two sessions of `StatusSync` are the one a reload came on and the one that
replaces it; the capacities are the smallest two, at which the lower mark is one
below the upper. `LiveView` has TLC take for one the states that differ only in
what a session held that is over, since nothing reads it again; `TypeOK` and
`NothingFollowsDraining`, which speak of such sessions too, were true of them
when they ended, and nothing writes to them later but `said` and `slipped`.

`status_said` and `rest_guards` check a disjunction of two claims of the
repository (`SaidIsHeard` or `ReloadReregisters`; `OncePerKey` or
`OneWritePerTag`): a state that violates it violates both, so that the one trace
is the counterexample to each.

The type invariant of `RequestTx` and the inductive invariants are not in a run:
they are proved for all instances.

`CHECK_DEADLOCK FALSE` is set throughout: when all requests are answered, or a
bound is reached, the system stops.

Fairness. `request_tx`: each goroutine that can go on does, the handler
returns, and the pool resets what was released; clients need not wait.
`control_live`: Run's goroutine runs on, as every call in it has a timeout and
its ticker and deadline fire; a drain request or the end of the socket is taken
when it stays ready in the loop's `select`, which picks among ready cases at
random (strong fairness); a reader whose context ended stops. Nothing is asked
of the gateway, the network or the requests. `gateway_stub`: goroutines go on,
the register timer fires, the ticker of `watchHeartbeat` ticks, `close` gets the
lock, and the websocket's `Close` ends after its own timeout (weak fairness
each); peers and the callers of `Kick` may do nothing for ever.

Every property of a passing run has a mutant, an operator next to the one it
replaces, that breaks it.

## Proofs

Every invariant and every safety property of steps that a passing run checks is
also a theorem, for every value of the constants: `PROJECT.json` pairs them.
The theorems of a module are in its `*Proofs` module, those of `Frames` in
`GatewayStubProofs`. Each is proved along the same way: an inductive invariant,
`Invariance` (`Spec => []IndInv`) by a step per action and conjunct, and the
properties from it. The assumptions are the `ASSUME`s of the modules, which TLC
evaluates on the instances; besides "this bound is a number" and "`None` is
none of the others" they are named below.

**RequestTx** (`TruthfulAnswers`, `WorkAndRowTogether`, `AtMostOneRow`,
`LogIdConfirmed`, `SessionsApart`, `NoConnectionLeaks`, `RefusalsAreJournalled`,
`Refinement`), for any requests, connections and `FeatureSets`. None of the
invariants is inductive alone: that an answer is true depends on what the
transaction held when it was committed, which depends on the place `Do` was in.
`IndInv` therefore says for each place (`At(r)`, which is the place to return to
while `explain` asks the catalogue): whether a transaction and a connection are
held (`Holding`), what is in them before anything is decided (`Before`) and on
the way of a refusal (`Refusing`), and what is durable (`Durably`: nothing
before the one commit, one of three outcomes after it). `PoolInv` says that a
connection is lent to one transaction or query at a time and only without a
session. `RowInv` is a second invariant, for `RefusalsAreJournalled`: whoever
goes on without the row of a refusal, already on the way to `salvage`, has an
excuse (`Excused`: the journal's own means failed, or the hang-up made the 500).
The refinement maps each action to `Decide`, `Tell` or a stutter.

**StatusSync** (`LoadIsKnown`, `DrainingIsLast`, `StateIsTheSessions`), for any
workers, capacities and number of reloads and sessions. That the gateway ends
on the current flag is true only when all is quiet; before that somebody owes
it a word. The invariant says who: whoever moved the count over a mark has
woken the watcher or is about to, and a capacity that changed while the watcher
compared has woken it again once its session has given way to the next
(`LoadInv`), what was said is the flag or a call is pending (`SaidInv`), and
the last word on the socket is what was said or is being said by whoever holds
`statusMu` (`HeardInv`). `LockInv`, `SessionInv`, `DrainInv` and `WireInv` say
whose the lock and the sessions are and that nothing is behind "draining" on a
socket.

**ControlPlane** (`RequestsAreSpared`, `ClosedOnce`, `TwinsBackOff`,
`ReloadsStay`), for any callers, requests and bounds. A drain channel is closed
by the drain of the `Run` it belongs to, which then ends (`CycleInv`); a 1001 is
counted once for each socket (`ReplacedInv`); the requests a drain waits for are
not new ones (`OwedInv`); the attempts are bounded and gone when `Run` returns
(`AttemptInv`).

**Frames** (`RoundTrip`, `AnswersAreRead`), for any ids, actions, objects and
codes: every frame is parsed as it was before `Encode`, by the type of the
frame, and `Result` and `Error` of any call are read as answers to it.
`FramesAssumption` says that an absent member is none of the values, and that
`{}` is an object and `null` is not.

**GatewayStub** (`CodesAreExplained`), for any number of connections. A cause
is decided before the close that records it, so that the invariant says of
everyone about to close a connection that there is the cause for the code
(`ClosersInv`), and of the watcher, the reader and `Stub.conn` the state they
decide by (`ServeInv`). No step takes a cause away, whatever the codes are, so
that nothing is assumed of those `Kick` and the peers use.

**EntityRest** (`AnswersAreEffects`, `ConditionsAreTrue`, `ReplaysAreOwn`,
`AnsweredKeysAreKept`), for any calls, rows, users, keys and requests. The
properties speak of calls that are over. The invariant says of one under way
what its transaction has written and locks (`StagedInv`, `WorkInv`), that
nothing of it is durable before its commit (`EffectInv`), and which revisions of
its row have been there since it began (`LivedInv`); and of the store, whose
answer each entry is (`StoreInv`, `ReplayInv`) and who is bound to find one
(`OwedInv`). `AnsweredKeysAreKept` rests on `Store` making room only
of what has expired.

**PackageRest** (`IptablesWhole`, `NoCircles`, `AnswersAreDone`,
`ListsAreWhole`), for any number of calls of any of its handlers beside any of
`EntityRest`'s. `RowsAreEntityRests` shows that `PackageRest` implements
`EntityRest`, so that the properties of the latter hold here
(`EntityRestCarriesOver`). What the proofs need of a handler is one condition on
what is left of its script (`Fit`): which parts it writes, in the order of one
ranking, and nothing read back before it is written. The scripts are looked at
one by one only there (`ScriptFits`). `Running` then ties what a transaction has
written to what is left of its script, `PartInv` says that no two transactions
have written one part and that what was deleted or spent is never there again,
`Listing` that a page is cut from what its total counted unless rows moved.
That nobody waits in a circle follows from the ranking: a part waited for ranks
above all parts held, so a chain of waits cannot come back.
`PackageRestAssumption` says what each group of handlers is asked for, and that
there are finitely many rows.

**Host** (`AnnouncedTakenAndWhole`, `UnsignedAreTold`, `RoutesAreForVerified`,
`AddressesAreOnTheWay`, `AnswersAreTheHosts`; `TypeCorrect` includes that
`InFlight` counts the requests inside), for any modules and prefixes, guards,
tokens and chains of proxies of any length. A request is decided in one step, so
the argument is about the decision: that every claimed prefix lies under an
outermost one and outermost ones lie apart, what the walk over
`X-Forwarded-For` stops at, the order of `Verify`'s checks.
The invariant carries it on (`CallInv`: every request that came was decided at
one time, over this mux).

**OpenApi** (`GaplessIsTheService`), for any entities and patterns.
`OpenIsAHost` shows that it implements `Host` (`HostCarriesOver`). `Gaps` tries
each path once, with `v` for every `{name}`; that this is enough is two facts
about the mux under `MuxAssumption`: of the patterns that take a request there
is a most specific one (`MostSpecific`, as the patterns are finitely many), and
a pattern is the mux's own choice for the path `Gaps` makes of it
(`TriedIsChosen`). A route that serves a described path with other values is
then the one `Gaps` finds on its own path, hence described. `OpenInv` says that
what was described is still what the mux is made of.

Only model-checked: the temporal properties under fairness (`request_tx`,
`control_live`, `gateway_stub`), since the prover has no rules for fairness and
`ENABLED`; and the violations, which are counterexamples.

## Findings

The five violation runs above, two of which refute two claims each, with the
quoted lines in `PROJECT.json`. Four more deviations have no run: the `Allow`
of a 405 tries GET, POST, PATCH and DELETE and so never names PUT
(`module.go:207`); a path of `OpenPrefixes`'s `always` nested under a closed
prefix is not announced (it is compared only with the prefixes `Prefixes` left,
`module.go:138-141`); the branch of the stub for a frame that is too large is
not reached (`stub.go:196`, see above); and the register timer of the stub may
close a connection that has just registered with 1008, since its variable is
read without a lock (`stub.go:180`).

## Not modelled

- The text of a statement (`lib/pgtx/call.go`) and of a list parameter, the
  bytes of a frame, texts, titles, headers, logging and the shapes of rows:
  formatting.
- The schemas of request bodies (`structSchema`) against what the handlers take.
  `Validate` is written by hand for each body, no package of the repository tags
  its required keys, references that are not a UUID are refused beside it, and
  keys are matched in any case: whether the two agree is a comparison of tables,
  body by body, and has no steps. `PROJECT.json` lists it as a hazard without a
  property.
- Locks on what is not there: that a part of a row always has a lock holds of a
  row that is updated, and not of a DELETE that finds nothing (`Held`).
- The areas' `delete-safely` and `clear`: one call each, whose answer is what
  the database says it did.
- `/kladr/string` and the route tables of the packages: no state and no
  decision beyond the check of a parameter.
- The tests' side of the stub: `Call`, `SendRaw`, the `Wait` functions.
- Start-up: `Detect`, `NewPool` and the reading of a DSN; what they may find is
  `FeatureSets`.
- The gateway and the database are modelled as far as the code relies on them.
- Widths: `Load` counts in `int32`, and no instance comes near it.

## Plan

Every safety property of the runs is proved. What could be added to the proofs:

1. The part of `RequestContract` that `EntityRest` relies on, as a refinement
   of one call's transaction (its `Commit` and `DoFails` against `Decide`).
2. The bounds of `GatewayStub`'s parties as an invariant of their number (at
   most one close is under way for each cause).
3. The invariants that the liveness properties rest on: that a request which is
   not answered has a step that is open to it.
