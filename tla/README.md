# Tailbridge in TLA+

Tailbridge connects a tailnet to Railway private networks: an *edge* next to Tailscale and
a *connector* in each Railway environment, joined by a QUIC connection that the connector
opens. This directory holds TLA+ models of the parts of that program where concurrency,
failure or a long history of calls makes it hard to test, the TLC configurations that check
them on small instances, and TLAPS proofs of every safety property that the runs check, for
instances of any size.

```
cd tla
tlc -config RegistryRotation.cfg MCRegistry     # one of the runs listed in PROJECT.json
tlapm RegistryProofs.tla                        # one of the proof modules
```

`PROJECT.json` lists the components, the runs with their properties, a mutant per checked
property (a plausible bug that the property catches), the source lines of every definition,
the findings, the hazards and the theorems.

## The system and its models

| Part | Source | Module | Models |
|---|---|---|---|
| Connector registry | `internal/registry` | `Registry`, `RouteLedger` | every transaction of the SQLite store and the handlers that combine them |
| Approval API | `internal/approval` | `Registry`, `RouteReconcile` | approve, revoke, readiness |
| OIDC validator | `internal/oidc` | `KeyCache` | the provider's key set under concurrent validations |
| Registration service | `internal/enrollment/server.go` | `Registry`, `Enrollment` | create, poll, renew, refuse |
| Enrollment client | `internal/enrollment/client.go` | `Enrollment` | identity file, register loop, rotation, crashes |
| Route reconciler | `internal/reconcile` | `RouteReconcile` | the loop call by call, with `RouteLedger` |
| Edge process | `internal/edge`, `cmd/tailbridge-edge` | `EdgeRun` | `Server.Run`: stages, error group, shutdown, restarts |
| Network policy | `internal/netpolicy` | `NetPolicy` | nft and ip commands over what the kernel keeps |
| Edge sessions, status | `internal/edge`, `internal/status` | `EdgeSessions` | authentication, replacement, draining, table refresh, readiness |
| Edge UDP and DNS flows | `internal/edge` | `UDPFlows` | flow tables, limits, idle goroutines, shutdown |
| TCP flows | `internal/edge`, `internal/connector`, `internal/proxy`, `internal/dnsproxy` | `TCPFlow` | one flow end to end: set-up, copying as bytes or DNS messages, closing |
| Connector | `internal/connector` | `Connector` | reconnect loop, session, UDP flows and their goroutines |
| Prefixes and translation | `internal/config`, `internal/edge/translation.go` | `Prefixes` | intersection and validation of routes, translation, as operators |
| Names and routes | `internal/dnsproxy`, `internal/edge` | `Resolution` | handshake routes, queries, rewritten answers, their use |
| Operator CLI | `cmd/tailbridge` | `SecretBundle` | atomic installation of the secret files |
| Wire protocol | `internal/protocol` | – | an encoding without state |
| Certificates, TLS | `internal/pki`, `internal/transport` | – | cryptography; a certificate's life is a number in `Enrollment` |
| Configuration, logging, observability, coverage tools | `internal/config`, ... | – | no state, or output only |

How they interact: the enrollment client asks the registration service for an identity; an
operator's workflow approves the request through the approval API, with a token that the OIDC
validator checks; both write to the registry. The reconciler carries the active registrations
into Tailscale, nftables and the edge's route table. A connector with an identity opens a
session; a client finds a service by name through the edge's DNS, and its traffic, which
nftables redirects, becomes TCP and UDP flows over the session.

The modules are joined where the parts share state:

* `Registry` implements `RouteLedger` (property `ImplementsLedger`: `INSTANCE RouteLedger WITH`
  a row per prefix instead of a row per environment). `RouteReconcile` extends `RouteLedger`,
  so what it shows holds over any registry that implements the ledger.
* `EdgeRun` extends `NetPolicy`: the stages of `Run` decide when the policy's commands are
  issued, and the kernel keeps what they did when the process dies.
* `Resolution` extends `Prefixes` and joins the edge's table and `forwardDNS`, the connector's
  rewriting, and `route`.
* `TCPFlow` is the composition of the edge's handler, the connector's handler and the copy
  loops of both.

The other modules are separate state machines whose environment is the nondeterminism named
in their header. `MCParts` checks three of them (`SecretBundle`, `KeyCache`, `Resolution`) in
one run; a behaviour there is one of one part.

### Registry

State: the tables of the schema, a variable per group of columns that some transaction
decides on. The store has one connection (`SetMaxOpenConns(1)`), so a method is one action; a
method that returns an error rolls back and changes nothing. Handlers that make several
transactions are split between them: `revoking` (token recorded, row not yet revoked), `auth`
(session admitted, not yet marked ready or rotated) and `recon` (generation read, not yet
reported). `Start` and `StartMigration` are the edge's start, which forgets these three.
`Approve` is `ApprovePending`, for a request that is pending, or `ApprovedBefore`: one that has
been approved already is answered before the token is looked at, and nothing changes. `Tick` is
the clock. `uses` and `newest` are history variables: how many changes a token has authorised,
and the key approved last.

### RouteLedger and RouteReconcile

`RouteLedger` is what the registry promises to the reconciler: every change of the live set
made by a handler appends a generation that lists the active prefixes and supersedes the
pending ones. `RouteReconcile` adds the loop with one step per external call. A command that
fails may have taken effect or not. `policy` is what nftables redirects, `advertised` the
Tailscale preference and `entries` the route table of the edge; they are three variables
because the code changes them with three calls. A start of the edge is three steps, since the
approval API answers meanwhile: the process is there with a route table from the registry and
with the policy its predecessor left or none (`Restart`, and `Init`), `Run` removes the old
policy (`CleanPolicy`), and installs one for the route table (`ApplyPolicy`); then the loop runs.

### KeyCache

A call of `Validate` is a process: it reads the cache under the mutex, gives the mutex up for
the fetch, and stores what it got when it has the mutex again, so that two calls that shared a
fetch both store its result, possibly after a newer one. A call that misses its key asks again
with `force`, which the throttle may deny. `since` and `last` are history variables of the
provider: since when a key has been published, and when it was last. The signature and claim
checks are one step that ends the call.

### EdgeRun and NetPolicy

`NetPolicy` has one step per nft or ip command, which may fail without effect, or be killed by
the end of its context before or after it took effect. The table, rules and local routes are
the kernel's and outlive the process. `EdgeRun` has the life of the process: start Tailscale,
wait for its interface, apply the policy, open the listeners, start the members of the error
group, and, when the first one fails or the context ends, shut down and make the deferred
calls in reverse order. A member is an accept loop per listener, the reconciler, the watcher
of the Tailscale process and the member that shuts down. A kill may come at any step.

### EdgeSessions

A `connectorEntry` is an object that handlers keep a pointer to while `refreshDynamic`
replaces it in the table, so entries are numbered and allocated. `pc` is where the
`authenticate` goroutine of each connection is; it is split at every release of a lock.
`status` is the connector map of the status server, which is written after the entry's lock
was released. `target` is what an entry translates with, and `told` in a connection's record
what the connector was told in its handshake. Of the mode without configured connectors
(`registryCount == 0`) only the handshake is modelled, in `Resolution`.

### UDPFlows, Connector, TCPFlow

`UDPFlows` and `Connector` model both ends of UDP flows: tables under a mutex, and the
goroutines that remove entries from them on their own. A routed datagram and the flow it
creates are separate steps in the edge, since the session may end in between. Payloads are
left out. In `TCPFlow` a connection is a pair of pipes that deliver units of data in order,
then an end of file, unless they are reset; `Close` of a TCP connection, `Close` and `Cancel`
of a QUIC stream are modelled by their effect on the pipes, as the code uses them. `lost` says
that the QUIC session is lost: every call on its streams then returns an error that is
`net.ErrClosed`, which `normalizeCopyError` takes for an ordinary end (`Gone`, `Failure`). `dns`
says whether the flow goes to the resolver. Then the connector copies messages (`ForwardTCP`):
the end of the queries leaves the responses a drain timeout, and the end of the responses closes
the resolver's connection and waits for the client.

### Prefixes and Resolution

A prefix is a family and a sequence of bits, an address one of full length. `Prefixes` has the
program's pure functions on them as operators. `Resolution` starts with the handshake, which
intersects what both sides allow, and goes on, for an edge with a registry, with queries: the
edge reads its table, which may be older than the registry; the connector replaces the
environment's suffix by `railway.internal`, asks its resolver and rewrites the record it gets
(names, addresses, service hints, mandatory parameters, time to live); the client uses the
answer until it expires, through `route` and `translateAddress`, while registrations,
aliases and sessions change. `moved` is a history variable: when an alias last changed hands.

### Enrollment

`disk` is the identity file, `mem` the copy of the process. `save` renames a complete file
into place, so the file changes in one step; a crash may fall between any two steps. An
exchange may fail before or after the server acted on it. Time is in units of 12 hours: a
certificate lives two, renewal is due at one, a demoted key stays usable for two. Several
connector restarts stand for the Railway restart policy. The edge's check of a session's key and
the completion of the rotation for it are two steps (`ActiveIdentityKey`,
`CompleteIdentityRotation`), between which the connector may restart and have another key
approved; the second demotes every other active key, a newer one too.

### SecretBundle

Each file system call is one step that may fail, and the files outlive the process. Another
program may create a target file at any moment (`Foreign`).

## What the runs show

Bounds are chosen so that the case a property is about happens: two keys for a rotation, two
environments and one pool prefix for reuse, three connections so that a replacement is
replaced, two validations so that one overtakes the other, two environments and two aliases so
that an alias moves. Symmetry is used only in runs without liveness properties. Deadlock
checking is off since every instance has bounded clocks, counters or requests and stops when
they are used up.

| Run | Bounds | Shows |
|---|---|---|
| `RegistryRotation` | 1 environment, 2 keys, 2 requests, 2 tokens that expire, time 3, 4 generations | one pending request per environment; a withdrawn row admits nobody; a live row has an active key; a token authorises at most one change; elapsed leases are withdrawn; refinement of `RouteLedger` |
| `RegistryAllocation` | 2 environments, 1 pool prefix and 1 static, time 2, 3 generations | quarantine; the newest generation lists the active routes. Sessions and reconciliation, which these properties do not depend on, are kept out by an action constraint |
| `RouteReconcile` | 2 dynamic prefixes, 4 generations, 1 failing command, 1 restart | applied means in force; ready means in force; the three route sets come to agree with the registry |
| `EdgeSessionsReplace` | 3 connections, 3 start times, 1 entry that may be withdrawn | sessions are not leaked; a routed connector is reported ready |
| `EdgeSessionsMigration` | a static connector and its dynamic successor on one prefix, 2 targets, 3 entries, 2 connections of different age | the route table stays unambiguous; the edge translates the flows of a session with the target that the session was told; replaced sessions are closed |
| `UDPFlows` | 2 sessions, 2 concurrent datagrams, flow limit 2, DNS limit 1 | tables and counters agree; flows of ended sessions vanish |
| `Enrollment` | 3 keys, 9 requests, 2 faults, 1 revocation, time 4 | certificate and key match on the volume; a usable key survives; the connector gets to run |
| `Connector` | 2 sessions, 1 flow number with 2 destinations, 2 sockets | tables, sockets and gauge agree; right destination; sockets released; the loop goes on |
| `TCPFlow` | 1 unit of data each way, a window of 1, bytes or DNS messages | no silent truncation; nothing left open; half-close works; errors end the handler, and a lost session does once the TCP peer moves; so does the end of the queries to a silent resolver |
| `EdgeRun` | 2 route sets, 2 restarts | at most one rule per family; a healthy edge has its policy and listeners; a returned `Run` has left nothing; a stopped `Run` returns |
| `Parts` | `SecretBundle`: 3 files, 3 failing calls. `KeyCache`: 2 validations, 1 key, an hour of 3, a minute of 2, a timeout of 1, time 3. `Resolution`: 2 environments, 2 aliases, three-bit addresses, every list of one or two prefixes on both sides of a handshake, a resolver's time to live of 3 capped to 1, patience 1, time 3 | all or nothing, files of others survive; no token is verified with a key that was withdrawn an hour before; an established key is refused only when it is in the cache for the retry; the agreed routes are the intersection; an answer leads to the environment that was asked, is usable, and a moved alias is followed |

Conditions that are part of the properties, and worth knowing when reading the table:

* `TokenChangesOnce` is about changes. A token is accepted more often: `Approve` answers for an
  approved request without looking at the token (`registry.go:366`; `registry_test.go` does so
  with one token twice) and without recording it, whereas `docs/security.md:13` says that the
  edge stores a hash of each accepted replay claim.
* `ReadyIsInForce` holds whichever calls fail and whenever the edge restarts. It excepts an edge
  that is starting, whose approval API answers before the policy is there, a registration whose
  lease is over and not yet withdrawn, and a superseded generation that is pending again in front
  of a newer one (`Revived`; `ReadyIsAdvertised` below).
* `VolumeHoldsUsableKey` excepts a connector whose identity key was demoted by a late session of
  an older key, and whose overlap is over: `CompleteIdentityRotation` does not ask which of the
  keys is newer (see `NewIdentityStaysActive` below).
* `RoutedIsReported` is stated for an entry that has its prefix to itself.
* `EventuallyRuns` excepts a connector that is revoked, or whose lease ends, before it has
  fetched its certificate.
* With one flow number the connector never is at its `MaxUDPFlows`; a refused flow is still
  covered, as a dial that fails. Two numbers take TLC well over four minutes. The proof of
  `FlowsAgree` has no such limit.
* `HealthyMeansServing` speaks of a process that has not been told to stop: between the end of
  the context and the end of `Run` the health endpoint may still say healthy.
* `ReturnedMeansGone` says two things of a `Run` that has returned: nothing it started is left,
  and no policy is either. The second has two exceptions: a command of the cleanup failed, which
  is reported, or `Run` failed before it came to the policy (Tailscale did not start, or its
  interface did not appear), so that what a killed process left stays for the next start.
* `ErrorsEndHandler` does not count the loss of the QUIC session as an error, since
  `normalizeCopyError` does not: the handler then waits for its TCP peer, and ends when that
  sends or ends. An idle peer keeps it.
* `AnswerReachesAsked` takes it that the resolver of an environment gives no address inside a
  virtual prefix: `rewriteRecord` passes addresses outside the real prefix on as they are
  (`dnsproxy.go:112`), so such an address would be routed to the environment of that prefix.
* `EndMeansComplete` excepts queries to a DNS server that has closed its side.
* `Resolution` has one query at a time, and the bound on a client's patience is what
  `MovedAliasFollowed` adds to the capped time to live.
* `TypeOK` of each module states the types of its variables. No run spends time on it; in
  the modules with proofs, the types that a property depends on are part of the invariant.

`RegistryReuse` ends in a violation on purpose: `FreePrefixAssignable` is what
`docs/configuration.md` says of the quarantine, and the counterexample is a prefix that is free
after quarantine and still held by the withdrawn row (`virtual_prefix` is `UNIQUE`), so that no
other environment can be given it.

### Statements of the documents that the models refute

These properties are defined in the modules beside the others. They are not part of a run: each
says what a document or test says, and TLC finds a behaviour of the model in which it fails,
within the bounds of the module's runs (`EdgeSessionsMigration` for `OlderProcessRejected`,
`EdgeSessionsReplace` for `ReadyHasSession`).

| Property | Behaviour |
|---|---|
| `NewIdentityStaysActive` (`Registry`) | a late session of the old key demotes the new key (`registry.go:530`, `docs/security.md:27`) |
| `ReadyIsAdvertised` (`RouteReconcile`) | a registration is reported ready although its prefix is not advertised, after a failed report revived a superseded generation (`approval/server.go:198`, `docs/setup.md:237`) |
| `OlderProcessRejected` (`EdgeSessions`) | an older process is accepted while a newer one is active on a replaced entry (`edge.go:432`, `docs/architecture.md:113`) |
| `ReadyHasSession` (`EdgeSessions`) | a connector stays ready without a session: the handler of a replaced session reports last (`edge.go:535`, `status_test.go:151`) |
| `RunsOnValidCertificate` (`Enrollment`) | a running connector does not renew its certificate (`cmd/tailbridge-connector/main.go:37`, `docs/security.md:25`) |

### Fairness

* `Registry`: the clock runs and the expiry tick of the reconciler comes; nobody else must act.
* `RouteReconcile`: a process that starts comes to its loop, and the loop takes its steps
  (`Routes.Run` ticks). Failures and restarts are bounded.
* `EdgeRun`: commands end, since they run under a context or a timeout; calls on closed
  listeners return; goroutines that can go on do; the reconciler sees the ended context at its
  next tick. Nothing is assumed to succeed, and nobody has to stop the process.
* `EdgeSessions`: goroutines that can go on do, and drain timers fire. Peers need not close.
* `UDPFlows`: tasks that have routed a datagram finish, idle tickers tick, a session that has
  ended is cleared.
* `Enrollment`: the client goes on and is restarted after a crash, the clock runs, and the
  operator approves requests; without an approval no connector could ever run.
* `Connector`, `TCPFlow`: calls with a deadline return (the drain timeout of `ForwardTCP` among
  them), reads on closed connections return, the ends of a TCP flow read what has arrived. No
  call is assumed to succeed.

## What is proved

Each theorem is about the specification of its module; none uses fairness. It holds for every
value of the constants that the named assumption allows. TLC evaluates the assumptions on
the instances of the runs.

| Module | Theorem | States | From |
|---|---|---|---|
| `RegistryProofs` | `TypeCorrect` | `[]TypeOK` | `ConstantsAssumption`: prefixes are numbers, `None` is no value, durations are natural numbers, lease and quarantine are not zero |
| | `TokensChangeOnce` | `[]TokenChangesOnce` | |
| | `OnePending` | `[]OnePendingPerEnvironment` | |
| | `WithdrawnIsClosed` | `[]WithdrawnAdmitsNobody` | |
| | `LiveNotLockedOut` | `[]LiveHasActiveKey` | |
| | `QuarantineHolds` | `QuarantineRespected`, an action property | |
| | `GenerationsCurrent` | `[]NewestGenerationCurrent` | |
| | `RegistryImplementsLedger` | `ImplementsLedger`: `Spec => Ledger!LedgerSpec` | |
| `RouteReconcileProofs` | `AppliedGenerationIsInForce` | `[]AppliedIsInForce` | `ReconcileAssumption`: static routes are prefixes, the allowed routes are none of them; the bounds are natural numbers |
| | `ReadyRegistrationIsInForce` | `[]ReadyIsInForce` | |
| `EnrollmentProofs` | `RestartFindsUsableKey` | `[]VolumeHoldsUsableKey` | `BoundsAssumption`, `NoneAssumption`: there is a key, a lease is not zero, `None` is no value |
| `EdgeSessionsProofs` | `NoSessionLeaks` | `[]ReplacedSessionsEnd` | `ConstantsAssumption`: finitely many connectors; static prefixes differ, and so do dynamic ones |
| | `RoutesLeadHome` | `[]RoutesUnambiguous` | |
| | `FlowsAgreeWithHandshake` | `[]FlowsMatchHandshake` | |
| | `RoutedReported` | `[]RoutedIsReported` | |
| `FlowProofs` | `FlowTablesAgree` | `[]TablesAgree` | `LimitsAssumption`: the limits are natural numbers |
| | `EndIsComplete` | `[]EndMeansComplete` | `FlowAssumption`: the window is not zero |
| | `HandlersClose` | `[]NothingLeftOpen` | |
| `ConnectorProofs` | `ConnectorFlowsAgree` | `[]FlowsAgree` | `ConnectorAssumption`: `None` is no socket, session or flow |
| `SecretsProofs` | `BundleAllOrNothing` | `[]AllOrNothing` | `BundleAssumption`: there is a file |
| | `ForeignFilesKept` | `ForeignKept`, an action property | |
| | `VerifiedRecently` | `[]VerifiedKeyIsRecent` | `KeyAssumption`: the timeout is shorter than a minute, a minute than an hour |
| | `RefusalIsTransient` | `RefusedKeyIsCached`, an action property | |
| `EdgeProofs` | `AtMostOneRule` | `[]OneRulePerFamily` | `PolicyAssumption`: no table is not a route set |
| | `HealthyServes` | `[]HealthyMeansServing` | |
| | `ReturnedIsGone` | `[]ReturnedMeansGone` | |
| | `ReachesAsked` | `[]AnswerReachesAsked` | `PrefixAssumption`: the virtual prefixes differ from each other and from the real one and have its length |
| | `AliasFollowed` | `[]MovedAliasFollowed` | `ResolutionAssumption`: times are natural numbers |
| | `AnswersUsable` | `[]AnswerUsable` | the same |
| | `IntersectionExact` | what `IntersectPrefixes` computes | nothing: any two lists of ranges |
| | `HandshakesAgree` | `[]HandshakeAgrees` | `ListsAssumption`: both sides' lists are lists of ranges; `PrefixAssumption` |

The registry's argument is one inductive invariant in layers, each proved over the ones
before it:

* `TypeInv` is `TypeOK` with `RowComplete` (a row that exists has a type and a prefix); without
  the second a transaction that copies a row's prefix is not type correct.
* `TokenInv`: a token that authorised a change is still recorded or is itself expired.
  `TokenChangesOnce` alone is not inductive, since `Expire` deletes records.
* `OnePendingPerEnvironment` is inductive over `TypeInv`: `CreatePending` is the only insertion.
* `KeyInv` joins the two key properties: rotation may demote a key only because the caller's
  own key is shown to be active afterwards, and a late caller of a withdrawn row finds no
  usable key.
* `PrefixInv`: a quarantined prefix remembers its holder (`QuarantineHeld`) and no two rows have
  the same prefix (`PrefixUnique`, the `UNIQUE` constraint). From it `QuarantineHolds` follows
  step by step: only an approval that allocates and a static import change a prefix.
* `NewestGenerationCurrent` is inductive over `TypeInv` and `PrefixInv`.

The refinement adds `StaticInv` (a static row has no key and a lease that never ends, so nothing
renews or expires it). The mapping chooses the live row of a prefix; `RowView` and `ActiveView`
say what it is without the choice, which unique prefixes justify, and each action is then shown
to be one action of the ledger (`ApproveSeen`, `RevokeSeen`, ...) or a stutter (`RenewUnseen`).

The other inductive invariants:

* `ReconcileInv` (`RouteReconcile`) lies between the two properties and the loop's variables. A
  set of prefixes `Fits` when it has the active routes and none that the newest generation does
  not list: this, and not equality, survives a registration that lapses. `AppliedOK`: once the
  newest generation is applied, everything that is in force, and everything the loop may put in
  force in the iteration it is in, fits. `CurrentOK` says so of an iteration for the newest
  generation before it has reported, and `PathOK` what each position knows of the calls before.
* `EnrollmentInv`: `RequestsOK` (a waiting request is for a key on the volume), `FetchOK` (an
  approved request that the client still polls is for the key it will store) and `KeysOK` (the
  active keys are the prepared one and, once the identity key was approved, that one or older
  ones). A crash or a lost answer between any two of the client's writes keeps all of them.
* `SessionInv` (`EdgeSessions`): a goroutine past the lookup holds an allocated entry of its own
  connector, although that entry may have left the table; its timer is set last, so a step that
  moves a replaced session from `previous` to a timer never drops it; the active session of an
  entry was accepted for that entry; routed entries have different prefixes, since a static
  connector gives way to a registration of its prefix. Over it `ToldInv` (a connector was told
  the target of the entry its goroutine holds, in the table or not, because an entry never
  changes its target) and `ReportInv` (which session a connector is reported by, and that no
  other entry of the prefix can have changed the report).
* `FlowInv` (`UDPFlows`) is `TypeOK` and `TablesAgree`, inductive together: counts follow from the
  tables by the cardinality of a finite set with an element more or less.
* `TCPInv` (`TCPFlow`): without a fault the units under way and those that arrived are those that
  were sent, and a copy that has ended, or whose sink is closed, has seen the end of its source.
  The exception is the connector's copy of queries to a DNS server that has closed.
* `ConnectorInv`: `FlowsAgree`, with `HandshakeClean` (a session that is being set up has neither a
  receiver nor a socket), without which a new session could find sockets of an earlier one.
* `BundleInv` (`SecretBundle`) says of each file what the loop that the command is in knows of it,
  before and after the loop has passed it; the rollback's part depends on whether a second call
  has failed.
* `KeyInv` (`KeyCache`): every key set, in the cache, in a fetch under way or in the hands of a
  caller, is `Sound`: its keys were still published when its fetch began, a key published before
  that and ever since is among them, and it expires within an hour. So the order in which
  callers store does not matter.
* `PolicyInv` and `RunInv` (`EdgeRun`): `Apply` starts from a kernel without rules, because a
  cleanup that reports no error has removed everything (`Cleared`), and no other step adds a
  rule. `StageOK` ties the policy's position to the stage of `Run`, `ProcessOK` the listeners
  and members.
* `ResolutionInv`: what a query in flight and an answer know of the alias they were asked under
  bounds when they can still be used; the address part rests on lemmas that translation
  between prefixes of one length leads back to the address it came from. `UsableInv` follows a
  query and its answer through both rewritings; `RoundTrip` says that they undo each other.
* `IntersectionExact` is about two nested loops over lists of any length, which the module has
  as recursive functions. A loop invariant is a set of positions here: `Induct` gets, from the
  well-foundedness of the naturals, that a set with 0 and every successor is all of them, and
  `Looped` that such a function exists. `AgreedInv` then is what a handshake establishes.

### Only model-checked

Liveness, which is beyond the proof system: `ElapsedLeaseWithdrawn`, `Converges`,
`DrainedIsClosed`, `EndedFlowsVanish`, `EventuallyRuns`, `SocketsReleased`, `NeverGivesUp`,
`EverythingArrives`, `ErrorsEndHandler`, `QueriesEndHandler`, `RunReturns`.

## Not modelled

* Cryptography, certificate chains, signatures and proofs of possession: standard library.
* The encoding of frames and datagrams, HTTP decoding, configuration parsing, log and metric
  output: no state, and tested by round trips in the repository.
* The claim checks of a token: comparisons; a token is accepted or not.
* The sliding windows of the registration rate limit: a refusal may happen at any time.
* In DNS messages: more than one question or record, A records (the code removes them), OPT
  records and their flags, and a client that asks the resolver's virtual address directly.
* The other servers of the edge process (status, registration, approval): an error of theirs is
  the end of `Run`'s context.
* The replacement of sessions in the edge's mode without configured connectors.
* `Enrollment` has an extract of the registry's transactions; it is not composed with
  `Registry`, whose state is too large for the two together to be explored.
