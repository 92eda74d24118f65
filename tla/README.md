# Formal specification of vial-gateway

TLA+ models of vial-gateway (`src/`), the TLC configurations that check them on
small instances, and TLAPS proofs of the safety properties for instances of any size.
`PROJECT.json` is the machine-readable index: components, runs, the source lines
behind every definition, the mutants that show each property can fail, the
findings, the hazards and the theorems.

## 1. The system

A deployment is a set of gateway processes that share one Redis. Each process
compiles its configuration into an immutable *snapshot* (routes, pools, breakers,
semaphores, health checkers, possibly a Dynamic DNS worker) behind one atomic
pointer. A process may also, or only (`control_only`), serve the admin API, which
keeps configuration versions in Redis and moves the *active* pointer.

| Component | State | Operations | Interacts through |
| --- | --- | --- | --- |
| Configuration versions (`control.go`) | Redis: version keys, active pointer, audit stream | create (SETNX), activate / rollback and delete (WATCH, checks, MULTI/EXEC), start-up seeding (two SETNX) | Redis; pub/sub after an activation |
| Configuration distribution (`control.go`, `main.go`) | per process: `current`, `redisVersion` | `load` (by poll or pub/sub), local activation by the admin handler, SIGHUP, restart | reads Redis, swaps the snapshot |
| Request pipeline (`app.go`) | per snapshot: semaphore, round-robin counter, breakers; per request: attempt, endpoint, open response | admission, policy decision, `pick`, `forward`, retries, reply | health flags; snapshot it was routed by |
| Health checks, retirement (`app.go`) | per snapshot and endpoint: `healthy`, a goroutine | check, cancel by the next activation | flags read by `pick` |
| Rate limit (`app.go`) | Redis: one hash per route and principal | the token-bucket script, key expiry | Redis, all gateways |
| Response cache (`app.go`, `control.go`) | Redis: cached answers | lookup, fill, expiry, invalidation (SCAN, UNLINK) | Redis, all gateways, admin API |
| Dynamic DNS (`dynamic_dns.go`, `app.go`) | per worker: `lastIP` | discover, update, retry at the ticker, cancel | check endpoint, DNS provider |
| Validation and route compilation (`config.go`, `app.go`) | none | accept or reject a configuration, register its patterns | called by every start and activation |
| Process life, SIGHUP, TLS (`main.go`) | signal channel, certificate pointer | start, reload, stop | file and certificate on disk; activation |
| Admin sessions, OIDC (`control.go`) | Redis: pending logins and sessions; the browser's cookie | login, callback, protect, logout, expiry | identity provider (`demo-oidc`) |
| API keys (`control.go`, `app.go`) | Redis: one hash per key | create, revoke, lookup | Redis, all gateways |
| JWT / JWKS (`app.go`) | per route: a key set, its age, two mutexes | verify, refresh when the set is older than five minutes | identity provider |
| Routing, rewriting, body transforms (`app.go`) | none | dispatch, path and `Location` rewriting, remove / rename / add | `http.ServeMux`, upstream, client |
| CORS, header transforms, telemetry, console, sample backend | none the system depends on | | |

What is hard in it: several goroutines write the two atomics `current` and
`redisVersion` with no lock around the pair; the admin API relies on optimistic
transactions over two keys; a load reads the pointer and the version by separate
commands; processes crash, messages are lost, Redis fails between two commands;
requests keep running on a snapshot that was replaced and cancelled; expiring
Redis keys stand for full buckets and missing answers; external services apply
what they never confirmed; requests queue behind one that fetches signing keys;
tabs share a cookie; signals are dropped and files change while a reload reads
them; Go maps are ranged over in no particular order. The complete list, line by line, is under `hazards` in
`PROJECT.json`.

## 2. The modules

| Module | Models | Composition |
| --- | --- | --- |
| `VersionStore` | what the version store promises: create, activate, delete and seed as atomic steps | abstract specification |
| `ConfigPlane` | admin handlers, start-up, watch goroutine, SIGHUP, crash and restart over one Redis | implements `VersionStore` |
| `DataPlane` | one route of one process: requests, semaphores, balancing, breakers, retries, health checks, reload | |
| `RateLimit` | the token-bucket script and the expiry of its key | |
| `ResponseCache` | lookup, fill, expiry and invalidation of one route's cache | |
| `DynamicDNS` | the workers of successive snapshots, the provider, a moving address | |
| `Authentication` | one route's signing-key cache and its refresh; one API key, its users and its administrators | |
| `AdminSession` | sign-in to the console: browsers, tabs, the identity provider, sessions | |
| `ConfigRules` | the rules of validation and compilation, and what running code takes for granted, as operators | |
| `LastGood` | what a reload promises: replaced as a whole or left alone | abstract specification |
| `Reload` | start-up, the signal goroutine, reload of configuration and certificate, stop | extends `ConfigRules`, implements `LastGood` |
| `Routing` | one request through a snapshot: dispatch, path, body, redirect | |
| `MC*` | constants for the runs | extend the above |
| `ConfigPlaneProofs`, `DataPlaneProofs`, `RateLimitProofs`, `ResponseCacheProofs`, `AuthenticationProofs`, `AdminSessionProofs`, `ReloadProofs`, `RoutingProofs` | theorems (section 4) | each extends the module it is about |

### ConfigPlane

State: `configs`, `active` and `audit` are Redis; `serving` and `redisVersion` the
two atomics of every process; `wpc` and `load` the program counter and locals of
start-up and of the watch goroutine; `hpc`, `req`, `dirty` those of an admin
request, `dirty` being Redis's own mark that a watched key was written. `log`
(every write of the pointer), `documents` (per version number, every document that
was stored under it), `committed` and the `epoch` and `copy` fields, which say which
activation and which document of its number a copy comes from, are history: no
guard reads them.

One action is one Redis command, one WATCH block up to its EXEC, or one access to
an atomic. Taking the reads inside a WATCH block as one step is sound: a write
that falls between them makes EXEC fail, and the handler's other outcomes
(`Refuse`) are always possible. A `load` may begin at any time, which covers the
ticker, a pub/sub message, a late one and a lost one. Redis failures appear where
the code has an error path: `BootStore`/`BootPoint` without effect, `LoadFail`,
`Refuse`, `ActivateExec` whose reply is lost, `Audit` without an event. A process that
starts again after a crash reads its file as it is by then (`Files`).
`rollback` is `activateConfig` with another audit action and the same steps.

Configuration content is opaque. `Accepts[i]` and `Routeless` stand for what
`Validate` and `compile` answer at process `i` (they depend on the process's
environment and on `control_only`), with the two calls and their different
`allowNoRoutes` kept apart (`ValidateGatewayConfig`, `Compiles`).

### DataPlane

Requests carry the snapshot they were routed by; each snapshot has its own
semaphore, health flags, breakers and counter. `serveHTTP` is split at every
shared access: admission, policy, the `Add` of `pick`, each probe of a flag, the
breaker's decision, the upstream's answer, the reply. The policies in between
(authentication, rate limit, cache, transforms) are a choice between "answered
here" and "forwarded". The breaker is the library gobreaker, modelled from how it
is configured: consecutive failures open it, one probe is let through half open.
Time is a choice: a deadline or the end of an open period may come at any moment.

### RateLimit

The script as one atomic action, as Redis runs it, in units of 1/`Unit` token so that
the refill of every policy in a tick is a whole number. Several policies may be in
force at once, as during a rolling change, each with its own rate, burst and window:
a call refills by the window of the gateway that makes it and expires the key after
twice that window. `credit` is an ideal bucket that never expires, as large as the largest
policy's and refilled at `IdealRate`: the fastest policy's rate, or the rate at which
a key that expires after two of the shortest windows fills it, whichever is higher. When Redis does
not answer the code lets the request in and leaves the bucket alone; that is the
documented fail-open and is not counted against the limit. Not modelled: a Redis
clock that steps back, and a window below one millisecond.

### ResponseCache

A key is represented by the set of requests that share it, as `cacheKey` computes
it: method always, principal by policy; `vary_headers` act like the method.
Answers are of four kinds: the three that `storeCached` and `cacheMaxAge` tell apart, and the
one (`no-cache`, `max-age=0`) that they treat as an answer without directives. SCAN is
external: it visits every key present throughout, in any order and batching. The
audit event of an invalidation is not represented.

### DynamicDNS

Epochs number the successive public addresses, so that an address that returns is
a different epoch with the same value. The provider (external) may apply an update
and lose the answer, apply it late, or drop it.

### Authentication

The token half splits `verifyJWT` where another goroutine can come in between: the
look at the cached set, the lock, the second look, the fetch as it leaves, its
answer, the store. Keys of the provider are numbered; a token names the key that
signed it, and `Verdict` is the library's signature check. Other claims are
refused whatever the keys and are left out. The clock runs only while a fetch is
on its way, so that the five minutes (`MaxAge`) and the route's timeout are exact.
`sync.Mutex` promises no order: any request that is at the lock may get it when it is
free, a newcomer before one that waits. `overtaken` counts, for the properties, the
fetches that others began while a request waited.
`jwtRefreshMu` and the cached set belong to one route (`compileRoute` makes a
`compiledAuth` each), so one route is the whole story.

The API-key half is one record: HSET to create, EXISTS and HSET to revoke, HGETALL
to look it up, each a step that may fail or lose its reply. The admin API's own
lookup is the same read.

### AdminSession

A login stores state and verifier under a fresh id in one SET, so that the id stands
for all three and for the code issued on them. Tabs of a browser share the
cookie; a reply reaches the browser after it left the server (`Redirected`,
`Admitted`, `LoggedOut`), or never (`Abandon`). A callback URL may be opened again in
any tab of any browser, with its state or without. `callback` compares strings: a
signed-in session has an empty state and an empty verifier, so a URL without a state
passes on its cookie and its code is sent, with nothing to prove it (`StateMatches`,
`Secret`); the provider's comparison of verifier and challenge is `Grants`. The client
library may send a code twice after a failed first attempt; the second finds it
deleted or is the first to arrive, and both outcomes are those of `Exchange`. The
provider's `authorize` and `token` are translated from `demo-oidc`. `owner`, `urls` and
`redeemed` are history.

### ConfigRules, Reload and LastGood

A configuration file is a record with one field for each thing a rule looks at
and one value for each case the rule tells apart. `ValidApplication`, `ValidGateway`
and their parts are the three `Validate` functions; `Compiles` is the second judgement
by `compile`, in the environment the process *started* in. `CheckersRun` and `LimiterRuns`
are not rules but what running code needs of two values that no rule checks in the
unit they are used in: the health interval after `normalizeRoute`, and the rate window
after `Milliseconds()`.

`Reload` takes the signal goroutine step by step: a channel of two that drops what it
has no room for, the file, the certificate, the swap, the certificate pointer. Disk
contents change at any time. Before `signal.Notify` a signal ends the process. A
reload's certificate counts as in force from the swap on in the mapping to
`LastGood`, which is the moment the code has committed to it.

### Routing

Paths are sequences of segments, with a last empty segment for a trailing slash.
The tree of `http.ServeMux` (external: which patterns conflict, which is found) is
modelled from the standard library's documented precedence; route patterns, the
check of `Validate`, `rewritePath`, `rewriteRedirectLocation` and `transformJSON` are
the repository's. One action per entry of the rename map makes its order a choice.
Only the request's body is followed; the response's passes the same function.

## 3. The runs

Bounds are constants of the modules; every instance is the smallest in which the
named interaction occurs, with one more unit where TLC allows.

| Run | Shows | Bounds and why |
| --- | --- | --- |
| `config_admins` | the transactions of two administrators on a serving process never lose an update, never orphan the pointer, never audit what did not happen, and implement `VersionStore`; what is served was activated | 2 handlers, 3 versions, 4 requests, 1 crash or SIGHUP: a create, a delete and two activations can collide on two keys. Version 1 can be deleted and stored again with another document around a load of the watch goroutine, and version 2, which may be stored with either of two, replaced between the GET and the WATCH of an activation |
| `config_converge` | a gateway beside a control-only process serves what was activated, skips a load only when it may, never steps back, and ends up on the active configuration | 2 versions, a second document that the gateway rejects, 3 requests, 1 fault (a crash or a SIGHUP, with a file that may say something else under the same version) |
| `dataplane_pool` | attempts, response bodies, the endpoint scan | 2 requests, 3 endpoints, 1 retry, breaker at 2 failures: flags change behind and ahead of a scan |
| `dataplane_reload` | semaphores are exact across a reload, nobody is turned away without a cause, requests end, replaced snapshots wind down | 2 requests, limit 1, 1 retry, 2 snapshots |
| `rate_limit` | no over-admission, no starvation by refusals | 3 policies: windows of 4 and 2 ticks, a burst above the rate, a slow one; 12 ticks, beyond the expiry of every key. The short window expires what the long one drained |
| `cache` | how old a hit may be and what is never one; a completed invalidation is complete | 3 kinds of asker (another method, another principal), ttl 2, max-age 1, 3 ticks: entries expire between SCAN and UNLINK. One request at a time beside the invalidation is enough, since lookup and fill are one Redis command each |
| `dynamic_dns` | the DNS follows the address; replaced workers stop | 3 addresses, 2 snapshots; all steps end when Dynamic DNS is off, so deadlock is not checked |
| `authentication` | verdicts follow a rotation in time, one fetch for all, nobody waits longer than a timeout for each fetch that overtook it, a revoked key stays out | 3 requests with tokens of two keys and 1 with an API key, timeout 1, age 2, 4 ticks: a set goes stale, is fetched, and goes stale again across a rotation. A served request does not return, so deadlock is not checked |
| `admin_session` | tokens for a code are issued once and to the browser that began; one sign-in, one session; browsers do not disturb each other | 2 tabs of one browser (symmetric) and a second browser, 3 ids: two logins of which one completes. Ids run out, so deadlock is not checked |
| `reload` | every snapshot meets the rules of the environment of the start, the last SIGHUP wins, a queued SIGTERM stops, configuration and certificate change together | every file one field away from three valid ones at start-up (all rules are met and broken); 5 files at reloads, 2 changes on disk, 3 signals: one more than the channel holds. A stopped process is an end, so deadlock is not checked |
| `routing` | the longest prefix serves, redirects lead back, rename order does not matter | all tables of two routes over 4 prefixes, 2 hosts, 3 methods, 4 rewrites; 6 request paths, 7 locations; bodies of 3 keys with up to 2 renames. Requests end, so deadlock is not checked |

`NeverAdmitsTooMuch` has no precondition. Where bursts are no larger than the rate and all
windows are equal, two windows fill the bucket and the ideal rate is the fastest
policy's; otherwise the expiry of the key is a refill of its own (a fresh key is a full
bucket), and the ideal rate says how much that is.

Type correctness is a property of its own in `config_admins`;
in the other modules `TypeOK` is the first conjunct of one of the invariants. `DynamicDNS` has liveness properties only.

`VerdictsAreRecent` is the sum of the two delays there are: a set is used for
`MaxAge`, and it may have been overtaken while its answer was on its way, which the
request's deadline bounds. `RedirectsLeadBack` is about upstream URLs without a path
of their own and `OrderDoesNotMatter` about renames that do not chain; outside these
the code behaves otherwise, as listed below.

### The run that ends in a violation

`config_local_race`: on a process with the admin API the watch goroutine (still loading
version 1) and the handler that activates version 2 swap in one order and record in
the other; `redisVersion` equals the pointer while version 1 is served, and every later
poll skips. The finding in `PROJECT.json` quotes the sentence of `docs/README.md` that this
refutes.

### Further instances

These configurations ask narrower questions of the same modules and are run by hand, for
example `tlc -config ConfigPlane_reuse.cfg MCConfigPlane`. Three of them pass:

* `ConfigPlane_reuse.cfg` (`MCConfigPlane`): one handler and five requests, so that a number
  is reused around a gateway's loads: create 2, activate it, delete 1, create 1 again with
  other routes, activate it, in every order. `ServesWhatWasActivated` and
  `DataPlaneSkipIsSafe` hold. The three requests of `config_converge` do not reach a
  reused number.
* `DynamicDNS_overlap.cfg` (`MCDynamicDNS`): three snapshots and an address that stays. The
  worker of the third starts before the first is cancelled; both properties of
  `dynamic_dns` hold.
* `AdminSession_logout.cfg` (`MCAdminSession`): two tabs of one browser and four ids, so that
  two sign-ins complete while a page of the first is open. `LogoutsActOnTheirPage` holds.

Four end in a violation of something the documentation says:

* `ConfigPlane_number_reuse.cfg` (`MCConfigPlane`), `DataPlaneSkipSeesTheDocument`:
  `README.md:12` has "Immutable configuration versions". With the sequence above, a
  gateway that loaded 1 and missed 2 finds 1 active again and takes its new document for the
  one it serves (`control.go:634`). What remains true is `ServesWhatWasActivated` and
  `DataPlaneSkipIsSafe`.
* `ResponseCache_directives.cfg` (`MCResponseCache`), `DirectivesAreRespected`:
  `docs/configuration.md:69` has "request/response `Cache-Control` directives are
  respected"; an upstream answer with `no-cache` or `max-age=0` is stored for the policy's
  ttl (`app.go:730`).
* `Authentication_deadline.cfg` (`MCAuthentication`), `RouteDeadlineHolds`:
  `docs/configuration.md:46` calls `timeout` the "Route deadline"; a request waits for
  `jwtRefreshMu` past it when a newcomer with a later deadline gets the mutex first
  (`app.go:486`). `OneTimeoutPerFetch` is the bound that holds.
* `Reload_unchecked.cfg` (`MCReload`), `ServingCanBeRun`: `README.md:65` has "The process
  validates the complete configuration before listening". A negative `health_interval`,
  which `config.go:302` does not look at, makes `time.NewTicker` panic (`app.go:766`), and
  a rate window below one millisecond is zero after `Milliseconds()` (`app.go:557`), a
  division by zero in the script (`app.go:535`).

More disagreements came up in modelling and are not kept as instances:

* A health check cancelled with its snapshot marks the endpoint unhealthy
  (`app.go:778`), and a request still on that snapshot may be answered 502 although
  its upstream is well. `RefusedForACause` exempts replaced snapshots.
* A SIGTERM that finds two SIGHUPs queued is dropped (`main.go:129`), and a SIGHUP
  that arrives before `signal.Notify` (`main.go:130`) ends the process.
  `QueuedTermStops` is about a SIGTERM that was taken.
* A DEL that fails at logout is only logged (`control.go:553`): the browser forgets
  the cookie and the session lives on until its ttl.
* In one browser, the return of an older tab consumes the pending login, or the
  session, that a newer tab has put into the shared cookie (`control.go:483`).
  `BrowsersDoNotInterfere` is about other browsers.
* A version replaced between the GET and the WATCH of `activateConfig` (`control.go:286`)
  leaves the activating process on the older document of that number until the next
  activation; `ServesWhatWasActivated` compares documents where the one read is the one
  activated.
* An answer that was on its way when an invalidation ran is stored after it and stays
  for its ttl (`app.go:678`).
* With an upstream URL that has a path of its own, a rewritten `Location` keeps that
  path and leads the client elsewhere (`app.go:957`).
* Renames that chain (`k` to `l`, `l` to `m`) come out differently from call to call,
  and a rename of a key to itself deletes it (`app.go:868`).
* `docs/configuration.md:50` calls `concurrency` a local in-flight limit; the
  semaphore belongs to a snapshot (`app.go:304`), so while requests of a replaced
  snapshot run, a process has up to twice the limit in flight. `SlotsAreExact`
  states the limit per snapshot.
* An update that the DNS provider applied but whose answer was lost, followed by an
  address that returns to `lastIP`, is never repaired (`dynamic_dns.go:88`).
  `RecordFollowsAddress` fails with `Address <- ComesBack`; the run uses addresses
  that move on.
* `docs/configuration.md:79` promises an update only when the address changes; the
  worker of every new snapshot starts with an empty `lastIP` (`app.go:215`) and
  sends the address again.

### Fairness

* `Authentication`: the steps of a request are weakly fair; a fetch ends at its
  context's deadline at the latest, and `sync.Mutex` turns to its longest waiter once that
  has lost for a millisecond, so that nobody is passed over for ever. The clock, the provider and administrators are
  not fair.
* `Reload`: start-up, the signal goroutine and the stop are weakly fair; operators
  and signals are not.
* `ConfigPlane`: start-up and the watch goroutine of data-plane processes run when
  they can (goroutines are scheduled, the ticker fires, Redis commands have
  timeouts). `LoadFetch` is strongly fair: a load that fails is retried at every
  tick, so of infinitely many retries one is answered, which says that Redis
  outages end. Administrators, crashes and SIGHUPs are not fair.
* `DataPlane`: every step of a request is weakly fair (attempts have deadlines), so
  are cancellation and the checkers. `CheckStop` is strongly fair: Go's `select`
  picks uniformly between the ticker and a cancelled context, so it does not avoid
  the latter for ever.
* `DynamicDNS`: goroutines and tickers are weakly fair; `Discover`, `Apply` and
  `Confirm` are strongly fair, which says that outages of the two services end.
  Without this no retry loop delivers anything.

## 4. The proofs

Every safety property that a passing run checks (23 invariants, 7 action properties and
refinements), and `LogoutsActOnTheirPage` besides, is also a theorem, for all values of
the constants that satisfy the named assumptions. Theorems are about
`Spec`; runs with a `FairSpec` check the same behaviours with fairness. Bounds such as
`MaxTime`, `MaxSnapshots` or `MaxEdits` are constants like the others, so that the
theorems cover runs of every length. Each component has one inductive invariant,
a conjunction of named parts, one lemma per action that keeps it, and the
properties as corollaries or, for action properties, as facts about one step
taken from it.

### Activation and delivery: ConfigPlaneProofs

Proved, for any number of processes, handlers, versions,
contents, crashes and SIGHUPs:

| Theorem | Statement |
| --- | --- |
| `TypeCorrect` | `TypeOK` is invariant |
| `TransactionsSeeTheirChecks` | between its checks and EXEC an unmarked transaction's checks still hold |
| `NoLostActivation` | the activations form one chain, each replacing the version its If-Match named |
| `Refinement` | `ConfigPlane` implements `VersionStore` |
| `ActiveNeverDeleted` | no step takes the pointer from a stored version to an absent one |
| `AuditIsTruthful` | every audit event stands for an operation that took effect |

Assumptions, all named in `ConfigPlane` and evaluated by TLC in every run of it:
version numbers are positive naturals, the value of an absent key is no content,
there is at least one process, the constant functions have their types, and every
process's own file passes its own validation (`newApp` fails otherwise).

The argument. None of the invariants is inductive alone. `IndInv` conjoins

* `TypeOK`;
* `ReadsAreSound`: what handlers and loads hold at each program counter is what
  the code has read by then (a fetched load has content, an activation between GET
  and its store names a version), which type correctness of the swaps needs;
* `ChecksStillHold`: the heart of the optimistic transactions, kept because every
  action that writes the pointer or a version key marks exactly its watchers;
* `LogTracksPointer`: the pointer is the version of the last log entry, which ties
  the history to Redis;
* `ActivationsFormAChain`, which follows at EXEC from the two before it.

`Refinement` shows that under `IndInv` every step is a step of `VersionStore` or
leaves its variables alone; `ChecksStillHold` supplies the abstract guards at
EXEC. `ActiveNeverDeleted` uses the same facts for the two EXECs.
`AuditIsTruthful` adds `CommittedBeforeAudit`: a handler that has reached its
commit has its operation in `committed`.

Its second half proves, for the same constants:

| Theorem | Statement |
| --- | --- |
| `ForwardOnly` | no load takes a data-plane process back to an earlier activation |
| `ServedIsActivated` | a process that serves from Redis serves the version of the activation it saw and, if the document it read is the activated one, its content; on the data plane the document is that one or a later one |
| `SkipIsSafe` | on the data plane a recorded version equal to the pointer means that this number is served, and the active document unless the number was stored again after it was read |

Numbers may be deleted and reused, by administrators and by bootstrap files, without
restriction: here the theorems say more than `config_converge`, whose bounds do not reach
it, and `ConfigPlane_reuse.cfg` is the instance that does.

The argument. Two lemmas look at `Next` once: `StepAtInstance` (a step keeps an
instance, starts, fetches or swaps a load, puts a file back, or activates locally)
and `StepAtHandler` (a handler stays idle, moves on, opens a request or commits).
The rest is stated in those terms:

* `OrderInv`: every epoch held by a snapshot, a load or a committed handler is an
  entry of the log with the same version; a data-plane load is never behind what
  is served; handlers run on processes with the admin API only. `ForwardOnly`
  follows, because the log only grows (`LogGrows`, `HistoryIsKept`).
* `DocumentInv`: a stored version is the last document of its number (`StoredIsLast`); whatever
  is logged, carried by a request, loaded or served as the n-th document of `v` is the
  n-th document of `v`; and what a data-plane process loads or serves is no older than what the
  activation made active, because the GET comes after the EXEC. Documents are only
  ever added (`PutAdds`, `DocumentsAreKept`), so copies stay true.
* `Recorded`: `redisVersion` of a data-plane process is the version served from Redis,
  or the load that swapped it in is about to record it.

### The request pipeline: DataPlaneProofs

For any number of requests, endpoints, retries, slots and snapshots:

| Theorem | Statement |
| --- | --- |
| `SlotsHold` | `SlotsAreExact`: a snapshot's semaphore counts the requests between acquire and deferred release, and its limit holds |
| `CallsAreLimited` | `NeverSentTooOften`: one call, or one and the retries of a retryable request |
| `ResponsesDoNotLeak` | `ResponsesAreClosed`: a request holds no response but the one it is about to return |
| `SteadyEndpointsAreFound` | `PickFindsSteadyEndpoint`: a scan of all positions does not miss an endpoint that was healthy throughout |
| `RefusalsHaveACause` | `RefusedForACause`: who is told that no endpoint is healthy met a failed check of each, or a replaced snapshot |

`PlaneInv` conjoins `PlaneType`; `HealthInv` (only replaced snapshots are cancelled, and a
flag that is down was refuted by a check or belongs to one of those); `RequestsInv`, which says
for each program counter what the request holds; and `SlotsInv`, which equates counter
and holders. The first hard part is that equation: each step moves at most one request
into or out of the holders, and cardinalities follow (`IsFiniteSet(Requests)`: the
requests of a process at one time). The second is `ScanMeetsAll`: `Count` steps modulo
`Count` meet every endpoint, and an endpoint the scan has passed was down or excused
at the moment it was passed.

### The token bucket: RateLimitProofs

For every set of policies, with windows of their own, and every run:

| Theorem | Statement |
| --- | --- |
| `BucketLimits` | `NeverAdmitsTooMuch` |
| `RefusedCallersAreAdmitted` | `RefusalsDoNotStarve`: once the slowest rate has refilled a token since the last admission, the next call is let in, however often it was refused in between |

`BucketInv` says that the ideal bucket is full, or holds at least the stored tokens and what
has flowed in since, and is full where the key is gone (`Covered`); that the stored tokens
are a whole token or have grown at the slowest rate since the last admission
(`Replenished`); and that the key outlives its last update by two of the shortest windows
(`Kept`). The tick that removes the key is where `ExpiryRate` is used: two windows at it
fill the largest bucket. The assumptions are those of `config.go:271` (`PoliciesAssumption`:
requests and window positive, burst not negative, a unit that divides evenly) and that
policies have extremes, as any finite set has (`ExtremesAssumption`).

### The response cache: ResponseCacheProofs

For all sets of requests and askers, every ttl and max-age:

| Theorem | Statement |
| --- | --- |
| `HitsAreNeverStale` | `HitsAreFresh` |
| `InvalidationLeavesNothingOld` | `InvalidationIsComplete` |

`EntriesInv` ties an entry's key to the request it was made for and its expiry to its
kind; `ScanInv` says that every key from before the invalidation is yet to be visited
or waits to be unlinked, which is what remains true while requests fill, entries
expire and SCAN proceeds in any order.

### Tokens and API keys: AuthenticationProofs

For any number of requests, signing keys and rotations, every timeout and age:

| Theorem | Statement |
| --- | --- |
| `WaitsAreBounded` | `OneTimeoutPerFetch` |
| `RevocationsHold` | `RevokedKeysRefused` |
| `RefreshesAreSpaced` | `StoresAreSpaced` (action property) |
| `VerdictsFollowTheProvider` | `VerdictsAreRecent` (action property) |

`QueueInv`: the deadline of the request that holds `jwtRefreshMu`, at which its fetch ends, is
no later than what anyone behind it is allowed, its own timeout and one for every fetch
that overtook it. This needs no order of the mutex: who fetches came at the latest when
the fetch began, and beginning it adds a timeout to everyone who waits. `SetsInv`: the mutex
is held only while the set is stale; the cached set was current a timeout before it was
stored, or later, and a fetched one during its fetch. `ProviderInv`: publication times
are ordered. The sum `MaxAge + Timeout` of `VerdictsAreRecent` comes out of
`SetsInv`. The one assumption beyond types is that the mark of a free mutex is no request.

### Signing in: AdminSessionProofs

For any number of tabs, browsers and logins:

| Theorem | Statement |
| --- | --- |
| `CodesAreBound` | `ExchangesAreBound` |
| `SessionsNeedSignIns` | `OneSessionPerSignIn` |
| `OnlyOwnersEndSessions` | `BrowsersDoNotInterfere` (action property) |
| `LogoutsAreOfTheirPage` | `LogoutsActOnTheirPage` (action property) |

`OwnersInv`: a cookie, the id a handler goes by and the verifier that `callback` found name
what was stored for that browser. `GrantsInv`: a login for which tokens were issued has
lost its code, they went to its own browser, once, and one tab is making a session of
them. It rests on the challenge and not on the state, which an empty one passes. `FreshInv`: a login on its way to the provider is in one tab and has no code
yet. `CountInv` is the count behind `OneSessionPerSignIn`: sessions, codes
outstanding and logins being admitted are together no more than the logins that came
back from the provider.

### Start-up and reload: ReloadProofs

For all files, certificates, edits and signals:

| Theorem | Statement |
| --- | --- |
| `StartedRulesAlwaysHold` | `StartedRulesHold` |
| `ReloadsAreAtomic` | `ReloadsAreWhole`: `Reload` implements `LastGood` |

`ServedInv` keeps that the file served compiled in the environment of the *start*, and
`HeldInv` that a reload judges the copy it has read, whatever happens on disk
meanwhile. From `ServedInv` the rules of that environment follow, whatever environment the
file names. The refinement shows that the step that swaps the snapshot is the abstract replacement
and that all other steps stutter. Assumed: the two markers are no certificates.

### Routing and rewriting: RoutingProofs

For every table of routes, all paths and all flat JSON objects:

| Theorem | Statement |
| --- | --- |
| `RoutesAreLongest` | `LongestPrefixServes` |
| `RedirectsComeBack` | `RedirectsLeadBack`, for upstream URLs without a path |
| `RenamesCommute` | `OrderDoesNotMatter`, for renames that do not chain |

`HiddenPatternsConflict` is the reason for the first: if a method-specific pattern
wins over a longer one, the two conflict and `compile` has refused the table.
`LongestExists` supplies the pattern that the mux's search finds, and
`ThereAndBack` is the algebra of `rewritePath` after `rewriteRedirectLocation`. `BodyInv`
describes the body after any set of renames, whatever order they were made in.
Assumed: request paths and resolved `Location`s have at least one segment (a `Location`
without a path comes out of `joinURLPath` as `/` does), and the paths of a
configuration are sequences of strings.

### Only model-checked

Liveness, which is outside the prover's reach: `DataPlaneConverges`,
`EveryRequestAnswered`, `RetiredSnapshotsWindDown`, `RecordFollowsAddress`,
`RetiredWorkersStop`, `EveryRequestDecided`, `LastSignalWins` and `QueuedTermStops`. `DynamicDNS`
has nothing else, so no theorem is about it. The mux (`Dispatch`, `Conflict`), the breaker, the
token library, SCAN and the provider are models of code outside the repository; the
theorems are about the code together with those models.

## 5. Not modelled

* CORS, the console, telemetry, header transforms, the forwarded headers, the sample
  backend: they keep no state the system depends on, and what they compute is a
  header or a page.
* The provider's discovery and key documents and its signing; `initOIDC`, whose
  outcome is a refusal or a constant.
* Audit events of sessions and API keys, which nothing reads back.
* The snapshot that `Validate` compiles and cancels at once, and the shutdown
  sequence: nothing else observes them.
* A flush of Redis and a rebuild from the gateways' files.

## 6. Plan

Order: the control plane first, because every other part runs what it delivers;
then the request path; then the policies with shared state; then sign-in, process
life and the pure parts. These are done. Next:

1. `DataPlane` composed with a policy module instead of a choice; Redis flush in
   `ConfigPlane`; an address that moves during overlapping activations in `DynamicDNS`;
   header transforms.
2. Proofs: a safety invariant for `DynamicDNS`, and the parts of the liveness
   arguments that are safety facts (what each wait waits for).
