# reprox in TLA+

[reprox](../src/README.md) is a TCP front end on one public port. It reads the
TLS ClientHello of every connection; a connection whose SNI is a configured
secret domain is relayed, bytes untouched, to that domain's backend, and every
other one is served a static HTTPS site. This directory holds models of its
core, the TLC instances that check them and machine-checked proofs about them.

Line numbers refer to `src/src/` unless said otherwise.

## 1. Inventory

| part (source) | state | operations |
|---|---|---|
| accept loop (`main.rs` 325-395) | its position; the slot it holds while it waits | acquire a slot, accept, rate check, per-IP check, spawn, drop and continue, back off 100 ms |
| connection task (`main.rs` 382-393) | the stream, `_conn_slot`, `_ip_slot` | route, then drop the two slots in reverse order |
| graceful shutdown (`main.rs` 124-182, 279-299) | a deadline | cancel the loop, close the listener, poll the count until zero or the deadline |
| connection limiter (`limiter.rs`) | a semaphore, and `Stats::connections` | `acquire_slot`, `Drop for ConnectionSlot` |
| per-IP limiter (`ip_limiter.rs`) | a mutex-guarded map of counts, an atomic cap | `try_acquire_slot`, `Drop for IpSlot`, `set_limit` |
| rate limiter (`rate_limiter.rs`) | a mutex-guarded map of token buckets, two atomics | `allow`, `sweep`, `set_limit` |
| hot reload (`main.rs` 184-276) | the adopted configuration | on SIGHUP: load config, certificate, key; swap them in; adopt |
| certificate resolver (`tls.rs`) | a `RwLock` around a certified key | `update`, `resolve`, `load_certified_key` |
| router (`route/router.rs`) | a `RwLock` around the current `RouterState` | `reload`, `route`: snapshot, sniff with a timeout, look the SNI up, pass through or serve |
| capture and replay (`route/capturing_stream.rs`, `prefixed_stream.rs`) | the captured bytes, a replay cursor | `poll_read`, `poll_write` |
| upstream (`route/proxy.rs`) | attempt number | connect with timeout and back-off, relay both ways, count |
| fallback site (`route/serve.rs`, `fallback.rs`) | files loaded at startup, each with an ETag | load; method, path and conditional request to a response; count |
| configuration (`config.rs`) | the parsed file | load, environment overrides, normalise, validate, warn |
| statistics and metrics (`metrics.rs`) | atomic counters, gauges with a guard | count, snapshot, render |
| HTTP bodies (`http_util.rs`) | none | two constructors |

**Interactions.** The accept loop, every connection task, the SIGHUP task, the
janitor, the metrics API and `main` run concurrently on the runtime's threads.
They share the two limiters, the rate limiter, the router's and the resolver's
`RwLock`s and the counters; there are no channels. The loop and the shutdown
signal are two branches of one `select!`: the loop is cancelled only where it
awaits. Slots are values whose `Drop` runs wherever their owner goes out of
scope, on any thread.

**What is hard.** The limit of `try_acquire_slot` is read before its lock; a
slot's two halves (counter and permit) move in separate steps; slots change
hands between the loop and a task and must be released on every path, also on
cancellation; the drain decides on one counter what is true of many tasks; a
reload reads three files that change one at a time and installs in six steps
what connections read in two; SIGHUPs coalesce; which settings a reload applies,
which it warns about and which are fixed at startup are three separate lists; the
site's files may be replaced while it is loaded; either side of a relay may end
first; a terminated connection may end before its client does. `PROJECT.json` lists
each hazard at its line.

**What makes each part correct.**

* limiter: counter and semaphore never drift apart; the gauge never hides a
  free permit.
* per-IP limiter: the map counts what is held, never more; nobody is let in at
  or over the limit; an idle address leaves no entry.
* loop, tasks, shutdown: open sockets never exceed `max_connections`; every slot
  has exactly one owner that will drop it; queued clients are eventually taken;
  shutdown ends; a drain that ends on zero has cut nothing off.
* hot reload: all or nothing up to its last possible failure; matching pair;
  later connections see it; the last SIGHUP counts.
* rate limiter: no address gets in more often than burst and rate allow, whatever
  readings and reloads the decisions meet; forgetting a full bucket costs the client
  nothing and gives it next to nothing; quiet addresses are forgotten.
* upstream: the documented attempts and delays, one outcome counted per
  connection; relay: bytes in order, counted.
* capture and replay: the backend sees the client's bytes, each once, in order.
* router: one outcome per connection, timeouts included.
* statistics: derived sums agree at quiescence; gauges are the number of connections
  served and return to zero.
* configuration: what is validated is what runs, after any reloads; each name
  leads to its own route; the environment wins; nothing departs from the
  configuration without a warning.
* fallback site: a 304 is true; the root is always there; the counters by
  method, status and byte agree.

## 2. Modules and the code

| module | models | EXTENDS / INSTANCE |
|---|---|---|
| `ClientAddresses` | addresses, ports, loopback and per-IP limits: the constants of the next and of `AcceptLoop`, with their assumptions | |
| `IpLimiter` | `ip_limiter.rs` | `ClientAddresses` |
| `ConnectionLimiter` | `limiter.rs`, the gauge of `metrics.rs` 246-248 | |
| `Admission` | abstract: what the loop, the limiters and the tasks promise together | |
| `AcceptLoop` | `main.rs`: loop, tasks, `select!`, `wait_for_drain` | `ClientAddresses`; composes `IpLimiter` and `ConnectionLimiter`; refines `Admission` |
| `HotReload` | `hot_reload` and what it swaps, against connections being routed | |
| `RateLimiter` | `rate_limiter.rs`: `allow`, `sweep`, `set_limit` | |
| `Route` | `Router::route` stage by stage, `connect_with_backoff`, the handshakes, the counters and `ActiveGuard` of `metrics.rs` | |
| `Pipe` | abstract: a client's bytes reach the reader each once, in order, to the end | |
| `ClientStream` | `capturing_stream.rs`, `prefixed_stream.rs` and the hand-over in `route()` | |
| `Relay` | `relay_to_service` in `proxy.rs`: both directions of the copy, half-closes, errors, what is counted | `ClientStream`; refines `Pipe` |
| `Config` | `config.rs`, and which settings `main` and a reload put in force | |
| `HttpSite` | `fallback.rs` and `handle_http` of `serve.rs` | |
| `IpLimiterProofs`, `AcceptLoopProofs` (the connection limiter's too), `RateLimiterProofs`, `HotReloadProofs`, `RouteProofs`, `RelayProofs`, `ConfigProofs`, `HttpSiteProofs` | theorems | the module they are named after, `TLAPS` |
| `MC...` | small instances for TLC | the module they are named after |

`IpLimiter`. `try_acquire_slot` is two steps, because its limit is loaded
(line 75) before the mutex is taken (84): `LoadLimit`, then `PassUnlimited`,
`Reserve` or `Reject`. Each critical section is one step. `Reject` keeps the
`or_insert(0)` that has run by then. `DropSlot` is `Drop for IpSlot`, which does
not know whether its slot was counted; `ip_slot` remembers it as history so that
properties can speak of it. `SetLimit` is `set_limit`.

`ConnectionLimiter`. `acquire_slot` takes a permit, then increments
`Stats::connections`; dropping a slot decrements, then returns the permit. The
four are separate actions. `Move` is the slot moving into the spawned task.

`AcceptLoop`. One action per step of `accept_loop`, with the limiters' actions
conjoined, so that the state of a limiter changes only as its module says.
`Spawn` hands both slots to the task; a task's end is `RouteEnds`, `DropIpSlot`,
`DropConnSlot`, `ReturnConnSlot`, in the order Rust drops the locals. `Shutdown`
is possible only at the three awaits of the loop (`acquire`, `accept`,
`backoff`); a slot held there is dropped before the listener is closed. `polls`
counts polls of `wait_for_drain`; `Grace` is the deadline in polls. What
`route()` does is abstracted to its duration and the rate limiter to its two
answers. `Reload` is the one part of a reload this module sees.

`Admission` says only this: a set of open slots, offers that carry a limit that
was in force when the offer was made, never more than that limit accepted per
non-loopback address. `AcceptLoop` implements it (property `AdmissionPromise`)
with open = the peers that hold a per-IP slot, offers = the calls that have
loaded their limit.

`HotReload`. The operator edits three files one at a time (`WriteConfig`,
`WriteCert`, `WriteKey`) at any moment; `hot_reload` reads them in three steps,
each of which can fail, and installs in six. `hup` is one bit, because signals
coalesce. A connection takes the router's snapshot when its task is first polled
(`Route`) and its certificate from the shared resolver later (`Handshake`).
Configurations and key pairs are numbers in the order they are written;
`versions` and `floor` are history.

`RateLimiter`. `allow` and `sweep` load burst and rate in two steps, read the
clock in a third, and only then take the mutex: `LoadCapacity`, `LoadRefill`,
`ReadClock`, and `Decide` or `Sweep`. `allow` returns from `LoadRefill` when it is
exempt. There is one call of each kind at a time, because the accept loop alone
calls `allow` and one janitor task sweeps. `StoreCapacity` and `StoreRefill` are
the two stores of `set_limit`. Tokens are counted in grains, `Unit` of which are
one token, so that a slow rate leaves fractions, as it does in the code's `f64`,
whose rounding is left out. The rest is history: `ideal`, the buckets of a limiter
that is given the same readings of limits and clock and never forgets; `late`, for
how long calls that found their bucket swept were between their clock and the lock;
`admitted`, how often `allow` has let an address in on a token (not while it is exempt); `allowance`, the first burst and what
each reload is worth (`Worth`: the change of the burst, twice when it grows).

`Route`. `at` is the await (or the counter) a connection's task stands at. Every
`fetch_add` and `fetch_sub` is an action, so another connection's may fall between any
two; the code's early returns all lead to `leaving`, where `Drop for ActiveGuard` runs
as `Leave` and `Complete`. A timeout is a step that is possible whenever what it
guards has not happened. `waited` adds up the milliseconds of delays and attempts
in `connect_with_backoff`, at the constants of `ConnectRetryPolicy::DEFAULT`;
`failed`, history, counts the attempts that failed.

`ClientStream`. Bytes are numbers, told apart by their position in the client's
stream. A read takes any number of bytes the socket and the buffer allow, so
sniffing may read beyond the ClientHello. `Passthrough` is `take_captured`,
`into_inner` and `PrefixedStream::new`; `Terminate` is the other two routes, where
rustls keeps what it has read. `Abandon` is every way such a connection ends before
its client's bytes do: the handshake fails or runs into its timeout, a configuration
cannot be built, no service can be reached, hyper has done what it had to.

`Relay`. `ClientStream` up to the route, then: no byte is read again until
`Connect`; `Fetch` and `FetchEnd` are the replay and the reads of the client's
direction, `Write` and `Shut` its other end; `Respond` and `HangUp` are the service;
`Draw`, `DrawEnd`, `Return` and `CloseClient` are the other direction. That
`copy_bidirectional` goes on in one direction after the other has ended, returns Ok
when both have, and Err at the first error without a count is tokio's documented
behaviour and external. `BothDone`, `CountToService` and `CountToClient` are what
`relay_to_service` makes of an Ok; `Break` is an Err, and counts nothing. All of this
is passthrough; `ByRustls` are the reads and the end of a terminated connection.
`PipePromise` is `Pipe!Spec` with what the service (or rustls) has got for
`delivered`.

`Config`. A setting has two acceptable values and one that stands for everything
`validate` refuses; a name is its host, its trailing dots and its case; an upstream
is the kind of its host and its port. `Loaded` is `try_load`: parse, default,
normalise, override, validate, in the code's order. `running` is what is in force:
`main` builds all of it, `Adopt` replaces `Live` and leaves `Baked`, `Differs` is
`warn_about_unreloadable_changes`. `told` and `warned` are history. The swaps of a
reload are one step here; `HotReload` takes them apart.

`HttpSite`. `Come`, `ReadBytes` and `ReadMetadata` are the walk at one file, in
whatever order the directory lists them; `Write` is a deployment that renames a file
into place, with any modification time, or removes one, between any two of them.
`Restart` may come at any time and loads the site anew; a browser's `copy` survives
it. A request is `CountMethod`, `CountStatus` (with the response, which depends on
nothing that moves) and `CountBytes`. The path is percent-decoded before it is cut
at a question mark, so a name holds whether it has one; a file whose own name does
is loaded and never found. The counter of other statuses is left out, since no
response of `handle_http` has one.

**Memory order.** All of the program's atomics are `Relaxed`: each one by itself has
one order of changes, which a `fetch_add` or `fetch_sub` never misses, but two of them
may be seen by another thread in either order. The modules give every step its place
in one order. Where that matters to what they say:

* The counters of `Route` and `HttpSite` are only added to and subtracted from, and no
  decision reads them. The properties compare sums of what has been done so far, which
  is the same in any order; they say nothing of what `Stats::snapshot`, which loads one
  counter after the other, shows of it meanwhile. Nothing could be: even on one
  processor it loads the totals first (`metrics.rs` 226-235), so that `total -
  completed` can be less than the gauge beside it, and on a weakly ordered one a
  connection may be shown completed and active at once. It is left out for that reason.
* In `ConnectionLimiter` and `AcceptLoop` the permits are the semaphore's, which
  synchronises; `Stats::connections` is added to by the accept loop alone, which is a
  branch of `main`'s own `select!`, so the drain in `main` misses no connection. A zero
  that it reads may run some instructions ahead of the release of a per-IP slot's
  mutex, which `DrainCutsNothing` takes to be before it. The gauge is promised at the
  instant it is computed.
* The limits of `IpLimiter` and `RateLimiter` are loaded before the lock and may be out
  of date in the model as well. The two of `set_limit` may be seen in the other order,
  the new rate with the old burst; a call that loads the burst before a reload and the
  rate after it has that same pair here.

Definitions named `Mut...` are slips of the kind a change to this code could
make; each stands before the definition it varies, and some property fails when
it takes that definition's place. No specification uses them.

## 3. What the runs check

| run | instance | checks | shows |
|---|---|---|---|
| `ip_limiter_off_and_on` | 1 address x 3 ports, limits 0-1 | `AdmissionWithinLimit` | **violated**, finding 1 |
| `accept_loop_safety` | 2 addresses (one loopback) x 3 ports, 3 permits, limits 1-2, 2 polls | `TypeOK`, `SocketsWithinLimit`, `SlotsOwned`, `DrainCutsNothing`, `PermitsAccounted`, `ExactCount`, `AdmissionPromise` | the composition is safe, both limiters count exactly in it, and it implements `Admission` |
| `accept_loop_live` | 2 addresses x 2 ports, 2 permits, limits 0-2, 2 polls | `NoPhantomCount`, `ShutdownCompletes`, `QueuedIsTaken` | main returns after a signal; no queued client waits for ever; even with the cap switched off and on the map never over-counts |
| `accept_loop_gauge` | 2 peers, 2 permits | `SustainedZeroMeansBottleneck` | **violated**, finding 2 |
| `hot_reload` | 1 connection, 4 edits | `TypeOK`, `InstalledPairMatches`, `NotHalfApplied`, `ReloadTakesEffect`, `LastHupWins` | reloads are all or nothing, take effect, and are not lost |
| `hot_reload_mixed` | 1 connection, 3 edits | `NoMixedConnection` | **violated**, finding 3 |
| `rate_limiter` | 1 public and 1 loopback address, half a token per tick and 1-2 of burst or switched off, 4 ticks, 2 reloads | `TypeOK`, `ForgettingIsBounded`, `AdmissionsBounded`, `NoFalseRefusal` | stale readings, sweeps and half-done reloads never let an address in more often than its bursts and the highest rate allow, by more than the amounts named; no sweep costs a client a token; what sweeping gives away is bounded |
| `route` | 2 connections | `TypeOK`, `BooksBalance`, `GaugesMatchReality`, `RetriesExplained`, `StuckAtMost`, `Settles` | one outcome each, gauges that are what is served and return to zero, every failed attempt counted once, the documented bound on a dead service, nobody stuck |
| `relay` | 7 bytes, a ClientHello of 3, buffers of 1, 2 and 4, an answer of 2 | `RelayTypeOK`, `CountedIsDelivered`, `PipePromise`, `RequestDelivered`, `AnswerDelivered` | no byte repeated or overtaken, on any route, and on a passthrough route none lost; half-closes respected; nothing counted that did not arrive |
| `config` | 22 files, 5 environments | `TypeOK`, `SoundToRunOn`, `NamesReachTheirRoute`, `EnvironmentWins`, `NoSilentDrift` | what runs was validated, names reach their routes, overrides hold, every departure was warned about |
| `config_tls` | the same | `WarnedIsNotApplied` | **violated**, finding 4 |
| `http_site` | 2 files, 3 contents (2 of one size), 2 seconds, 2 edits, 2 loads, 2 requests | `TypeOK`, `NotModifiedIsTrue`, `RootAnswers`, `HttpBooks`, `BytesCoverBodies` | a 304 is true but for the two collisions its comment names; the counters agree |

**Bounds.** They are sized so that each contended resource is contended:
more handles than permits, so that `acquire` waits; more connections of an
address than its limit, so that `Reserve` and `Reject` both occur, at the limit
and one below; a loopback address, which is exempt, beside a public one (two public
addresses share nothing but the permits, for which any two peers compete). Three
connections of one address are enough to have one being judged, one held and one
being dropped at once. Ports are symmetric (`SYMMETRY` in the safety runs, never
in a liveness one). `MaxEdits` bounds the edits of the files: four are one bad
or half-done renewal and its repair, with an edit of the configuration between
the reads. Reloads, SIGHUPs, connections and limit changes are unbounded: peers
and signals may come and go for ever. Addresses share no state in `RateLimiter`
but the limits, so one public address is enough; a bucket of one token at half a
token per tick empties and fills twice within `MaxNow` = 4, and `MaxReloads` = 2
lets both limits change and change back in the middle of a call. Every term of
`AdmissionsBounded` is reached there: without any one of them (the second burst of a
reload that grows it, what one that shrinks it adds, `late`) TLC finds a violation. In `Route` each
connection runs once and two meet at every counter; timers are exact there, where
real ones may be late. `Relay`'s buffers end a read before, at and after
the end of the ClientHello and of the captured prefix, and two bytes of answer are
enough for one to be on its way while the other is not sent. `Config`'s files
depart from a plain one in one setting or in their routes; edits, reloads and
restarts are unbounded, so any two files and environments follow each other.
`HttpSite` needs two loads, two edits and two requests for a stale copy to be
revalidated after a restart, and two requests at once for the counters; the bounds
are those. Its streams and the two contents of one size are symmetric. `Grace` bounds the polls of a drain as the
code's deadline does.

**Deadlock** is checked in every run; `AcceptLoop`, `Route`, `Relay` and
`HttpSite` stutter where the program has nothing left to do (`main` has returned, the
connections are done, the relay is over, no request is under way).

**Fairness.** `FairSpec` of `AcceptLoop` assumes weak fairness of the loop's own
steps, of each task's drops, of main's drain and of `accept()` while a client is
queued: the runtime polls what is ready, and none of these waits for anything
else. It assumes nothing of clients, of signals or of `route()`. `ServedSpec`
adds what service needs of the environment: sessions end while main serves, and
`accept()` does not fail for ever (strong fairness, because an error takes the
loop away from `accept` and back). Nothing is assumed to end a session during a
drain, so `ShutdownCompletes` rests on the deadline. `FairSpec` of `HotReload`
is weak fairness of the reload's next step; that of `Route` weak fairness of each
task's own steps, expiring timers among them and nothing of clients or services;
`FairRelaySpec` weak fairness of sniffing, of connecting (which ends, well or not),
of each direction of the copy by itself and of the counting: a socket that is ready
is polled. Nothing makes a copy break or a peer close, and nothing is assumed of a
terminated connection, whose reader is rustls: `RequestDelivered` is about passthrough. `Config` and `HttpSite` are
checked for safety only.

## 4. What is proved

For every value of the constants: any addresses, ports, limits, permits and grace,
any number of connections, requests and edits, any stream and buffers, any files,
sites and environments (TLC's runs are instances of these):

| theorem | says |
|---|---|
| `IpLimiterProofs!TypeCorrect`, `NoPhantomCountHolds` | no underflow, no phantom count, for any limits, 0 included |
| `IpLimiterProofs!ExactCountHolds`, `AdmissionWithinLimitHolds` | exact counts and the cap, assuming `0 \notin Limits` |
| `AcceptLoopProofs!ConnectionLimiterCorrect` | the connection limiter alone: counter and semaphore agree, and the gauge `connections_available` covers what an acquire could take |
| `AcceptLoopProofs!UsesConnectionLimiter`, `UsesIpLimiter` | the refinements `Spec => Conn!Spec` and `Spec => IpP!Spec`: the composition moves the limiters' state through their operations only |
| `AcceptLoopProofs!TypeCorrect`, `SocketsWithinLimitHolds`, `SlotsOwnedHolds`, `DrainCutsNothingHolds` | the safety of the composition, for any limits |
| `AcceptLoopProofs!PermitsAccountedHolds`, `NoPhantomCountHolds`, `GaugeCoversPermitsHolds` | the limiters' own promises, in the hands of the loop and the tasks |
| `AcceptLoopProofs!ImplementsAdmission`, `ExactCountHolds` | the refinement `Spec => AdmissionPromise` and exact counts, assuming `0 \notin Limits` |
| `RateLimiterProofs!TypeCorrect`, `AdmissionsBoundedHolds`, `NoFalseRefusalHolds`, `ForgettingIsBoundedHolds` | no bucket below zero, how often an address gets in, reloads and stale readings included, no refusal because of a sweep, what forgetting gives away |
| `HotReloadProofs!TypeCorrect`, `InstalledPairMatchesHolds`, `NotHalfAppliedHolds`, `ReloadTakesEffectHolds` | all or nothing, a matching pair, nothing older than the last adoption, however edits, reads and swaps interleave |
| `RouteProofs!TypeCorrect`, `BooksBalanceHolds`, `GaugesMatchRealityHolds`, `StuckAtMostHolds`, `RetriesExplainedHolds` | the counters, the gauges, the retries and the time spent on a dead service |
| `RouteProofs!ConnectionsGetOn` | every step of a connection brings it nearer its end, 17 steps away at most |
| `RelayProofs!TypeCorrect`, `CountedIsDeliveredHolds`, `ImplementsPipe` | the refinement `RelaySpec => PipePromise`, and that what is counted has arrived |
| `ConfigProofs!TypeCorrect`, `SoundToRunOnHolds`, `NamesReachTheirRouteHolds`, `EnvironmentWinsHolds`, `NoSilentDriftHolds` | what is in force after any reloads |
| `HttpSiteProofs!TypeCorrect`, `NotModifiedIsTrueHolds`, `RootAnswersHolds`, `HttpBooksHold`, `BytesCoverBodiesHolds` | what the site answers and counts, across edits during the walk, restarts and any number of requests at once |

The assumptions are those the modules name: finitely many addresses and ports,
loopback addresses among them, natural limits (`ClientAddresses`), at least one
permit, a `Loop` that is no peer (`AcceptLoop`); for the rate limiter a burst of at least one token and a
positive `Unit`, and a `MaxRate` no rate exceeds; finitely many connections in `Route`; a natural bound on the edits
in `HotReload`; a ClientHello no longer than the stream and buffers of a byte or more
in `Relay`; routes that have the fields of a `ProxyTarget` in `Config`; finitely many streams, sizes
that are natural numbers and a `None` that is none in `HttpSite`.
`0 \notin Limits` is not a convenience: finding 1 is what happens without it.

The arguments:

* *Per-IP limiter.* `PhantomInv` is `TypeOK /\ NoPhantomCount` and is inductive
  for any limits: a drop removes one counted slot at most and always takes 1 from
  an entry that is there, so "at most" survives it even when the slot was not
  counted. `ExactInv` adds `SlotKinds` (no slot of a public address is uncounted,
  and a call being decided has loaded one of the limits) and `ExactCount`;
  `SlotKinds` is where `0 \notin Limits` enters.
* *Connection limiter.* `ConnInv` is `TypeOK /\ PermitsAccounted`: what the
  counter says and what the semaphore has, less the handles between the two. It is
  inductive under the limiter's own `Next`, so it holds for any user of the slots.
* *Accept loop.* `LoopInv` joins the limiters' invariants with `SlotsOwned`
  (which slot each position of the loop and each state of a connection implies),
  `OneInHand` (one connection at most is being judged, and only where the loop
  says so), `PermitToSpare` (while the loop discards a socket whose permit it has
  given back, nobody else can have taken that permit), `BacklogQueued` (the accept
  queue holds queued peers, each once) and `ShutdownPhase` (once main is draining
  the loop is gone and holds nothing). `SocketsWithinLimit` alone is not
  inductive: it says nothing of the permit the loop holds when it accepts.
  `DrainCutsNothing` follows because a zero counter leaves no handle counted, a
  per-IP slot is dropped before its connection's is uncounted, and nothing new
  can be accepted.
* *Refinement.* A step of the loop or of a task maps to one step of `Admission`
  or to a stutter; the acceptance step is the one that needs `ExactCount`, to
  turn the map's count into the number of open slots; `SocketsWithinLimit` gives
  the bound on all of them together.
* *Rate limiter.* `BehindInv` adds to the types that every tracked bucket has its
  counterpart in `ideal`, refilled at the same time and holding no more. Refilling
  is monotone (`LevelMonotone`), and a bucket made anew is full, so a refusal by
  the real bucket is one by the ideal bucket. `BoundInv` adds `SameLimits` (until a
  reload every limit a call has loaded is the one in force), which makes two
  refills comparable (`LevelLater`): a bucket found full at any past reading of the
  clock costs nothing to forget (`ForgottenWhenFull`), and a bucket made anew with
  an old reading is ahead by at most what accrues since. `AccountInv` needs none of
  that: it keeps an `Account` per address, in which what it was let in, what its bucket
  holds and what a call under way could still add stay within `allowance` and the
  highest rate of the time up to `last_refill` (up to now, for a bucket forgotten).
  What a call could add is `Most - Least`: `allow` may fill the bucket to the burst it
  loaded, if that is above the one in force, and `sweep` may forget it at the burst
  *it* loaded, if that is below. `ClockOrder` (an address is never refilled to a time
  before its last) is what keeps time from being credited twice; a reload moves the
  account by `Worth` at most (`WorthCovers`).
* *Hot reload.* `ReloadInv` adds to the types `NeverBack` (files are read in the
  order they were written, so what is being installed is never older than what is
  installed), `Placed` (which of the two configurations and pairs each swapped part
  holds, by the position of the reload) and `Remembered` (a connection's floor is
  not above what is adopted). `ReloadTakesEffect` is one of its conjuncts: a
  snapshot, once taken, has to stay at or above the floor.
* *Stages of a connection.* `RouteInv` adds `Aimed` (the stages each target can be
  in), `AttemptsSpent` (which attempt a connection is at, after how many failed) and `Ledger` (each counter is the cardinality of the set of connections
  past the step that moves it; a gauge, of those in between). A step moves one
  connection, so each cardinality changes by what that connection's old and new
  stage make of it (`NumShift`); the gauges never go below zero because a
  cardinality does not. `BooksBalance` and `GaugesMatchReality` compare the sets.
  `Waits` bounds the time by the
  attempt it is at: 0, 3000, 6200 and 9600 ms before the delay, 13400 at the end.
  `RetriesExplained` counts the pairs of a connection and one of its failed attempts but
  the last, so that a retry adds one pair, and the connections whose last one failed; it
  needs `AttemptsSpent`. `Remaining` is the most steps a connection still has before it: the one
  way back, to the delay before the next attempt, costs an attempt, so every step
  lowers it and lowers nobody else's. That is the part of `Settles` which does not
  depend on fairness.
* *Relay.* `RelayInv` says of every sequence which prefix of the client's stream it
  is: `Capturing` while sniffing, `Replaying` after (before the prefix is used up the
  reader has the bytes before `pos`, then all that was read), `EndIsLast` for the
  ends of both directions and `Counted` for the counters. A step of the copy is one
  delivery of `Pipe` or a stutter.
* *Configuration.* `Sound` says that a configuration is normalised, validated and
  has the environment's say in it; it holds of the new, the adopted and the one in
  force, though that one is a mix which `validate` has never seen (`MixIsSound`:
  validation looks at settings one by one and at the routes together, and a mix takes
  each setting and all routes from one side). What a load would change of the adopted
  configuration has been told of, from which `NoSilentDrift` is inductive.
* *Site.* `AnswerCorrect` puts together all that `handle_http` decides about one
  request; `SiteInv` carries it from the step that answers to the step that hands the
  response on. `SizesTagged` says that the size in every ETag is that of the content it
  tags, on the site, in a response, in a browser, and in the request that comes back;
  with `Revalidated` (a 304 answers a tag that is the site's) two different contents
  under one ETag have one size and one second, which is what `Twins` says. `RootAnswers`
  needs `IndexServed`: a request under way means that the process is up, and up means
  that the walk found `index.html`; a file that goes while it is read ends the start
  instead. `HttpBooks` counts the requests between their two counters, one more with
  the first and one less with the second. `BytesCoverBodies` needs `BodiesCounted` (a
  body is as long as its Content-Length, but for HEAD) and `HeadsCounted` (a HEAD under
  way has been counted).

The proofs of the limiters are about their own operations, in any order; `ConnStep` and
`IpStep` carry them over to `AcceptLoop`, every step of which is a step or a stutter of
each limiter (`IpLimiterProofs` is instantiated with the same variables).

**Only model-checked:** liveness (`ShutdownCompletes`, `QueuedIsTaken`,
`LastHupWins`, `Settles`, `RequestDelivered`, `AnswerDelivered`). Every safety property
of a passing run is a theorem. **Out of the prover's reach for good:** liveness under fairness and
`ENABLED`, induction over data (what a recursive definition computes for every
input), anything about a RECURSIVE operator.

## 5. Findings

1. *Code.* `Drop for IpSlot` (`ip_limiter.rs` 50-58) decrements whether or not
   its slot was counted. A connection accepted while the cap is off, closed after
   a reload has switched it on, takes a counted connection's place away, and the
   address gets one connection more than the limit. (`ip_limiter_off_and_on`)
2. *Documentation.* The loop takes its slot before `accept()`, so
   `reprox_connections_available` counts one idle slot as taken; README.md:245
   reads a sustained 0 as "new connections are queuing". (`accept_loop_gauge`)
3. *Documentation.* README.md:368 says that no connection sees routes of one
   version with a certificate of another; the two are read at different moments.
   (`hot_reload_mixed`)
4. *Documentation.* A reload rebuilds the router's `ServerConfig` from the new
   configuration (`router.rs` 90-91, `tls.rs` 85), `tls_min_version` included;
   `main.rs` 192, README.md:379 and the warning that the reload itself logs
   (`config.rs` 386) say that it takes a restart. An operator who reads the warning
   and leaves it at that has changed the versions on offer. (`config_tls`)

Seen while reading, without a run: a connection accepted before a reload is
routed by the new configuration if its task is first polled after it
(`router.rs` 172, against README.md:364); the warning about unreloadable fields
compares with the last adopted configuration, not with what those fields still
run with (`main.rs` 243, against `config.rs` 359), so a second SIGHUP warns of
nothing, though `NoSilentDrift` holds: the first one did; "unset or `0` disables" the
rate limit (`config.rs` 83-84), but `validate` refuses a rate of 0 (345-350); "every
field can be overridden" from the environment (`config.rs` 12-13), but the routes and
`start_handshake_timeout_secs` cannot; a failed `accept()` ends the metrics API until
a restart (`metrics.rs` 736); `closed_early` and `not_tls` (README.md:243, 246) are
labels of no counter; an outright invalid ClientHello is promised the fallback
(`router.rs` 165-167, `serve.rs` 1-3, and README.md:401 for one spread over several TLS
records), but the code counts `probe_io_error` and closes (`router.rs` 195-204); the
snapshot loads totals before gauges and completions (`metrics.rs` 226-235), so a scrape
can show a `total - completed` below the active gauge; two versions of a file of one size, modified in the same
second, or a file replaced while it is loaded, can share an ETag (`fallback.rs` 93-111),
which `NotModifiedIsTrue` states as its two exceptions; the metrics API keeps the
startup configuration (`metrics.rs` 725, against README.md:256); a rate bucket is
never swept while the rate is 0 (`rate_limiter.rs` 118); forgetting a full bucket
can lose state after all (against `rate_limiter.rs` 98-100 and `main.rs` 301-303):
a call that read the clock before a sweep and takes the lock after it dates the
new, full bucket back, and the address earns that time again, by less than the
call took, which `ForgettingIsBounded` states and `late` measures; bytes moved by a relay
that ends in an error are not counted (`proxy.rs` 212); the doc of
`try_acquire_slot` (70-73) gives loopback no slot, the code gives it an uncounted
one.

## 6. Plan

The order so far: the per-IP and the connection limiter, then the accept loop
that composes them and its abstract specification, hot reload, the rate limiter,
the stages of a connection, the client's bytes, the relay, the configuration, the
site; then the proofs, in the order of section 4. What is left is
the part of each liveness property that is not about fairness, as `ConnectionsGetOn`
is for `Settles`: a measure that every step of the drain (`ShutdownCompletes`), of a
reload (`LastHupWins`) and of a copy (`RequestDelivered`, `AnswerDelivered`) lowers.

Runs are kept to one per question. The limiters have no run of their own for
safety: `accept_loop_safety` and `accept_loop_live` check their properties where
the loop uses them, and the theorems cover any other use.

## 7. Not modelled

`http_util.rs` (two constructors), content types and the headers common to all
responses, the text of logs, metrics and HTML, TLS itself (rustls), the service
unit, the manifest and the sample site. The walk of `static_dir` is flat, because a
subdirectory only adds names; durations are left out; the metrics API is its
counters, since its own HTTP keeps no state and a snapshot of them promises nothing
(section 2, memory order). The two counters of rejected connections, which nothing
reads but a scrape, are left out of `AcceptLoop`. Configuration values
are classes (acceptable, refused, garbled), hosts are told apart by what
`validate_upstream` tells apart. Panics (a poisoned lock aborts the calls that follow) are left out, as
nothing under a lock can panic. Parsing of TOML and PEM is
modelled by whether it succeeds.
