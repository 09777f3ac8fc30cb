# TLA+ verification of GoSessionEngine

Specifications of the concurrent parts of GoSessionEngine, the TLC runs that check them on
small instances, and TLAPS proofs for any number of goroutines. `PROJECT.json` holds, for
every definition, the source lines it stands for; this file says what is modelled, what the
checks show and what is still to do. Paths like `cluster/lock.go:175` are below `src/`.

Run a check with `tlc -config MCEngine.cfg MCEngine.tla`, a proof with
`tlapm InMemoryLock_proofs.tla`.

## 1. The system

`main.go` loads the proxies, builds a session manager, a worker pool and a scheduler, and runs
them until a signal arrives. The cluster, token and payload packages are libraries with goroutines and
locks of their own, used by deployments that embed them.

| Component | State | Operations | What makes it correct |
|---|---|---|---|
| Worker pool, `worker/pool.go` | buffered channel, closed or not, workers | `Start`, `Submit` (blocks when full), the worker loop, `Stop` (close, wait) | every job accepted runs to its end, once, before `Stop` returns; no send after the close |
| Scheduler, `scheduler/scheduler.go` | `stopCh`, the control goroutine's place in its round | `Start`, `dispatchJobs`, `Stop` (does not wait) | rounds pass no session over; it ends after `Stop` |
| Sessions, `session/manager.go`, `session.go` | map of sessions, each one's state | `CreateSessions`, `StartAll`, `StopAll`, `GetSession`, `Count` | no job uses a closed session |
| Metrics, `metrics/metrics.go` | three atomic counters | increments, `Snapshot` | counts add up when nothing runs; bounded skew while jobs run |
| Composition root, `main.go` | order of start-up and shutdown, the job function, the monitor | | shutdown always ends, abandons no request |
| Per-key lock, `cluster/lock.go` | map of reference-counted mutexes | `Lock` with a context, `TryLock`, `Unlock`, `IsLocked`, `WithLock` | mutual exclusion per key while entries come and go; no leak; no fatal unlock; nobody starves behind an abandoned acquisition |
| Cookie jar and master, `cluster/controller.go` | cookies by name, a version, a channel per watching machine | `Store`, `Snapshot`, `BroadcastCookie`, `WatchCookies`, status table | a registered watcher misses nothing; versions mean something; broadcasts never block |
| Worker client, `cluster/worker_client.go` | one connection | `WatchCookies` (Recv loop), unary calls | reconnecting gets the machine up to date |
| Session heartbeats, `token/heartbeat.go` | `sync.Map` of immutable states, `once`, `stopCh` | `SetState`, `FindAvailable`, `ClaimSession` (compare and swap), `ExtractFromResponse`, the keep-alive loop | a state is claimed once; updates are not undone; the loop ends |
| Token refresh, `token/refresh.go` | a token behind a lock, `stopCh`, a ticker per loop | `Refresh`, `SetToken`, `StartHeartbeat`, `StartAutoRefresh`, `Stop` | a token is renewed before it expires, one that is no JWT is replaced; loops end |
| Dashboard, `dashboard/server.go` | log ring buffer, subscribers' channels, `TargetURL` | event streams, configuration, logs | a stream sees every entry, in order, but for known gaps; slow readers block nobody |
| Payload validator, `payload/validator.go` | a baseline schema | `Learn`, `Validate`, `Reset` | one baseline wins; the comparison is right |
| Proxies, `proxy/proxy.go` | a list and an index behind a mutex | `LoadProxies`, `GetNextProxy` | sessions are spread evenly, index in range |
| Ordered headers, `client/ordered_header.go`, `h2_transport.go` | a slice of fields, compacted in place | `Add`, `Set`, `Del`, `Get`, `Clone`, `ApplyToRequest`, `RoundTrip` | a list is what its calls promise, lists share no array, nothing a request carries is lost |

How they interact: each session is created by a goroutine of its own, which takes the next
proxy of the rotation. The scheduler's control goroutine submits one job per registered session
to the pool; a worker runs the job, which reads the configuration, counts a request in the
metrics, calls the session's `ExecuteRequest` and counts the outcome; a monitor goroutine
and `main` read the metrics; the dashboard may set the target at any time. In a
cluster, machines upload cookies by `BroadcastCookie`, the master stores them in its jar and
pushes the merged jar to the channels of the `WatchCookies` handlers, which forward it.

The hard behaviours are the windows between two critical sections (a mutex made anew while
its predecessor is still locked; a jar whose version trails its contents; a state that is
read, changed and stored without a second look), the shutdown order, full channels,
cancelled acquisitions and reconnecting streams. `PROJECT.json` lists them as hazards.

## 2. What is modelled, and how

A critical section, an atomic operation or a channel operation is one action; a goroutine
is a process with a program counter (`pc`, `worker`, `ctl`, `main`, `bpc`, `spc`). Requests
and responses are outcomes; cookies are known by the upload that brought them.

* **`KeyLock`** is what the `DistributedLock` interface promises: per key at most one owner,
  and callers that ask, are granted or refused, and release.
* **`InMemoryLock`** is `cluster/lock.go`. `locks` is `il.locks`, `waiters` and `holder` are
  the two fields of each `keyMutex`, and `Mutex` is the set of their identities: a new
  `keyMutex` takes any one that nothing refers to, so old and new mutexes of one key coexist
  as they do on the heap. `Lock` is `LockRegister` (`getOrCreate` under `il.mu`), the helper
  goroutine's `HelperAcquire`, then `LockAcquired` or, when the context is done,
  `LockCtxDone`, `LockUnregister` and `LockDrain`; a helper that has not acquired by then is
  counted in `orphans` and later acquires and releases by itself. `TryLock`, `Unlock` and
  `IsLocked` have an action per section as well. In `Spec` callers unlock what they hold, as
  `WithLock` does; `StraySpec` adds callers that do not.
* **`WorkerPool`**, **`ProxyManager`**, **`SessionManager`**, **`Metrics`** and **`Scheduler`** hold the
  state and operations of their packages; **`Engine`** composes them with `main`'s start-up and
  shutdown, the job function (`JobBegin`, `JobEnd`), the monitor and the dashboard's change of
  target. **`JobQueue`** is what the pool promises, and `Engine` is shown to implement it.
  `SessionGoroutine` is one of `CreateSessions`' goroutines (`GetNextProxy`, then
  `NewSession`, which fails exactly when the proxy's address does not parse); `MainCreated` is the
  loop that registers what they built, and `main`'s exit when one failed.
* **`GlobalCookieJar`** and **`MasterController`** are the jar and the two calls around it.
  `Store` is two steps, because the version is bumped after the jar's lock is released; a
  broadcast then takes a snapshot, and fans out under `subMu` without blocking. A stream
  registers, sends the current jar, and forwards what its channel holds; its deferred delete
  runs as it leaves. `server` is `ListenAndServe`: `ServerStop` is the end of its context, after
  which no call begins, and `ServerReturn` the return of `GracefulStop`, which waits for every handler.
* **`HeartbeatManager`** is `token/heartbeat.go`: a stored state is an immutable record with
  its address, `ClaimSession` is a load and a compare-and-swap of that address, and
  `ExtractFromResponse` a load and a store.

* **`LogStreams`** is the dashboard's log: `AddLog` appends to the ring under one lock
  (`AddLogAppend`) and fans out under another (`AddLogFanOut`), and a stream's handler copies the
  ring, writes it, subscribes, and then forwards its channel until its client is gone. An entry is
  its place in the order of appends; a handler that returns may be followed by a new one for
  the same client, which reconnects.
* **`Validator`** is `payload/validator.go` as its callers interleave: the schema of a response is
  extracted, the section under `v.mu` teaches or copies the baseline, the comparison runs on the
  copy. `Schemas` gives the schemas a document may have; **`JSONSchema`** defines them, as
  `flattenSchema` builds them while it visits its maps in any order. A document is the type of
  each position in it, and a position the sequence of keys that lead there: what is inside an object
  has the object around it, and `MaxDepth` bounds the nesting as `encoding/json` does. A string is
  the sequence of its dot-separated segments, so that `a.b` and `b` inside `a` collide as they do in
  the code; a schema is a function from paths to type names. `flattenSchema` is a recursive function
  of the object and the prefix, whose writes (`Visit`, `Writes`) end in the map that `Written` gives.

* **`TokenRefreshManager`** is `token/refresh.go` with a clock: `Pass` moves it on when no goroutine
  has anything left to do, and puts a tick into a loop's one-place ticker channel when its interval
  is over. A loop is one `StartAutoRefresh` or `StartHeartbeat`; it takes a tick or sees `stopCh`
  (`LoopTick`, `LoopStop`), and its request ends within `Latency` in `RefreshStore`, `RefreshFail` or
  `BeatEnd`. Callers `Refresh` in between, and `SetToken` anything: nothing, what is no JWT, a token without
  an expiry, a fresh one, one about to expire or long expired (`Token`). A token is a kind (none, malformed,
  no expiry, expiry) and an expiry; `Due` is the loop's test and `IsExpired` the exported one. `RefreshStore`
  is an answer with a token the server issued for the request; any other, a stale token or an error page
  included, is a `RefreshFail`, of which a loop meets at most `MaxFailures` in a row. `stored` and `start`
  note when the token was stored and the loop launched.
* **`OrderedHeader`** is the header list as Go has it: `heap` holds the arrays and `entries` a slice
  of one per list. `SetLoop` and `DelLoop` are the loops over the array that they also write to, as
  functions of the turns made (`SetTurn`, `DelTurn`), `Extend` is `append` with its spare capacity, and
  `Clone` makes an array. `ToHTTPHeader` and `RoundTrip` are the map a request is sent with;
  `RoundTrip` takes the order in which it visits the map of the request's own.

`MC...` modules give instances. `..._proofs` holds proofs.

In the modules, definitions whose comment says "a variant" (`PruneEarly`, `SwapsBlind`, ...) are
plausible bugs in the definition that follows. No specification uses them: each is there to
be put in that definition's place, to confirm that a property notices.

## 3. The runs

| Run | Asks | Result |
|---|---|---|
| `lock` | exclusion, exact map, no fatal unlock, the inductive invariant, implementation of `KeyLock`, service of a patient `Lock` | holds |
| `lock_stray` | is `Unlock` of an unlocked key a no-op? | no, see below |
| `engine` | proxies spread, implementation of `JobQueue`, no use after close, metrics, balance, end of the shutdown | holds |
| `engine_shutdown` | does `main` obey "Submit must not be called after Stop"? | no, see below |
| `cookies` | watchers miss nothing, labels cover, no dead subscriber, broadcasts and the server's stop return | holds |
| `cookies_reconnect` | is every active stream subscribed? | no, see below |
| `log_streams` | order, repeats and gaps in what a client gets; `AddLog` never waits for one | holds |
| `validator` | exact results, one teacher, schemas exact where paths do not collide | holds |
| `heartbeat` | one claim per state, sole writers lose nothing, `Stop` ends the loop | holds |
| `heartbeat_owner` | does the claimer own the slot? | no, see below |
| `token` | renewal in time, malformed tokens replaced, `Stop` ends every loop after at most one request | holds |
| `headers` | lists keep their promises and their arrays, nothing a request carries is lost | holds |

What the passing properties mean is said above each of them in its module. The ones that took
thought:

* `EntryIffRegistered`: the map has an entry exactly for the keys with a counted caller. It is
  both the no-leak promise and the reason why two counted callers share one mutex.
* `ImplementsKeyLock`: a grant, a refusal and a release of the abstract lock are single steps
  of the code; the release is `Unlock`'s section under `il.mu`, before `km.mu` is unlocked.
* `ImplementsJobQueue`: jobs begin in the order they were taken, each once, and all have ended when
  `Stop` returns, whichever workers run them; the abstract `Stop` cannot return
  before, so a pool that abandoned a queued or running job would not implement it.
* `SnapshotsAddUp`: the total is loaded first, so a snapshot may show more outcomes than
  requests, but never more than there are requests when it returns; the last one is exact.
* `ProxiesSpread`: whatever order the goroutines run in, no two proxies differ by more than one
  session, also when the rotation wraps and when a malformed address makes its session fail. This
  is so for a file that lists no proxy twice; one that is listed k times gets k shares.
* `DispatchBalanced`: a full queue delays a round but skips nobody.
* `SubscriberMissesNothing`: registration before the first snapshot, and cumulative pushes, leave
  no window, unless a full channel drops an update.
* `StopReturns`: `GracefulStop` waits for handlers that end only when their clients leave. The
  property says that nothing else holds it up; one watching client that stays does, for ever
  (`controller.go:271`), so a deployment has to end its watchers first.
* `RenewedInTime`: a `Refresh` in flight may overwrite the newer token of a `SetToken`, and `SetToken` stores
  whatever it is given. A token that had more than `Renewal` left when it was stored, and when the
  loop was launched, does not expire while it is the current one, because `refreshBefore` covers an
  interval, the failures and the latency. One stored with less may expire before the next check has renewed
  it, and the property says nothing of it. `TimingAssumption` says what an operator must choose; with it, a token
  the server issues for a request always has enough left (lemma `FreshInTime`), also when it is late.
* `MalformedReplaced`: `Refresh` stores any non-empty body (`refresh.go:142`), an error page of a
  proxy included, over a good token; a loop gets rid of it within the time of a renewal.
* `OneLateRequest`: `select` may prefer a ready tick to `stopCh`, but a loop that has, and the clock,
  cannot go on before it has looked again. This rests on `Latency < Interval`.
* `CallsAsPromised`: compaction in place is right because the loop has read each entry before it is
  overwritten; `TypeOK` of `OrderedHeader` says that no append can write into another list.
* `ClaimedOnce`, `SoleWriterKeepsCookies`: comparing addresses, and not contents, is what makes
  a claim safe against an update in between.
* `SentInOrder`, `LostOnlyAsKnown`: the ring and the subscribers have a lock each. An entry appended
  before a stream's copy and fanned out after its subscription comes twice; one appended after the
  copy and fanned out before the subscription never comes. The two properties say that nothing
  else happens: no other repeat, no disorder among one logger's entries, no other loss than by a
  full channel.
* `OneTeacher`: the test and the store of the first baseline are one section; a caller that asks
  `HasBaseline` and then calls `Learn` has no such guarantee.
* `SchemaExact`: only for documents in which no two fields share a dotted path. The others have
  several schemas (`extractSchema`), so that a response may differ from itself. A document with the
  key `""` is left out as well: what is inside that key has a path without it (`Path`).

### Disagreements between the code and what it says of itself

1. `engine_shutdown`: `main` calls `wp.Stop()` after `sc.Stop()`, which does not wait for the
   control goroutine. If that is in the middle of a round, its next `Submit` sends on a closed
   channel and the program panics instead of draining (`main.go:158`, `worker/pool.go:61`).
2. `cookies_reconnect`: a machine reconnects before the master has noticed that its old stream is
   gone; the old handler's deferred delete (`controller.go:213`) then removes the new stream's
   registration. The stream stays open and gets no update.
3. `heartbeat_owner`: a keep-alive response with a cookie makes a claimed session available
   (`heartbeat.go:189`), so that a second goroutine claims a slot the first one "owns".
4. `lock_stray`: `Unlock` of a key nobody holds, while a `Lock` on it has registered and not yet
   acquired, unlocks a free `sync.Mutex`, which ends the program (`lock.go:175`; "no-op", `lock.go:50`).

Weaker ones, which no run checks:

* `TryLock` may fail on a key nobody holds, while `IsLocked` probes the same mutex (`lock.go:189`, against
  "false if it is already held", `lock.go:46`). The action `IsLockedProbe` has this effect in the run.
* `Store` bumps the version after unlocking (`controller.go:74`), so two snapshots with one version may
  hold different cookies, although `Snapshot` is "atomic" (`controller.go:77`); `VersionCovers` is what
  remains true.
* "A zero ... exp claim is treated as non-expired" (`refresh.go:97`), but `exp: 0` is in the past for
  `refresh.go:113`.
* The caller's headers "take precedence" and "win over the defaults" (`h2_transport.go:157,169`), but they are
  appended (`h2_transport.go:173`): both values are sent, the default first, and under two keys when the
  casing differs. `NothingDiscarded` takes no side: it holds in either order.
* `StartHeartbeat` is documented as idempotent, its extra calls as no-ops (`refresh.go:154`); every call
  starts another loop, as `Start` does. `StopEndsLoops` holds for all of them.
* Two concurrent calls of `HeartbeatManager.Stop` may both find the channel open and close it twice
  (`heartbeat.go:252`).
* A cookie that expires at the epoch or before never expires for the cluster (`worker_client.go:91`).

### Bounds

* Lock: three goroutines show every pairwise race and a third party in it, two keys that entries of
  different keys do not disturb each other. Two mutexes are one that is being unlocked and the one
  made after its entry went; when none is free a new key waits (the proofs have any number).
  `MaxOrphans = 1`: a second orphan of one mutex waits behind the first one, as a caller does.
* Engine: two sessions, hence two workers (`main.go:92`). `BufferPerWorker = 1` instead of 4 and
  `MaxRounds = 3` let the queue fill and `Submit` block. Counters do not wrap. No proxy file, one
  with fewer proxies than sessions, or one with a malformed address; nothing after the start-up
  reads the rotation, so more files would only repeat what follows.
* Cookies: two broadcasts with a name in common; one machine that reconnects and one that stays;
  `ChanCap = 1` instead of 32, so that channels fill; only the streams in `Leaving` may disconnect,
  once each.
* Heartbeats: two callers and the loop; three responses, one without cookies; the loop tracks one
  of two sessions, and is that one's only writer.
* Log streams: a ring of two entries (`maxLogs` is 10 000), one entry more than it holds, so that
  it drops one; channels of one entry instead of 256, so that they fill; two loggers and two
  streams, which reconnect any number of times.
* Token: one loop of each kind and one caller; a check every 2 s, heartbeats every 3 s, a latency of 1 s and one failure in
  a row, so that a stop, a failure and another caller's answer meet every phase of a loop;
  `MaxTime` lets a token be issued, renewed and expire. A token from elsewhere expires at 8 s (`Expiry`):
  stored in the first 2 s it meets the premise of `RenewedInTime`, after 7 s it is expired already, in between it has
  little left. The tickers and the requests' timeout are
  the only things that know of time.
* Headers: two lists of at most `MaxLen` fields with two casings of one header and another header;
  enough calls to fill, compact and copy a list, and to reuse the spare room afterwards.
* Validator: documents with up to two top-level keys and two levels of nesting, some of which meet
  in the path `a.b`, one with the key `""`, and one that is no object; all the schemas over these paths can be told
  apart by presence and type. The proofs have no such bound.

### Fairness

A goroutine that can go on is run (weak fairness of its steps); requests end within their
timeout. `sync.Mutex` hands itself to a waiter of more than 1 ms (starvation mode), hence strong
fairness of a blocked acquisition. A holder unlocks eventually (`WithLock` defers it). Go picks
at random among ready cases of a select, hence strong fairness of the heartbeat loop's stop
case, and of the token loops'. Requests of the token manager end within a timeout of its client:
`http.DefaultClient`, which a nil client stands for, has none, and then neither renewal nor `Stop`
is promised anything. A `WatchCookies` handler goes on when its client is gone. Nobody is assumed to call, to cancel, to disconnect or to send a signal, and watching
clients need not even read.

## 4. What is proved

`InMemoryLock_proofs` proves, for every finite set of goroutines and any sets of keys and mutexes:

* `Inductive`: `IInv` holds in every reachable state;
* `Typing`, `Exclusion`, `EntriesBounded`, `NeverFatal`: `TypeOK`, `MutualExclusion`,
  `EntryIffRegistered` and `NoFatalUnlock`;
* `Refinement`: `Spec => ImplementsKeyLock`.

Mutual exclusion is not inductive: nothing in it keeps two goroutines from holding two mutexes of
one key. `IInv` adds `RegInv` (each `waiters` count is the number of goroutines counted on that
mutex; a key's entry is the mutex of all goroutines counted on the key; no two keys share one)
and `HolderInv` (a goroutine in its critical section is the holder of its mutex, and a mutex held
by a goroutine is held for the call it is in). Then two goroutines in one key's critical section
are both counted, so they have the entry's mutex, and it has one holder. The counting facts
(`CardAdd`, `CardRemove`) say when a decrement to zero leaves nobody; `RegCreate`, `RegRemove` and
`RegFrame` carry `RegInv` through the three kinds of steps. For the refinement, `AskRefines`,
`GrantRefines`, `RefuseRefines` and `ReleaseRefines` take one abstract action each, and `QuietStep`
the steps no caller sees. The assumptions are the named ones in `InMemoryLock`, and that callers
unlock what they hold (`Spec`); `lock_stray` shows what happens otherwise.

`Validator_proofs` proves, for any goroutines, documents, fields and types, `ValidatorTyping`,
`Exactness` and `SingleTeacher` from the invariant of `ValidatorInductive`: a result that waits
for its caller is `diffSchemas` of what the call has, and nobody has taught while there is no
baseline. The lemma `DiffExact` is about `diffSchemas` alone: the three kinds of mismatch partition
the fields that differ, each field is in at most one mismatch, and equal fields are in none.
`SchemasExact` (`SchemaExact`) is about `extractSchema`, for documents of any depth: `OutExists` shows the
recursion to be sound, by induction on the depth that is left; `ObjectWrites` says what one call
writes; then only fields are written (`OnlyFields`, from the leaves up) and every field is
(`AllFields`, from the whole down), each under its dotted path (`PathIs`), and what the map holds for a
path was written for it (`WrittenHolds`). `ParsedInv` ties the schema of a call to its document.

`Engine_proofs` proves, for any numbers of sessions and rounds and any proxy files:

* `NoJobOnClosedSession` (`NoUseAfterClose`). The property is not inductive: it says nothing of where
  `main` is, so `StopAll` could close sessions under a running job. `LifeInv` ties `main`'s place to
  everything else: which goroutines have started, when the channel is closed, which sessions are
  registered and in which state (`OrderInv`), that a worker exits only from a drained, closed queue
  (`PoolInv`) and that the scheduler submits IDs of sessions only (`ControlInv`). `Stop` waits for the
  workers, hence `StopAll` meets none with a job.
* `EngineTyping` (`TypeOK`), from `LifeInv`.
* `SnapshotSums` (`SnapshotsAddUp`), from `CountInv` (each request counted has had its outcome or is
  running, a cardinality argument over the workers) and `SnapInv` (what a reader has loaded is not
  ahead of the counters, and equals them for `main`, which reads when nothing runs).
* `Balanced` (`DispatchBalanced`), from `BalanceInv`: two sessions differ by one job exactly when
  the round is between them.
* `EvenSpread` (`ProxiesSpread`), from `SpreadInv`: two places of the list differ by one session exactly when
  the index is between them.
* `QueueRefinement` (`Spec => ImplementsJobQueue`): each worker, submit and stop step is the abstract one of
  its name, everything else stutters; `StopReturns` needs `LifeInv`.

`MasterController_proofs` proves, for any machines, streams, broadcasts and channel capacity:

* `OpenSubscribers` (`NoClosedSubscriber`). Alone it is not inductive: the deferred delete is keyed by
  machine, so a handler could remove another machine's entry and leave its own. `Registration`, the
  invariant of `RegistrationInductive`, adds that a registered stream is one of the machine it is
  registered for; then the delete of the handler that returns takes away its own entry, or one that replaced it.
* `ControllerTyping` (`TypeOK`), with `StoredOnce`: a broadcast is in the order of stores once.
* `VersionsCover` (`VersionCovers`). `JarInv` says that the jar covers every broadcast stored, bumped or not,
  and that a response has a version only after the bump; `MessageInv` says of every message on its
  way, received or answered that it is `Sound`. A snapshot taken between a store and its bump holds more than
  its version says, never less, and the order of stores only grows (`Extends`).
* `NothingMissed` (`SubscriberMissesNothing`), from `DeliveryInv`: what a current subscriber has not received of
  a finished broadcast is in its channel. The case that matters is a broadcast that fans out before the
  handler has taken its first snapshot.

`LogStreams_proofs` proves, for any loggers, streams, ring size and channel capacity, `LogTyping` (`TypeOK`, with
the exact contents of the ring) and

* `InOrder` (`SentInOrder`), from `AddingNewest` (the entry a logger is adding is its newest), `HistoryInv`
  (what is sent begins with the copied ring) and `OrderInv`, which orders the channel after what is
  sent and keeps what came through the channel from being added again;
* `LostOnly` (`LostOnlyAsKnown`), from `DueInv`: an entry due to a stream is in its history, sent, in its channel, noted as
  missed, or its logger has yet to fan it out. The window between copy and subscription is part of `missed`.

`HeartbeatManager_proofs` proves, for any finite sets of callers and sessions, any writers and responses:

* `HeartbeatTyping` (`TypeOK`). A new state needs an address that nothing refers to: goroutines and sessions
  together refer to fewer states than there are addresses, which is proved by counting;
* `ClaimedAtMostOnce` (`ClaimedOnce`), from `OneStatePerAddress` (an address in use is that of one state, stored for
  one session) and `ClaimInv` (no session is stored at the address of a state that has been claimed and is still
  referred to). Reusing an address is safe because whoever compares with it refers to it;
* `CookiesSurviveClaims` (`SoleWriterKeepsCookies`), from `CookieInv`: a sole writer that is about to store builds on the
  cookies written last. A claim in between replaces the state, and keeps its cookies.

`TokenRefreshManager_proofs` proves, for any loops, callers, intervals and bounds that `TokenAssumption` and
`TimingAssumption` admit:

* `TokenTyping` (`TypeOK`). `TimeInv` says that a request was sent when a tick came and ends before the next one
  (`TickerInv`; it rests on `Latency < Interval`), and that no request is older than `Latency`;
* `AtMostOneLate` (`OneLateRequest`), from `LateInv`: a loop that has begun a request since `Stop` has no tick waiting
  and gets none before it has looked at `stopCh`;
* `MalformedGoes` (`MalformedReplaced`), from `MalformedInv`: every check since the token went bad has failed, so the
  next one lies at most `failures + 1` intervals after that moment;
* `RenewedBeforeExpiry` (`RenewedInTime`), from `RoomInv`: for a token stored in time the loop's next check comes
  before the token is due, or early enough for all the failures that are left; a token stored in between has
  time for them from then on, whichever it is. `LoopMoves` says what each step is for one loop, and
  `CheckMoves` where its next check lies after it; what remains is arithmetic. `FreshInTime` says that
  what the server issues for a request is stored in time.

`OrderedHeader_proofs` proves, for any finite set of lists and any keys, values and bound on a list's length:

* `HeaderTyping` (`TypeOK`): every list lies within its array, over written cells, and no two lists share one.
  `FreeIsFree` counts the arrays: one is always free for a slice that moves;
* `CallsKeepPromises` (`CallsAsPromised`): `Add`, `Set`, `Del` and `Clone` do to a list what their comments say, and
  nothing to another. `SetDone` and `DelDone` say what a loop has done after `i` turns: what it has written is
  what `Replaced` or `Without` makes of the first `i` entries, and what it has still to read is as it was.
  `SetTurnDone` and `DelTurnDone` add a turn, and `KeepViews`, `MoveViews` and `ExtendViews` carry the result
  through the arrays;
* `RequestKeepsAll` (`NothingDiscarded`): a request is sent with every default and every value of its own, and
  nothing else, in whatever order its map is visited. `PutAllAdds` says what a loop over fields adds to each key's values, and
  `RoundTripSends` that a key's own values are added once, in its turn.

These proofs go by induction on the turns of a loop. The library's induction theorems take an operator as a
parameter, which the provers cannot instantiate; `SetInduction` is induction for a set of numbers instead, from the
well-foundedness of `<`, `ListInduction` follows for lists, and each induction defines the set it is about. In the same
way a recursive function is shown to exist (`DelExists`, `SetExists`, `KeptExists`) before its values are used.

The proofs assume what the modules' named ASSUMEs say of the parameters, and what the guards allow: callers
that unlock what they hold (`Spec` of the lock), one writer for the sessions that have a writer, requests that end within
`Latency` and at most `MaxFailures` failed ones in a row (`Quiet`, `RefreshFail`), and the bounds on calls, rounds
and time, each for any value. The ASSUMEs ask for sets of
identities that do not overlap, capacities and sizes that are positive numbers, `Id \subseteq Job`
(`RoundsAssumption`), a placeholder that is no state (`HeartbeatAssumption`), and documents that
`encoding/json` can have parsed, with their paths and types among `Field` and `Type` (`ValidatorAssumption`).
Only `TimingAssumption` asks for more, of the operator.

Model-checked only:

* liveness (`PatientAcquires`, `ShutdownEnds`, `BroadcastReturns`, `StopReturns`, `AddLogReturns`, `StopEndsLoop`,
  `StopEndsLoops`): progress under fairness is out of the prover's reach.

## 5. Not modelled

* Sockets, TLS, connection pools and HTTP (the rest of `client`), `fingerprint`, the script interpreter
  (`jschallenge`), configuration, log formatting and the web front end: I/O and data, no state to
  interleave.
* gRPC stubs: generated.
* `OrderedHeader.Get`, `GetToken`, `HasBaseline` and their like, which only read.
* In the modelled parts: `UpdateStatus` and `GetAllStatus` (a map in which the last report for a session ID
  wins, whichever machine sent it), cookie expiry, `LastActivity`; `ListenAndServe` when `Serve`
  fails, which returns and touches nothing; `jobFn`'s unsynchronised read of `TargetURL` is read once;
  `HeartbeatManager.Stop` is called by one goroutine, in one step.
* Of `dashboard/server.go`: the metrics ticker and its streams, whose snapshots replace one another;
  the node list, made up from constants; the proxy upload, which writes a file nobody reloads.

## 6. Plan

1. Done: the lock with its abstract specification and proofs; the engine with proxies, session
   creation and the abstract job queue it implements; cookies and the server's stop, with a first
   proof; heartbeats; token refresh; log streams; the validator and its proofs; ordered headers.
2. Done: theorems for every safety property that a passing run checks, and the two refinements.
3. Left: what section 5 leaves out, above all the dashboard's metrics streams and the transports' settings.
   The liveness properties stay with TLC.
