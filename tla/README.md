# Verification of the proxy's execution and credential state

TLA+ models, TLC runs and TLAPS proofs for the parts of the proxy whose
correctness depends on interleavings: requests and their retries, the choice
and the availability of credentials, executions dispatched by Home and their
release, the websocket relay and the usage feed. The modules are translated
from the Go source; `PROJECT.json` ties every definition to the lines it models.

## 1. Inventory

The program is an HTTP proxy in front of several model providers. It holds
credentials (OAuth tokens and API keys), chooses one per request, translates the
request, calls the provider, and records the result on the credential. A
process may run on its own, or be a node of a cluster whose control plane,
Home, owns credentials and concurrency limits and dispatches executions.

| Component | State it keeps | Operations | Interacts with |
|---|---|---|---|
| Execution registry (`sdk/cliproxy/executionregistry`) | lifecycle word, pending tokens, scopes with their resource, release sequences per group, sink, observation barrier | `BeginDispatch`, `Install`, `Bind`, `End`, `SetReleaseSink`, `Drain`, `Close`, `WaitPending`, `ObserveBarrier`, `FreezeInFlight` | called by the dispatch path; calls the release sink and the close functions of streams |
| Release flusher (`internal/home/concurrency_release.go`) | latest and acknowledged sequence per group, waiting tickets, wake and force channels, timer, backoff | `MarkDirty`, `Run`, `Flush` | is the sink of the registry; sends frames through the Home client |
| Home lifetimes (`service_home.go`) | current client, registry, flusher, supervisor | start, retry, detach, drain | replaces registry and flusher when the subscription is renewed |
| Home client (`internal/home/client.go`) | connections, failover target, recovery state | subscribe, dispatch (`RPOP`), push release, abort | Redis protocol to Home |
| In-flight publisher (`home_in_flight_publisher.go`) | revision, last snapshot | publish | reads `FreezeInFlight` |
| Credential cooldown (`conductor_cooldown.go`) | per model: unavailable, retry time, quota flag, recovery time, backoff level, last error; the same aggregated on the credential; the cooldown store | `MarkResult`, `ResetQuota`, `RestoreCooldownStates`, `ApplyConfigWithCooldownStateStore`, `persistCooldownStates` | scheduler, model registry, store |
| Credential refresh (`conductor_refresh.go`, `auto_refresh_loop.go`) | per-credential locks, heap of due times | `refreshAuthForRequest`, the loop | hands a changed copy to `Manager.Update` |
| Credential lifecycle (`conductor_lifecycle.go`, `service_auth.go`) | the map of credentials | `Register`, `Update`, `Remove`, model registration | watcher, scheduler, model registry |
| Scheduler and selectors (`scheduler.go`, `selector.go`) | ready and blocked credentials per model, rotation cursors, session bindings | `upsertAuth`, `removeAuth`, pick | fed by snapshots published after `m.mu` was released |
| Request execution (`conductor_execution.go`) | attempt state of one request | retry over credentials | selectors, executors, `MarkResult` |
| Home selection (`conductor_home.go`, `home_selection.go`, `home_concurrency.go`) | selection contexts, concurrency limits | dispatch, install, abort | Home client, registry |
| Model registry (`internal/registry`) | reference counts, quota and suspension flags per client and model | register, unregister, suspend, resume | scheduler, API |
| Websocket relay (`internal/wsrelay`) | sessions by provider, pending requests | request, dispatch, cleanup, replace | executors, one remote peer |
| Usage queue and feed (`usage/manager.go`, `internal/redisqueue`) | queue, subscribers, retained backlog | publish, subscribe, pop, stop | every executor, management API |
| Watcher, configuration, stores | file hashes, config snapshot | reload, save | lifecycle, cooldown |
| Translators, executors, API, plugins, UI, logging | none shared, or I/O only | conversions, protocol clients, handlers | |

What is hard in it:

* **State words outside the mutex.** `Registry.state` is an atomic that `Drain`
  and `Close` change without `Registry.mu`; `Bind`, `BeginDispatch` and
  `Install` test it and then write under `mu`.
* **Work after the unlock.** Release sinks, saves of cooldowns and publications
  to the scheduler run after the critical section that caused them, in any
  order.
* **Copies that come back.** A refresh and a re-registration take a copy of a
  credential, work without a lock (over the network) and install the copy.
* **Unreliable Home.** A release frame may be lost, or accepted although the
  sender sees an error; a lifetime may end at any moment and its successor must
  carry on with the same sequences.
* **Restarts.** Cooldowns are persisted and merged back, at start and on every
  reload of a live process.
* **Time.** Backoff ladders, retry times that pass while nobody looks, timers
  that race wake-ups.

The properties that make each modelled part correct are in section 4;
`hazards` in `PROJECT.json` lists the places where it can go wrong, with the
property that would notice.

## 2. Modules

| Module | Role |
|---|---|
| `RequestExecution` | one request from the first pick to the end of its stream |
| `Scheduler` | the choice of a credential for one model, and the publications that feed it |
| `AuthCooldown` | availability of one credential and its models |
| `ExecutionRegistry` | the registry of one Home lifetime |
| `ReleaseFlusher` | the flusher across Home lifetimes, Home as an unreliable acceptor |
| `HomeLifetime` | the lifetimes of the Home connection and what is dispatched in them; composes summaries of registry and flusher with the client |
| `HomeAccounting` | abstract specification: what the node promises Home; `HomeLifetime` implements it |
| `WsRelay` | sessions of one provider name, their pending requests and callers |
| `UsageFeed` | a usage record from `Publish` to plugin, subscriber, poller or Home |
| `MC...` | instances for TLC: symmetry sets, timings, ladders, profiles, event budgets |
| `...Proofs` | theorems and proofs |

How they fit together: `RequestExecution` takes from `Scheduler` only that some
ready credential is picked, and from `AuthCooldown` only that a result may cool
one; each of these is modelled by itself. `HomeLifetime` uses one release group
of `ExecutionRegistry` (pending tokens, scopes, release sequence, sink) and of
`ReleaseFlusher` (latest, acknowledged, one frame on its way); that an End
reaches the sink before its scope is gone and that a mark is never slept on is
what those two modules show.

### RequestExecution

`req` is the goroutine inside `Execute` or `ExecuteStream`: the credentials tried
and attempted in this round, the model of the pool, whether the refresh after a
401 was spent, and the round. `wrap` is the goroutine of `wrapStreamResult`,
which outlives the call; `up` counts the streams that are open upstream and
those that a `discardStreamChunks` goroutine reads. An interceptor that terminates the
request ends it, except in `ExecuteStream` with a status other than that of an
invalid request: there it is the error of one credential and the next is tried.
`Cancel` may happen between
any two steps, and each test of the context in the code is a guard. `bill` is a
history variable: the verdict of an execution until `MarkResult` records it.
Cooldowns are the time that is left.

### Scheduler

A credential is its position in the order of IDs. The manager's copy and the
scheduler's entry are separate state, each with its own mutex; add, update,
removal and result commit the one and publish to the other later, from a copy
taken in between. Views hold cursors, flat lists and smooth-weight credits as in
`scheduler.go`; a pick promotes expired entries, walks priorities and, when it
fails, rebuilds and picks again.

### HomeLifetime

`supPc` follows `runHomeSubscriber`: run a lifetime, wait for its worker, detach
its bundle, stop the flusher's `Run`, close the client, wait for pending
dispatches, and then either go on with the same registry (takeover) or drain it
and start afresh. `lifePc` follows `RunConfigSubscriberLifetime`, `recovery` is the
client's recovery state, `fenced` and `ambiguous` are flags of every client that
ever was, because a dispatch may still hold an old bundle. `dPc` follows
`pickHomeDispatchSelection`. A shutdown that meets the worker
while it finalizes a configuration leaves a goroutine behind that closes the
client (`closeHomeClientOnCancellation`), which may come before the last flush.
Home is external: it counts grants and the
cumulative releases of the current membership, keeps them over a takeover and
starts from nothing otherwise; it may forget a node whose subscription is gone,
and it refuses subscriptions of a newer protocol if it is a legacy one. Assumed
of it: it waits longer for a lost node than the node waits for a lost Home, and
a frame of a closed connection does not arrive in a later membership. Left out:
replies without accounting, sessions that retain a selection, a lifecycle
revision of zero.

### WsRelay

`sess` holds the sessions with their tables of pending requests and the steps of
their reader and heartbeat, `req` the callers with their buffered channel,
`stop` the sweep of `Manager.Stop`. `dispatch`, `cleanup` and the goroutine that
waits for the caller's context are separate steps around each `LoadAndDelete`,
send and close. A send on a closed channel sets `crashed`.

Two things met while modelling it have no run of their own. Between
`LoadOrStore` and `Load` (`session.go:149`) cleanup may empty the table, so that
the type assertion on nil panics in the goroutine of the caller. And a session
that has removed itself from the map but not yet reported its disconnect
(`manager.go:153`) may report it after the connect of its successor.

### UsageFeed

`mgr` is `usage.Manager` with its queue, its worker and the signals that are
sent outside the mutex; `items`, `subs` and `chan` are the globals of
`redisqueue`; `fwd` is the forwarder of Home mode, which puts back what it could
not push. Time is left out: pruning may drop any prefix of the backlog.

### ExecutionRegistry

A dispatch is an id in `1..MaxDispatches`. `pending` and `scopes` are the keys of
the two maps, `resource[i]` stands for the close function and its `closeDone`
channel, `endPc[i]` for the goroutine inside `Scope.ended.Do`. Because
`Registry.state` is written without the mutex, an operation that tests it is two
actions: `...Lock` takes `mu` and loads the state, `...Commit` writes and
releases `mu`. `EndWithRelease` is five steps (close, wait, mark, call the sink,
remove), as in the code, where each is a critical section of its own or a call
out. `Drain` and `Close` take their snapshots under `mu` and sweep without it.
`SetReleaseSink` copies the sequences (`replay`) and makes its calls afterwards.
A sink is represented by the highest sequence per group it has been called with
(`delivered`), which is what `MarkDirty` keeps.

### ReleaseFlusher

`latest`, `acked`, `waiters` and `done` are the group states and tickets;
`wake` and `force` are the two channels of capacity one; `toSignal` holds the
`MarkDirty` calls between their unlock and their `signal()`. `runPc` follows the
select loop of `Run`; a flush (`flight`, `flightSeq`) carries the sequences it
copied before it released the mutex. `home` is the cumulative sequence Home has
accepted: `HomeAccept`, `SendError` and `Ack` make a frame lost, accepted and
answered, or accepted without an answer. Home, the transport and the timer are
external, modelled from how the flusher uses them. `RunStart` and `RunCancel` are
the two lines of `service_home.go` that start and cancel `Run`; `ConfigChange`
replaces the timings, which `nextDelay` reads anew each time.

### AuthCooldown

One enabled credential with a set of models. `models` and `known` are
`auth.ModelStates` (a model without entry is `Clean`), `auth` is the credential's
own availability fields, `store` the persisted records. Time is a natural
number, 0 is Go's zero time. A critical section of `m.mu` is one action. What the
code does outside it is a separate action: the save after a change (`saves`
counts the calls that wait for `configCooldownMu`), the load and the merge of
`RestoreCooldownStates`, the publication of a config, the clearing that follows
and the save at the end, and the two halves of a refresh and of a
registration. `persist`, which writes the token file, is left out except where
its failure matters (`ResetQuota`).

`refreshAuthForRequest` reads the credential's pointer under the lock and calls
`Clone()` after the unlock, while other goroutines write the same object: a data
race. With `TornCopies` the model lets one change overlap the copy, which then
mixes old and new field values in the order in which `Clone` reads them.

Failures are kinds (`OutcomeKinds`), one per branch of `MarkResult`. Errors that
do not concern the credential (`shouldSkipCredentialCooldown`) change none of
this state and have no action. `UpdatedAt` is not a variable; where the code
compares it (`cooldownStateRecordEqual`, `mergeModelState`) the model says which
records were written (`touched`) or leaves open which of two is newer (`newer`).

The selector goes by the state of the model, and by the credential's own fields
as long as no model has a state (`selector.go:578`); `Deciding` says which. Of
these fields one mark has no deadline: a refresh answered 401 sets `Unavailable`
and no retry time (`conductor_refresh.go:545`), so that every model of a
credential without model states is blocked until something takes the mark away.
This is how a refused token is meant to work, and the properties name it as the
only block of its kind.

The history variables record: `unsaved`, a save that was left out or failed;
`owed`, the last announced end of a quota window; `refused`, a refresh answered
401 after which no success, refresh, registration, reset, restart or config
without cooling came.

## 3. Bounds

| Bound | Value | Why it is enough |
|---|---|---|
| `MaxDispatches` | 2 | every hazard is between two executions, or one and a Drain or Close |
| `Drainers`, `Closers` | 1, 2 | the second `Close` joins the first. A second `Drain` runs beside the first (`registry.go:387`), sweeps again and waits for the same maps; it takes TLC too long, and the theorems on shutdown hold for any number of either |
| `Sinks` | 2 in the release run | one replacement of the sink while an End is under way |
| `MaxBarrier`, `MaxFreezes` | 1, 2 | a barrier announced between two dispatches, and the snapshots around it |
| `MaxSeq` | 2 | an older sequence that arrives after a newer one was sent or acknowledged |
| `MaxRuns` | 2 | a lifetime and its successor |
| `Timings` | (1,4), (5,6) | the second starts where a doubled delay of the first lies below its flush interval |
| `Ladder`, `QuotaMax` | 2, 4, 8 capped at 6 | two levels below the cap, one at it |
| `MaxTime` of the cooldowns | 1 to 3 | in the store run the first window passes and the second opens and blocks; the proofs have no bound on time or on the ladder |
| `Limits` | at most two results and one other event of each kind | named per run in `MCAuthCooldown`; the store run has a reset, a restore, a refresh or registration and a restart, the other two leave out what they do not ask about |
| `Dispatches`, `MaxFaults` of `HomeLifetime` | 2, 2 | a lifetime that is lost while a reply is, a takeover that fails after a loss; three faults (2.4 million states, almost five minutes) show nothing more. The number of lifetimes follows from the faults and is no bound of its own |
| `NumAuths`, `Profiles` of `Scheduler` | 4 credentials, 2 providers, 2 priorities, weights 1 and 2; one of them, of the lower priority, changes | a rotation over several, a file change that moves a credential between priorities or disables it |
| `Requests` of `Scheduler` | one provider with two credentials tried before; a mixed route with none | the first falls back to the credential that changes, the second rotates |
| `MaxUpdates`, `MaxResults` of `Scheduler` | 1, 1 | one publication that overtakes another, with a removal or a rebuild in between |
| `RequestRetry`, `MaxWait`, `Cooldowns` | 0 and 1 rounds, 1, 0 or 2 | a credential that allows another round and one that does not, a wait that is too long and one that is not |
| `MaxChunks` | 3 | an empty chunk, a payload and an error, in any order |
| `Capacity`, `MaxMessages` of `WsRelay` | 1, 2 | a channel that is full when the next message comes (8 in the code) |
| `Sessions`, `Requests` of `WsRelay` | 2, 1 | a session and its successor; requests share nothing but the table |
| `MaxRecords`, `Buffer`, `Batch` | 3, 2, 2 | a subscriber that overflows, and a batch that is pushed in part |

Symmetry is used only in runs without liveness properties, over sets whose
members the modules never tell apart. `CHECK_DEADLOCK FALSE` is set where the
system may really stop: a registry that is closed and empty, a credential whose
budget of events is spent, a request that has returned, a service that was
shut down.

## 4. Runs

`tlc -workers 2 -config <cfg> <module>` in this directory; each takes between a
few seconds and about two minutes.

| Run | Shows |
|---|---|
| `request_execution` | `ChargedOnce`: every execution of a credential is recorded once and as what it was; a stream that broke off is not also a success, a 401 that a refresh cured is nothing. `ClientSeesTruth`: a client that stayed saw an error exactly when the upstream sent one. `RequestReturns`: the rounds of retries are bounded although credentials cool and recover meanwhile. `UpstreamDrained`: no executor is left blocked on a stream nobody reads. |
| `scheduler` | `PickIsBest`: a scheduler in step picks what a scan of all credentials would. `ViewsMatchEntries`: the shortcut of `upsertEntryLocked` leaves no entry in the wrong view. `RotationFair`: rebuilt views keep the rotation, round robin or weighted, exact. `PickFindsReady`: a request is refused only if what it could have used changed under it. `NoRemovedPicked`: a late publication does not bring a removed credential back. |
| `cooldown_store` | `QuotaWindowKept`: an announced quota window blocks its model to the end, whatever transient failures, saves and live restores follow, until the first refresh, registration or restart. `StoreCurrent`: the store holds every cooldown in force whenever no save is under way and none failed or was left out. `LadderTakesTime`: a burst of failures climbs one level per window. `NoEndlessBlock`: a model is blocked without a time at which it comes back only while no model has a state and a refresh answered 401 has not been made good. |
| `cooldown_off` | `CoolingOffUnblocks`: after a config without cooling was applied, nothing that was under way brings a cooldown back, torn copies included; what may still block is a token refused since, and then only while no model has a state. |
| `registry_shutdown` | `SweepLeavesNothingBound`: when `Drain` has swept, no resource bound before or during the sweep is left unclosed. `CloseReturnsAllClosed`: when any call of `Close` returns, everything ever bound has been closed. `DrainedStaysEmpty`: after a successful `Drain` no token or scope appears any more. `DrainReturns`, `CloseReturns`: neither waits for ever. |
| `registry_release` | `ReleasedExactlyOnce`, `NoReleaseLost` and `NoOverRelease` while sinks are replaced during Ends; `ReleaseReachesSinkBeforeRemoval`: a scope is gone only after its release was delivered, so the `Flush` after a `Drain` sees it. `BarrierSnapshotComplete`: the snapshot that publishes a barrier lists every execution dispatched before the barrier that still runs. |
| `flusher_lifetimes` | `TicketMeansAccepted`, `NoTicketStranded`, `NoSleepOnDirty` (no lost wake-up), `BackoffHolds` (no wake-up cuts a backoff short), `FlushOkMeansAccepted`, `DelayWithinTimings`, and `TicketEventuallyCompletes` across a change of lifetime. |
| `home_lifetime` | `Accounted`: `HomeLifetime` implements `HomeAccounting`, so Home never counts fewer executions than run on a node that is a member. `LeasesReturned`: Home does not go on counting what is over, lost grants included. `ServesAgain`: whatever is lost, and whoever waits for whom, dispatch resumes or the service has ended. |
| `ws_relay` | `SuccessorStaysReachable`: a session that dies late does not take its successor's entry. `NoCallerStranded`: no request slips in between a closed session's test and its sweep. `TruncatedOnlyWhenFull`: an answer that is reported complete is, unless the buffer overflowed or the caller left. |
| `usage_feed` | `Conserved`: a record ends nowhere only for a named reason. `SubscriberSeesNoGap`: a subscriber that cannot keep up is cut off and never skips a record handed to the subscribers (one that comes after `Enqueue` asked for subscribers finds that record in the backlog). `QueuedRecordsAreHandled`: what `Publish` queued reaches the plugins, also around `Stop`. |

The refinement maps `held` to Home's grants less its releases, `running` to the
number of installed scopes and `online` to a subscription in its receive loop.
The abstract specification lets Home count too much at any time and forget a
node that is offline; what it forbids is to come online, start an execution or
accept a release such that more runs than Home counts.

### Disagreements between the code and its documentation

Two runs are expected to end in a violation; each is a finding in
`PROJECT.json`, and the trace is what the code does.

* `cooldown_restart`: after a restart the cooldown is restored from the store,
  then the watcher adds the credential's file, and the model registration that
  follows resets the states of all supported models. The file written by
  `save-cooldown-status` has no effect on them.
* `ws_stop`: a caller cancels its context while `Stop` sweeps its session;
  the goroutine that saw the context done closes the channel of the request
  after the sweep loaded the entry, and the sweep sends on the closed channel.
  The panic is in the goroutine of `Stop`, and nothing recovers it.

More were met and have no run of their own.

* A config reload reads the store, a reset clears the credential, the reload
  merges what it read: the cooldown is back although nothing failed
  (`conductor_cooldown.go:285`).
* A refresh clones a credential without the lock. A copy taken between the two
  assignments of `MarkResult` (unavailable, retry time) blocks the model with
  no end (`conductor_refresh.go:529`); `NoEndlessBlock` is stated for copies
  that are not torn.
* A model-support failure blocks its model for 12 hours with cooling switched
  off (`conductor_cooldown.go:759`), which is why `CoolingOffUnblocks` is stated
  for upstreams without that answer.
* A transient failure inside a quota window lets the record expire, for the
  purpose of a restore, before the window ends (`conductor_cooldown.go:329` and
  `:836`).
* A shutdown between two Home lifetimes drains its executions with the release
  sink cleared (`service_home.go:500`): Home learns of their end only when the
  membership expires. The same holds if the client is closed by
  `closeHomeClientOnCancellation` before the last flush. `LeasesReturned`
  excludes this exit.
* A stream that a Claude subscription opened just as the caller cancelled is
  neither read nor discarded (`conductor_stream.go:262`); it ends because its
  executor watches the context, which `SourceEnds` assumes.

### What a mutant shows

Every property of a passing run has a mutant: a `Faulty variant` next to the
definition it replaces, changing it as a plausible bug would, under which TLC
finds the property violated.

## 5. Fairness

* Registry: weak fairness of every goroutine that is inside a call (it holds a
  lock or is runnable, and Go's scheduler is fair), of the close function of a
  resource, of the resolution of a token (the dispatch path ends or installs
  every token it began, by `defer`), and of the owner of a scope once the
  registry stopped accepting and its resource is gone. New calls, and timeouts
  of `Drain` and `WaitPending`, are not fair: the calls must return without
  them.
* Flusher: weak fairness of pending signals, of an armed timer, of the return of
  a flush, and of the start of the next lifetime; strong fairness of the cases
  of the `select`, which Go chooses at random among the ready ones; and strong
  fairness of Home: a group sent again and again is at some time accepted and
  answered. Without the last nothing could complete.
* Home lifetimes: weak fairness of the supervisor, the lifetime, the worker, the
  flusher and each dispatch. Home answers what is not lost, and an execution
  comes to an end (a drain closes what it is bound to). Faults, `Stop` and
  forgetting are not fair, and bounded.
* Requests: weak fairness of the request, of the forwarding goroutine, of the
  goroutines that discard streams and of time. Executors answer or fail,
  upstreams end their streams (`MaxChunks`), and a client reads or leaves.
* Usage feed: weak fairness of the worker and of the signals on their way.
* Cooldown, scheduler and relay: no liveness is claimed, so no fairness is
  assumed.

## 6. Proofs

`tlapm <module>` in this directory. The theorems hold for every value of the
constants that satisfies the named assumptions.

* **ExecutionRegistryProofs** (`BoundsAssumption`, `NamesAssumption`).
  `TypeCorrect`; `ShutdownCorrect` proves `ShutdownInv`, from which
  `DrainSweepSafe`, `DrainedSafe` and `CloseSafe` follow; `ReleaseCorrect`,
  `NoOverReleaseSafe`, `NoReleaseLostSafe`, `RemovalSafe`.
  The shutdown properties speak of the end of a sweep; the invariant has to say
  what is true in the middle: who holds `mu` and with which reading of the
  state (`LockHolder`), what a scope's steps imply for its resource
  (`ScopeLife`), and that what `Drain` and `Close` have not yet swept is still
  in the sets they iterate over (`DrainProgress`, `CloseProgress`).
  `NoReleaseLost` is inductive once the sequences carried by Ends and replays
  are bounded by those released (`SequencesInFlight`). `ReleasesCountedOnce`:
  a sequence and the set of released scopes of its group grow in the same
  critical section. `BarrierSafe`: the invariant (`BarrierInv`) says that no
  barrier lies ahead of the tokens and that the pending one is the last token
  before the barrier observed last; a token that began before a published
  barrier cannot come back, since installing needs it pending.
* **ReleaseFlusherProofs** (`FlusherAssumption`). `FlusherCorrect` proves
  `FlusherInv`; from it the theorems of section 4's safety properties. The
  strengthening ties the sequences of a flush in flight between acknowledged
  and latest (`FlightBetween`), says what a flush leaves behind
  (`FlightSettled`), and that a mark which came too late for a flush has a
  signal on its way (`LateMarkSignals`).
* **AuthCooldownProofs** (`CooldownAssumption`, and `~TornCopies`: nothing is
  proved of the data race). `NoEndlessBlockSafe`: aggregation drops retry times
  that have passed and leaves quota flags, so the invariant (`CooldownInv`)
  demands that a quota flag has its own recovery time, in memory, in the store,
  in records that were loaded and in copies. Since the credential decides while
  no model has a state, the same is needed of its own fields, unless a refused
  refresh marked it, and the mark must not come back with a copy (`AuthInv`).
  `CoolingOffSafe`: a failure keeps
  the deadlines it finds, so the invariant (`OffInv`) demands that with cooling
  off no flag or deadline is left at all but the mark of a refused refresh
  (`Marked`), and that models without an entry are blank. It assumes that no upstream answers that a model is not supported.
  `StoreSafe`: the invariant says what the store has (`Covered`) while a save
  is under way. `QuotaWindowSafe` proves `QuotaWindowKept` for
  every ladder. The property itself ends at the first refresh, registration or
  restart (`Undisturbed`): after it a copy older than the window may be
  installed.
  `LadderSafe`: a level is earned by the time that has passed, in memory, in
  the store and in every copy (`LadderInv`). It assumes upstreams that send
  neither Retry-After nor Cloudflare challenges, and that cooling is not
  switched back on after it was off. The proof found that the second is needed:
  a quota failure between the two steps of switching cooling off keeps its
  level without its window. `LadderSafeOneConfig` discharges the second where
  the config changes at most once; in `cooldown_store` it does not change.
* **WsRelayProofs** (`RelayAssumption`). `SuccessorReachable`, `CallersReturn`,
  `AnswersComplete`. The invariant follows each call on its own: where its
  entry is and who took it (`PlaceInv`, `TableInv`), who may still close its
  channel (`ChannelInv`), and that the chunks delivered are those sent unless
  one was dropped or the caller left (`ChunkInv`). The theorems do not exclude
  `Stop`; after the crash of `ws_stop` no step follows.
* **RequestExecutionProofs**. `ResultsChargedOnce` and `ClientToldTheTruth`: an
  unsettled verdict exists only while the refresh after a 401 is under way
  (`BillInv`), and the forwarding goroutine holds or has sent every error of
  the upstream (`WrapInv`).
* **UsageFeedProofs**. `RecordsConserved` says that a record is in at least one
  place, not in exactly one: a frame that Home accepted although its sender saw
  an error is at Home and goes back to the backlog. It and `NoSubscriberSkips` are inductive
  together with what the worker and the forwarder hold (`HolderInv`) and the
  limits of the buffers (`SubscriberInv`, theorem `BuffersBounded`).
* **HomeLifetimeProofs**. `LifetimesAccounted`: `HomeLifetime` implements
  `HomeAccounting` for any number of dispatches and faults. The core is when
  Home's counters mean the executions of the present registry (`Counted`): they
  do whenever the node is a member and that registry was used or could be taken
  over (`CountInv`); a lifetime that does not ask for a takeover has a registry
  that was never used (`TakeoverInv`). Around it: which client is fenced, which
  registry accepts, and that a replacement waits for every dispatch Home may
  have counted. `CountersAgree` and `FreshJoinsAreClean` state the two facts.
* **SchedulerProofs** (`SchedulerAssumption`: the profiles are finitely many,
  routes name providers once, the strategies are the built-in ones).
  `ViewsCorrect`, `RefusedOnlyIfNoneReady`, `RemovedNeverPicked`, `PicksBest`,
  for every strategy, single and mixed routes. Views are those of their entries
  (`SchedOK`); an entry says what its state said at some earlier time, unless a
  publication of that state is on its way (`FreshInv`: MarkResult writes an
  object the scheduler may hold before it publishes); what a removed credential
  left behind has no models (`RemovedInv`); what a waiting pick hopes for is
  usable, in its snapshot as it is, and after the rebuild known to the
  scheduler (`HopeInv`). The picks are searches; that they end at a candidate
  follows from the least element of a set of numbers (`Least`), which takes the
  place of an induction.
  `RotationExact` (`RotationFair` for every set of credentials, weights and
  routes) needs to know where each rotation is, and its invariant is
  `RotationInv`. *Weighted*: from a fresh start the weights determine one
  sequence of picks (`Cycle`); after as many picks as the sum of the weights,
  everyone has been picked as often as its weight and all credits are 0 again
  (`CycleOK`: someone is always owed something, so nobody is ever given a
  whole round too much; since the counts of a round add up to the sum of the
  weights, each is its weight). Every weighted state a view or a route keeps is at some place of
  the cycle of whatever weights ask it (`Good`): at the place it has reached, or
  for other weights at the start, because credits are held for one vector of
  weights only. *Round robin*: a route is a ring with a block of places for each
  provider; within a block the credentials follow each other in the order of
  IDs from an offset, so that the cursor of the view and the cursor of the route
  both say the same place (`Ring`, `Turning`; `RingExists` for any cursors).
  The picks of the window are the trail of the last places (`Trail`). What other
  steps do (`CarriesOn`): a view is left alone or restored, with its cursor taken
  modulo its size and its credits kept; at most one credential changes its
  priority, so that candidates can move to another priority unnoticed only if
  there is a single one, for which every place is right. Counting a full trail
  gives `RotationFair`. The counting is induction on sets of numbers (`AllNat`,
  from `Least`), not on data. TLC checks `RotationFair` itself; `RotationInv`
  speaks of the existence of a ring and chooses a cycle among all functions,
  which TLC cannot enumerate.

Only model-checked: all liveness (fairness is out of the prover's reach), and
everything under `TornCopies`. Every invariant that a passing run checks is also
stated by a theorem.

## 7. Not modelled, and the plan

Not modelled and not planned: translators, executors, API handlers, plugins, UI,
logging and the storage backends. They are most of the repository's lines, and
they are conversions or I/O; what they answer is input to the models. The
conversions of `internal/translator`, `internal/thinking` and
`internal/signature` have no state that steps could reach in an order nobody
wrote a test for.

Parts of modelled components that are left out are named in `components` of
`PROJECT.json`: Home mode and the credits fallback in request execution, custom
selectors in the scheduler, retained websocket sessions in Home dispatch.

What the plan has left:

1. Proofs: further facts about the composition of registry, flusher and
   lifetimes (the summaries in `HomeLifetime` are implied by the two detailed
   modules).
2. The auto-refresh loop with its heap, workers and per-credential locks.
3. The session affinity cache: bindings with time to live, eviction, failover.
4. The model registry (`internal/registry/model_registry.go`). To state: the
   counts per model and per provider are those of the registered clients, also
   when a client changes its provider or lists a model twice; a cached list that
   has not expired is the list that would be built now. To settle, from reading
   only: a 429 sets a quota time and a suspension for the same client
   (`conductor_cooldown.go:876-882`) and `GetModelCount` subtracts both, so one
   limited client of two would leave a count of zero; and a result that arrives
   after its client was unregistered may suspend a client that is not there.
5. The in-flight publisher: the packing of a snapshot into parts keeps every
   aggregate or reports an overflow.
