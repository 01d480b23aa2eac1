----------------------------- MODULE Scheduler -----------------------------
(***************************************************************************)
(* The credential scheduler (sdk/cliproxy/auth/scheduler.go) for one model *)
(* and what keeps it in step with the credentials of the manager: the      *)
(* service's add, update and removal of credentials, the results of        *)
(* requests, and the rebuild that a failed pick makes before it picks      *)
(* again.  A change is committed under the mutex of the manager and        *)
(* published to the scheduler, under the mutex of the scheduler, later.    *)
(*                                                                         *)
(* A credential is its position in the order of IDs.  It never changes its *)
(* provider.  Left out: the views of websocket credentials, pinned         *)
(* requests, the kinds of errors, and the legacy path of custom selectors. *)
(***************************************************************************)
EXTENDS Integers, Sequences, FiniteSets, SequencesExt, FiniteSetsExt

CONSTANTS
  NumAuths,    \* credentials 1..NumAuths, ordered by ID
  ProviderOf,  \* the provider of each credential
  Requests,    \* requests: the providers, and the credentials tried before
  Profiles,    \* what a credential file may say: priority, weight, disabled
  Initial,     \* the profiles of the credentials loaded at the start
  Strategies,  \* of "rr", "fill" and "weighted", the built-in selectors
  Changing,    \* the credentials that results and file changes are about
  Reporters,   \* goroutines inside MarkResult
  MaxTime,     \* bound: the clock
  MaxUpdates,  \* bound: adds, updates, removals and selector changes
  MaxResults   \* bound: results reported

Auths == 1..NumAuths
Routes == {r.route : r \in Requests}
Providers == {ProviderOf[a] : a \in Auths}
Loadable == Profiles \cup ToSet(Initial)
Priorities == {p.priority : p \in Loadable}

ASSUME SchedulerAssumption ==
  /\ NumAuths \in Nat \ {0}
  /\ MaxTime \in Nat /\ MaxUpdates \in Nat /\ MaxResults \in Nat
  /\ IsFiniteSet(Profiles)
  /\ \A p \in Loadable : p.priority \in Nat /\ p.weight \in Nat /\ p.disabled \in BOOLEAN
  /\ DOMAIN Initial \subseteq Auths /\ Changing \subseteq Auths
  /\ Strategies \subseteq {"rr", "fill", "weighted"}
  /\ \A r \in Routes : r \in Seq(Providers) /\ IsInjective(r)

VARIABLES
  auths,    \* Manager.auths
  supports, \* the credentials with this model in the model registry
  sched,    \* authScheduler: metas, shards and the cursors of mixed picks
  svc,      \* the service's worker: what it does with which credential
  reports,  \* MarkResult of each reporter: the snapshot it will publish
  pick,     \* the pick of one request
  sync,     \* SetSelector: the snapshot its syncScheduler took
  now,
  budget,   \* updates and results left
  window    \* history: the picks since the candidates last changed

vars == <<auths, supports, sched, svc, reports, pick, sync, now, budget, window>>

Free == 0               \* not blocked
Forever == MaxTime + 2  \* unavailable without a recovery time

\* A credential: its profile, and until when its state for the model blocks it.
Credential(p, until) ==
  [priority |-> p.priority, weight |-> p.weight, disabled |-> p.disabled, until |-> until]

-----------------------------------------------------------------------------
(* One model shard *)

\* In the order of IDs: at i the one that i of them do not exceed.
sorted(ids) ==
  [i \in 1..Cardinality(ids) |-> CHOOSE a \in ids : Cardinality({b \in ids : b <= a}) = i]

EmptyView == [flat |-> sorted({}), cursor |-> 0, current |-> <<>>, weights |-> <<>>]
EmptyShard == [entries |-> <<>>, ready |-> [q \in Priorities |-> EmptyView], blocked |-> {}]
NewScheduler == [strategy |-> "rr", metas |-> <<>>, shards |-> <<>>,
                 cursor |-> [r \in Routes |-> 0],
                 weighted |-> [r \in Routes |-> [current |-> <<>>, weights |-> <<>>]]]

isAuthBlockedForModel(c, t) == c.until > t

\* An entry of the shard: its cached state and the time to look at it again.
evaluated(c, t) ==
  CASE ~isAuthBlockedForModel(c, t) -> [state |-> "ready", nextRetryAt |-> 0]
    [] isAuthBlockedForModel(c, t) /\ c.until = Forever -> [state |-> "blocked", nextRetryAt |-> 0]
    [] OTHER -> [state |-> "blocked", nextRetryAt |-> c.until]

weightVector(ids, metas) == [a \in {b \in ids : metas[b].weight > 0} |-> metas[a].weight]

\* Faulty variant: a rebuild sends the rotation back to its start.
normalizeCursorZero(cursor, size) == 0

normalizeCursor(cursor, size) == IF size = 0 THEN 0 ELSE cursor % size

restored(old, ids, metas) ==
  LET weights == weightVector(ids, metas)
      keeps == old.weights = weights
  IN IF ids = {} THEN EmptyView
     ELSE [flat |-> sorted(ids),
           cursor |-> normalizeCursor(old.cursor, Cardinality(ids)),
           current |-> IF keeps THEN old.current ELSE <<>>,
           weights |-> IF keeps THEN old.weights ELSE <<>>]

rebuildIndexes(shard, entries, metas) ==
  LET at(q) == {a \in DOMAIN entries : entries[a].state = "ready" /\ metas[a].priority = q}
  IN [entries |-> entries,
      ready |-> [q \in Priorities |-> restored(shard.ready[q], at(q), metas)],
      blocked |-> {a \in DOMAIN entries : entries[a].state = "blocked"}]

put(f, k, v) == [x \in DOMAIN f \cup {k} |-> IF x = k THEN v ELSE f[x]]
drop(f, k) == [x \in DOMAIN f \ {k} |-> f[x]]

\* Faulty variant: a changed priority does not rebuild the views.
unchangedPriority(old, entry, before, after) == old = entry

\* The views survive an upsert that changes neither state nor order.
unchanged(old, entry, before, after) == old = entry /\ before.priority = after.priority

upsertEntry(shard, a, before, metas, t) ==
  LET entry == evaluated(metas[a], t)
      entries == put(shard.entries, a, entry)
  IN IF a \in DOMAIN shard.entries /\ unchanged(shard.entries[a], entry, before[a], metas[a])
       THEN [shard EXCEPT !.entries = entries]
       ELSE rebuildIndexes(shard, entries, metas)

removeEntry(shard, a, metas) ==
  IF a \in DOMAIN shard.entries
    THEN rebuildIndexes(shard, drop(shard.entries, a), metas)
    ELSE shard

\* Faulty variant: blocked entries are never looked at again.
expiredNever(shard, t) == {}

expired(shard, t) ==
  {a \in shard.blocked : shard.entries[a].nextRetryAt \in 1..t}

promoteExpired(shard, metas, t) ==
  LET due == expired(shard, t)
  IN IF due = {} THEN shard
     ELSE rebuildIndexes(shard, [a \in DOMAIN shard.entries |->
            IF a \in due THEN evaluated(metas[a], t) ELSE shard.entries[a]], metas)

-----------------------------------------------------------------------------
(* authScheduler *)

removeAuth(s, a) ==
  LET p == ProviderOf[a]
      metas == drop(s.metas, a)
      shard == s.shards[p]
  IN [s EXCEPT !.metas = metas,
               !.shards = IF p \in DOMAIN @ THEN [@ EXCEPT ![p] = removeEntry(shard, a, metas)] ELSE @]

\* What the scheduler keeps of a credential.  A live one is the object in
\* Manager.auths itself, which MarkResult writes; otherwise it is a copy.
\* The models come from the model registry, whatever the age of the copy.
meta(a, c, live) ==
  [priority |-> c.priority, weight |-> c.weight, disabled |-> c.disabled, until |-> c.until,
   supported |-> a \in supports, live |-> live]

upsertAuth(s, a, c, live) ==
  LET p == ProviderOf[a]
      metas == put(s.metas, a, meta(a, c, live))
      shard == s.shards[p]
  IN IF c.disabled THEN removeAuth(s, a)
     ELSE [s EXCEPT !.metas = metas,
                    !.shards = IF p \notin DOMAIN @ THEN @
                               ELSE [@ EXCEPT ![p] =
                                 IF a \in supports THEN upsertEntry(shard, a, s.metas, metas, now)
                                                   ELSE removeEntry(shard, a, metas)]]

\* Faulty variant: only the cursors start anew.
rebuildCursors(s, snapshot) ==
  [s EXCEPT !.cursor = NewScheduler.cursor, !.weighted = NewScheduler.weighted]

\* rebuild forgets shards and cursors; shards are built again by the picks.
rebuild(s, snapshot) ==
  [NewScheduler EXCEPT
     !.strategy = s.strategy,
     !.metas = [a \in {b \in DOMAIN snapshot : ~snapshot[b].disabled} |->
                  meta(a, snapshot[a], FALSE)]]

providerAuths(s, p) == {a \in DOMAIN s.metas : ProviderOf[a] = p}

\* The shard of p as a pick finds it, promoted or built.
ensureModel(s, p) ==
  IF p \in DOMAIN s.shards THEN promoteExpired(s.shards[p], s.metas, now)
  ELSE rebuildIndexes(EmptyShard,
         [a \in {b \in providerAuths(s, p) : s.metas[b].supported} |->
            evaluated(s.metas[a], now)],
         s.metas)

-----------------------------------------------------------------------------
(* Picking from a view *)

eligible(s, tried) ==
  {a \in DOMAIN s.metas : a \notin tried /\ (s.strategy = "weighted" => s.metas[a].weight > 0)}

readyAt(s, p, q) == IF p \in DOMAIN s.shards THEN s.shards[p].ready[q].flat ELSE <<>>
atPriority(s, route, q, ok) ==
  {a \in ok : \E i \in DOMAIN route : a \in ToSet(readyAt(s, route[i], q))}

\* pickRoundRobin: the first eligible entry from the cursor on.
pickRoundRobin(view, ok) ==
  LET n == Len(view.flat)
      index(k) == (view.cursor + k) % n
      k == CHOOSE k \in 0..(n - 1) :
             /\ view.flat[index(k) + 1] \in ok
             /\ \A j \in 0..(k - 1) : view.flat[index(j) + 1] \notin ok
  IN [picked |-> view.flat[index(k) + 1], view |-> [view EXCEPT !.cursor = index(k) + 1]]

\* A round of the weighted strategy: as many turns for each as its weight.
turns(weights) == UNION {{a} \X (1..weights[a]) : a \in DOMAIN weights}

\* prepare and pickSmoothWeightedScheduled over the eligible entries.
pickSmoothWeighted(state, ids, metas) ==
  LET weights == weightVector(ids, metas)
      before(a) == IF state.weights = weights /\ a \in DOMAIN state.current
                     THEN state.current[a] ELSE 0
      current == [a \in ids |-> before(a) + metas[a].weight]
      picked == CHOOSE a \in ids : \A b \in ids \ {a} :
                  \/ current[a] > current[b]
                  \/ current[a] = current[b] /\ a < b
      total == Cardinality(turns(weights))
  IN [picked |-> picked,
      state |-> [current |-> [current EXCEPT ![picked] = @ - total], weights |-> weights]]

pickFirst(flat, ok) == flat[CHOOSE i \in DOMAIN flat :
  flat[i] \in ok /\ \A j \in 1..(i - 1) : flat[j] \notin ok]

\* pickReadyAtPriority of the shard of p, which has an eligible entry there.
pickAt(s, p, q, ok, strategy) ==
  LET view == s.shards[p].ready[q]
      rr == pickRoundRobin(view, ok)
      sw == pickSmoothWeighted(view, ToSet(view.flat) \cap ok, s.metas)
  IN CASE strategy = "rr" ->
            [picked |-> rr.picked, s |-> [s EXCEPT !.shards[p].ready[q] = rr.view]]
       [] strategy = "weighted" ->
            [picked |-> sw.picked, s |-> [s EXCEPT !.shards[p].ready[q] =
              [@ EXCEPT !.current = sw.state.current, !.weights = sw.state.weights]]]
       [] strategy = "fill" -> [picked |-> pickFirst(view.flat, ok), s |-> s]

\* The first provider of the route that has an eligible entry there.
pickMixedFill(s, route, q, ok) ==
  LET has(i) == ToSet(readyAt(s, route[i], q)) \cap ok # {}
      i == CHOOSE i \in DOMAIN route : has(i) /\ \A j \in 1..(i - 1) : ~has(j)
  IN pickAt(s, route[i], q, ok, "fill")

\* The mixed rotation: a slot per eligible entry, the slots of a provider in
\* a row.  The provider of the slot answers with its own cursor.
pickMixedRoundRobin(s, route, q, ok) ==
  LET end(i) == Cardinality(atPriority(s, SubSeq(route, 1, i), q, ok))
      slot == s.cursor[route] % end(Len(route))
      i == CHOOSE i \in DOMAIN route : slot < end(i) /\ \A j \in 1..(i - 1) : slot >= end(j)
      r == pickAt(s, route[i], q, ok, "rr")
  IN [picked |-> r.picked, s |-> [r.s EXCEPT !.cursor[route] = slot + 1]]

pickMixedWeighted(s, route, q, ok) ==
  LET sw == pickSmoothWeighted(s.weighted[route], atPriority(s, route, q, ok), s.metas)
  IN [picked |-> sw.picked, s |-> [s EXCEPT !.weighted[route] = sw.state]]

bestPriority(s, route, ok) == Max({q \in Priorities : atPriority(s, route, q, ok) # {}})

\* The shards a pick looks at; a provider without credentials has none.
prepared(s, route) ==
  LET asked == {p \in ToSet(route) : p \in DOMAIN s.shards \/ providerAuths(s, p) # {}}
  IN [s EXCEPT !.shards = [p \in DOMAIN @ \cup asked |->
                             IF p \in asked THEN ensureModel(s, p) ELSE @[p]]]

\* pickSingle and pickMixed: picked is 0 when nothing is ready.
pickFrom(s0, route, tried) ==
  LET s == prepared(s0, route)
      ok == eligible(s, tried)
      q == bestPriority(s, route, ok)
  IN IF \A p \in Priorities : atPriority(s, route, p, ok) = {} THEN [picked |-> 0, s |-> s]
     ELSE IF Len(route) = 1 THEN pickAt(s, route[1], q, ok, s.strategy)
     ELSE CASE s.strategy = "rr" -> pickMixedRoundRobin(s, route, q, ok)
            [] s.strategy = "weighted" -> pickMixedWeighted(s, route, q, ok)
            [] s.strategy = "fill" -> pickMixedFill(s, route, q, ok)

-----------------------------------------------------------------------------
(* History *)

NoWindow == [route |-> <<>>, cands |-> <<>>, picks |-> <<>>]

\* The credentials among which requests for the route rotate, with weights.
candidates(s, route) ==
  LET ok == eligible(s, {})
      top == IF \A q \in Priorities : atPriority(s, route, q, ok) = {} THEN {}
             ELSE atPriority(s, route, bestPriority(s, route, ok), ok)
  IN [a \in top |-> s.metas[a].weight]

period(cands) ==
  IF sched.strategy = "weighted" THEN Cardinality(turns(cands)) ELSE Cardinality(DOMAIN cands)

\* A publication that changes the candidates starts a new window.
windowAfter(s) == IF candidates(s, window.route) = window.cands THEN window ELSE NoWindow

windowPicked(s, route, tried, a) ==
  LET cands == candidates(s, route)
      picks == IF window.route = route /\ window.cands = cands THEN window.picks ELSE <<>>
      all == Append(picks, a)
      n == period(cands)
  IN IF tried # {} THEN NoWindow
     ELSE [route |-> route, cands |-> cands,
           picks |-> IF Len(all) > n THEN Tail(all) ELSE all]

-----------------------------------------------------------------------------
Idle == [pc |-> "idle"]
NoPick == [pc |-> "idle", route |-> <<>>, tried |-> {}, snapshot |-> <<>>, hope |-> {}]

\* Load has read the credentials and the service has registered their models.
Init ==
  /\ auths = [a \in DOMAIN Initial |-> Credential(Initial[a], Free)]
  /\ supports = DOMAIN Initial
  /\ \E st \in Strategies : sched = rebuild([NewScheduler EXCEPT !.strategy = st], auths)
  /\ svc = Idle
  /\ reports = [r \in Reporters |-> Idle]
  /\ pick = NoPick
  /\ sync = Idle
  /\ now = 0
  /\ budget = [updates |-> MaxUpdates, results |-> MaxResults]
  /\ window = NoWindow

\* A change that takes a from the hopes of a pick that is under way.
lost(a) == [pick EXCEPT !.hope = @ \ {a}]

\* What lands in the scheduler, and what it takes from a waiting pick: see
\* PickFindsReady.
Publish(a, c, live) ==
  /\ sched' = upsertAuth(sched, a, c, live)
  /\ window' = windowAfter(sched')
  /\ pick' = IF a \in DOMAIN auths /\ c = auths[a] THEN pick ELSE lost(a)

\* A write to the object of a: the scheduler sees it if it holds the object.
Mutate(a, until) ==
  /\ auths' = [auths EXCEPT ![a].until = until]
  /\ sched' = IF a \in DOMAIN sched.metas /\ sched.metas[a].live
                THEN [sched EXCEPT !.metas[a].until = until] ELSE sched
  /\ pick' = lost(a)

-----------------------------------------------------------------------------
(* The worker of the service that applies changes of credential files *)

\* Register or Update: a new object; the model states are carried over.
Commit(a, p) ==
  /\ svc.pc = "idle" /\ budget.updates > 0
  /\ budget' = [budget EXCEPT !.updates = @ - 1]
  /\ LET carried == a \in DOMAIN auths /\ ~auths[a].disabled /\ ~p.disabled
     IN auths' = put(auths, a, Credential(p, IF carried THEN auths[a].until ELSE Free))
  /\ sched' = IF a \in DOMAIN sched.metas THEN [sched EXCEPT !.metas[a].live = FALSE] ELSE sched
  /\ svc' = [pc |-> "upsert", auth |-> a]
  /\ pick' = lost(a)
  /\ UNCHANGED <<supports, reports, sync, now, window>>

CommitUpsert ==
  /\ svc.pc = "upsert"
  /\ Publish(svc.auth, auths[svc.auth], TRUE)
  /\ svc' = [svc EXCEPT !.pc = "register"]
  /\ UNCHANGED <<auths, supports, reports, sync, now, budget>>

\* registerModelsForAuth, then ReconcileRegistryModelStates: the states of
\* registered models are reset.
RegisterModels ==
  /\ svc.pc = "register"
  /\ supports' = IF auths[svc.auth].disabled THEN supports \ {svc.auth}
                                             ELSE supports \cup {svc.auth}
  /\ svc' = [svc EXCEPT !.pc = "reconcile"]
  /\ pick' = lost(svc.auth)
  /\ UNCHANGED <<auths, sched, reports, sync, now, budget, window>>

ReconcileRegistryModelStates ==
  /\ svc.pc = "reconcile"
  /\ IF auths[svc.auth].until = Free
       THEN /\ svc' = [svc EXCEPT !.pc = "read"]
            /\ UNCHANGED <<auths, sched, pick>>
       ELSE /\ Mutate(svc.auth, Free)
            /\ svc' = [pc |-> "reconciled", auth |-> svc.auth, snapshot |-> auths'[svc.auth]]
  /\ UNCHANGED <<supports, reports, sync, now, budget, window>>

ReconcilePublish ==
  /\ svc.pc = "reconciled"
  /\ Publish(svc.auth, svc.snapshot, FALSE)
  /\ svc' = [pc |-> "read", auth |-> svc.auth]
  /\ UNCHANGED <<auths, supports, reports, sync, now, budget>>

\* RefreshSchedulerEntry.
RefreshRead ==
  /\ svc.pc = "read"
  /\ svc' = [pc |-> "refresh", auth |-> svc.auth, snapshot |-> auths[svc.auth]]
  /\ UNCHANGED <<auths, supports, sched, reports, pick, sync, now, budget, window>>

RefreshPublish ==
  /\ svc.pc = "refresh"
  /\ Publish(svc.auth, svc.snapshot, FALSE)
  /\ svc' = Idle
  /\ UNCHANGED <<auths, supports, reports, sync, now, budget>>

\* Faulty variant: the models of a removed credential stay registered.
unregisteredNever(a) == supports

\* UnregisterClient.
unregistered(a) == supports \ {a}

\* applyCoreAuthRemoval: the models first, then the manager, the scheduler.
Unregister(a) ==
  /\ svc.pc = "idle" /\ budget.updates > 0 /\ a \in DOMAIN auths
  /\ budget' = [budget EXCEPT !.updates = @ - 1]
  /\ supports' = unregistered(a)
  /\ svc' = [pc |-> "delete", auth |-> a]
  /\ pick' = lost(a)
  /\ UNCHANGED <<auths, sched, reports, sync, now, window>>

RemoveAuth ==
  /\ svc.pc = "delete"
  /\ auths' = drop(auths, svc.auth)
  /\ svc' = [svc EXCEPT !.pc = "remove"]
  /\ UNCHANGED <<supports, sched, reports, pick, sync, now, budget, window>>

RemovePublish ==
  /\ svc.pc = "remove"
  /\ sched' = removeAuth(sched, svc.auth)
  /\ window' = windowAfter(sched')
  /\ svc' = Idle
  /\ UNCHANGED <<auths, supports, reports, pick, sync, now, budget>>

-----------------------------------------------------------------------------
(* Requests: results and picks *)

MarkResult(r, a, until) ==
  /\ reports[r] = Idle /\ budget.results > 0
  /\ a \in DOMAIN auths
  /\ budget' = [budget EXCEPT !.results = @ - 1]
  /\ Mutate(a, until)
  /\ reports' = [reports EXCEPT ![r] = [pc |-> "publish", auth |-> a, snapshot |-> auths'[a]]]
  /\ UNCHANGED <<supports, svc, sync, now, window>>

MarkResultPublish(r) ==
  /\ reports[r] # Idle
  /\ Publish(reports[r].auth, reports[r].snapshot, FALSE)
  /\ reports' = [reports EXCEPT ![r] = Idle]
  /\ UNCHANGED <<auths, supports, svc, sync, now, budget>>

\* What a request may use, by the credentials of the manager.
usable(route, tried) ==
  {a \in DOMAIN auths :
     /\ ~auths[a].disabled /\ ~isAuthBlockedForModel(auths[a], now)
     /\ a \in supports /\ a \notin tried /\ ProviderOf[a] \in ToSet(route)
     /\ sched.strategy = "weighted" => auths[a].weight > 0}

\* The first pick of pickNext; one that finds nothing synchronises first.
Pick(route, tried) ==
  /\ pick.pc = "idle"
  /\ LET r == pickFrom(sched, route, tried)
     IN /\ sched' = r.s
        /\ IF r.picked = 0
             THEN /\ pick' = [NoPick EXCEPT !.pc = "snapshot", !.route = route, !.tried = tried,
                                            !.hope = usable(route, tried)]
                  /\ window' = windowAfter(r.s)
             ELSE /\ window' = windowPicked(r.s, route, tried, r.picked)
                  /\ UNCHANGED pick
  /\ UNCHANGED <<auths, supports, svc, reports, sync, now, budget>>

PickSnapshot ==
  /\ pick.pc = "snapshot"
  /\ pick' = [pick EXCEPT !.pc = "rebuild", !.snapshot = auths]
  /\ UNCHANGED <<auths, supports, sched, svc, reports, sync, now, budget, window>>

PickRebuild ==
  /\ pick.pc = "rebuild"
  /\ sched' = rebuild(sched, pick.snapshot)
  /\ pick' = [pick EXCEPT !.pc = "again", !.snapshot = <<>>]
  /\ window' = NoWindow
  /\ UNCHANGED <<auths, supports, svc, reports, sync, now, budget>>

PickAgain ==
  /\ pick.pc = "again"
  /\ LET r == pickFrom(sched, pick.route, pick.tried)
     IN /\ sched' = r.s
        /\ window' = IF r.picked = 0 THEN windowAfter(r.s)
                     ELSE windowPicked(r.s, pick.route, pick.tried, r.picked)
  /\ pick' = NoPick
  /\ UNCHANGED <<auths, supports, svc, reports, sync, now, budget>>

\* SetSelector: the strategy, then syncScheduler.
SetSelector(st) ==
  /\ sync.pc = "idle" /\ budget.updates > 0 /\ st # sched.strategy
  /\ budget' = [budget EXCEPT !.updates = @ - 1]
  /\ sched' = [sched EXCEPT !.strategy = st, !.cursor = NewScheduler.cursor,
                            !.weighted = NewScheduler.weighted]
  /\ sync' = [pc |-> "snapshot"]
  /\ pick' = [pick EXCEPT !.hope = {}]
  /\ window' = NoWindow
  /\ UNCHANGED <<auths, supports, svc, reports, now>>

SyncSnapshot ==
  /\ sync.pc = "snapshot"
  /\ sync' = [pc |-> "rebuild", snapshot |-> auths]
  /\ UNCHANGED <<auths, supports, sched, svc, reports, pick, now, budget, window>>

SyncRebuild ==
  /\ sync.pc = "rebuild"
  /\ sched' = rebuild(sched, sync.snapshot)
  /\ sync' = Idle
  /\ pick' = [pick EXCEPT !.hope = {}]
  /\ window' = NoWindow
  /\ UNCHANGED <<auths, supports, svc, reports, now, budget>>

Tick ==
  /\ now < MaxTime
  /\ now' = now + 1
  /\ UNCHANGED <<auths, supports, sched, svc, reports, pick, sync, budget, window>>

-----------------------------------------------------------------------------
Service ==
  \/ \E a \in Changing : Unregister(a) \/ \E p \in Profiles : Commit(a, p)
  \/ CommitUpsert \/ RegisterModels \/ ReconcileRegistryModelStates
  \/ ReconcilePublish \/ RefreshRead \/ RefreshPublish \/ RemoveAuth \/ RemovePublish

Next ==
  \/ Service
  \/ \E r \in Reporters :
       MarkResultPublish(r) \/ \E a \in Changing, u \in {Free, now + 1, Forever} : MarkResult(r, a, u)
  \/ \E r \in Requests : Pick(r.route, r.tried)
  \/ PickSnapshot \/ PickRebuild \/ PickAgain
  \/ \E st \in Strategies : SetSelector(st)
  \/ SyncSnapshot \/ SyncRebuild
  \/ Tick

Spec == Init /\ [][Next]_vars
-----------------------------------------------------------------------------
(* Properties *)

readyEntries(p, q) ==
  {a \in DOMAIN sched.shards[p].entries :
     sched.shards[p].entries[a].state = "ready" /\ sched.metas[a].priority = q}

\* The ready views and the blocked list of a shard are those of its entries,
\* although upsertEntryLocked leaves them alone when it sees no change in
\* state, retry time and priority: every ready entry is in the view of its
\* priority and in no other, in the order of IDs, and every entry that waits
\* for its time is where promoteExpiredLocked looks for it.
ViewsMatchEntries ==
  \A p \in DOMAIN sched.shards :
    /\ \A q \in Priorities : sched.shards[p].ready[q].flat = sorted(readyEntries(p, q))
    /\ {a \in DOMAIN sched.shards[p].entries : sched.shards[p].entries[a].nextRetryAt > 0}
         \subseteq sched.shards[p].blocked

\* As long as the candidates of the best priority stay the same, n requests in
\* a row meet each of n candidates once under round robin, and each exactly as
\* often as its weight under the weighted strategy, whatever happens to other
\* credentials meanwhile: a rebuild of the views keeps the rotation going.
RotationFair ==
  Len(window.picks) > 0 /\ Len(window.picks) = period(window.cands) /\ sched.strategy # "fill" =>
    \A a \in DOMAIN window.cands :
      Cardinality({i \in DOMAIN window.picks : window.picks[i] = a})
        = IF sched.strategy = "weighted" THEN window.cands[a] ELSE 1

\* A request is refused only if every credential it could have used changed
\* while it was picking: one that was usable when the pick began, and that
\* nobody wrote or published an old copy of since, is found by the rebuild,
\* however stale the scheduler was.
PickFindsReady ==
  pick.pc = "again" /\ pickFrom(sched, pick.route, pick.tried).picked = 0 => pick.hope = {}

\* What a request would get now.
picks(r) == pickFrom(sched, r.route, r.tried).picked

\* A removed credential is not picked once Remove has reached the scheduler:
\* a copy of it that is published later finds its models unregistered.
NoRemovedPicked ==
  \A a \in DOMAIN sched.metas \ DOMAIN auths :
    \/ svc = [pc |-> "remove", auth |-> a]
    \/ \A r \in Requests : picks(r) # a

\* Nothing is on its way to the scheduler and it holds what the manager holds.
InStep ==
  /\ svc.pc = "idle" /\ sync.pc = "idle" /\ \A r \in Reporters : reports[r] = Idle
  /\ DOMAIN sched.metas = {a \in DOMAIN auths : ~auths[a].disabled}
  /\ \A a \in DOMAIN sched.metas :
       /\ \A f \in DOMAIN auths[a] : sched.metas[a][f] = auths[a][f]
       /\ sched.metas[a].supported = (a \in supports)

\* The usable credentials of the highest priority: getAvailableAuths.
Best(route, tried) ==
  {a \in usable(route, tried) :
     \A b \in usable(route, tried) : auths[b].priority <= auths[a].priority}

\* A scheduler in step picks what a scan of all credentials would: one of the
\* highest priority among those whose time has come, nothing if there is none.
PickIsBest ==
  InStep => \A r \in Requests :
    LET best == Best(r.route, r.tried)
    IN picks(r) \in IF best = {} THEN {0} ELSE best
=============================================================================
