---------------------------- MODULE AuthCooldown ----------------------------
(***************************************************************************)
(* Cooldown state of one credential in the auth manager                    *)
(* (sdk/cliproxy/auth/conductor_cooldown.go and its callers): how request  *)
(* results open and close cooldown windows of its models, how the windows  *)
(* are aggregated on the credential, saved to the cooldown store, merged   *)
(* back from it, and overwritten by the read-modify-write callers of       *)
(* Manager.Update.                                                         *)
(*                                                                         *)
(* Every action below that is one critical section of m.mu is atomic.      *)
(* The save that follows a critical section (persistCooldownStates, after  *)
(* the unlock), the two halves of RestoreCooldownStates (load, then lock), *)
(* the three of a config change and the two of a refresh or a              *)
(* re-registration are separate actions, so other calls come in between.   *)
(*                                                                         *)
(* Times are natural numbers; 0 is Go's zero time and the clock starts at  *)
(* 1.  Error texts, status strings and request counters are left out, as   *)
(* are results that must not cool a credential                             *)
(* (shouldSkipCredentialCooldown): they leave all of this state alone.     *)
(***************************************************************************)
EXTENDS Integers, FiniteSets, FiniteSetsExt

CONSTANTS
  Models,         \* canonical model keys of the credential
  Outcomes,       \* kinds of failure the upstream may answer with
  MaxLevel,       \* the level whose cooldown reaches quotaBackoffMax
  Ladder,         \* Ladder[n]: quotaBackoffBase doubled n times
  QuotaMax,       \* quotaBackoffMax
  CloudflareMin,  \* least cooldown after a Cloudflare challenge
  TransientWait,  \* transient cooldown; 0 when it is switched off
  SuspendWait,    \* cooldown of 401, 402, 403 and invalid_grant
  NotFoundWait,   \* cooldown of 404 and of an unsupported model
  RetryAfters,    \* values of an upstream's Retry-After
  TornCopies,     \* whether a change may overlap the copy a refresh takes
  MaxTime,        \* bound: the clock stops there
  Limits          \* bound: how often each kind of event may happen

OutcomeKinds ==
  {"quota", "retryAfter", "cloudflare", "unauthorized", "suspend",
   "notFound", "modelSupport", "transient"}

EventKinds == {"result", "reset", "config", "restore", "update", "restart"}

ASSUME CooldownAssumption ==
  /\ Outcomes \subseteq OutcomeKinds
  /\ MaxLevel \in Nat
  /\ Ladder \in [0..MaxLevel -> Nat \ {0}]
  /\ \A n \in 0..MaxLevel : n # MaxLevel => Ladder[n + 1] = 2 * Ladder[n]
  /\ \A n \in 0..MaxLevel : Ladder[n] >= QuotaMax <=> n = MaxLevel
  /\ QuotaMax \in Nat \ {0}
  /\ {CloudflareMin, SuspendWait, NotFoundWait} \subseteq Nat \ {0}
  /\ TransientWait \in Nat
  /\ RetryAfters \subseteq Nat
  /\ TornCopies \in BOOLEAN
  /\ MaxTime \in Nat \ {0}
  /\ Limits \in [EventKinds -> Nat]

(***************************************************************************)
(* The availability fields a model state and the credential itself share.  *)
(* unauthorized: the last error recorded on a model state is a 401; the    *)
(* credential's own last error is not tracked, and the field is FALSE.     *)
(***************************************************************************)
State == [unavailable : BOOLEAN, retryAt : Nat, exceeded : BOOLEAN,
          recoverAt : Nat, level : 0..MaxLevel, unauthorized : BOOLEAN]

Clean == [unavailable |-> FALSE, retryAt |-> 0, exceeded |-> FALSE,
          recoverAt |-> 0, level |-> 0, unauthorized |-> FALSE]

Snapshots == [models : [Models -> State], auth : State]

NoRecords == [models |-> [m \in Models |-> Clean], auth |-> Clean]

VARIABLES
  now,         \* the clock
  models,      \* auth.ModelStates; Clean where there is no entry
  known,       \* the keys of auth.ModelStates
  auth,        \* the credential's own availability fields
  coolingOff,  \* the runtime config in force disables cooling
  config,      \* step of ApplyConfigWithCooldownStateStore
  store,       \* the persisted records; Clean where there is none
  saves,       \* calls waiting to run persistCooldownStates
  restore,     \* step of RestoreCooldownStates
  loaded,      \* the records it read
  writer,      \* step of a read-modify-write caller of Update
  clone,       \* the copy of the credential that caller took
  left,        \* events that may still happen
  unsaved,     \* history: a change went by with no save, or a save failed
  owed,        \* history: end of the last quota window announced
  refused      \* history: a refresh was answered 401 and nothing that would
               \* put the credential right has happened since

memory == <<models, known, auth>>
disk == <<store, saves, unsaved>>
restoring == <<restore, loaded>>
writing == <<writer, clone>>
history == <<owed, refused>>
vars == <<now, memory, coolingOff, config, disk, restoring, writing, left,
          history>>

Configs == {"idle", "clear", "save"}
Writers == {"idle", "refresh", "torn", "register", "reconcile"}

TypeOK ==
  /\ now \in 1..MaxTime
  /\ models \in [Models -> State]
  /\ known \subseteq Models
  /\ auth \in State
  /\ coolingOff \in BOOLEAN
  /\ config \in Configs
  /\ store \in Snapshots
  /\ saves \in Nat
  /\ restore \in {"idle", "loaded"}
  /\ loaded \in Snapshots
  /\ writer \in Writers
  /\ clone \in [models : [Models -> State], known : SUBSET Models, auth : State]
  /\ left \in [EventKinds -> Nat]
  /\ unsaved \in BOOLEAN
  /\ owed \in [Models -> Nat]
  /\ refused \in BOOLEAN

Init ==
  /\ now = 1
  /\ models = NoRecords.models
  /\ known = {}
  /\ auth = Clean
  /\ coolingOff \in BOOLEAN
  /\ config = "idle"
  /\ store = NoRecords
  /\ saves = 0
  /\ restore = "idle"
  /\ loaded = NoRecords
  /\ writer = "idle"
  /\ clone = [models |-> NoRecords.models, known |-> {}, auth |-> Clean]
  /\ left = Limits
  /\ unsaved = FALSE
  /\ owed = [m \in Models |-> 0]
  /\ refused = FALSE

Spend(kind) ==
  /\ left[kind] > 0
  /\ left' = [left EXCEPT ![kind] = @ - 1]

-----------------------------------------------------------------------------
(***************************************************************************)
(* Cooldown arithmetic.                                                    *)
(***************************************************************************)

nextQuotaCooldown(level) ==
  IF Ladder[level] >= QuotaMax
    THEN [wait |-> QuotaMax, level |-> level]
    ELSE [wait |-> Ladder[level], level |-> level + 1]

\* Faulty variant: a failure inside an open window climbs the ladder too.
AlwaysEscalates(s) ==
  LET next == nextQuotaCooldown(s.level)
  IN [s EXCEPT !.recoverAt = now + next.wait, !.level = next.level]

quotaCooldownAfterFailure(s) ==
  IF s.recoverAt > now THEN s
  ELSE LET next == nextQuotaCooldown(s.level)
       IN [s EXCEPT !.recoverAt = now + next.wait, !.level = next.level]

nextCloudflareCooldown(s) ==
  LET next == nextQuotaCooldown(s.level)
  IN [s EXCEPT !.recoverAt = now + Max({next.wait, CloudflareMin}),
               !.level = next.level]

\* What a failure of kind o does to the deadlines of s.  The record passed on
\* has unavailable set; wait is the upstream's Retry-After.  With cooling off
\* a quota failure closes its window and every other one its retry time.
Deadlines(s, o, wait) ==
  LET quota(t) == [t EXCEPT !.exceeded = TRUE, !.retryAt = t.recoverAt]
      until(w) == [s EXCEPT !.retryAt = IF coolingOff THEN 0 ELSE now + w]
      recoverable == IF coolingOff \/ TransientWait = 0
                       THEN [s EXCEPT !.retryAt = 0, !.unavailable = FALSE]
                       ELSE [s EXCEPT !.retryAt = now + TransientWait]
  IN CASE o = "modelSupport" -> [s EXCEPT !.retryAt = now + NotFoundWait]
       [] o = "cloudflare" ->
            quota(IF coolingOff THEN [s EXCEPT !.recoverAt = 0]
                                ELSE nextCloudflareCooldown(s))
       [] o = "quota" ->
            quota(IF coolingOff THEN [s EXCEPT !.recoverAt = 0]
                                ELSE quotaCooldownAfterFailure(s))
       [] o = "retryAfter" ->
            quota([s EXCEPT !.recoverAt = IF coolingOff THEN 0 ELSE now + wait])
       [] o \in {"unauthorized", "suspend"} -> until(SuspendWait)
       [] o = "notFound" -> until(NotFoundWait)
       [] o = "transient" -> recoverable

\* The whole of a failure: the record is marked, its deadlines are set, and
\* with cooling off a record left without deadline is unmarked again.
AfterFailure(s, o, wait) ==
  LET t == Deadlines([s EXCEPT !.unavailable = TRUE,
                               !.unauthorized = (o = "unauthorized")], o, wait)
  IN IF coolingOff /\ t.retryAt = 0 /\ t.recoverAt = 0
       THEN [t EXCEPT !.unavailable = FALSE, !.exceeded = FALSE]
       ELSE t

\* selector.go availabilityBlock: the time until which s is blocked, 0 when it
\* is not blocked.  Endless: it is blocked and nothing says until when.
BlockedUntil(s) ==
  LET ahead == {t \in {s.retryAt, s.recoverAt} : t > now}
  IN IF (s.unavailable \/ s.exceeded) /\ ahead # {} THEN Max(ahead) ELSE 0

Endless(s) == (s.unavailable \/ s.exceeded) /\ s.retryAt = 0 /\ s.recoverAt = 0

Blocked(s) == BlockedUntil(s) > now \/ Endless(s)

\* selector.go isAuthBlockedForModel: the record that decides about model m is
\* its own (Clean where there is none), and the credential's as long as no
\* model has one.
Deciding(m) == IF known = {} THEN auth ELSE models[m]

-----------------------------------------------------------------------------
(***************************************************************************)
(* Aggregation over the models, and the records that get saved.            *)
(***************************************************************************)

Cooling(s) == s.unavailable /\ s.retryAt > now

Expire(s) == IF s.unavailable /\ s.retryAt # 0 /\ s.retryAt <= now
               THEN [s EXCEPT !.unavailable = FALSE, !.retryAt = 0]
               ELSE s

Aggregate(ms, keys) ==
  LET all == keys # {} /\ \A m \in keys : Cooling(ms[m])
      over == {m \in keys : ms[m].exceeded}
      recovers == {ms[m].recoverAt : m \in over} \ {0}
  IN [unavailable |-> all,
      retryAt |-> IF all THEN Min({ms[m].retryAt : m \in keys}) ELSE 0,
      exceeded |-> over # {},
      recoverAt |-> IF recovers = {} THEN 0 ELSE Min(recovers),
      level |-> Max({0} \cup {ms[m].level : m \in over}),
      unauthorized |-> FALSE]

Expired(ms, keys) ==
  [m \in Models |-> IF m \in keys THEN Expire(ms[m]) ELSE Clean]

updateAggregatedAvailability(ms, keys) ==
  /\ models' = Expired(ms, keys)
  /\ known' = keys
  /\ auth' = Aggregate(ms, keys)

\* Faulty variant: a record without deadline is taken to be clear.
ClearedIfTimed(s) ==
  IF s.retryAt # 0 \/ s.recoverAt # 0
    THEN [Clean EXCEPT !.unauthorized = s.unauthorized]
    ELSE s

Cleared(s) ==
  IF s.unavailable \/ s.retryAt # 0 \/ s.exceeded \/ s.recoverAt # 0
    THEN [Clean EXCEPT !.unauthorized = s.unauthorized]
    ELSE s

\* The credential c after clearCooldownStateForAuth.
clearCooldownStateForAuth(c) ==
  LET ms == [m \in Models |-> Cleared(c.models[m])]
  IN IF c.known = {} THEN [c EXCEPT !.auth = Cleared(@)]
     ELSE [models |-> Expired(ms, c.known), known |-> c.known,
           auth |-> Aggregate(ms, c.known)]

Assign(c) == models' = c.models /\ known' = c.known /\ auth' = c.auth

Current == [models |-> models, known |-> known, auth |-> auth]

Records(c) ==
  IF coolingOff THEN NoRecords
  ELSE [models |-> [m \in Models |-> IF m \in c.known /\ Cooling(c.models[m])
                                       THEN c.models[m] ELSE Clean],
        auth |-> IF Cooling(c.auth) THEN c.auth ELSE Clean]

\* The caller compares the records around its change; UpdatedAt is among the
\* fields compared, so a record that was written again counts as changed.
cooldownStateChanged(touched) ==
  LET after == Records(Current')
  IN \/ Records(Current) # after
     \/ \E m \in touched : after.models[m] # Clean
     \/ touched # {} /\ after.auth # Clean

-----------------------------------------------------------------------------
(***************************************************************************)
(* Results of requests.                                                    *)
(***************************************************************************)

elsewhere == <<now, coolingOff, config, store, restoring, writing>>

\* Faulty variant: a change of the model's own record is not noticed.
SaveIfAuthChanged(touched) ==
  /\ saves' = saves + IF Records(Current).auth # Records(Current').auth
                        THEN 1 ELSE 0
  /\ UNCHANGED unsaved

saveIfChanged(touched) ==
  /\ saves' = saves + IF cooldownStateChanged(touched) THEN 1 ELSE 0
  /\ UNCHANGED unsaved

\* MarkResult of a success of model m.
MarkSuccess(m) ==
  /\ Spend("result")
  /\ updateAggregatedAvailability([models EXCEPT ![m] = Clean], known \cup {m})
  /\ saveIfChanged({})
  /\ owed' = [owed EXCEPT ![m] = 0]
  /\ refused' = FALSE
  /\ UNCHANGED elsewhere

\* The quota window of s that is announced by a failure of kind o.
Announced(s, o) ==
  CASE coolingOff -> 0
    [] ~coolingOff /\ o \in {"quota", "retryAfter", "cloudflare"} -> s.recoverAt
    [] OTHER -> -1

\* MarkResult of a failure of model m.
MarkFailure(m, o, wait) ==
  /\ Spend("result")
  /\ LET after == AfterFailure(models[m], o, wait)
         window == Announced(after, o)
     IN /\ updateAggregatedAvailability([models EXCEPT ![m] = after],
                                        known \cup {m})
        /\ owed' = [owed EXCEPT ![m] = IF window = -1 THEN @ ELSE window]
  /\ saveIfChanged({m})
  /\ UNCHANGED <<refused, elsewhere>>

\* MarkResult of a success that names no model: clearAuthStateOnSuccess.
MarkAuthSuccess ==
  /\ Spend("result")
  /\ auth' = Clean
  /\ refused' = FALSE
  /\ UNCHANGED <<models, known, owed>>
  /\ saveIfChanged({})
  /\ UNCHANGED elsewhere

\* MarkResult of a failure that names no model: applyAuthFailureState, which
\* knows no unsupported models.
MarkAuthFailure(o, wait) ==
  /\ Spend("result")
  /\ o # "modelSupport"
  /\ auth' = [AfterFailure(auth, o, wait) EXCEPT !.unauthorized = FALSE]
  /\ UNCHANGED <<models, known, history>>
  /\ saves' = saves + IF Records(Current) # Records(Current')
                           \/ Records(Current').auth # Clean THEN 1 ELSE 0
  /\ UNCHANGED <<unsaved, elsewhere>>

\* ResetQuota.  When the token store refuses the credential the call returns
\* with the state already cleared, and neither saves nor reports it.
ResetQuota(persisted) ==
  /\ Spend("reset")
  /\ Assign(clearCooldownStateForAuth(
              [Current EXCEPT !.models = [m \in Models |-> Clean]]))
  /\ \/ persisted /\ saveIfChanged({})
     \/ ~persisted /\ unsaved' = TRUE /\ UNCHANGED saves
  /\ owed' = [m \in Models |-> 0]
  /\ refused' = FALSE
  /\ UNCHANGED elsewhere

-----------------------------------------------------------------------------
(***************************************************************************)
(* The cooldown store.  configCooldownMu is held by a config change from   *)
(* its first to its last step, and by every save.                          *)
(***************************************************************************)

Save(ok) ==
  /\ store' = IF ok THEN Records(Current) ELSE store
  /\ unsaved' = ~ok

persistCooldownStates(ok) ==
  /\ saves > 0
  /\ config = "idle"
  /\ saves' = saves - 1
  /\ Save(ok)
  /\ UNCHANGED <<now, memory, coolingOff, config, restoring, writing, left,
                 history>>

\* setConfigSnapshotLocked publishes the new config ...
ConfigStore(off) ==
  /\ config = "idle"
  /\ Spend("config")
  /\ coolingOff' = off
  /\ config' = "clear"
  /\ unsaved' = TRUE
  /\ UNCHANGED <<now, memory, store, saves, restoring, writing, history>>

\* ... and only then clears what a disabled credential may not keep
\* (clearDisabledCooldownStates).
ConfigClear ==
  /\ config = "clear"
  /\ config' = "save"
  /\ IF coolingOff
       THEN /\ Assign(clearCooldownStateForAuth(Current))
            /\ owed' = [m \in Models |-> 0]
            /\ refused' = FALSE
       ELSE UNCHANGED <<memory, history>>
  /\ UNCHANGED <<now, coolingOff, disk, restoring, writing, left>>

\* ApplyConfigWithCooldownStateStore saves before it returns.
ConfigSave(ok) ==
  /\ config = "save"
  /\ config' = "idle"
  /\ Save(ok)
  /\ UNCHANGED <<now, memory, coolingOff, saves, restoring, writing, left,
                 history>>

(***************************************************************************)
(* RestoreCooldownStates, on every config reload: the store is read with   *)
(* no lock held, its records are merged under m.mu.                        *)
(***************************************************************************)

RestoreLoad ==
  /\ restore = "idle"
  /\ Spend("restore")
  /\ loaded' = store
  /\ restore' = IF store = NoRecords THEN "idle" ELSE "loaded"
  /\ UNCHANGED <<now, memory, coolingOff, config, disk, writing, history>>

\* A persisted quota flag without recovery time takes the retry time's.
Recovered(r) == IF r.exceeded /\ r.recoverAt = 0
                  THEN [r EXCEPT !.recoverAt = r.retryAt] ELSE r

\* Faulty variant: the record replaces the state instead of extending it.
MergeReplaces(s, r, newer) == Recovered(r)

\* newer: the record's error is kept, since the record was written after the
\* state or the state has no error.
mergeModelState(s, r, newer) ==
  LET rec == Recovered(r)
  IN [unavailable |-> TRUE,
      retryAt |-> Max({s.retryAt, rec.retryAt}),
      exceeded |-> s.exceeded \/ rec.exceeded,
      recoverAt |-> Max({s.recoverAt, rec.recoverAt}),
      level |-> Max({s.level, rec.level}),
      unauthorized |-> IF newer THEN rec.unauthorized ELSE s.unauthorized]

\* The credential c after the records rs have been restored into it.
restoreCooldownRecords(c, rs, newer) ==
  LET due(r) == r.retryAt > now /\ ~coolingOff
      back == {m \in Models : due(rs.models[m])}
      ms == [m \in Models |-> IF m \in back
               THEN mergeModelState(c.models[m], rs.models[m], m \in newer)
               ELSE c.models[m]]
      merged == IF back = {} THEN c
                ELSE [models |-> Expired(ms, c.known \cup back),
                      known |-> c.known \cup back,
                      auth |-> Aggregate(ms, c.known \cup back)]
  IN IF due(rs.auth) THEN [merged EXCEPT !.auth = Recovered(rs.auth)]
     ELSE merged

RestoreApply(newer) ==
  /\ restore = "loaded"
  /\ Assign(restoreCooldownRecords(Current, loaded, newer))
  /\ restore' = "idle"
  /\ loaded' = NoRecords
  /\ saves' = saves + 1
  /\ UNCHANGED <<now, coolingOff, config, store, unsaved, writing, left,
                 history>>

\* The process dies and starts again.  Before it serves requests it reads the
\* credential from its file, restores the cooldown records and saves them.
Restart(ok) ==
  /\ Spend("restart")
  /\ LET fresh == [models |-> NoRecords.models, known |-> {}, auth |-> Clean]
         back == restoreCooldownRecords(fresh, store, Models)
     IN /\ Assign(back)
        /\ store' = IF ok THEN Records(back) ELSE store
  /\ unsaved' = ~ok
  /\ saves' = 0
  /\ config' = "idle"
  /\ restore' = "idle"
  /\ loaded' = NoRecords
  /\ writer' = "idle"
  /\ refused' = FALSE
  /\ UNCHANGED <<now, coolingOff, clone, owed>>

-----------------------------------------------------------------------------
(***************************************************************************)
(* Callers that copy the credential, work on the copy with no lock held    *)
(* and hand it to Manager.Update: a token refresh, and the registration    *)
(* that follows a change of the credential's file.                         *)
(***************************************************************************)

\* Faulty variant: the copy is installed with the cooldowns it carries.
InstallsCopy(c) ==
  LET kept == IF c.known # {} THEN c
              ELSE [c EXCEPT !.models = models, !.known = known]
  IN /\ Assign(kept)
     /\ unsaved' = (unsaved \/ Records(Current) # Records(kept))
     /\ UNCHANGED saves

\* Update keeps the current model states when the new ones are empty, and
\* clears a credential whose cooling is off.  Only that clearing is saved.
Update(c) ==
  LET kept == IF c.known # {} THEN c
              ELSE [c EXCEPT !.models = models, !.known = known]
      new == IF coolingOff THEN clearCooldownStateForAuth(kept) ELSE kept
  IN /\ Assign(new)
     /\ saves' = saves + IF new # kept THEN 1 ELSE 0
     /\ unsaved' = (unsaved \/ Records(Current) # Records(new))

TakeClone(step) ==
  /\ writer = "idle"
  /\ Spend("update")
  /\ clone' = Current
  /\ writer' = step
  /\ UNCHANGED <<now, memory, coolingOff, config, disk, restoring, history>>

RefreshStart == TakeClone("refresh")

\* refreshAuthForRequest calls auth.Clone() after it released m.mu.  A change
\* that overlaps the copy leaves it with some of the old and some of the new
\* values: Clone copies the fields of the credential first and then, in the
\* order in which it meets them, the state of each model.
Differing(s, t) == {f \in DOMAIN s : s[f] # t[f]}
Mixed(s, t, fields) == [f \in DOMAIN s |-> IF f \in fields THEN t[f] ELSE s[f]]

Tear(copy) ==
  /\ TornCopies
  /\ writer = "refresh"
  /\ writer' = "torn"
  /\ clone' = copy
  /\ UNCHANGED <<now, memory, coolingOff, config, disk, restoring, left,
                 history>>

RefreshTornAuth(fields) ==
  Tear([Current EXCEPT !.auth = Mixed(clone.auth, auth, fields)])

RefreshTornModel(m, fields, before, keys) ==
  LET state(n) == CASE n \notin keys -> Clean
                    [] n \in keys /\ n = m -> Mixed(clone.models[n], models[n], fields)
                    [] n \in keys \ {m} /\ n \in before -> clone.models[n]
                    [] OTHER -> models[n]
  IN Tear([clone EXCEPT !.known = keys, !.models = [n \in Models |-> state(n)]])

Refreshing == writer \in {"refresh", "torn"}

\* clearUnauthorizedModelStates.
clearUnauthorizedModelStates(c) ==
  LET cured == {m \in c.known : c.models[m].unauthorized}
      ms == [m \in Models |-> IF m \in cured THEN Clean ELSE c.models[m]]
  IN IF cured = {} THEN c
     ELSE [c EXCEPT !.models = Expired(ms, c.known),
                    !.auth = Aggregate(ms, c.known)]

RefreshOk ==
  /\ Refreshing
  /\ writer' = "idle"
  /\ Update(clearUnauthorizedModelStates(
              [clone EXCEPT !.auth.unavailable = FALSE]))
  /\ refused' = FALSE
  /\ UNCHANGED <<now, coolingOff, config, store, restoring, clone, left, owed>>

\* A refresh answered with a 401 marks the current credential, not the copy,
\* and gives no time at which the mark ends.
RefreshUnauthorized ==
  /\ Refreshing
  /\ writer' = "idle"
  /\ auth' = [auth EXCEPT !.unavailable = TRUE]
  /\ unsaved' = TRUE
  /\ refused' = TRUE
  /\ UNCHANGED <<now, models, known, coolingOff, config, store, saves,
                 restoring, clone, left, owed>>

\* Any other failed refresh leaves the availability fields alone.
RefreshFailed ==
  /\ Refreshing
  /\ writer' = "idle"
  /\ UNCHANGED <<now, memory, coolingOff, config, disk, restoring, clone, left,
                 history>>

RegisterStart == TakeClone("register")

\* prepareCoreAuthForModelRegistration: the credential as its file has it,
\* with the model states of the copy.
RegisterUpdate ==
  /\ writer = "register"
  /\ writer' = "reconcile"
  /\ Update([clone EXCEPT !.auth = Clean])
  /\ refused' = FALSE
  /\ UNCHANGED <<now, coolingOff, config, store, restoring, clone, left, owed>>

\* ReconcileRegistryModelStates, once the models in supported are registered.
\* stale: a model state without cooldown still carries an old error.
ReconcileRegistryModelStates(supported, stale) ==
  /\ writer = "reconcile"
  /\ writer' = "idle"
  /\ stale => known # {}
  /\ IF \/ stale
        \/ ~(known \subseteq supported)
        \/ \E m \in known : models[m] # Clean
       THEN /\ updateAggregatedAvailability(NoRecords.models,
                                            known \cap supported)
            /\ unsaved' = TRUE
       ELSE UNCHANGED <<memory, unsaved>>
  /\ UNCHANGED <<now, coolingOff, config, store, saves, restoring, clone, left,
                 history>>

Tick ==
  /\ now < MaxTime
  /\ now' = now + 1
  /\ UNCHANGED <<memory, coolingOff, config, disk, restoring, writing, left,
                 history>>

Waits(o) == IF o = "retryAfter" THEN RetryAfters ELSE {0}

Next ==
  \/ Tick
  \/ \E m \in Models : MarkSuccess(m)
  \/ \E m \in Models, o \in Outcomes : \E wait \in Waits(o) :
       MarkFailure(m, o, wait)
  \/ MarkAuthSuccess
  \/ \E o \in Outcomes : \E wait \in Waits(o) : MarkAuthFailure(o, wait)
  \/ \E persisted \in BOOLEAN : ResetQuota(persisted)
  \/ \E ok \in BOOLEAN : persistCooldownStates(ok)
  \/ \E off \in BOOLEAN : ConfigStore(off)
  \/ ConfigClear
  \/ \E ok \in BOOLEAN : ConfigSave(ok)
  \/ RestoreLoad
  \/ \E newer \in SUBSET Models : RestoreApply(newer)
  \/ \E ok \in BOOLEAN : Restart(ok)
  \/ RefreshStart
  \/ \E fields \in SUBSET Differing(clone.auth, auth) : RefreshTornAuth(fields)
  \/ \E m \in Models, before \in SUBSET Models, keys \in {clone.known, known} :
       \E fields \in SUBSET Differing(clone.models[m], models[m]) :
         RefreshTornModel(m, fields, before, keys)
  \/ RefreshOk
  \/ RefreshUnauthorized
  \/ RefreshFailed
  \/ RegisterStart
  \/ RegisterUpdate
  \/ \E supported \in SUBSET Models, stale \in BOOLEAN :
       ReconcileRegistryModelStates(supported, stale)

Spec == Init /\ [][Next]_vars

-----------------------------------------------------------------------------
(***************************************************************************)
(* Properties.                                                             *)
(***************************************************************************)

\* A model is blocked without a time at which it comes back (availabilityBlock
\* answers "blocked" for good when neither NextRetryAfter nor
\* Quota.NextRecoverAt is set) only while the credential's token is refused: a
\* refresh was answered 401, no model has a state, and no success, refresh,
\* registration, reset, restart or config without cooling came since.  So for
\* every order of failures, refreshes, registrations, config changes, resets
\* and restores, as long as no change overlaps the copy that a refresh takes.
NoEndlessBlock ==
  \A m \in Models : Endless(Deciding(m)) => refused /\ known = {}

\* Until the first refresh, registration or restart.
Undisturbed == left["update"] = Limits["update"] /\ left["restart"] = Limits["restart"]

\* A quota window that was announced for a model (429, Cloudflare challenge)
\* keeps that model blocked until its end, whatever other failures, saves and
\* live restores follow; only a success, a reset, a newer window or a config
\* without cooling end it sooner.  A refresh or registration may end it too:
\* it installs the model states of a copy taken before.
QuotaWindowKept ==
  Undisturbed =>
    \A m \in Models : owed[m] > now => BlockedUntil(Deciding(m)) >= owed[m]

\* Once a config without cooling has been applied, no refresh, registration,
\* restore or result that was under way brings a cooldown back: a model is
\* blocked only if the token was refused since, which is no cooldown.
CoolingOffUnblocks ==
  coolingOff /\ config = "idle" =>
    \A m \in Models : Blocked(Deciding(m)) => refused /\ known = {}

\* When no save is under way and none failed or was left out, every cooldown
\* in force is in the store as it is in memory: the comparison of the records
\* around a change (cooldownStateChanged) misses nothing.
StoreCurrent ==
  saves = 0 /\ config = "idle" /\ ~unsaved =>
    /\ \A m \in known : Cooling(models[m]) /\ ~coolingOff =>
                          store.models[m] = models[m]
    /\ Cooling(auth) /\ ~coolingOff => store.auth = auth

\* Climbing the ladder takes the time of its windows: a model at level n has
\* been through the n - 1 windows before, each twice as long as the last,
\* however many failures came in a burst.  For upstreams that send neither
\* Retry-After nor Cloudflare challenges, and as long as cooling is not
\* switched off and on again: a quota failure that comes between the two
\* steps of switching it off drops the window, and clearing then sees no
\* deadline and keeps the level.
LadderTakesTime ==
  \A m \in Models : models[m].level > 0 =>
    now - 1 >= Ladder[models[m].level - 1] - Ladder[0]

\* After a restart, a quota window that is still open and that the store holds
\* is in force: what save-cooldown-status is for.
RestartKeepsCooldown ==
  left["restart"] < Limits["restart"] =>
    \A m \in Models :
      owed[m] > now /\ store.models[m].recoverAt >= owed[m] =>
        BlockedUntil(Deciding(m)) >= owed[m]
=============================================================================
