------------------------- MODULE AuthCooldownProofs -------------------------
(***************************************************************************)
(* Proofs about AuthCooldown, for every set of models, ladder, cooldown    *)
(* length and bound: its state is well typed, a model is blocked without   *)
(* end only by a refused refresh of a credential without model states, a   *)
(* config without cooling leaves no other block, the store holds what is   *)
(* in force, quota windows are kept and the backoff ladder takes its time. *)
(* All of it where no change overlaps the copy that a refresh takes        *)
(* (~TornCopies).                                                          *)
(***************************************************************************)
EXTENDS AuthCooldown, WellFoundedInduction, TLAPS

-----------------------------------------------------------------------------
(***************************************************************************)
(* Least and greatest elements.                                            *)
(***************************************************************************)

Less == {p \in Nat \X Nat : p[1] < p[2]}

\* The order relation on pairs is the order.
LEMMA LessPair ==
  ASSUME NEW a \in Nat, NEW b \in Nat, ~(<<a, b>> \in Less)
  PROVE  b <= a
<1>1. <<a, b>> \in Nat \X Nat /\ <<a, b>>[1] = a /\ <<a, b>>[2] = b
  OBVIOUS
<1>2. ~(a < b)
  BY <1>1, Zenon DEF Less
<1> QED BY <1>2

\* A set of times has an earliest one: what Aggregate takes.
LEMMA MinNat ==
  ASSUME NEW S, S \subseteq Nat, S # {}
  PROVE  Min(S) \in S /\ \A y \in S : Min(S) <= y
<1>1. IsWellFoundedOn(Less, Nat)
  BY NatLessThanWellFounded, Zenon DEF OpToRel, Less
<1>2. PICK x \in S : \A y \in S : ~(<<y, x>> \in Less)
  BY <1>1, WFMin
<1>3. \A y \in S : x <= y
  BY <1>2, LessPair
<1> QED BY <1>3 DEF Min

\* A set of levels has a highest one.
LEMMA MaxBounded ==
  ASSUME NEW N \in Nat, NEW S, S \subseteq 0..N, S # {}
  PROVE  Max(S) \in S /\ \A y \in S : Max(S) >= y
<1> DEFINE T == {N - y : y \in S}
<1>1. \A y \in S : y \in Int /\ N - y \in Nat
  OBVIOUS
<1>2. T \subseteq Nat
  BY <1>1
<1>3. T # {}
  <2>1. PICK y \in S : TRUE
    OBVIOUS
  <2> QED BY <2>1
<1>4. Min(T) \in T /\ \A z \in T : Min(T) <= z
  BY <1>2, <1>3, MinNat
<1>5. PICK x \in S : Min(T) = N - x
  BY <1>4
<1>6. \A y \in S : x >= y
  <2> TAKE y \in S
  <2>1. N - x <= N - y
    BY <1>4, <1>5
  <2> QED BY <2>1, <1>1
<1> QED BY <1>6 DEF Max

\* The later of two times.
LEMMA MaxPair ==
  ASSUME NEW a \in Nat, NEW b \in Nat
  PROVE  Max({a, b}) \in {a, b} /\ Max({a, b}) >= a /\ Max({a, b}) >= b
<1>1. \E x \in {a, b} : \A y \in {a, b} : x >= y
  <2>1. CASE a >= b BY <2>1
  <2>2. CASE b >= a BY <2>2
  <2> QED BY <2>1, <2>2
<1> QED BY <1>1 DEF Max

-----------------------------------------------------------------------------
(***************************************************************************)
(* NoEndlessBlock is not inductive.  updateAggregatedAvailability drops a  *)
(* retry time that has passed and leaves the quota flag: a flag resting on *)
(* the retry time alone would then block for good.  So the quota flag must *)
(* always have its own recovery time, in memory, in the store, in the      *)
(* records a restore has read and in the copy a writer works on.           *)
(***************************************************************************)

TimedState ==
  {s \in State : /\ s.exceeded => s.recoverAt # 0
                 /\ s.unavailable => s.retryAt # 0 \/ s.recoverAt # 0}

\* The quota flag of s has its own recovery time.
QuotaTimed(s) == s.exceeded => s.recoverAt # 0

Credentials == [models : [Models -> TimedState], known : SUBSET Models,
                auth : State]

TimedRecords == [models : [Models -> TimedState], auth : State]

\* Every deadline lies in a record that has one where it needs one.
CooldownInv ==
  /\ TypeOK
  /\ models \in [Models -> TimedState]
  /\ store \in TimedRecords
  /\ loaded \in TimedRecords
  /\ clone \in Credentials

Clocked == now \in Nat \ {0} /\ coolingOff \in BOOLEAN

LEMMA WaitTypes ==
  /\ MaxLevel \in Nat
  /\ CloudflareMin \in Nat /\ CloudflareMin # 0
  /\ SuspendWait \in Nat /\ SuspendWait # 0
  /\ NotFoundWait \in Nat /\ NotFoundWait # 0
  /\ TransientWait \in Nat
BY CooldownAssumption

LEMMA CleanTimed == Clean \in TimedState /\ NoRecords \in TimedRecords
BY WaitTypes DEF Clean, TimedState, State, NoRecords, TimedRecords

\* The aggregated fields are well typed: the minimum and the maximum they
\* take exist.
LEMMA AggregateType ==
  ASSUME NEW ms \in [Models -> State], NEW keys, keys \subseteq Models, Clocked
  PROVE  Aggregate(ms, keys) \in State
<1> USE WaitTypes
<1> DEFINE all == keys # {} /\ \A m \in keys : Cooling(ms[m])
           over == {m \in keys : ms[m].exceeded}
           retries == {ms[m].retryAt : m \in keys}
           recovers == {ms[m].recoverAt : m \in over} \ {0}
           levels == {0} \cup {ms[m].level : m \in over}
<1>1. \A m \in keys : /\ ms[m].retryAt \in Nat /\ ms[m].recoverAt \in Nat
                      /\ ms[m].level \in 0..MaxLevel
  BY DEF State
<1>2. all => Min(retries) \in Nat
  <2>1. retries \subseteq Nat
    BY <1>1
  <2>2. keys # {} => retries # {}
    <3>1. SUFFICES ASSUME keys # {} PROVE retries # {}
      OBVIOUS
    <3>2. PICK m \in keys : TRUE
      BY <3>1
    <3> QED BY <3>2
  <2> HIDE DEF retries
  <2> QED BY <2>1, <2>2, MinNat
<1>3. recovers # {} => Min(recovers) \in Nat
  <2>1. recovers \subseteq Nat
    BY <1>1
  <2> HIDE DEF recovers
  <2> QED BY <2>1, MinNat
<1>4. Max(levels) \in 0..MaxLevel
  <2>1. levels \subseteq 0..MaxLevel /\ levels # {}
    BY <1>1
  <2> HIDE DEF levels
  <2> QED BY <2>1, MaxBounded
<1>5. Aggregate(ms, keys) =
        [unavailable |-> all, retryAt |-> IF all THEN Min(retries) ELSE 0,
         exceeded |-> over # {},
         recoverAt |-> IF recovers = {} THEN 0 ELSE Min(recovers),
         level |-> Max(levels), unauthorized |-> FALSE]
  BY Zenon DEF Aggregate
<1>6. all \in BOOLEAN /\ (over # {}) \in BOOLEAN
  OBVIOUS
<1> HIDE DEF all, over, retries, recovers, levels
<1> QED BY <1>2, <1>3, <1>4, <1>5, <1>6 DEF State

LEMMA ExpiredTimed ==
  ASSUME NEW ms \in [Models -> TimedState], NEW keys, Clocked
  PROVE  Expired(ms, keys) \in [Models -> TimedState]
BY ZenonT(60), WaitTypes, CleanTimed
DEF Expired, Expire, TimedState, State, Clocked

\* One step up the ladder stays on it and waits.
LEMMA QuotaType ==
  ASSUME NEW level \in 0..MaxLevel
  PROVE  /\ nextQuotaCooldown(level).wait \in Nat \ {0}
         /\ nextQuotaCooldown(level).level \in 0..MaxLevel
BY CooldownAssumption DEF nextQuotaCooldown

\* A failure leaves a well-typed record, and one with the deadlines its flags
\* need if it had them before.
LEMMA FailureTimed ==
  ASSUME NEW s \in State, NEW o \in OutcomeKinds, NEW wait \in Nat, Clocked
  PROVE  /\ AfterFailure(s, o, wait) \in State
         /\ QuotaTimed(s) => AfterFailure(s, o, wait) \in TimedState
<1> USE WaitTypes DEF Clocked
<1> DEFINE marked == [s EXCEPT !.unavailable = TRUE,
                               !.unauthorized = (o = "unauthorized")]
           t == Deadlines(marked, o, wait)
           Sound(r) == /\ r \in State
                       /\ r.exceeded /\ (s.exceeded => s.recoverAt # 0)
                            => r.recoverAt # 0
                                 \/ (coolingOff /\ r.retryAt = 0)
                       /\ r.unavailable =>
                            \/ r.retryAt # 0 \/ r.recoverAt # 0
                            \/ coolingOff
<1>1. /\ marked \in State /\ marked.unavailable
      /\ marked.exceeded = s.exceeded /\ marked.recoverAt = s.recoverAt
      /\ marked.level = s.level
  BY DEF State
<1> HIDE DEF marked
<1>2. Sound(t)
  <2> DEFINE step == nextQuotaCooldown(marked.level)
  <2>1. step.wait \in Nat \ {0} /\ step.level \in 0..MaxLevel
    BY <1>1, QuotaType DEF State
  <2> HIDE DEF step
  <2>2. Max({step.wait, CloudflareMin}) \in Nat \ {0}
    BY <2>1, MaxPair
  <2>3. CASE o = "modelSupport"
    <3>1. t = [marked EXCEPT !.retryAt = now + NotFoundWait]
      BY <2>3 DEF Deadlines
    <3> HIDE DEF t
    <3> QED BY <1>1, <3>1 DEF State
  <2>4. CASE o = "cloudflare"
    <3> DEFINE u == IF coolingOff THEN [marked EXCEPT !.recoverAt = 0]
                  ELSE nextCloudflareCooldown(marked)
    <3>1. t = [u EXCEPT !.exceeded = TRUE, !.retryAt = u.recoverAt]
      BY <2>4 DEF Deadlines
    <3>2. /\ u \in State /\ u.unavailable
          /\ u.recoverAt # 0 \/ coolingOff
      <4> DEFINE r == now + Max({step.wait, CloudflareMin})
      <4>1. nextCloudflareCooldown(marked) =
              [marked EXCEPT !.recoverAt = r, !.level = step.level]
        BY DEF nextCloudflareCooldown, step
      <4>2. r \in Nat /\ r # 0
        BY <2>2
      <4> HIDE DEF r
      <4> QED BY <1>1, <2>1, <4>1, <4>2 DEF State
    <3> HIDE DEF t, u
    <3> QED BY <3>1, <3>2 DEF State
  <2>5. CASE o = "quota"
    <3> DEFINE u == IF coolingOff THEN [marked EXCEPT !.recoverAt = 0]
                  ELSE quotaCooldownAfterFailure(marked)
    <3>1. t = [u EXCEPT !.exceeded = TRUE, !.retryAt = u.recoverAt]
      BY <2>5 DEF Deadlines
    <3>2. /\ u \in State /\ u.unavailable
          /\ u.recoverAt # 0 \/ coolingOff
      <4>1. quotaCooldownAfterFailure(marked) =
              IF marked.recoverAt > now THEN marked
              ELSE [marked EXCEPT !.recoverAt = now + step.wait,
                                  !.level = step.level]
        BY DEF quotaCooldownAfterFailure, step
      <4>2. now + step.wait \in Nat /\ now + step.wait # 0
        BY <2>1
      <4>3. marked.recoverAt > now => marked.recoverAt # 0
        BY <1>1 DEF State
      <4> QED BY ZenonT(60), <1>1, <2>1, <4>1, <4>2, <4>3 DEF State
    <3> HIDE DEF t, u
    <3> QED BY <3>1, <3>2 DEF State
  <2>6. CASE o = "retryAfter"
    <3> DEFINE u == [marked EXCEPT !.recoverAt =
                       IF coolingOff THEN 0 ELSE now + wait]
    <3>1. t = [u EXCEPT !.exceeded = TRUE, !.retryAt = u.recoverAt]
      BY <2>6 DEF Deadlines
    <3>2. /\ u \in State /\ u.unavailable
          /\ u.recoverAt # 0 \/ coolingOff
      BY <1>1 DEF State
    <3> HIDE DEF t, u
    <3> QED BY <3>1, <3>2 DEF State
  <2>7. CASE o \in {"unauthorized", "suspend"}
    <3>1. t = [marked EXCEPT !.retryAt =
                       IF coolingOff THEN 0 ELSE now + SuspendWait]
      BY <2>7 DEF Deadlines
    <3> HIDE DEF t
    <3> QED BY <1>1, <3>1 DEF State
  <2>8. CASE o = "notFound"
    <3>1. t = [marked EXCEPT !.retryAt =
                       IF coolingOff THEN 0 ELSE now + NotFoundWait]
      BY <2>8 DEF Deadlines
    <3> HIDE DEF t
    <3> QED BY <1>1, <3>1 DEF State
  <2>9. CASE o = "transient"
    <3>1. t = IF coolingOff \/ TransientWait = 0
                THEN [marked EXCEPT !.retryAt = 0, !.unavailable = FALSE]
                ELSE [marked EXCEPT !.retryAt = now + TransientWait]
      BY <2>9 DEF Deadlines
    <3> HIDE DEF t
    <3>2. CASE coolingOff \/ TransientWait = 0
      BY <1>1, <3>1, <3>2 DEF State
    <3>3. CASE ~(coolingOff \/ TransientWait = 0)
      BY <1>1, <3>1, <3>3 DEF State
    <3> QED BY <3>2, <3>3
  <2> QED BY <2>3, <2>4, <2>5, <2>6, <2>7, <2>8, <2>9 DEF OutcomeKinds
<1>3. AfterFailure(s, o, wait) =
        IF coolingOff /\ t.retryAt = 0 /\ t.recoverAt = 0
          THEN [t EXCEPT !.unavailable = FALSE, !.exceeded = FALSE] ELSE t
  BY Zenon DEF AfterFailure, marked
<1> HIDE DEF t
<1> QED BY <1>2, <1>3 DEF State, TimedState, QuotaTimed

LEMMA ClearedTimed ==
  ASSUME NEW s \in State
  PROVE  Cleared(s) \in TimedState
<1> DEFINE flagged == s.unavailable \/ s.retryAt # 0 \/ s.exceeded
                        \/ s.recoverAt # 0
           blank == [Clean EXCEPT !.unauthorized = s.unauthorized]
<1>1. blank \in TimedState
  <2>1. s.unauthorized \in BOOLEAN
    BY DEF State
  <2> QED BY <2>1, CleanTimed DEF TimedState, State
<1>2. ~flagged => s \in TimedState
  BY DEF TimedState
<1>3. Cleared(s) = IF flagged THEN blank ELSE s
  BY Zenon DEF Cleared
<1> HIDE DEF flagged, blank
<1> QED BY <1>1, <1>2, <1>3

\* Clearing a credential, reading its records, restoring records into it and
\* clearing its unauthorized models leave a credential with its deadlines.
LEMMA ClearTimed ==
  ASSUME NEW c \in Credentials, Clocked
  PROVE  clearCooldownStateForAuth(c) \in Credentials
<1> DEFINE ms == [m \in Models |-> Cleared(c.models[m])]
<1>1. ms \in [Models -> TimedState] /\ ms \in [Models -> State]
  BY ClearedTimed DEF Credentials, TimedState
<1>2. Cleared(c.auth) \in State
  BY ClearedTimed DEF Credentials, TimedState
<1>3. Expired(ms, c.known) \in [Models -> TimedState]
  BY <1>1, ExpiredTimed
<1>4. Aggregate(ms, c.known) \in State
  BY <1>1, AggregateType DEF Credentials
<1>5. clearCooldownStateForAuth(c) =
        IF c.known = {} THEN [c EXCEPT !.auth = Cleared(@)]
        ELSE [models |-> Expired(ms, c.known), known |-> c.known,
              auth |-> Aggregate(ms, c.known)]
  BY Zenon DEF clearCooldownStateForAuth
<1> HIDE DEF ms
<1> QED BY <1>2, <1>3, <1>4, <1>5 DEF Credentials

LEMMA RecordsTimed ==
  ASSUME NEW c \in Credentials
  PROVE  Records(c) \in TimedRecords
BY CleanTimed DEF Records, Credentials, TimedRecords, TimedState

LEMMA MergeTimed ==
  ASSUME NEW s \in TimedState, NEW r \in TimedState, NEW newer \in BOOLEAN,
         Clocked, r.retryAt > now
  PROVE  mergeModelState(s, r, newer) \in TimedState
<1> USE WaitTypes
<1> DEFINE rec == Recovered(r)
           retry == Max({s.retryAt, rec.retryAt})
           recover == Max({s.recoverAt, rec.recoverAt})
           top == Max({s.level, rec.level})
<1>1. /\ rec \in State /\ rec.retryAt # 0
      /\ rec.exceeded => rec.recoverAt # 0
  BY DEF TimedState, State, Recovered, Clocked
<1> HIDE DEF rec
<1>2. retry \in Nat /\ retry >= rec.retryAt
  BY <1>1, MaxPair DEF TimedState, State
<1>3. recover \in Nat /\ recover >= rec.recoverAt /\ recover >= s.recoverAt
  BY <1>1, MaxPair DEF TimedState, State
<1>4. top \in 0..MaxLevel
  BY <1>1, MaxPair DEF TimedState, State
<1>5. mergeModelState(s, r, newer) =
        [unavailable |-> TRUE, retryAt |-> retry,
         exceeded |-> s.exceeded \/ rec.exceeded, recoverAt |-> recover,
         level |-> top,
         unauthorized |-> IF newer THEN rec.unauthorized ELSE s.unauthorized]
  BY Zenon DEF mergeModelState, rec
<1> HIDE DEF retry, recover, top
<1>6. retry # 0
  BY <1>1, <1>2 DEF State
<1>7. s.exceeded \/ rec.exceeded => recover # 0
  BY <1>1, <1>3 DEF TimedState, State
<1>8. /\ (s.exceeded \/ rec.exceeded) \in BOOLEAN
      /\ (IF newer THEN rec.unauthorized ELSE s.unauthorized) \in BOOLEAN
  BY <1>1 DEF TimedState, State
<1> QED BY <1>2, <1>3, <1>4, <1>5, <1>6, <1>7, <1>8 DEF TimedState, State

LEMMA RestoreTimed ==
  ASSUME NEW c \in Credentials, NEW rs \in TimedRecords,
         NEW newer \in SUBSET Models, Clocked
  PROVE  restoreCooldownRecords(c, rs, newer) \in Credentials
<1> DEFINE due(r) == r.retryAt > now /\ ~coolingOff
           back == {m \in Models : due(rs.models[m])}
           ms == [m \in Models |-> IF m \in back
                    THEN mergeModelState(c.models[m], rs.models[m], m \in newer)
                    ELSE c.models[m]]
           merged == IF back = {} THEN c
                     ELSE [models |-> Expired(ms, c.known \cup back),
                           known |-> c.known \cup back,
                           auth |-> Aggregate(ms, c.known \cup back)]
<1>1. ms \in [Models -> TimedState]
  <2> SUFFICES ASSUME NEW m \in Models PROVE ms[m] \in TimedState
    OBVIOUS
  <2>1. CASE m \in back
    <3>1. /\ c.models[m] \in TimedState /\ rs.models[m] \in TimedState
          /\ rs.models[m].retryAt > now /\ (m \in newer) \in BOOLEAN
      BY <2>1 DEF Credentials, TimedRecords
    <3>2. mergeModelState(c.models[m], rs.models[m], m \in newer)
            \in TimedState
      BY <3>1, MergeTimed
    <3> QED BY <2>1, <3>2
  <2>2. CASE m \notin back
    BY <2>2 DEF Credentials
  <2> QED BY <2>1, <2>2
<1>2. ms \in [Models -> State]
  BY <1>1 DEF TimedState
<1>3. back \subseteq Models /\ c.known \subseteq Models
  BY DEF Credentials
<1> HIDE DEF ms, back
<1>4. Expired(ms, c.known \cup back) \in [Models -> TimedState]
  BY <1>1, ExpiredTimed
<1>5. Aggregate(ms, c.known \cup back) \in State
  BY <1>2, <1>3, AggregateType
<1>6. merged \in Credentials
  BY <1>3, <1>4, <1>5 DEF Credentials
<1>7. Recovered(rs.auth) \in State
  BY DEF Recovered, TimedRecords, State
<1>8. restoreCooldownRecords(c, rs, newer) =
        IF due(rs.auth) THEN [merged EXCEPT !.auth = Recovered(rs.auth)]
        ELSE merged
  BY Zenon DEF restoreCooldownRecords, ms, back
<1> HIDE DEF merged, due
<1> QED BY <1>6, <1>7, <1>8 DEF Credentials

LEMMA UnauthorizedTimed ==
  ASSUME NEW c \in Credentials, Clocked
  PROVE  clearUnauthorizedModelStates(c) \in Credentials
<1> DEFINE cured == {m \in c.known : c.models[m].unauthorized}
           ms == [m \in Models |-> IF m \in cured THEN Clean ELSE c.models[m]]
<1>1. ms \in [Models -> TimedState] /\ ms \in [Models -> State]
  BY CleanTimed DEF Credentials, TimedState
<1>2. Expired(ms, c.known) \in [Models -> TimedState]
  BY <1>1, ExpiredTimed
<1>3. Aggregate(ms, c.known) \in State
  BY <1>1, AggregateType DEF Credentials
<1>4. clearUnauthorizedModelStates(c) =
        IF cured = {} THEN c
        ELSE [c EXCEPT !.models = Expired(ms, c.known),
                       !.auth = Aggregate(ms, c.known)]
  BY Zenon DEF clearUnauthorizedModelStates
<1> HIDE DEF ms, cured
<1> QED BY <1>2, <1>3, <1>4 DEF Credentials

-----------------------------------------------------------------------------
(***************************************************************************)
(* The inductive invariant.                                                *)
(***************************************************************************)

LEMMA InitTimed == Init => CooldownInv
<1> SUFFICES ASSUME Init PROVE CooldownInv
  OBVIOUS
<1>1. 1 \in 1..MaxTime /\ Limits \in [EventKinds -> Nat]
  BY CooldownAssumption
<1>2. /\ models \in [Models -> TimedState] /\ store \in TimedRecords
      /\ loaded \in TimedRecords /\ clone \in Credentials
  BY CleanTimed DEF Init, NoRecords, TimedRecords, Credentials, TimedState
<1>3. /\ models \in [Models -> State] /\ store \in Snapshots
      /\ loaded \in Snapshots /\ auth \in State
      /\ clone \in [models : [Models -> State], known : SUBSET Models,
                     auth : State]
  BY <1>2, CleanTimed
  DEF Init, TimedRecords, Credentials, TimedState, Snapshots
<1> QED BY <1>1, <1>2, <1>3 DEF Init, CooldownInv, TypeOK, Configs, Writers

\* What the actions have in common: the credential in memory is well formed,
\* and so is a credential assigned to it.
LEMMA CurrentTimed ==
  ASSUME CooldownInv
  PROVE  /\ Clocked /\ now \in Nat
         /\ Current \in Credentials
         /\ Current.models = models /\ Current.known = known
         /\ Records(Current) \in TimedRecords
<1>1. /\ Clocked /\ now \in Nat /\ Current \in Credentials
      /\ Current.models = models /\ Current.known = known
  BY CooldownAssumption
  DEF CooldownInv, TypeOK, Clocked, Current, Credentials
<1> QED BY <1>1, RecordsTimed

\* The part of CooldownInv that an assignment of memory establishes.
MemoryOK ==
  /\ models \in [Models -> TimedState]
  /\ known \subseteq Models
  /\ auth \in State

LEMMA AssignTimed ==
  ASSUME NEW c \in Credentials, Assign(c)
  PROVE  MemoryOK'
BY DEF Assign, Credentials, MemoryOK

LEMMA AggregatedTimed ==
  ASSUME NEW ms \in [Models -> TimedState], NEW keys \in SUBSET Models,
         Clocked, updateAggregatedAvailability(ms, keys)
  PROVE  MemoryOK'
<1>1. Expired(ms, keys) \in [Models -> TimedState]
  BY ExpiredTimed
<1>2. Aggregate(ms, keys) \in State
  BY AggregateType DEF TimedState
<1> QED BY <1>1, <1>2 DEF updateAggregatedAvailability, MemoryOK

\* The rest of the state, apart from the clock and what the environment owns.
RestOK ==
  /\ now \in 1..MaxTime /\ coolingOff \in BOOLEAN /\ config \in Configs
  /\ store \in TimedRecords /\ saves \in Nat /\ unsaved \in BOOLEAN
  /\ restore \in {"idle", "loaded"} /\ loaded \in TimedRecords
  /\ writer \in Writers /\ clone \in Credentials
  /\ left \in [EventKinds -> Nat]
  /\ owed \in [Models -> Nat] /\ refused \in BOOLEAN

LEMMA InvParts == CooldownInv <=> MemoryOK /\ RestOK
BY DEF CooldownInv, MemoryOK, RestOK, TypeOK, TimedRecords, Credentials,
       Snapshots, TimedState

LEMMA SpendType ==
  ASSUME RestOK, NEW kind \in EventKinds, Spend(kind)
  PROVE  left' \in [EventKinds -> Nat]
BY DEF RestOK, Spend

\* Every step preserves the invariant.
LEMMA StepTimed ==
  ASSUME ~TornCopies
  PROVE  CooldownInv /\ [Next]_vars => CooldownInv'
<1> SUFFICES ASSUME CooldownInv, [Next]_vars PROVE MemoryOK' /\ RestOK'
  BY DEF CooldownInv, MemoryOK, RestOK, TypeOK, TimedRecords, Credentials,
         Snapshots, TimedState
<1> USE DEF memory, disk, restoring, writing, history, elsewhere, EventKinds,
            Configs, Writers
<1>1. /\ Clocked /\ now \in Nat /\ Current \in Credentials
      /\ Current.models = models /\ Current.known = known
      /\ Records(Current) \in TimedRecords
  BY CurrentTimed
<1>2. MemoryOK /\ RestOK
  BY InvParts
<1>3. NoRecords \in TimedRecords /\ Clean \in TimedState /\ Clean \in State
  BY CleanTimed DEF TimedState
<1>4. NoRecords.models \in [Models -> TimedState]
  BY <1>3 DEF TimedRecords
<1>5. CASE UNCHANGED vars
  BY <1>2, <1>5 DEF vars, MemoryOK, RestOK
<1>6. CASE Tick
  <2>1. now' \in 1..MaxTime
    BY <1>2, <1>6, CooldownAssumption DEF Tick, RestOK
  <2> QED BY <1>2, <1>6, <2>1 DEF Tick, MemoryOK, RestOK
<1>7. ASSUME NEW m \in Models, MarkSuccess(m) PROVE MemoryOK' /\ RestOK'
  <2>1. MemoryOK'
    <3>1. [models EXCEPT ![m] = Clean] \in [Models -> TimedState]
      BY <1>2, <1>3 DEF MemoryOK
    <3>2. known \cup {m} \in SUBSET Models
      BY <1>2 DEF MemoryOK
    <3> QED BY <1>1, <1>7, <3>1, <3>2, AggregatedTimed DEF MarkSuccess
  <2>2. left' \in [EventKinds -> Nat]
    BY <1>2, <1>7, SpendType DEF MarkSuccess
  <2>3. refused' \in BOOLEAN
    BY <1>7, Zenon DEF MarkSuccess
  <2> QED BY <1>2, <1>7, <2>1, <2>2, <2>3 DEF MarkSuccess, saveIfChanged, RestOK
<1>8. ASSUME NEW m \in Models, NEW o \in Outcomes, NEW wait \in Waits(o),
             MarkFailure(m, o, wait)
      PROVE MemoryOK' /\ RestOK'
  <2> DEFINE after == AfterFailure(models[m], o, wait)
             window == Announced(after, o)
  <2>1. o \in OutcomeKinds /\ wait \in Nat
    BY CooldownAssumption DEF Waits
  <2>2. models[m] \in State /\ QuotaTimed(models[m])
    BY <1>2 DEF MemoryOK, TimedState, QuotaTimed
  <2>3. after \in TimedState
    BY <1>1, <2>1, <2>2, FailureTimed
  <2>4. /\ updateAggregatedAvailability([models EXCEPT ![m] = after],
                                        known \cup {m})
        /\ owed' = [owed EXCEPT ![m] = IF window = -1 THEN @ ELSE window]
        /\ Spend("result") /\ saveIfChanged({m})
        /\ UNCHANGED <<refused, elsewhere>>
    BY <1>8, Zenon DEF MarkFailure
  <2> HIDE DEF after
  <2>5. MemoryOK'
    <3>1. [models EXCEPT ![m] = after] \in [Models -> TimedState]
      BY <1>2, <2>3 DEF MemoryOK
    <3>2. known \cup {m} \in SUBSET Models
      BY <1>2 DEF MemoryOK
    <3> QED BY <1>1, <2>4, <3>1, <3>2, AggregatedTimed
  <2>6. window = -1 \/ window \in Nat
    BY <2>3 DEF Announced, TimedState, State
  <2> HIDE DEF window
  <2>7. owed' \in [Models -> Nat]
    BY <1>2, <2>4, <2>6 DEF RestOK
  <2>8. left' \in [EventKinds -> Nat]
    BY <1>2, <2>4, SpendType
  <2> QED BY <1>2, <2>4, <2>5, <2>7, <2>8 DEF saveIfChanged, RestOK
<1>9. CASE MarkAuthSuccess
  <2>1. left' \in [EventKinds -> Nat]
    BY <1>2, <1>9, SpendType DEF MarkAuthSuccess
  <2>2. refused' \in BOOLEAN
    BY <1>9, Zenon DEF MarkAuthSuccess
  <2> QED BY <1>2, <1>3, <1>9, <2>1, <2>2
      DEF MarkAuthSuccess, saveIfChanged, MemoryOK, RestOK
<1>10. ASSUME NEW o \in Outcomes, NEW wait \in Waits(o),
              MarkAuthFailure(o, wait)
       PROVE MemoryOK' /\ RestOK'
  <2>1. o \in OutcomeKinds /\ wait \in Nat
    BY CooldownAssumption DEF Waits
  <2>2. AfterFailure(auth, o, wait) \in State
    BY <1>1, <1>2, <2>1, FailureTimed DEF MemoryOK
  <2>3. left' \in [EventKinds -> Nat]
    BY <1>2, <1>10, SpendType DEF MarkAuthFailure
  <2>4. auth' \in State
    BY <1>10, <2>2 DEF MarkAuthFailure, State
  <2> QED BY <1>2, <1>10, <2>3, <2>4 DEF MarkAuthFailure, MemoryOK, RestOK
<1>11. ASSUME NEW persisted \in BOOLEAN, ResetQuota(persisted)
       PROVE MemoryOK' /\ RestOK'
  <2> DEFINE c == [Current EXCEPT !.models = [m \in Models |-> Clean]]
  <2>1. c \in Credentials
    BY <1>1, <1>3 DEF Credentials
  <2> HIDE DEF c
  <2>2. clearCooldownStateForAuth(c) \in Credentials
    BY <1>1, <2>1, ClearTimed
  <2>3. MemoryOK'
    BY <1>11, <2>2, AssignTimed DEF ResetQuota, c
  <2>4. left' \in [EventKinds -> Nat]
    BY <1>2, <1>11, SpendType DEF ResetQuota
  <2>5. saves' \in Nat /\ unsaved' \in BOOLEAN
    <3>1. CASE persisted
      BY <1>2, <1>11, <3>1 DEF ResetQuota, saveIfChanged, RestOK
    <3>2. CASE ~persisted
      BY <1>2, <1>11, <3>2 DEF ResetQuota, RestOK
    <3> QED BY <3>1, <3>2
  <2>6. /\ owed' = [m \in Models |-> 0] /\ refused' = FALSE
        /\ UNCHANGED elsewhere
    BY <1>11, Zenon DEF ResetQuota
  <2> QED BY <1>2, <2>3, <2>4, <2>5, <2>6 DEF RestOK
<1>12. ASSUME NEW ok \in BOOLEAN, persistCooldownStates(ok)
       PROVE MemoryOK' /\ RestOK'
  BY <1>1, <1>2, <1>12 DEF persistCooldownStates, Save, MemoryOK, RestOK
<1>13. ASSUME NEW off \in BOOLEAN, ConfigStore(off)
       PROVE MemoryOK' /\ RestOK'
  <2>1. left' \in [EventKinds -> Nat]
    BY <1>2, <1>13, SpendType DEF ConfigStore
  <2> QED BY <1>2, <1>13, <2>1 DEF ConfigStore, MemoryOK, RestOK
<1>14. CASE ConfigClear
  <2>1. CASE coolingOff
    <3>1. MemoryOK'
      BY <1>1, <1>14, <2>1, ClearTimed, AssignTimed DEF ConfigClear
    <3>2. refused' \in BOOLEAN
      BY <1>14, <2>1, Zenon DEF ConfigClear
    <3> QED BY <1>2, <1>14, <2>1, <3>1, <3>2 DEF ConfigClear, RestOK
  <2>2. CASE ~coolingOff
    BY <1>2, <1>14, <2>2 DEF ConfigClear, MemoryOK, RestOK
  <2> QED BY <2>1, <2>2
<1>15. ASSUME NEW ok \in BOOLEAN, ConfigSave(ok) PROVE MemoryOK' /\ RestOK'
  BY <1>1, <1>2, <1>15 DEF ConfigSave, Save, MemoryOK, RestOK
<1>16. CASE RestoreLoad
  <2>1. left' \in [EventKinds -> Nat]
    BY <1>2, <1>16, SpendType DEF RestoreLoad
  <2> QED BY <1>2, <1>16, <2>1 DEF RestoreLoad, MemoryOK, RestOK
<1>17. ASSUME NEW newer \in SUBSET Models, RestoreApply(newer)
       PROVE MemoryOK' /\ RestOK'
  <2>1. restoreCooldownRecords(Current, loaded, newer) \in Credentials
    BY <1>1, <1>2, RestoreTimed DEF RestOK
  <2>2. MemoryOK'
    BY <1>17, <2>1, AssignTimed DEF RestoreApply
  <2> QED BY <1>2, <1>3, <1>17, <2>2 DEF RestoreApply, RestOK
<1>18. ASSUME NEW ok \in BOOLEAN, Restart(ok) PROVE MemoryOK' /\ RestOK'
  <2> DEFINE fresh == [models |-> NoRecords.models, known |-> {},
                       auth |-> Clean]
             back == restoreCooldownRecords(fresh, store, Models)
  <2>1. fresh \in Credentials
    BY <1>3, <1>4 DEF Credentials
  <2> HIDE DEF fresh
  <2>2. back \in Credentials
    BY <1>1, <1>2, <2>1, RestoreTimed DEF RestOK
  <2>3. Assign(back) /\ store' = IF ok THEN Records(back) ELSE store
    BY <1>18, Zenon DEF Restart, fresh
  <2> HIDE DEF back
  <2>4. MemoryOK' /\ Records(back) \in TimedRecords
    BY <2>2, <2>3, AssignTimed, RecordsTimed
  <2>5. left' \in [EventKinds -> Nat]
    BY <1>2, <1>18, SpendType DEF Restart
  <2> QED BY <1>2, <1>3, <1>18, <2>3, <2>4, <2>5 DEF Restart, RestOK
<1>19. ASSUME NEW c \in Credentials, Update(c)
       PROVE  MemoryOK' /\ saves' \in Nat /\ unsaved' \in BOOLEAN
  <2> DEFINE kept == IF c.known # {} THEN c
                     ELSE [c EXCEPT !.models = models, !.known = known]
             new == IF coolingOff THEN clearCooldownStateForAuth(kept) ELSE kept
  <2>1. kept \in Credentials
    BY <1>2 DEF MemoryOK, Credentials
  <2> HIDE DEF kept
  <2>2. new \in Credentials
    BY <1>1, <2>1, ClearTimed
  <2>3. /\ Assign(new)
        /\ saves' = saves + IF new # kept THEN 1 ELSE 0
        /\ unsaved' = (unsaved \/ Records(Current) # Records(new))
    BY <1>19, Zenon DEF Update, kept
  <2> HIDE DEF new
  <2>4. MemoryOK'
    BY <2>2, <2>3, AssignTimed
  <2> QED BY <1>2, <2>3, <2>4 DEF RestOK
<1>20. ASSUME NEW step \in Writers, TakeClone(step) PROVE MemoryOK' /\ RestOK'
  <2>1. left' \in [EventKinds -> Nat]
    BY <1>2, <1>20, SpendType DEF TakeClone
  <2> QED BY <1>1, <1>2, <1>20, <2>1 DEF TakeClone, MemoryOK, RestOK
<1>21. CASE RefreshOk
  <2> DEFINE c == [clone EXCEPT !.auth.unavailable = FALSE]
  <2>1. c \in Credentials
    BY <1>2 DEF RestOK, Credentials, State
  <2> HIDE DEF c
  <2>2. clearUnauthorizedModelStates(c) \in Credentials
    BY <1>1, <2>1, UnauthorizedTimed
  <2>3. MemoryOK' /\ saves' \in Nat /\ unsaved' \in BOOLEAN
    BY <1>19, <1>21, <2>2 DEF RefreshOk, c
  <2> QED BY <1>2, <1>21, <2>3 DEF RefreshOk, RestOK
<1>22. CASE RefreshUnauthorized
  <2>1. [auth EXCEPT !.unavailable = TRUE] \in State
    BY <1>2 DEF MemoryOK, State
  <2> QED BY <1>2, <1>22, <2>1 DEF RefreshUnauthorized, MemoryOK, RestOK
<1>23. CASE RefreshFailed
  BY <1>2, <1>23 DEF RefreshFailed, MemoryOK, RestOK
<1>24. CASE RegisterUpdate
  <2>1. [clone EXCEPT !.auth = Clean] \in Credentials
    BY <1>2, <1>3 DEF RestOK, Credentials
  <2>2. MemoryOK' /\ saves' \in Nat /\ unsaved' \in BOOLEAN
    BY <1>19, <1>24, <2>1 DEF RegisterUpdate
  <2> QED BY <1>2, <1>24, <2>2 DEF RegisterUpdate, RestOK
<1>25. ASSUME NEW supported \in SUBSET Models, NEW stale \in BOOLEAN,
              ReconcileRegistryModelStates(supported, stale)
       PROVE MemoryOK' /\ RestOK'
  <2>1. MemoryOK' /\ unsaved' \in BOOLEAN
    <3>1. CASE updateAggregatedAvailability(NoRecords.models,
                                            known \cap supported)
                 /\ unsaved' = TRUE
      BY <1>1, <1>2, <1>4, <3>1, AggregatedTimed DEF MemoryOK
    <3>2. CASE UNCHANGED <<memory, unsaved>>
      BY <1>2, <3>2 DEF MemoryOK, RestOK
    <3> QED BY <1>25, <3>1, <3>2, Zenon DEF ReconcileRegistryModelStates
  <2> QED BY <1>2, <1>25, <2>1 DEF ReconcileRegistryModelStates, RestOK
<1>26. /\ \A fields : ~RefreshTornAuth(fields)
       /\ \A m, fields, before, keys :
            ~RefreshTornModel(m, fields, before, keys)
  BY DEF RefreshTornAuth, RefreshTornModel, Tear
<1> QED BY <1>5, <1>6, <1>7, <1>8, <1>9, <1>10, <1>11, <1>12, <1>13, <1>14,
           <1>15, <1>16, <1>17, <1>18, <1>20, <1>21, <1>22, <1>23, <1>24, <1>25,
           <1>26
    DEF Next, RefreshStart, RegisterStart

\* Type correctness of the cooldown state.
THEOREM TypeCorrect ==
  ASSUME ~TornCopies
  PROVE  Spec => []TypeOK
<1>1. CooldownInv => TypeOK
  BY DEF CooldownInv
<1> QED BY InitTimed, StepTimed, <1>1, PTL DEF Spec

\* The inductive invariant holds.
THEOREM CooldownCorrect ==
  ASSUME ~TornCopies
  PROVE  Spec => []CooldownInv
BY InitTimed, StepTimed, PTL DEF Spec

-----------------------------------------------------------------------------
(***************************************************************************)
(* Blocks without an end.  As long as no model has a state the credential  *)
(* itself decides, so its own fields need deadlines too, unless a refused  *)
(* refresh marked it.  That mark must not survive in a copy, and without   *)
(* it the fields of the copy are as good as any: AuthInv.                  *)
(***************************************************************************)

AuthInv ==
  /\ QuotaTimed(auth) /\ QuotaTimed(clone.auth)
  /\ auth \in TimedState \/ refused

LEMMA TimedQuota == \A s \in TimedState : QuotaTimed(s)
BY DEF TimedState, QuotaTimed

\* What is aggregated from records with their deadlines has its own.
LEMMA AggregateTimed ==
  ASSUME NEW ms \in [Models -> TimedState], NEW keys, keys \subseteq Models, Clocked
  PROVE  Aggregate(ms, keys) \in TimedState
<1> DEFINE all == keys # {} /\ \A m \in keys : Cooling(ms[m])
           over == {m \in keys : ms[m].exceeded}
           retries == {ms[m].retryAt : m \in keys}
           recovers == {ms[m].recoverAt : m \in over} \ {0}
           agg == Aggregate(ms, keys)
<1>1. ms \in [Models -> State]
  BY DEF TimedState
<1>2. agg \in State
  BY <1>1, AggregateType
<1>3. \A m \in keys : /\ ms[m].retryAt \in Nat /\ ms[m].recoverAt \in Nat
                      /\ ms[m].exceeded => ms[m].recoverAt # 0
  BY <1>1 DEF State, TimedState
<1>4. all => Min(retries) # 0
  <2>1. SUFFICES ASSUME all PROVE Min(retries) # 0
    OBVIOUS
  <2>2. PICK m \in keys : TRUE
    BY <2>1
  <2>3. retries \subseteq Nat /\ retries # {}
    BY <1>3, <2>2
  <2>4. \A x \in retries : x # 0
    BY <1>3, <2>1 DEF Cooling, Clocked
  <2> HIDE DEF retries
  <2> QED BY <2>3, <2>4, MinNat
<1>5. over # {} => recovers # {} /\ Min(recovers) # 0
  <2>1. SUFFICES ASSUME over # {} PROVE recovers # {} /\ Min(recovers) # 0
    OBVIOUS
  <2>2. PICK m \in over : TRUE
    BY <2>1
  <2>3. ms[m].recoverAt \in recovers
    BY <1>3, <2>2
  <2>4. recovers \subseteq Nat /\ 0 \notin recovers
    BY <1>3
  <2> HIDE DEF recovers
  <2> QED BY <2>3, <2>4, MinNat
<1>6. /\ agg.unavailable = all /\ agg.exceeded = (over # {})
      /\ agg.retryAt = IF all THEN Min(retries) ELSE 0
      /\ agg.recoverAt = IF recovers = {} THEN 0 ELSE Min(recovers)
  BY Zenon DEF Aggregate
<1> HIDE DEF all, over, retries, recovers, agg
<1>7. (agg.unavailable => agg.retryAt # 0) /\ (agg.exceeded => agg.recoverAt # 0)
  BY <1>4, <1>5, <1>6
<1>8. agg \in TimedState
  BY <1>2, <1>7 DEF TimedState
<1> QED BY <1>8 DEF agg

\* Clearing leaves the credential's own fields with their deadlines; restoring
\* and curing do, or leave them alone.
LEMMA ClearAuth ==
  ASSUME NEW c \in Credentials, Clocked
  PROVE  clearCooldownStateForAuth(c).auth \in TimedState
<1> DEFINE ms == [m \in Models |-> Cleared(c.models[m])]
<1>1. ms \in [Models -> TimedState] /\ c.known \subseteq Models
  BY ClearedTimed DEF Credentials, TimedState
<1>2. Cleared(c.auth) \in TimedState
  BY ClearedTimed DEF Credentials
<1>3. clearCooldownStateForAuth(c) =
        IF c.known = {} THEN [c EXCEPT !.auth = Cleared(@)]
        ELSE [models |-> Expired(ms, c.known), known |-> c.known,
              auth |-> Aggregate(ms, c.known)]
  BY Zenon DEF clearCooldownStateForAuth
<1> HIDE DEF ms
<1>4. Aggregate(ms, c.known) \in TimedState
  BY <1>1, AggregateTimed
<1> QED BY <1>2, <1>3, <1>4 DEF Credentials

LEMMA RestoreAuth ==
  ASSUME NEW c \in Credentials, NEW rs \in TimedRecords,
         NEW newer \in SUBSET Models, Clocked
  PROVE  LET d == restoreCooldownRecords(c, rs, newer)
         IN  d.auth = c.auth \/ d.auth \in TimedState
<1> DEFINE due(r) == r.retryAt > now /\ ~coolingOff
           back == {m \in Models : due(rs.models[m])}
           ms == [m \in Models |-> IF m \in back
                    THEN mergeModelState(c.models[m], rs.models[m], m \in newer)
                    ELSE c.models[m]]
           merged == IF back = {} THEN c
                     ELSE [models |-> Expired(ms, c.known \cup back),
                           known |-> c.known \cup back,
                           auth |-> Aggregate(ms, c.known \cup back)]
           d == restoreCooldownRecords(c, rs, newer)
<1>1. ms \in [Models -> TimedState]
  <2> SUFFICES ASSUME NEW m \in Models PROVE ms[m] \in TimedState
    OBVIOUS
  <2>1. CASE m \in back
    <3>1. /\ c.models[m] \in TimedState /\ rs.models[m] \in TimedState
          /\ rs.models[m].retryAt > now /\ (m \in newer) \in BOOLEAN
      BY <2>1 DEF Credentials, TimedRecords
    <3> QED BY <2>1, <3>1, MergeTimed
  <2>2. CASE m \notin back
    BY <2>2 DEF Credentials
  <2> QED BY <2>1, <2>2
<1>2. c.known \cup back \subseteq Models
  BY DEF Credentials
<1>3. d = IF due(rs.auth) THEN [merged EXCEPT !.auth = Recovered(rs.auth)]
          ELSE merged
  BY Zenon DEF restoreCooldownRecords
<1>4. due(rs.auth) => Recovered(rs.auth) \in TimedState
  BY DEF Recovered, TimedRecords, TimedState, State, Clocked
<1> HIDE DEF ms, back, due, d
<1>5. Aggregate(ms, c.known \cup back) \in TimedState
  BY <1>1, <1>2, AggregateTimed
<1>6. merged.auth = c.auth \/ merged.auth \in TimedState
  BY <1>5
<1>7. merged = [merged EXCEPT !.auth = merged.auth] /\ "auth" \in DOMAIN merged
  BY DEF Credentials
<1> HIDE DEF merged
<1>8. d.auth = c.auth \/ d.auth \in TimedState
  BY <1>3, <1>4, <1>6, <1>7
<1> QED BY <1>8 DEF d

LEMMA UnauthorizedAuth ==
  ASSUME NEW c \in Credentials, Clocked
  PROVE  LET d == clearUnauthorizedModelStates(c)
         IN  d.auth = c.auth \/ d.auth \in TimedState
<1> DEFINE cured == {m \in c.known : c.models[m].unauthorized}
           ms == [m \in Models |-> IF m \in cured THEN Clean ELSE c.models[m]]
<1>1. ms \in [Models -> TimedState] /\ c.known \subseteq Models
  BY CleanTimed DEF Credentials, TimedState
<1>2. clearUnauthorizedModelStates(c) =
        IF cured = {} THEN c
        ELSE [c EXCEPT !.models = Expired(ms, c.known),
                       !.auth = Aggregate(ms, c.known)]
  BY Zenon DEF clearUnauthorizedModelStates
<1> HIDE DEF ms, cured
<1>3. Aggregate(ms, c.known) \in TimedState
  BY <1>1, AggregateTimed
<1> QED BY <1>2, <1>3 DEF Credentials

LEMMA UpdateAuth ==
  ASSUME NEW c \in Credentials, c.auth \in TimedState, CooldownInv, Update(c)
  PROVE  auth' \in TimedState
<1> DEFINE kept == IF c.known # {} THEN c
                   ELSE [c EXCEPT !.models = models, !.known = known]
           new == IF coolingOff THEN clearCooldownStateForAuth(kept) ELSE kept
<1>1. Clocked /\ models \in [Models -> TimedState] /\ known \subseteq Models
  BY CurrentTimed DEF CooldownInv, TypeOK
<1>2. kept \in Credentials /\ kept.auth = c.auth
  BY <1>1 DEF Credentials
<1>3. Assign(new)
  BY Zenon DEF Update
<1> HIDE DEF kept
<1>4. new.auth \in TimedState
  BY <1>1, <1>2, ClearAuth
<1> HIDE DEF new
<1> QED BY <1>3, <1>4 DEF Assign

\* Every step preserves AuthInv.
LEMMA StepAuth ==
  ASSUME ~TornCopies
  PROVE  CooldownInv /\ AuthInv /\ [Next]_vars => AuthInv'
<1> SUFFICES ASSUME CooldownInv, AuthInv, [Next]_vars PROVE AuthInv'
  OBVIOUS
<1> USE DEF memory, disk, restoring, writing, history, elsewhere
<1>1. /\ Clocked /\ now \in Nat /\ Current \in Credentials
      /\ Current.models = models /\ Current.known = known
  BY CurrentTimed
<1>2. /\ models \in [Models -> TimedState] /\ known \subseteq Models /\ auth \in State
      /\ clone \in Credentials /\ store \in TimedRecords /\ loaded \in TimedRecords
  BY DEF CooldownInv, TypeOK
<1>3. /\ QuotaTimed(auth) /\ QuotaTimed(clone.auth)
      /\ auth \in TimedState \/ refused
  BY DEF AuthInv
<1>4. ASSUME auth' \in TimedState, UNCHANGED clone PROVE AuthInv'
  BY <1>3, <1>4, TimedQuota DEF AuthInv
<1>5. ASSUME UNCHANGED <<auth, refused, clone>> PROVE AuthInv'
  BY <1>3, <1>5 DEF AuthInv, QuotaTimed
<1>6. ASSUME NEW ms \in [Models -> TimedState], NEW keys, keys \subseteq Models,
             updateAggregatedAvailability(ms, keys)
      PROVE  auth' \in TimedState
  BY <1>1, <1>6, AggregateTimed DEF updateAggregatedAvailability
<1>7. Clean \in TimedState /\ NoRecords.models \in [Models -> TimedState]
  BY CleanTimed DEF TimedRecords
<1>8. CASE \/ UNCHANGED vars \/ Tick \/ RestoreLoad \/ RefreshFailed
           \/ \E ok : persistCooldownStates(ok) \/ ConfigSave(ok)
           \/ \E off : ConfigStore(off)
  BY <1>5, <1>8
  DEF vars, Tick, RestoreLoad, RefreshFailed, persistCooldownStates, ConfigSave, ConfigStore
<1>9. ASSUME NEW m \in Models, MarkSuccess(m) PROVE AuthInv'
  <2>1. [models EXCEPT ![m] = Clean] \in [Models -> TimedState] /\ known \cup {m} \subseteq Models
    BY <1>2, <1>7
  <2>2. auth' \in TimedState
    BY <1>6, <1>9, <2>1 DEF MarkSuccess
  <2> QED BY <1>4, <1>9, <2>2 DEF MarkSuccess
<1>10. ASSUME NEW m \in Models, NEW o \in Outcomes, NEW wait \in Waits(o),
              MarkFailure(m, o, wait)
       PROVE AuthInv'
  <2> DEFINE after == AfterFailure(models[m], o, wait)
  <2>1. o \in OutcomeKinds /\ wait \in Nat
    BY CooldownAssumption DEF Waits
  <2>2. models[m] \in State /\ QuotaTimed(models[m])
    BY <1>2 DEF TimedState, QuotaTimed
  <2>3. after \in TimedState
    BY <1>1, <2>1, <2>2, FailureTimed
  <2>4. /\ updateAggregatedAvailability([models EXCEPT ![m] = after], known \cup {m})
        /\ UNCHANGED clone
    BY <1>10, Zenon DEF MarkFailure
  <2> HIDE DEF after
  <2>5. [models EXCEPT ![m] = after] \in [Models -> TimedState] /\ known \cup {m} \subseteq Models
    BY <1>2, <2>3
  <2> QED BY <1>4, <1>6, <2>4, <2>5
<1>11. CASE MarkAuthSuccess
  BY <1>4, <1>7, <1>11 DEF MarkAuthSuccess
<1>12. ASSUME NEW o \in Outcomes, NEW wait \in Waits(o), MarkAuthFailure(o, wait)
       PROVE AuthInv'
  <2>1. o \in OutcomeKinds /\ wait \in Nat
    BY CooldownAssumption DEF Waits
  <2>2. AfterFailure(auth, o, wait) \in TimedState
    BY <1>1, <1>2, <1>3, <2>1, FailureTimed
  <2>3. auth' = [AfterFailure(auth, o, wait) EXCEPT !.unauthorized = FALSE] /\ UNCHANGED clone
    BY <1>12 DEF MarkAuthFailure
  <2>4. auth' \in TimedState
    BY <2>2, <2>3 DEF TimedState, State
  <2> QED BY <1>4, <2>3, <2>4
<1>13. ASSUME NEW persisted, ResetQuota(persisted) PROVE AuthInv'
  <2> DEFINE c == [Current EXCEPT !.models = [m \in Models |-> Clean]]
  <2>1. c \in Credentials
    BY <1>1, <1>7 DEF Credentials
  <2> HIDE DEF c
  <2>2. auth' \in TimedState
    BY <1>1, <1>13, <2>1, ClearAuth DEF ResetQuota, Assign, c
  <2> QED BY <1>4, <1>13, <2>2 DEF ResetQuota
<1>14. CASE ConfigClear
  <2>1. CASE coolingOff
    <3>1. auth' \in TimedState
      BY <1>1, <1>14, <2>1, ClearAuth DEF ConfigClear, Assign
    <3> QED BY <1>4, <1>14, <3>1 DEF ConfigClear
  <2>2. CASE ~coolingOff
    BY <1>5, <1>14, <2>2 DEF ConfigClear
  <2> QED BY <2>1, <2>2
<1>15. ASSUME NEW newer \in SUBSET Models, RestoreApply(newer) PROVE AuthInv'
  <2> DEFINE d == restoreCooldownRecords(Current, loaded, newer)
  <2>1. d.auth = Current.auth \/ d.auth \in TimedState
    BY <1>1, <1>2, RestoreAuth
  <2>2. Assign(d) /\ UNCHANGED <<refused, clone>> /\ Current.auth = auth
    BY <1>15 DEF RestoreApply, Current
  <2> HIDE DEF d
  <2> QED BY <1>4, <1>5, <2>1, <2>2 DEF Assign
<1>16. ASSUME NEW ok, Restart(ok) PROVE AuthInv'
  <2> DEFINE fresh == [models |-> NoRecords.models, known |-> {}, auth |-> Clean]
             d == restoreCooldownRecords(fresh, store, Models)
  <2>1. fresh \in Credentials /\ fresh.auth \in TimedState
    BY <1>7 DEF Credentials, TimedState
  <2>2. Assign(d) /\ UNCHANGED clone
    BY <1>16, Zenon DEF Restart
  <2> HIDE DEF fresh
  <2>3. d.auth \in TimedState
    BY <1>1, <1>2, <2>1, RestoreAuth
  <2> HIDE DEF d
  <2> QED BY <1>4, <2>2, <2>3 DEF Assign
<1>17. ASSUME NEW step, TakeClone(step) PROVE AuthInv'
  BY <1>3, <1>17 DEF TakeClone, AuthInv, Current
<1>18. CASE RefreshOk
  <2> DEFINE c == [clone EXCEPT !.auth.unavailable = FALSE]
             d == clearUnauthorizedModelStates(c)
  <2>1. c \in Credentials /\ c.auth \in TimedState
    BY <1>2, <1>3 DEF Credentials, State, TimedState, QuotaTimed
  <2>2. Update(d) /\ UNCHANGED clone
    BY <1>18 DEF RefreshOk
  <2> HIDE DEF c
  <2>3. d \in Credentials /\ d.auth \in TimedState
    BY <1>1, <2>1, UnauthorizedTimed, UnauthorizedAuth
  <2> HIDE DEF d
  <2> QED BY <1>4, <2>2, <2>3, UpdateAuth
<1>19. CASE RefreshUnauthorized
  <2>1. QuotaTimed(auth')
    BY <1>2, <1>3, <1>19 DEF RefreshUnauthorized, QuotaTimed, State
  <2> QED BY <1>3, <1>19, <2>1 DEF RefreshUnauthorized, AuthInv
<1>20. CASE RegisterUpdate
  <2>1. [clone EXCEPT !.auth = Clean] \in Credentials
    BY <1>2, <1>7 DEF Credentials, TimedState
  <2>2. [clone EXCEPT !.auth = Clean].auth \in TimedState
    BY <1>2, <1>7 DEF Credentials
  <2> QED BY <1>4, <1>20, <2>1, <2>2, UpdateAuth DEF RegisterUpdate
<1>21. ASSUME NEW supported, NEW stale, ReconcileRegistryModelStates(supported, stale)
       PROVE AuthInv'
  <2>1. UNCHANGED <<clone, refused>>
    BY <1>21 DEF ReconcileRegistryModelStates
  <2>2. CASE updateAggregatedAvailability(NoRecords.models, known \cap supported)
    <3>1. known \cap supported \subseteq Models
      BY <1>2
    <3> QED BY <1>4, <1>6, <1>7, <2>1, <2>2, <3>1
  <2>3. CASE UNCHANGED memory
    BY <1>5, <2>1, <2>3
  <2> QED BY <1>21, <2>2, <2>3, Zenon DEF ReconcileRegistryModelStates
<1>22. /\ \A fields : ~RefreshTornAuth(fields)
       /\ \A m, fields, before, keys :
            ~RefreshTornModel(m, fields, before, keys)
  BY DEF RefreshTornAuth, RefreshTornModel, Tear
<1> QED BY <1>8, <1>9, <1>10, <1>11, <1>12, <1>13, <1>14, <1>15, <1>16, <1>17, <1>18,
           <1>19, <1>20, <1>21, <1>22
    DEF Next, RefreshStart, RegisterStart

LEMMA InitAuth == Init => AuthInv
<1> SUFFICES ASSUME Init PROVE AuthInv
  OBVIOUS
<1>1. auth = Clean /\ clone.auth = Clean
  BY DEF Init
<1> QED BY <1>1, CleanTimed, TimedQuota DEF AuthInv

\* A model is blocked without a time at which it comes back only while no
\* model has a state and the refused refresh of the credential has not been
\* made good.
THEOREM NoEndlessBlockSafe ==
  ASSUME ~TornCopies
  PROVE  Spec => []NoEndlessBlock
<1>1. CooldownInv /\ AuthInv => NoEndlessBlock
  <2> SUFFICES ASSUME CooldownInv, AuthInv, NEW m \in Models, Endless(Deciding(m))
               PROVE  refused /\ known = {}
    BY DEF NoEndlessBlock
  <2>1. \A s \in TimedState : ~Endless(s)
    BY DEF Endless, TimedState
  <2>2. known = {}
    BY <2>1 DEF Deciding, CooldownInv
  <2> QED BY <2>1, <2>2 DEF Deciding, AuthInv
<1> QED BY InitTimed, StepTimed, InitAuth, StepAuth, <1>1, PTL DEF Spec

-----------------------------------------------------------------------------
(***************************************************************************)
(* A config without cooling.  CoolingOffUnblocks speaks of blocked models; *)
(* the invariant has to say more: with cooling off no model keeps a flag   *)
(* or a deadline, since a failure keeps the deadlines it finds, and the    *)
(* credential keeps no more than the mark of a refused refresh.  It also   *)
(* has to say that models without a state are blank, in memory and in the  *)
(* copy of a writer, since clearing a credential only visits the states it *)
(* has.                                                                    *)
(***************************************************************************)

Calm(s) == ~s.unavailable /\ s.retryAt = 0 /\ ~s.exceeded /\ s.recoverAt = 0

\* Marked by a refused refresh, and nothing else.
Marked(s) == s.unavailable /\ s.retryAt = 0 /\ ~s.exceeded /\ s.recoverAt = 0

Tidy(c) == \A m \in Models \ c.known : Calm(c.models[m])
AllCalm(c) == Calm(c.auth) /\ \A m \in Models : Calm(c.models[m])

MemoryTidy == \A m \in Models \ known : Calm(models[m])
MemoryCalm ==
  /\ \A m \in Models : Calm(models[m])
  /\ Calm(auth) \/ (Marked(auth) /\ refused)

OffInv ==
  /\ MemoryTidy
  /\ Tidy(clone)
  /\ coolingOff /\ config # "clear" => MemoryCalm

LEMMA CleanCalm == Calm(Clean)
BY DEF Calm, Clean

LEMMA ClearedCalm ==
  ASSUME NEW s \in State
  PROVE  Calm(Cleared(s))
<1>1. CASE s.unavailable \/ s.retryAt # 0 \/ s.exceeded \/ s.recoverAt # 0
  <2>1. Cleared(s) = [Clean EXCEPT !.unauthorized = s.unauthorized]
    BY <1>1 DEF Cleared
  <2> QED BY <2>1, CleanTimed, CleanCalm DEF Calm, TimedState, State
<1>2. CASE ~(s.unavailable \/ s.retryAt # 0 \/ s.exceeded \/ s.recoverAt # 0)
  BY <1>2 DEF Cleared, Calm
<1> QED BY <1>1, <1>2

\* With cooling off a failure of a record without window leaves it calm,
\* unless the upstream says that the model is not supported.
LEMMA FailureCalm ==
  ASSUME NEW s \in State, s.recoverAt = 0, NEW o \in OutcomeKinds,
         o # "modelSupport", NEW wait, coolingOff
  PROVE  Calm(AfterFailure(s, o, wait))
<1> DEFINE marked == [s EXCEPT !.unavailable = TRUE,
                               !.unauthorized = (o = "unauthorized")]
           t == Deadlines(marked, o, wait)
<1>1. marked \in State /\ marked.recoverAt = 0
  BY DEF State
<1> HIDE DEF marked
<1>2. t \in State /\ t.retryAt = 0 /\ t.recoverAt = 0
  <2>1. CASE o \in {"cloudflare", "quota", "retryAfter"}
    <3> DEFINE u == [marked EXCEPT !.recoverAt = 0]
    <3>1. t = [u EXCEPT !.exceeded = TRUE, !.retryAt = u.recoverAt]
      BY <2>1 DEF Deadlines
    <3>2. u \in State /\ u.recoverAt = 0
      BY <1>1 DEF State
    <3> HIDE DEF t, u
    <3> QED BY <3>1, <3>2 DEF State
  <2>2. CASE o \in {"unauthorized", "suspend", "notFound"}
    <3>1. t = [marked EXCEPT !.retryAt = 0]
      BY <2>2 DEF Deadlines
    <3> HIDE DEF t
    <3> QED BY <1>1, <3>1 DEF State
  <2>3. CASE o = "transient"
    <3>1. t = [marked EXCEPT !.retryAt = 0, !.unavailable = FALSE]
      BY <2>3 DEF Deadlines
    <3> HIDE DEF t
    <3> QED BY <1>1, <3>1 DEF State
  <2> QED BY <2>1, <2>2, <2>3 DEF OutcomeKinds
<1>3. AfterFailure(s, o, wait) =
        IF coolingOff /\ t.retryAt = 0 /\ t.recoverAt = 0
          THEN [t EXCEPT !.unavailable = FALSE, !.exceeded = FALSE] ELSE t
  BY Zenon DEF AfterFailure, marked
<1> HIDE DEF t
<1> QED BY <1>2, <1>3 DEF Calm, State

LEMMA ExpiredCalm ==
  ASSUME NEW ms, NEW keys, NEW m \in Models
  PROVE  /\ m \notin keys => Calm(Expired(ms, keys)[m])
         /\ Calm(ms[m]) => Calm(Expired(ms, keys)[m])
BY CleanCalm DEF Expired, Expire, Calm

LEMMA AggregateCalm ==
  ASSUME NEW ms, NEW keys, keys \subseteq Models, \A m \in Models : Calm(ms[m])
  PROVE  Calm(Aggregate(ms, keys))
<1> DEFINE all == keys # {} /\ \A m \in keys : Cooling(ms[m])
           over == {m \in keys : ms[m].exceeded}
           recovers == {ms[m].recoverAt : m \in over} \ {0}
<1>1. ~all /\ over = {}
  BY DEF Cooling, Calm
<1>2. recovers = {}
  BY <1>1
<1> DEFINE agg == Aggregate(ms, keys)
<1>3. /\ agg.unavailable = all /\ agg.exceeded = (over # {})
      /\ agg.retryAt = IF all THEN Min({ms[m].retryAt : m \in keys}) ELSE 0
      /\ agg.recoverAt = IF recovers = {} THEN 0 ELSE Min(recovers)
  BY Zenon DEF Aggregate
<1> HIDE DEF all, over, recovers, agg
<1>4. Calm(agg)
  BY <1>1, <1>2, <1>3, Zenon DEF Calm
<1> QED BY <1>4, Zenon DEF agg

LEMMA ClearCalm ==
  ASSUME NEW c \in Credentials, Tidy(c)
  PROVE  AllCalm(clearCooldownStateForAuth(c))
<1> DEFINE ms == [m \in Models |-> Cleared(c.models[m])]
           d == clearCooldownStateForAuth(c)
<1>1. \A m \in Models : Calm(ms[m])
  BY ClearedCalm DEF Credentials, TimedState
<1>2. d = IF c.known = {} THEN [c EXCEPT !.auth = Cleared(@)]
          ELSE [models |-> Expired(ms, c.known), known |-> c.known,
                auth |-> Aggregate(ms, c.known)]
  BY Zenon DEF clearCooldownStateForAuth
<1> HIDE DEF ms
<1>3. CASE c.known = {}
  <2>1. d.models = c.models /\ d.auth = Cleared(c.auth) /\ c.auth \in State
    BY <1>2, <1>3 DEF Credentials
  <2> QED BY <1>3, <2>1, ClearedCalm DEF Tidy, AllCalm
<1>4. CASE c.known # {}
  <2>1. d.models = Expired(ms, c.known) /\ d.auth = Aggregate(ms, c.known)
    BY <1>2, <1>4
  <2>2. Calm(Aggregate(ms, c.known))
    BY <1>1, AggregateCalm DEF Credentials
  <2> QED BY <1>1, <2>1, <2>2, ExpiredCalm DEF AllCalm
<1> QED BY <1>3, <1>4

LEMMA RestoreTidy ==
  ASSUME NEW c \in Credentials, NEW rs, NEW newer, Tidy(c)
  PROVE  /\ Tidy(restoreCooldownRecords(c, rs, newer))
         /\ coolingOff => restoreCooldownRecords(c, rs, newer) = c
<1> DEFINE due(r) == r.retryAt > now /\ ~coolingOff
           back == {m \in Models : due(rs.models[m])}
           ms == [m \in Models |-> IF m \in back
                    THEN mergeModelState(c.models[m], rs.models[m], m \in newer)
                    ELSE c.models[m]]
           merged == IF back = {} THEN c
                     ELSE [models |-> Expired(ms, c.known \cup back),
                           known |-> c.known \cup back,
                           auth |-> Aggregate(ms, c.known \cup back)]
           d == restoreCooldownRecords(c, rs, newer)
<1>1. d = IF due(rs.auth) THEN [merged EXCEPT !.auth = Recovered(rs.auth)]
          ELSE merged
  BY Zenon DEF restoreCooldownRecords
<1>2. coolingOff => back = {} /\ ~due(rs.auth)
  OBVIOUS
<1> HIDE DEF due, back, ms, d
<1>3. CASE back = {}
  <2>1. d.models = c.models /\ d.known = c.known /\ (coolingOff => d = c)
    BY <1>1, <1>2, <1>3 DEF Credentials
  <2> QED BY <2>1 DEF Tidy, d
<1>4. CASE back # {}
  <2> DEFINE keys == c.known \cup back
  <2>1. d.models = Expired(ms, keys) /\ d.known = keys
    BY <1>1, <1>4
  <2> HIDE DEF keys
  <2> QED BY <1>2, <1>4, <2>1, ExpiredCalm DEF Tidy, d
<1> QED BY <1>3, <1>4

LEMMA UnauthorizedTidy ==
  ASSUME NEW c \in Credentials, Tidy(c)
  PROVE  Tidy(clearUnauthorizedModelStates(c))
<1> DEFINE cured == {m \in c.known : c.models[m].unauthorized}
           ms == [m \in Models |-> IF m \in cured THEN Clean ELSE c.models[m]]
           d == clearUnauthorizedModelStates(c)
<1>1. d = IF cured = {} THEN c
          ELSE [c EXCEPT !.models = Expired(ms, c.known),
                         !.auth = Aggregate(ms, c.known)]
  BY Zenon DEF clearUnauthorizedModelStates
<1> HIDE DEF cured, ms
<1>2. CASE cured = {}
  BY <1>1, <1>2
<1>3. CASE cured # {}
  <2>1. d.models = Expired(ms, c.known) /\ d.known = c.known
    BY <1>1, <1>3 DEF Credentials
  <2> HIDE DEF d
  <2> QED BY <2>1, ExpiredCalm DEF Tidy, d
<1> QED BY <1>2, <1>3

LEMMA AggregatedTidy ==
  ASSUME NEW ms, NEW keys, keys \subseteq Models, updateAggregatedAvailability(ms, keys)
  PROVE  /\ MemoryTidy'
         /\ (\A m \in Models : Calm(ms[m])) => MemoryCalm'
<1>1. (\A m \in Models : Calm(ms[m])) => Calm(Aggregate(ms, keys))
  BY AggregateCalm
<1> QED BY <1>1, ExpiredCalm DEF updateAggregatedAvailability, MemoryTidy, MemoryCalm

LEMMA AssignTidy ==
  ASSUME NEW c, Assign(c)
  PROVE  /\ Tidy(c) => MemoryTidy'
         /\ AllCalm(c) => MemoryTidy' /\ MemoryCalm'
BY DEF Assign, Tidy, AllCalm, MemoryTidy, MemoryCalm

LEMMA InitOff == Init => OffInv
BY CleanCalm DEF Init, OffInv, MemoryTidy, MemoryCalm, Tidy, NoRecords

\* Every step preserves the invariant of a config without cooling.
LEMMA StepOff ==
  ASSUME "modelSupport" \notin Outcomes, ~TornCopies
  PROVE  CooldownInv /\ OffInv /\ [Next]_vars => OffInv'
<1> SUFFICES ASSUME CooldownInv, OffInv, [Next]_vars PROVE OffInv'
  OBVIOUS
<1> USE DEF memory, disk, restoring, writing, history, elsewhere
<1> DEFINE Goal == MemoryTidy' /\ (coolingOff /\ config # "clear" => MemoryCalm')
<1>1. /\ Clocked /\ Current \in Credentials
      /\ Current.models = models /\ Current.known = known
  BY CurrentTimed
<1>2. /\ models \in [Models -> TimedState] /\ models \in [Models -> State]
      /\ clone \in Credentials /\ coolingOff \in BOOLEAN
      /\ known \subseteq Models /\ auth \in State
  BY DEF CooldownInv, TypeOK
<1>3. Tidy(Current) /\ MemoryTidy /\ Tidy(clone)
  BY <1>1 DEF OffInv, MemoryTidy, Tidy
<1>4. coolingOff /\ config # "clear" => MemoryCalm
  BY DEF OffInv
<1>5. ASSUME Goal, UNCHANGED <<coolingOff, config, clone>> PROVE OffInv'
  BY <1>3, <1>5 DEF OffInv, Tidy
<1>6. ASSUME UNCHANGED <<memory, refused>> PROVE Goal
  BY <1>3, <1>4, <1>6 DEF MemoryTidy, MemoryCalm
<1>7. CASE UNCHANGED vars
  BY <1>5, <1>6, <1>7 DEF vars
<1>8. CASE Tick
  BY <1>5, <1>6, <1>8 DEF Tick
<1>9. ASSUME NEW m \in Models, MarkSuccess(m) PROVE OffInv'
  <2> DEFINE ms == [models EXCEPT ![m] = Clean]
  <2>1. MemoryCalm => \A n \in Models : Calm(ms[n])
    <3>1. \A n \in Models : ms[n] = Clean \/ ms[n] = models[n]
      BY <1>2
    <3> HIDE DEF ms
    <3> QED BY <3>1, CleanCalm DEF MemoryCalm
  <2>2. /\ updateAggregatedAvailability(ms, known \cup {m})
        /\ UNCHANGED elsewhere
    BY <1>9, Zenon DEF MarkSuccess
  <2> HIDE DEF ms
  <2>3. Goal
    BY <1>2, <1>4, <2>1, <2>2, AggregatedTidy
  <2> QED BY <1>5, <2>2, <2>3
<1>10. ASSUME NEW m \in Models, NEW o \in Outcomes, NEW wait \in Waits(o),
              MarkFailure(m, o, wait)
       PROVE OffInv'
  <2> DEFINE after == AfterFailure(models[m], o, wait)
             ms == [models EXCEPT ![m] = after]
  <2>1. coolingOff /\ MemoryCalm => Calm(after)
    <3>1. o \in OutcomeKinds /\ o # "modelSupport"
      BY CooldownAssumption
    <3>2. models[m] \in State /\ (MemoryCalm => models[m].recoverAt = 0)
      BY <1>2 DEF MemoryCalm, Calm
    <3> QED BY <3>1, <3>2, FailureCalm
  <2>2. /\ updateAggregatedAvailability(ms, known \cup {m})
        /\ UNCHANGED elsewhere
    BY <1>10, Zenon DEF MarkFailure
  <2> HIDE DEF after
  <2>3. coolingOff /\ MemoryCalm => \A n \in Models : Calm(ms[n])
    BY <1>2, <2>1 DEF MemoryCalm
  <2> HIDE DEF ms
  <2>4. Goal
    BY <1>2, <1>4, <2>2, <2>3, AggregatedTidy
  <2> QED BY <1>5, <2>2, <2>4
<1>11. CASE MarkAuthSuccess
  <2>1. Goal
    BY <1>3, <1>4, <1>11, CleanCalm DEF MarkAuthSuccess, MemoryTidy, MemoryCalm
  <2> QED BY <1>5, <1>11, <2>1 DEF MarkAuthSuccess
<1>12. ASSUME NEW o \in Outcomes, NEW wait, MarkAuthFailure(o, wait) PROVE OffInv'
  <2> DEFINE after == AfterFailure(auth, o, wait)
  <2>1. o \in OutcomeKinds /\ o # "modelSupport"
    BY CooldownAssumption
  <2>2. MemoryCalm => auth.recoverAt = 0
    BY DEF MemoryCalm, Calm, Marked
  <2>3. coolingOff /\ MemoryCalm => Calm(after)
    BY <1>2, <2>1, <2>2, FailureCalm
  <2>4. auth' = [after EXCEPT !.unauthorized = FALSE] /\ UNCHANGED <<models, known, elsewhere>>
    BY <1>12 DEF MarkAuthFailure
  <2> HIDE DEF after
  <2>5. Calm(after) => Calm(auth')
    BY <2>4 DEF Calm
  <2>6. Goal
    BY <1>3, <1>4, <2>3, <2>4, <2>5 DEF MemoryTidy, MemoryCalm
  <2> QED BY <1>5, <2>4, <2>6
<1>13. ASSUME NEW persisted, ResetQuota(persisted) PROVE OffInv'
  <2> DEFINE c == [Current EXCEPT !.models = [m \in Models |-> Clean]]
  <2>1. c \in Credentials /\ c.models = [m \in Models |-> Clean]
    BY <1>1, CleanTimed DEF Credentials
  <2>2. Tidy(c)
    BY <2>1, CleanCalm DEF Tidy
  <2> HIDE DEF c
  <2>3. AllCalm(clearCooldownStateForAuth(c))
    BY <2>1, <2>2, ClearCalm
  <2>4. Goal
    BY <1>13, <2>3, AssignTidy DEF ResetQuota, c
  <2> QED BY <1>5, <1>13, <2>4 DEF ResetQuota
<1>14. ASSUME NEW ok, persistCooldownStates(ok) PROVE OffInv'
  BY <1>5, <1>6, <1>14 DEF persistCooldownStates
<1>15. ASSUME NEW off, ConfigStore(off) PROVE OffInv'
  BY <1>3, <1>15 DEF ConfigStore, OffInv, MemoryTidy, Tidy
<1>16. CASE ConfigClear
  <2>1. CASE coolingOff
    <3>1. MemoryTidy' /\ MemoryCalm'
      BY <1>1, <1>3, <1>16, <2>1, ClearCalm, AssignTidy DEF ConfigClear
    <3> QED BY <1>3, <1>16, <3>1 DEF ConfigClear, OffInv, Tidy
  <2>2. CASE ~coolingOff
    BY <1>3, <1>16, <2>2 DEF ConfigClear, OffInv, MemoryTidy, Tidy
  <2> QED BY <2>1, <2>2
<1>17. ASSUME NEW ok, ConfigSave(ok) PROVE OffInv'
  BY <1>3, <1>4, <1>17 DEF ConfigSave, OffInv, MemoryTidy, MemoryCalm, Tidy
<1>18. CASE RestoreLoad
  BY <1>5, <1>6, <1>18 DEF RestoreLoad
<1>19. ASSUME NEW newer, RestoreApply(newer) PROVE OffInv'
  <2> DEFINE d == restoreCooldownRecords(Current, loaded, newer)
  <2>1. Tidy(d) /\ (coolingOff => d = Current)
    BY <1>1, <1>3, RestoreTidy
  <2>2. Assign(d) /\ UNCHANGED <<coolingOff, config, clone, refused>>
    BY <1>19 DEF RestoreApply
  <2> HIDE DEF d
  <2>3. coolingOff => models' = models /\ auth' = auth
    BY <2>1, <2>2 DEF Assign, Current
  <2>4. Goal
    BY <1>4, <2>1, <2>2, <2>3, AssignTidy DEF MemoryCalm
  <2> QED BY <1>5, <2>2, <2>4
<1>20. ASSUME NEW ok, Restart(ok) PROVE OffInv'
  <2> DEFINE fresh == [models |-> NoRecords.models, known |-> {},
                       auth |-> Clean]
             d == restoreCooldownRecords(fresh, store, Models)
  <2>1. fresh \in Credentials
    BY CleanTimed DEF Credentials, TimedRecords, TimedState
  <2>2. fresh.models = NoRecords.models /\ AllCalm(fresh) /\ Tidy(fresh)
    BY CleanCalm DEF NoRecords, AllCalm, Tidy
  <2>3. /\ Assign(d) /\ UNCHANGED <<coolingOff, clone>>
        /\ config' = "idle"
    BY <1>20, Zenon DEF Restart
  <2> HIDE DEF fresh
  <2>4. Tidy(d) /\ (coolingOff => d = fresh)
    BY <2>1, <2>2, RestoreTidy
  <2> HIDE DEF d
  <2>5. MemoryTidy' /\ (coolingOff => MemoryCalm')
    BY <2>2, <2>3, <2>4, AssignTidy DEF AllCalm, Assign, MemoryCalm
  <2> QED BY <1>3, <2>3, <2>5 DEF OffInv, Tidy
<1>21. ASSUME NEW c \in Credentials, Tidy(c), Update(c)
       PROVE  MemoryTidy' /\ (coolingOff => MemoryCalm')
  <2> DEFINE kept == IF c.known # {} THEN c
                     ELSE [c EXCEPT !.models = models, !.known = known]
             new == IF coolingOff THEN clearCooldownStateForAuth(kept) ELSE kept
  <2>1. kept \in Credentials
    BY <1>1, <1>2 DEF Credentials
  <2>2. Tidy(kept)
    <3>1. CASE c.known # {}
      BY <1>21, <3>1
    <3>2. CASE c.known = {}
      <4>1. kept.models = models /\ kept.known = known
        BY <3>2 DEF Credentials
      <4> HIDE DEF kept
      <4> QED BY <1>3, <4>1 DEF Tidy, MemoryTidy
    <3> QED BY <3>1, <3>2
  <2>3. Assign(new)
    BY <1>21, Zenon DEF Update
  <2> HIDE DEF kept
  <2>4. coolingOff => AllCalm(new)
    BY <2>1, <2>2, ClearCalm
  <2>5. ~coolingOff => Tidy(new)
    BY <2>2
  <2> HIDE DEF new
  <2> QED BY <1>2, <2>3, <2>4, <2>5, AssignTidy
<1>22. ASSUME NEW step, TakeClone(step) PROVE OffInv'
  BY <1>1, <1>3, <1>4, <1>22
  DEF TakeClone, OffInv, MemoryTidy, MemoryCalm, Tidy
<1>23. CASE RefreshOk
  <2> DEFINE c == [clone EXCEPT !.auth.unavailable = FALSE]
  <2>1. c \in Credentials /\ c.models = clone.models /\ c.known = clone.known
    BY <1>2 DEF Credentials, State
  <2>2. Update(clearUnauthorizedModelStates(c))
    BY <1>23 DEF RefreshOk
  <2> HIDE DEF c
  <2>3. Tidy(c)
    BY <1>3, <2>1 DEF Tidy
  <2>4. MemoryTidy' /\ (coolingOff => MemoryCalm')
    BY <1>1, <1>21, <2>1, <2>2, <2>3, UnauthorizedTimed, UnauthorizedTidy
  <2> QED BY <1>5, <1>23, <2>4 DEF RefreshOk
<1>24. CASE RefreshUnauthorized
  <2>1. auth' = [auth EXCEPT !.unavailable = TRUE] /\ refused' = TRUE
    BY <1>24, Zenon DEF RefreshUnauthorized
  <2>2. Calm(auth) \/ Marked(auth) => Marked(auth')
    BY <1>2, <2>1 DEF Calm, Marked, State
  <2>3. Goal
    BY <1>3, <1>4, <1>24, <2>1, <2>2 DEF RefreshUnauthorized, MemoryTidy, MemoryCalm
  <2> QED BY <1>5, <1>24, <2>3 DEF RefreshUnauthorized
<1>25. CASE RefreshFailed
  BY <1>5, <1>6, <1>25 DEF RefreshFailed
<1>26. CASE RegisterUpdate
  <2> DEFINE c == [clone EXCEPT !.auth = Clean]
  <2>1. c \in Credentials /\ c.models = clone.models /\ c.known = clone.known
    BY <1>2, CleanTimed DEF Credentials, TimedState
  <2>2. Update(c)
    BY <1>26 DEF RegisterUpdate
  <2> HIDE DEF c
  <2>3. Tidy(c)
    BY <1>3, <2>1 DEF Tidy
  <2>4. MemoryTidy' /\ (coolingOff => MemoryCalm')
    BY <1>21, <2>1, <2>2, <2>3
  <2> QED BY <1>5, <1>26, <2>4 DEF RegisterUpdate
<1>27. ASSUME NEW supported, NEW stale,
              ReconcileRegistryModelStates(supported, stale)
       PROVE OffInv'
  <2>1. \A m \in Models : Calm(NoRecords.models[m])
    BY CleanCalm DEF NoRecords
  <2>2. Goal
    <3>1. CASE updateAggregatedAvailability(NoRecords.models,
                                            known \cap supported)
      BY <1>2, <2>1, <3>1, AggregatedTidy
    <3>2. CASE UNCHANGED memory
      BY <1>6, <1>27, <3>2 DEF ReconcileRegistryModelStates
    <3> QED BY <1>27, <3>1, <3>2, Zenon DEF ReconcileRegistryModelStates
  <2> QED BY <1>5, <1>27, <2>2 DEF ReconcileRegistryModelStates
<1>28. /\ \A fields : ~RefreshTornAuth(fields)
       /\ \A m, fields, before, keys :
            ~RefreshTornModel(m, fields, before, keys)
  BY DEF RefreshTornAuth, RefreshTornModel, Tear
<1> QED BY <1>7, <1>8, <1>9, <1>10, <1>11, <1>12, <1>13, <1>14, <1>15, <1>16,
           <1>17, <1>18, <1>19, <1>20, <1>22, <1>23, <1>24, <1>25, <1>26, <1>27,
           <1>28
    DEF Next, RefreshStart, RegisterStart

\* With cooling off no model stays blocked but by a refused refresh, provided
\* no upstream answers that a model is not supported.
THEOREM CoolingOffSafe ==
  ASSUME "modelSupport" \notin Outcomes, ~TornCopies
  PROVE  Spec => []CoolingOffUnblocks
<1>1. CooldownInv /\ OffInv => CoolingOffUnblocks
  <2> SUFFICES ASSUME CooldownInv, OffInv, coolingOff, config = "idle", NEW m \in Models,
                      Blocked(Deciding(m))
               PROVE  refused /\ known = {}
    BY DEF CoolingOffUnblocks
  <2>1. MemoryCalm /\ now \in Nat
    BY CurrentTimed DEF OffInv
  <2>2. \A s : Calm(s) => ~Blocked(s)
    BY <2>1 DEF Calm, Blocked, Endless, BlockedUntil
  <2> QED BY <2>1, <2>2 DEF Deciding, MemoryCalm
<1> QED BY InitTimed, StepTimed, InitOff, StepOff, <1>1, PTL DEF Spec

-----------------------------------------------------------------------------
(***************************************************************************)
(* The store.  StoreCurrent speaks of the moments at which nothing is left *)
(* to save.  A config change rewrites the records without a save of its    *)
(* own until its last step, so the invariant adds that it counts as        *)
(* unsaved until then.                                                     *)
(***************************************************************************)

\* Every record in r is in the store s.
Covered(r, s) ==
  /\ \A m \in Models : r.models[m] # Clean => s.models[m] = r.models[m]
  /\ r.auth # Clean => s.auth = r.auth

CurrentRecords == Records(Current)

StoreInv ==
  /\ config # "idle" => unsaved
  /\ saves = 0 /\ ~unsaved => Covered(CurrentRecords, store)

\* What a call compares after its change is what a save would now write.
LEMMA RecordsAfter ==
  ASSUME UNCHANGED <<now, coolingOff>>
  PROVE  Records(Current') = CurrentRecords'
BY DEF CurrentRecords, Records, Current, Cooling, NoRecords

LEMMA CoveredSelf == \A r : Covered(r, r)
BY DEF Covered

\* A call that saves whenever the records differ keeps the invariant.
LEMMA SavedChange ==
  ASSUME CooldownInv, StoreInv, UNCHANGED <<now, coolingOff, config, store, unsaved>>,
         saves' \in {saves, saves + 1},
         CurrentRecords' # CurrentRecords => saves' = saves + 1
  PROVE  StoreInv'
<1>1. saves \in Nat
  BY DEF CooldownInv, TypeOK
<1>2. CASE CurrentRecords' = CurrentRecords
  BY <1>1, <1>2 DEF StoreInv
<1>3. CASE CurrentRecords' # CurrentRecords
  BY <1>1, <1>3 DEF StoreInv
<1> QED BY <1>2, <1>3

\* Every step preserves the invariant of the store.
LEMMA StepStore ==
  ASSUME ~TornCopies
  PROVE  CooldownInv /\ StoreInv /\ [Next]_vars => StoreInv'
<1> SUFFICES ASSUME CooldownInv, StoreInv, [Next]_vars PROVE StoreInv'
  OBVIOUS
<1> USE DEF memory, disk, restoring, writing, history, elsewhere
<1>1. /\ saves \in Nat /\ unsaved \in BOOLEAN /\ coolingOff \in BOOLEAN /\ now \in Nat
      /\ models \in [Models -> State] /\ known \subseteq Models /\ auth \in State
  BY CooldownAssumption DEF CooldownInv, TypeOK
<1>2. ASSUME NEW touched, saveIfChanged(touched), UNCHANGED <<now, coolingOff, config, store>>
      PROVE  StoreInv'
  <2>1. CurrentRecords' # CurrentRecords => cooldownStateChanged(touched)
    BY <1>2, RecordsAfter, Zenon DEF cooldownStateChanged, CurrentRecords
  <2> QED BY <1>1, <1>2, <2>1, SavedChange DEF saveIfChanged
<1>3. ASSUME UNCHANGED <<now, memory, coolingOff>> PROVE CurrentRecords' = CurrentRecords
  BY <1>3 DEF CurrentRecords, Records, Current, Cooling, NoRecords
<1>4. ASSUME UNCHANGED <<now, memory, coolingOff, config, disk>> PROVE StoreInv'
  BY <1>3, <1>4 DEF StoreInv
<1>5. CASE UNCHANGED vars
  BY <1>4, <1>5 DEF vars
<1>6. CASE Tick
  <2>1. UNCHANGED <<memory, coolingOff, config, disk>> /\ now' = now + 1
    BY <1>6 DEF Tick
  <2>2. \A s \in State : Cooling(s)' => Cooling(s)
    BY <1>1, <2>1 DEF Cooling, State
  <2>3. /\ \A m \in Models : CurrentRecords'.models[m] # Clean =>
             CurrentRecords'.models[m] = CurrentRecords.models[m]
        /\ CurrentRecords'.auth # Clean => CurrentRecords'.auth = CurrentRecords.auth
    <3>1. CASE coolingOff
      BY <2>1, <3>1 DEF CurrentRecords, Records, NoRecords
    <3>2. CASE ~coolingOff
      <4>1. CurrentRecords =
              [models |-> [m \in Models |-> IF m \in known /\ Cooling(models[m])
                                              THEN models[m] ELSE Clean],
               auth |-> IF Cooling(auth) THEN auth ELSE Clean]
        BY <3>2 DEF CurrentRecords, Records, Current
      <4>2. CurrentRecords' =
              [models |-> [m \in Models |-> IF m \in known /\ Cooling(models[m])'
                                              THEN models[m] ELSE Clean],
               auth |-> IF Cooling(auth)' THEN auth ELSE Clean]
        BY <2>1, <3>2 DEF CurrentRecords, Records, Current
      <4>3. \A m \in Models : Cooling(models[m])' => Cooling(models[m])
        BY <1>1, <2>1 DEF Cooling, State
      <4>4. Cooling(auth)' => Cooling(auth)
        BY <1>1, <2>1 DEF Cooling, State
      <4> QED BY <4>1, <4>2, <4>3, <4>4
    <3> QED BY <1>1, <3>1, <3>2
  <2>4. \A s : Covered(CurrentRecords, s) => Covered(CurrentRecords', s)
    BY <2>3 DEF Covered
  <2> QED BY <2>1, <2>4 DEF StoreInv
<1>7. ASSUME NEW m \in Models, MarkSuccess(m) PROVE StoreInv'
  BY <1>2, <1>7 DEF MarkSuccess
<1>8. ASSUME NEW m \in Models, NEW o, NEW wait, MarkFailure(m, o, wait) PROVE StoreInv'
  <2>1. saveIfChanged({m}) /\ UNCHANGED elsewhere
    BY <1>8, Zenon DEF MarkFailure
  <2> QED BY <1>2, <2>1
<1>9. CASE MarkAuthSuccess
  BY <1>2, <1>9 DEF MarkAuthSuccess
<1>10. ASSUME NEW o, NEW wait, MarkAuthFailure(o, wait) PROVE StoreInv'
  <2>1. /\ UNCHANGED <<now, coolingOff, config, store, unsaved>>
        /\ saves' = saves + IF Records(Current) # Records(Current')
                                 \/ Records(Current').auth # Clean THEN 1 ELSE 0
    BY <1>10 DEF MarkAuthFailure
  <2>2. Records(Current') = CurrentRecords' /\ Records(Current) = CurrentRecords
    BY <2>1, RecordsAfter DEF CurrentRecords
  <2> QED BY <1>1, <2>1, <2>2, SavedChange
<1>11. ASSUME NEW persisted \in BOOLEAN, ResetQuota(persisted) PROVE StoreInv'
  <2>1. \/ saveIfChanged({})
        \/ unsaved' = TRUE
    BY <1>11, Zenon DEF ResetQuota
  <2>2. UNCHANGED <<now, coolingOff, config, store>>
    BY <1>11 DEF ResetQuota
  <2> QED BY <1>2, <2>1, <2>2 DEF StoreInv
<1>12. ASSUME NEW ok \in BOOLEAN, Save(ok), UNCHANGED <<now, memory, coolingOff>>,
              config' = "idle"
       PROVE  StoreInv'
  <2>1. ok => store' = CurrentRecords'
    BY <1>3, <1>12 DEF Save, CurrentRecords
  <2>2. unsaved' = ~ok
    BY <1>12 DEF Save
  <2> QED BY <1>12, <2>1, <2>2, CoveredSelf DEF StoreInv
<1>13. ASSUME NEW ok \in BOOLEAN, persistCooldownStates(ok) PROVE StoreInv'
  BY <1>12, <1>13 DEF persistCooldownStates
<1>14. ASSUME NEW off, ConfigStore(off) PROVE StoreInv'
  BY <1>14 DEF ConfigStore, StoreInv
<1>15. CASE ConfigClear
  BY <1>15 DEF ConfigClear, StoreInv
<1>16. ASSUME NEW ok \in BOOLEAN, ConfigSave(ok) PROVE StoreInv'
  BY <1>12, <1>16 DEF ConfigSave
<1>17. CASE RestoreLoad
  BY <1>4, <1>17 DEF RestoreLoad
<1>18. ASSUME NEW newer, RestoreApply(newer) PROVE StoreInv'
  BY <1>1, <1>18 DEF RestoreApply, StoreInv
<1>19. ASSUME NEW ok \in BOOLEAN, Restart(ok) PROVE StoreInv'
  <2> DEFINE fresh == [models |-> NoRecords.models, known |-> {},
                       auth |-> Clean]
             back == restoreCooldownRecords(fresh, store, Models)
  <2>1. /\ Assign(back) /\ store' = IF ok THEN Records(back) ELSE store
        /\ unsaved' = ~ok /\ config' = "idle" /\ UNCHANGED <<now, coolingOff>>
    BY <1>19, Zenon DEF Restart
  <2> HIDE DEF back
  <2>2. Records(back) = CurrentRecords'
    BY <2>1 DEF Assign, CurrentRecords, Records, Current, Cooling, NoRecords
  <2> QED BY <2>1, <2>2, CoveredSelf DEF StoreInv
<1>20. ASSUME NEW c, Update(c), UNCHANGED <<now, coolingOff, config, store>>
       PROVE  StoreInv'
  <2> DEFINE kept == IF c.known # {} THEN c
                     ELSE [c EXCEPT !.models = models, !.known = known]
             new == IF coolingOff THEN clearCooldownStateForAuth(kept) ELSE kept
  <2>1. /\ Assign(new)
        /\ saves' = saves + IF new # kept THEN 1 ELSE 0
        /\ unsaved' = (unsaved \/ Records(Current) # Records(new))
    BY <1>20, Zenon DEF Update
  <2> HIDE DEF new, kept
  <2>2. Records(new) = CurrentRecords'
    BY <1>20, <2>1 DEF Assign, CurrentRecords, Records, Current, Cooling, NoRecords
  <2>3. ~unsaved' => ~unsaved /\ CurrentRecords' = CurrentRecords
    BY <2>1, <2>2 DEF CurrentRecords
  <2>4. saves' = 0 => saves = 0
    BY <1>1, <2>1
  <2>5. config' # "idle" => unsaved'
    BY <1>20, <2>1 DEF StoreInv
  <2> QED BY <1>20, <2>3, <2>4, <2>5 DEF StoreInv
<1>21. ASSUME NEW step, TakeClone(step) PROVE StoreInv'
  BY <1>4, <1>21 DEF TakeClone
<1>22. CASE RefreshOk
  BY <1>20, <1>22 DEF RefreshOk
<1>23. CASE RefreshUnauthorized
  BY <1>23 DEF RefreshUnauthorized, StoreInv
<1>24. CASE RefreshFailed
  BY <1>4, <1>24 DEF RefreshFailed
<1>25. CASE RegisterUpdate
  BY <1>20, <1>25 DEF RegisterUpdate
<1>26. ASSUME NEW supported, NEW stale, ReconcileRegistryModelStates(supported, stale)
       PROVE  StoreInv'
  <2>1. UNCHANGED <<now, coolingOff, config, store, saves>>
    BY <1>26 DEF ReconcileRegistryModelStates
  <2>2. CASE unsaved' = TRUE
    BY <2>2 DEF StoreInv
  <2>3. CASE UNCHANGED <<memory, unsaved>>
    BY <1>4, <2>1, <2>3
  <2> QED BY <1>26, <2>2, <2>3, Zenon DEF ReconcileRegistryModelStates
<1>27. /\ \A fields : ~RefreshTornAuth(fields)
       /\ \A m, fields, before, keys :
            ~RefreshTornModel(m, fields, before, keys)
  BY DEF RefreshTornAuth, RefreshTornModel, Tear
<1> QED BY <1>5, <1>6, <1>7, <1>8, <1>9, <1>10, <1>11, <1>13, <1>14, <1>15, <1>16,
           <1>17, <1>18, <1>19, <1>21, <1>22, <1>23, <1>24, <1>25, <1>26, <1>27
    DEF Next, RefreshStart, RegisterStart

\* Whenever no save is under way and none failed or was left out, the store
\* holds every cooldown in force: cooldownStateChanged misses no change.
THEOREM StoreSafe ==
  ASSUME ~TornCopies
  PROVE  Spec => []StoreCurrent
<1>1. Init => StoreInv
  BY DEF Init, StoreInv, Covered, CurrentRecords, Records, Current, Cooling,
         NoRecords, Clean
<1>2. CooldownInv /\ StoreInv => StoreCurrent
  <2> SUFFICES ASSUME CooldownInv, StoreInv, saves = 0, ~unsaved, ~coolingOff
               PROVE  /\ \A m \in known : Cooling(models[m]) => store.models[m] = models[m]
                      /\ Cooling(auth) => store.auth = auth
    BY DEF StoreCurrent
  <2>1. Covered(CurrentRecords, store)
    BY DEF StoreInv
  <2>2. known \subseteq Models
    BY DEF CooldownInv, TypeOK
  <2>3. CurrentRecords =
          [models |-> [m \in Models |-> IF m \in known /\ Cooling(models[m])
                                          THEN models[m] ELSE Clean],
           auth |-> IF Cooling(auth) THEN auth ELSE Clean]
    BY DEF CurrentRecords, Records, Current
  <2>4. \A s : Cooling(s) => s # Clean
    BY DEF Cooling, Clean
  <2> QED BY <2>1, <2>2, <2>3, <2>4 DEF Covered
<1> QED BY InitTimed, StepTimed, StepStore, <1>1, <1>2, PTL DEF Spec

-----------------------------------------------------------------------------
(***************************************************************************)
(* What a result and a restore do to a quota window and to its level.      *)
(***************************************************************************)

QuotaKinds == {"quota", "retryAfter", "cloudflare"}

\* Dropping a retry time that has passed leaves the quota window alone.
LEMMA ExpireKeeps ==
  ASSUME NEW s \in State
  PROVE  /\ Expire(s) \in State
         /\ Expire(s).exceeded = s.exceeded
         /\ Expire(s).recoverAt = s.recoverAt /\ Expire(s).level = s.level
BY DEF Expire, State

\* A failure that is none of quota leaves window and level alone; with cooling
\* on one of quota flags the record; a plain 429 climbs one step of the ladder
\* when no window is open, and otherwise leaves window and level alone.
LEMMA FailureWindow ==
  ASSUME NEW s \in State, NEW o \in OutcomeKinds, NEW wait \in Nat, Clocked
  PROVE  /\ ~coolingOff /\ o \in QuotaKinds => AfterFailure(s, o, wait).exceeded
         /\ o \notin QuotaKinds =>
              /\ AfterFailure(s, o, wait).recoverAt = s.recoverAt
              /\ AfterFailure(s, o, wait).level = s.level
              /\ ~coolingOff => AfterFailure(s, o, wait).exceeded = s.exceeded
         /\ o = "quota" =>
              IF coolingOff THEN AfterFailure(s, o, wait).level = s.level
              ELSE IF s.recoverAt > now
              THEN /\ AfterFailure(s, o, wait).recoverAt = s.recoverAt
                   /\ AfterFailure(s, o, wait).level = s.level
              ELSE /\ AfterFailure(s, o, wait).recoverAt =
                        now + nextQuotaCooldown(s.level).wait
                   /\ AfterFailure(s, o, wait).level = nextQuotaCooldown(s.level).level
<1> USE WaitTypes DEF Clocked
<1> DEFINE marked == [s EXCEPT !.unavailable = TRUE,
                               !.unauthorized = (o = "unauthorized")]
           t == Deadlines(marked, o, wait)
           a == AfterFailure(s, o, wait)
<1>1. /\ marked \in State
      /\ marked.exceeded = s.exceeded /\ marked.recoverAt = s.recoverAt
      /\ marked.level = s.level
  BY DEF State
<1>2. a = IF coolingOff /\ t.retryAt = 0 /\ t.recoverAt = 0
            THEN [t EXCEPT !.unavailable = FALSE, !.exceeded = FALSE] ELSE t
  BY Zenon DEF AfterFailure
<1> HIDE DEF marked
<1>3. CASE o = "modelSupport"
  <2>1. t = [marked EXCEPT !.retryAt = now + NotFoundWait]
    BY <1>3 DEF Deadlines
  <2> HIDE DEF t, a
  <2>2. t \in State /\ t.exceeded = s.exceeded /\ t.recoverAt = s.recoverAt
          /\ t.level = s.level
    BY <1>1, <2>1 DEF State
  <2>3. /\ a.recoverAt = t.recoverAt /\ a.level = t.level
        /\ ~coolingOff => a.exceeded = t.exceeded
    BY <1>2, <2>2 DEF State
  <2> QED BY <1>3, <2>2, <2>3 DEF QuotaKinds, a
<1>4. CASE o \in {"unauthorized", "suspend", "notFound"}
  <2>1. \E w \in Nat : t = [marked EXCEPT !.retryAt = IF coolingOff THEN 0 ELSE now + w]
    BY <1>4 DEF Deadlines
  <2> HIDE DEF t, a
  <2>2. t \in State /\ t.exceeded = s.exceeded /\ t.recoverAt = s.recoverAt
          /\ t.level = s.level
    BY <1>1, <2>1 DEF State
  <2>3. /\ a.recoverAt = t.recoverAt /\ a.level = t.level
        /\ ~coolingOff => a.exceeded = t.exceeded
    BY <1>2, <2>2 DEF State
  <2> QED BY <1>4, <2>2, <2>3 DEF QuotaKinds, a
<1>5. CASE o = "transient"
  <2>1. t = IF coolingOff \/ TransientWait = 0
              THEN [marked EXCEPT !.retryAt = 0, !.unavailable = FALSE]
              ELSE [marked EXCEPT !.retryAt = now + TransientWait]
    BY <1>5 DEF Deadlines
  <2> HIDE DEF t, a
  <2>2. t \in State /\ t.exceeded = s.exceeded /\ t.recoverAt = s.recoverAt
          /\ t.level = s.level
    <3>1. CASE coolingOff \/ TransientWait = 0
      BY <1>1, <2>1, <3>1 DEF State
    <3>2. CASE ~(coolingOff \/ TransientWait = 0)
      BY <1>1, <2>1, <3>2 DEF State
    <3> QED BY <3>1, <3>2
  <2>3. /\ a.recoverAt = t.recoverAt /\ a.level = t.level
        /\ ~coolingOff => a.exceeded = t.exceeded
    BY <1>2, <2>2 DEF State
  <2> QED BY <1>5, <2>2, <2>3 DEF QuotaKinds, a
<1>6. CASE o \in QuotaKinds
  <2> DEFINE step == nextQuotaCooldown(marked.level)
             u == IF coolingOff THEN [marked EXCEPT !.recoverAt = 0]
                  ELSE IF o = "quota" THEN quotaCooldownAfterFailure(marked)
                  ELSE IF o = "cloudflare" THEN nextCloudflareCooldown(marked)
                  ELSE [marked EXCEPT !.recoverAt = now + wait]
  <2>1. t = [u EXCEPT !.exceeded = TRUE, !.retryAt = u.recoverAt]
    <3>1. CASE o = "quota"
      BY <3>1 DEF Deadlines
    <3>2. CASE o = "cloudflare"
      BY <3>2 DEF Deadlines
    <3>3. CASE o = "retryAfter"
      BY <3>3 DEF Deadlines
    <3> QED BY <1>6, <3>1, <3>2, <3>3 DEF QuotaKinds
  <2>2. step.wait \in Nat /\ step.level \in 0..MaxLevel
    BY <1>1, QuotaType DEF State
  <2>3. /\ u \in State
        /\ o = "quota" =>
             IF coolingOff THEN u.level = s.level
             ELSE IF s.recoverAt > now
             THEN u.recoverAt = s.recoverAt /\ u.level = s.level
             ELSE u.recoverAt = now + step.wait /\ u.level = step.level
    <3>1. CASE coolingOff
      BY <1>1, <3>1 DEF State
    <3>2. CASE ~coolingOff /\ o = "quota"
      <4>1. u = IF marked.recoverAt > now THEN marked
                ELSE [marked EXCEPT !.recoverAt = now + step.wait,
                                    !.level = step.level]
        BY <3>2 DEF quotaCooldownAfterFailure
      <4>2. now + step.wait \in Nat
        BY <2>2
      <4> HIDE DEF step, u
      <4>3. CASE marked.recoverAt > now
        BY <1>1, <3>2, <4>1, <4>3
      <4>4. CASE ~(marked.recoverAt > now)
        BY <1>1, <2>2, <3>2, <4>1, <4>2, <4>4 DEF State
      <4> QED BY <4>3, <4>4
    <3>3. CASE ~coolingOff /\ o = "cloudflare"
      <4> DEFINE r == now + Max({step.wait, CloudflareMin})
      <4>1. u = [marked EXCEPT !.recoverAt = r, !.level = step.level]
        BY <3>3 DEF nextCloudflareCooldown
      <4>2. r \in Nat
        BY <2>2, MaxPair
      <4> HIDE DEF r, step, u
      <4> QED BY <1>1, <2>2, <3>3, <4>1, <4>2 DEF State
    <3>4. CASE ~coolingOff /\ o = "retryAfter"
      BY <1>1, <3>4 DEF State
    <3> QED BY <1>6, <3>1, <3>2, <3>3, <3>4 DEF QuotaKinds
  <2>4. step = nextQuotaCooldown(s.level)
    BY <1>1
  <2> HIDE DEF u, t, a, step
  <2>5. t \in State /\ t.exceeded /\ t.recoverAt = u.recoverAt /\ t.level = u.level
    BY <2>1, <2>3 DEF State
  <2>6. /\ a.recoverAt = t.recoverAt /\ a.level = t.level
        /\ ~coolingOff => a.exceeded
    BY <1>2, <2>5 DEF State
  <2> QED BY <1>6, <2>3, <2>4, <2>5, <2>6 DEF QuotaKinds, a
<1> QED BY <1>3, <1>4, <1>5, <1>6 DEF OutcomeKinds, QuotaKinds

\* Merging a record keeps the quota flag and the later window, and takes the
\* level from one of the two.
LEMMA MergeWindow ==
  ASSUME NEW s \in TimedState, NEW r \in TimedState, NEW newer \in BOOLEAN
  PROVE  LET w == mergeModelState(s, r, newer)
         IN /\ s.exceeded => w.exceeded
            /\ w.recoverAt >= s.recoverAt /\ w.recoverAt >= r.recoverAt
            /\ w.level \in {s.level, r.level}
<1> DEFINE rec == Recovered(r)
           recover == Max({s.recoverAt, rec.recoverAt})
           top == Max({s.level, rec.level})
           w == mergeModelState(s, r, newer)
<1>1. /\ rec \in State /\ rec.recoverAt >= r.recoverAt /\ rec.level = r.level
  BY WaitTypes DEF TimedState, State, Recovered
<1>2. w.exceeded = (s.exceeded \/ rec.exceeded) /\ w.recoverAt = recover /\ w.level = top
  BY DEF mergeModelState
<1> HIDE DEF rec, w
<1>3. recover \in Nat /\ recover >= s.recoverAt /\ recover >= rec.recoverAt
  BY <1>1, MaxPair DEF TimedState, State
<1>4. top \in {s.level, rec.level}
  BY <1>1, WaitTypes, MaxPair DEF TimedState, State
<1> HIDE DEF recover, top
<1>5. w.recoverAt >= r.recoverAt
  BY <1>1, <1>2, <1>3 DEF TimedState, State
<1> QED BY <1>1, <1>2, <1>3, <1>4, <1>5 DEF w

\* The states of the models after a restore.
LEMMA RestoreModels ==
  ASSUME NEW c \in Credentials, NEW rs, NEW newer
  PROVE  LET d == restoreCooldownRecords(c, rs, newer)
         IN /\ c.known \subseteq d.known
            /\ \A m \in Models :
                 \/ d.models[m] = c.models[m]
                 \/ m \notin d.known /\ d.models[m] = Clean
                 \/ d.models[m] = Expire(c.models[m])
                 \/ /\ rs.models[m].retryAt > now
                    /\ d.models[m] = Expire(mergeModelState(c.models[m], rs.models[m],
                                                            m \in newer))
<1> DEFINE due(r) == r.retryAt > now /\ ~coolingOff
           back == {m \in Models : due(rs.models[m])}
           ms == [m \in Models |-> IF m \in back
                    THEN mergeModelState(c.models[m], rs.models[m], m \in newer)
                    ELSE c.models[m]]
           merged == IF back = {} THEN c
                     ELSE [models |-> Expired(ms, c.known \cup back),
                           known |-> c.known \cup back,
                           auth |-> Aggregate(ms, c.known \cup back)]
           d == restoreCooldownRecords(c, rs, newer)
<1>1. d = IF due(rs.auth) THEN [merged EXCEPT !.auth = Recovered(rs.auth)]
          ELSE merged
  BY Zenon DEF restoreCooldownRecords
<1>2. \A m \in back : rs.models[m].retryAt > now
  OBVIOUS
<1>3. \A m \in Models : ms[m] = IF m \in back
                    THEN mergeModelState(c.models[m], rs.models[m], m \in newer)
                    ELSE c.models[m]
  OBVIOUS
<1> HIDE DEF due, back, ms, d
<1>4. CASE back = {}
  <2>1. d.models = c.models /\ d.known = c.known
    BY <1>1, <1>4 DEF Credentials
  <2> QED BY <2>1 DEF d
<1>5. CASE back # {}
  <2>1. d.models = Expired(ms, c.known \cup back) /\ d.known = c.known \cup back
    BY <1>1, <1>5
  <2>2. ASSUME NEW m \in Models
        PROVE  d.models[m] = IF m \in d.known THEN Expire(ms[m]) ELSE Clean
    BY <2>1 DEF Expired
  <2> QED BY <1>2, <1>3, <2>1, <2>2, Zenon DEF d
<1> QED BY <1>4, <1>5

-----------------------------------------------------------------------------
(***************************************************************************)
(* Quota windows.  A window that was announced is kept by the model's      *)
(* quota flag and recovery time, not by the retry time, which later        *)
(* failures overwrite; and the model must have a state, since aggregation  *)
(* blanks the ones without.  A process that restarts has only what was     *)
(* saved, and a refresh or a registration that has begun writes an older   *)
(* copy back: the theorem speaks of the time before the first of these.    *)
(***************************************************************************)

WithinLimits == \A kind \in EventKinds : left[kind] <= Limits[kind]

Held(m) == owed[m] > now =>
  m \in known /\ models[m].exceeded /\ models[m].recoverAt >= owed[m]

WindowInv ==
  /\ WithinLimits
  /\ Undisturbed => writer = "idle" /\ \A m \in Models : Held(m)

\* Events are only ever used up: a kind that is not used up yet was not
\* before.
LEMMA SpendCounts ==
  ASSUME CooldownInv, WithinLimits, NEW kind \in EventKinds, Spend(kind)
  PROVE  /\ WithinLimits'
         /\ \A k \in EventKinds : left'[k] = Limits[k] => left[k] = Limits[k] /\ k # kind
<1>1. left \in [EventKinds -> Nat] /\ Limits \in [EventKinds -> Nat]
  BY CooldownAssumption DEF CooldownInv, TypeOK
<1>2. /\ left[kind] > 0 /\ left'[kind] = left[kind] - 1
      /\ \A k \in EventKinds : k # kind => left'[k] = left[k]
  BY <1>1 DEF Spend
<1>3. \A k \in EventKinds : left[k] \in Nat /\ Limits[k] \in Nat /\ left[k] <= Limits[k]
  BY <1>1 DEF WithinLimits
<1>4. \A k \in EventKinds : left'[k] <= Limits[k]
  BY <1>2, <1>3
<1>5. WithinLimits'
  BY <1>4 DEF WithinLimits
<1>6. ASSUME NEW k \in EventKinds, left'[k] = Limits[k] PROVE left[k] = Limits[k] /\ k # kind
  BY <1>2, <1>3, <1>6
<1> QED BY <1>5, <1>6

LEMMA SpendDisturbs ==
  ASSUME CooldownInv, WithinLimits, NEW kind \in EventKinds, Spend(kind)
  PROVE  /\ WithinLimits'
         /\ Undisturbed' => Undisturbed /\ kind \notin {"update", "restart"}
<1>1. "update" \in EventKinds /\ "restart" \in EventKinds
  BY DEF EventKinds
<1> QED BY <1>1, SpendCounts DEF Undisturbed

\* Aggregating over ms keeps the windows that ms holds.
LEMMA AggregatedHeld ==
  ASSUME NEW ms \in [Models -> State], NEW keys \in SUBSET Models,
         updateAggregatedAvailability(ms, keys), now \in Nat, UNCHANGED now,
         \A m \in Models : owed'[m] > now =>
            m \in keys /\ ms[m].exceeded /\ ms[m].recoverAt >= owed'[m]
  PROVE  \A m \in Models : Held(m)'
<1> SUFFICES ASSUME NEW m \in Models, owed'[m] > now
             PROVE  m \in known' /\ models'[m].exceeded /\ models'[m].recoverAt >= owed'[m]
  BY DEF Held
<1>1. m \in keys /\ ms[m].exceeded /\ ms[m].recoverAt >= owed'[m]
  OBVIOUS
<1>2. known' = keys /\ models'[m] = Expire(ms[m])
  BY <1>1 DEF updateAggregatedAvailability, Expired
<1> QED BY <1>1, <1>2, ExpireKeeps

\* Every step preserves the invariant of the windows.
LEMMA StepWindow ==
  ASSUME ~TornCopies
  PROVE  CooldownInv /\ WindowInv /\ [Next]_vars => WindowInv'
<1> SUFFICES ASSUME CooldownInv, WindowInv, [Next]_vars PROVE WindowInv'
  OBVIOUS
<1> USE DEF memory, disk, restoring, writing, history, elsewhere
<1>1. /\ Clocked /\ now \in Nat /\ Current \in Credentials
      /\ Current.models = models /\ Current.known = known
  BY CurrentTimed
<1>2. /\ models \in [Models -> TimedState] /\ models \in [Models -> State]
      /\ known \subseteq Models /\ owed \in [Models -> Nat]
      /\ loaded \in TimedRecords /\ coolingOff \in BOOLEAN
  BY DEF CooldownInv, TypeOK
<1>3. \A kind \in {"result", "reset", "config", "restore", "update", "restart"} :
        kind \in EventKinds
  BY DEF EventKinds
<1>4. WithinLimits
  BY DEF WindowInv
<1>5. ASSUME UNCHANGED left PROVE WithinLimits' /\ (Undisturbed' => Undisturbed)
  BY <1>4, <1>5 DEF WithinLimits, Undisturbed
<1>6. ASSUME WithinLimits', Undisturbed' => Undisturbed,
             UNCHANGED <<models, known, owed, now, writer>>
      PROVE  WindowInv'
  BY <1>6 DEF WindowInv, Held
<1>7. ASSUME Undisturbed PROVE writer = "idle" /\ \A m \in Models : Held(m)
  BY <1>7 DEF WindowInv
<1>8. ASSUME ~Refreshing, writer \notin {"register", "reconcile"}
      PROVE  /\ ~RefreshOk /\ ~RefreshUnauthorized /\ ~RefreshFailed /\ ~RegisterUpdate
             /\ \A supported, stale : ~ReconcileRegistryModelStates(supported, stale)
  BY <1>8 DEF RefreshOk, RefreshUnauthorized, RefreshFailed, RegisterUpdate,
              ReconcileRegistryModelStates
<1>9. CASE UNCHANGED vars
  BY <1>5, <1>6, <1>9 DEF vars
<1>10. CASE Tick
  <2>1. UNCHANGED <<models, known, owed, writer, left>> /\ now' = now + 1
    BY <1>10 DEF Tick
  <2>2. \A m \in Models : Held(m) => Held(m)'
    BY <1>1, <1>2, <2>1 DEF Held
  <2> QED BY <1>5, <1>7, <2>1, <2>2 DEF WindowInv
<1>11. ASSUME NEW m \in Models, MarkSuccess(m) PROVE WindowInv'
  <2>1. WithinLimits' /\ (Undisturbed' => Undisturbed)
    BY <1>3, <1>4, <1>11, SpendDisturbs DEF MarkSuccess
  <2>2. UNCHANGED <<now, writer>>
    BY <1>11 DEF MarkSuccess
  <2>3. ASSUME Undisturbed PROVE \A n \in Models : Held(n)'
    <3> DEFINE ms == [models EXCEPT ![m] = Clean]
               keys == known \cup {m}
    <3>1. ms \in [Models -> State] /\ keys \in SUBSET Models
      BY <1>2, CleanTimed DEF TimedState
    <3>2. updateAggregatedAvailability(ms, keys) /\ owed' = [owed EXCEPT ![m] = 0]
      BY <1>11, Zenon DEF MarkSuccess
    <3>3. \A n \in Models : owed'[n] > now =>
             n \in keys /\ ms[n].exceeded /\ ms[n].recoverAt >= owed'[n]
      BY <1>1, <1>2, <1>7, <2>3, <3>2 DEF Held
    <3> HIDE DEF ms, keys
    <3> QED BY <1>1, <2>2, <3>1, <3>2, <3>3, AggregatedHeld
  <2> QED BY <1>7, <2>1, <2>2, <2>3 DEF WindowInv
<1>12. ASSUME NEW m \in Models, NEW o \in Outcomes, NEW wait \in Waits(o),
              MarkFailure(m, o, wait)
       PROVE  WindowInv'
  <2> DEFINE after == AfterFailure(models[m], o, wait)
             window == Announced(after, o)
             ms == [models EXCEPT ![m] = after]
             keys == known \cup {m}
  <2>1. o \in OutcomeKinds /\ wait \in Nat /\ models[m] \in State
    BY <1>2, CooldownAssumption DEF Waits
  <2>2. /\ updateAggregatedAvailability(ms, keys)
        /\ owed' = [owed EXCEPT ![m] = IF window = -1 THEN @ ELSE window]
        /\ Spend("result") /\ UNCHANGED <<now, writer>>
    BY <1>12, Zenon DEF MarkFailure
  <2>3. after \in State
    BY <1>1, <2>1, FailureTimed
  <2>4. /\ ~coolingOff /\ o \in QuotaKinds => after.exceeded
        /\ o \notin QuotaKinds =>
             /\ after.recoverAt = models[m].recoverAt
             /\ ~coolingOff => after.exceeded = models[m].exceeded
    BY <1>1, <2>1, FailureWindow, Zenon
  <2>5. WithinLimits' /\ (Undisturbed' => Undisturbed)
    BY <1>3, <1>4, <2>2, SpendDisturbs
  <2> HIDE DEF after
  <2>6. window = IF coolingOff THEN 0 ELSE IF o \in QuotaKinds THEN after.recoverAt ELSE -1
    <3>1. CASE coolingOff
      BY <3>1 DEF Announced
    <3>2. CASE ~coolingOff /\ o \in QuotaKinds
      BY <3>2 DEF Announced, QuotaKinds
    <3>3. CASE ~coolingOff /\ o \notin QuotaKinds
      BY <3>3 DEF Announced, QuotaKinds
    <3> QED BY <1>2, <3>1, <3>2, <3>3
  <2> HIDE DEF window
  <2>7. ASSUME Undisturbed PROVE \A n \in Models : Held(n)'
    <3>1. ms \in [Models -> State] /\ keys \in SUBSET Models
      BY <1>2, <2>3
    <3>2. ASSUME NEW n \in Models, owed'[n] > now
          PROVE  n \in keys /\ ms[n].exceeded /\ ms[n].recoverAt >= owed'[n]
      <4>1. Held(n)
        BY <1>7, <2>7
      <4>2. CASE n # m
        BY <1>2, <2>2, <3>2, <4>1, <4>2 DEF Held
      <4>3. CASE n = m
        <5>1. ms[n] = after /\ owed'[n] = IF window = -1 THEN owed[n] ELSE window
          BY <1>2, <2>2, <4>3
        <5>2. ~coolingOff
          BY <1>1, <2>6, <3>2, <5>1
        <5>3. CASE o \in QuotaKinds
          <6>1. owed'[n] = after.recoverAt /\ after.recoverAt \in Nat
            BY <2>3, <2>6, <5>1, <5>2, <5>3 DEF State
          <6> QED BY <2>4, <4>3, <5>1, <5>2, <5>3, <6>1
        <5>4. CASE o \notin QuotaKinds
          <6>1. owed'[n] = owed[n]
            BY <2>6, <5>1, <5>2, <5>4
          <6> QED BY <2>4, <3>2, <4>1, <4>3, <5>1, <5>2, <5>4, <6>1 DEF Held
        <5> QED BY <5>3, <5>4
      <4> QED BY <4>2, <4>3
    <3> HIDE DEF ms, keys
    <3> QED BY <1>1, <2>2, <3>1, <3>2, AggregatedHeld
  <2> QED BY <1>7, <2>2, <2>5, <2>7 DEF WindowInv
<1>13. CASE MarkAuthSuccess
  BY <1>3, <1>4, <1>6, <1>13, SpendDisturbs DEF MarkAuthSuccess
<1>14. ASSUME NEW o, NEW wait, MarkAuthFailure(o, wait) PROVE WindowInv'
  BY <1>3, <1>4, <1>6, <1>14, SpendDisturbs DEF MarkAuthFailure
<1>15. ASSUME owed' = [m \in Models |-> 0], UNCHANGED <<now, writer>>,
              WithinLimits', Undisturbed' => Undisturbed
       PROVE  WindowInv'
  <2>1. \A m \in Models : Held(m)'
    BY <1>1, <1>15 DEF Held
  <2> QED BY <1>7, <1>15, <2>1 DEF WindowInv
<1>16. ASSUME NEW persisted, ResetQuota(persisted) PROVE WindowInv'
  <2>1. Spend("reset") /\ owed' = [m \in Models |-> 0] /\ UNCHANGED <<now, writer>>
    BY <1>16, Zenon DEF ResetQuota
  <2> QED BY <1>3, <1>4, <1>15, <2>1, SpendDisturbs
<1>17. ASSUME NEW ok, persistCooldownStates(ok) PROVE WindowInv'
  BY <1>5, <1>6, <1>17 DEF persistCooldownStates
<1>18. ASSUME NEW off, ConfigStore(off) PROVE WindowInv'
  BY <1>3, <1>4, <1>6, <1>18, SpendDisturbs DEF ConfigStore
<1>19. CASE ConfigClear
  <2>1. CASE coolingOff
    BY <1>5, <1>15, <1>19, <2>1 DEF ConfigClear
  <2>2. CASE ~coolingOff
    BY <1>5, <1>6, <1>19, <2>2 DEF ConfigClear
  <2> QED BY <2>1, <2>2
<1>20. ASSUME NEW ok, ConfigSave(ok) PROVE WindowInv'
  BY <1>5, <1>6, <1>20 DEF ConfigSave
<1>21. CASE RestoreLoad
  BY <1>3, <1>4, <1>6, <1>21, SpendDisturbs DEF RestoreLoad
<1>22. ASSUME NEW newer \in SUBSET Models, RestoreApply(newer) PROVE WindowInv'
  <2> DEFINE d == restoreCooldownRecords(Current, loaded, newer)
  <2>1. /\ models' = d.models /\ known' = d.known
        /\ UNCHANGED <<now, writer, left, owed>>
    BY <1>22 DEF RestoreApply, Assign
  <2>2. /\ known \subseteq d.known
        /\ \A m \in Models :
             \/ d.models[m] = models[m]
             \/ m \notin d.known /\ d.models[m] = Clean
             \/ d.models[m] = Expire(models[m])
             \/ /\ loaded.models[m].retryAt > now
                /\ d.models[m] = Expire(mergeModelState(models[m], loaded.models[m],
                                                        m \in newer))
    BY <1>1, RestoreModels, Zenon
  <2> HIDE DEF d
  <2>3. ASSUME NEW m \in Models, Held(m) PROVE Held(m)'
    <3> SUFFICES ASSUME owed[m] > now
                 PROVE  m \in d.known /\ d.models[m].exceeded /\ d.models[m].recoverAt >= owed[m]
      BY <2>1 DEF Held
    <3>1. m \in known /\ models[m].exceeded /\ models[m].recoverAt >= owed[m]
      BY <2>3 DEF Held
    <3>2. models[m] \in TimedState /\ loaded.models[m] \in TimedState /\ models[m] \in State
          /\ (m \in newer) \in BOOLEAN
      BY <1>2 DEF TimedRecords
    <3>3. CASE d.models[m] = Expire(models[m])
      BY <2>2, <3>1, <3>2, <3>3, ExpireKeeps
    <3>4. CASE /\ loaded.models[m].retryAt > now
               /\ d.models[m] = Expire(mergeModelState(models[m], loaded.models[m],
                                                       m \in newer))
      <4> DEFINE w == mergeModelState(models[m], loaded.models[m], m \in newer)
      <4>1. w \in State
        BY <1>1, <3>2, <3>4, MergeTimed DEF TimedState
      <4>2. w.exceeded /\ w.recoverAt >= models[m].recoverAt
        BY <3>1, <3>2, MergeWindow
      <4>3. w.recoverAt \in Nat /\ models[m].recoverAt \in Nat /\ owed[m] \in Nat
        BY <1>2, <3>2, <4>1 DEF State
      <4>4. w.recoverAt >= owed[m]
        BY <3>1, <4>2, <4>3
      <4> HIDE DEF w
      <4>5. Expire(w).exceeded = w.exceeded /\ Expire(w).recoverAt = w.recoverAt
        BY <4>1, ExpireKeeps
      <4> QED BY <2>2, <3>1, <3>4, <4>2, <4>4, <4>5 DEF w
    <3> QED BY <2>2, <3>1, <3>3, <3>4
  <2> QED BY <1>5, <1>7, <2>1, <2>3 DEF WindowInv
<1>23. ASSUME NEW ok, Restart(ok) PROVE WindowInv'
  BY <1>3, <1>4, <1>23, SpendDisturbs DEF Restart, WindowInv
<1>24. ASSUME NEW step, TakeClone(step) PROVE WindowInv'
  BY <1>3, <1>4, <1>24, SpendDisturbs DEF TakeClone, WindowInv
<1>25. CASE \/ RefreshOk \/ RefreshUnauthorized \/ RefreshFailed \/ RegisterUpdate
            \/ \E supported \in SUBSET Models, stale \in BOOLEAN :
                 ReconcileRegistryModelStates(supported, stale)
  <2>1. UNCHANGED left
    BY <1>25 DEF RefreshOk, RefreshUnauthorized, RefreshFailed, RegisterUpdate,
                 ReconcileRegistryModelStates
  <2>2. writer # "idle"
    BY <1>8, <1>25 DEF Refreshing
  <2> QED BY <1>5, <1>7, <2>1, <2>2 DEF WindowInv
<1>26. /\ \A fields : ~RefreshTornAuth(fields)
       /\ \A m, fields, before, keys :
            ~RefreshTornModel(m, fields, before, keys)
  BY DEF RefreshTornAuth, RefreshTornModel, Tear
<1> QED BY <1>9, <1>10, <1>11, <1>12, <1>13, <1>14, <1>16, <1>17, <1>18, <1>19, <1>20,
           <1>21, <1>22, <1>23, <1>24, <1>25, <1>26
    DEF Next, RefreshStart, RegisterStart

\* Until the first refresh, registration or restart (Undisturbed, within the
\* property), a quota window that was announced keeps its model blocked to its
\* end, through any failures, saves, config changes and restores.
THEOREM QuotaWindowSafe ==
  ASSUME ~TornCopies
  PROVE  Spec => []QuotaWindowKept
<1>1. Init => WindowInv
  <2> SUFFICES ASSUME Init PROVE WindowInv
    OBVIOUS
  <2>1. Limits \in [EventKinds -> Nat] /\ left = Limits
    BY CooldownAssumption DEF Init
  <2>2. WithinLimits
    BY <2>1 DEF WithinLimits
  <2> QED BY <2>2 DEF Init, WindowInv, Held
<1>2. CooldownInv /\ WindowInv => QuotaWindowKept
  <2> SUFFICES ASSUME CooldownInv, WindowInv, Undisturbed, NEW m \in Models, owed[m] > now
               PROVE  BlockedUntil(Deciding(m)) >= owed[m]
    BY DEF QuotaWindowKept
  <2> DEFINE s == models[m]
             ahead == {t \in {s.retryAt, s.recoverAt} : t > now}
  <2>1. s.exceeded /\ s.recoverAt >= owed[m] /\ Deciding(m) = s
    BY DEF WindowInv, Held, Deciding
  <2>2. s \in State /\ owed[m] \in Nat /\ now \in Nat
    BY CurrentTimed DEF CooldownInv, TypeOK
  <2>3. s.retryAt \in Nat /\ s.recoverAt \in Nat
    BY <2>2 DEF State
  <2>4. s.recoverAt > now
    BY <2>1, <2>2, <2>3
  <2>5. BlockedUntil(s) = IF (s.unavailable \/ s.exceeded) /\ ahead # {}
                            THEN Max(ahead) ELSE 0
    BY Zenon DEF BlockedUntil
  <2> HIDE DEF s
  <2>6. s.recoverAt \in ahead
    BY <2>4
  <2>7. Max(ahead) >= s.recoverAt /\ Max(ahead) \in Nat
    <3>1. CASE s.retryAt > now
      <4>1. ahead = {s.retryAt, s.recoverAt}
        BY <2>4, <3>1
      <4> QED BY <2>3, <4>1, MaxPair
    <3>2. CASE ~(s.retryAt > now)
      <4>1. ahead = {s.recoverAt, s.recoverAt}
        BY <2>3, <2>4, <3>2
      <4> QED BY <2>3, <4>1, MaxPair
    <3> QED BY <3>1, <3>2
  <2> HIDE DEF ahead
  <2>8. BlockedUntil(s) = Max(ahead)
    BY <2>1, <2>5, <2>6
  <2>9. BlockedUntil(s) >= owed[m]
    BY <2>1, <2>2, <2>3, <2>7, <2>8
  <2> QED BY <2>1, <2>9
<1> QED BY InitTimed, StepTimed, StepWindow, <1>1, <1>2, PTL DEF Spec

-----------------------------------------------------------------------------
(***************************************************************************)
(* The ladder.  A level n is earned when the windows below it have passed, *)
(* which takes Ladder[n - 1] - Ladder[0] since each is twice as long as    *)
(* the last; to climb further, the invariant needs that the open window of *)
(* a model at level n ends no sooner than all n windows together.  With    *)
(* cooling off a quota failure drops the window and keeps the level, so    *)
(* that part holds only while cooling is on.                               *)
(***************************************************************************)

\* The level of record s is earned at time t; off: cooling is off; first: no
\* config change came yet.
Earned(s, t, off, first) ==
  s.level > 0 =>
    /\ Ladder[s.level - 1] - Ladder[0] < t
    /\ ~off => Ladder[s.level] - Ladder[0] < s.recoverAt
    /\ ~(off /\ first)

FirstConfig == left["config"] = Limits["config"]

EarnedNow(s) == Earned(s, now, coolingOff, FirstConfig)

LadderInv ==
  /\ WithinLimits
  /\ \A m \in Models : /\ EarnedNow(models[m])
                       /\ EarnedNow(store.models[m])
                       /\ EarnedNow(loaded.models[m])
                       /\ EarnedNow(clone.models[m])

\* Cooling is switched on only by the first config change: a credential
\* never climbs with levels left over from before it was switched off.
NotSwitchedBack == coolingOff /\ ~coolingOff' => FirstConfig

LEMMA LadderTypes ==
  /\ \A n \in 0..MaxLevel : Ladder[n] \in Nat
  /\ \A n \in 0..MaxLevel : n # MaxLevel => Ladder[n + 1] = 2 * Ladder[n]
  /\ \A n \in 0..MaxLevel : Ladder[n] >= QuotaMax <=> n = MaxLevel
  /\ QuotaMax \in Nat /\ MaxLevel \in Nat
BY CooldownAssumption

\* A level stays earned as time passes and when cooling is switched off.
LEMMA EarnedLater ==
  ASSUME NEW s \in State, NEW t \in Nat, NEW u \in Nat, t <= u,
         NEW off \in BOOLEAN, NEW off2 \in BOOLEAN,
         NEW first \in BOOLEAN, NEW first2 \in BOOLEAN,
         off /\ ~off2 => first,
         off2 /\ first2 => off /\ first,
         Earned(s, t, off, first)
  PROVE  Earned(s, u, off2, first2)
<1> SUFFICES ASSUME s.level > 0
             PROVE  /\ Ladder[s.level - 1] - Ladder[0] < u
                    /\ ~off2 => Ladder[s.level] - Ladder[0] < s.recoverAt
                    /\ ~(off2 /\ first2)
  BY DEF Earned
<1>1. /\ Ladder[s.level - 1] - Ladder[0] < t
      /\ ~off => Ladder[s.level] - Ladder[0] < s.recoverAt
      /\ ~(off /\ first)
  BY DEF Earned
<1>2. s.level - 1 \in 0..MaxLevel /\ 0 \in 0..MaxLevel
  BY LadderTypes DEF State
<1>3. Ladder[s.level - 1] \in Nat /\ Ladder[0] \in Nat
  BY <1>2, LadderTypes
<1>4. Ladder[s.level - 1] - Ladder[0] < u
  BY <1>1, <1>3
<1> QED BY <1>1, <1>4

\* A record with the level of an earned one and a window that ends no sooner
\* is earned.
LEMMA EarnedLike ==
  ASSUME NEW s \in State, NEW r \in State, r.level = s.level, r.recoverAt >= s.recoverAt,
         NEW t, NEW off \in BOOLEAN, NEW first \in BOOLEAN, Earned(s, t, off, first)
  PROVE  Earned(r, t, off, first)
<1>1. s.level \in 0..MaxLevel /\ 0 \in 0..MaxLevel
  BY LadderTypes DEF State
<1>2. Ladder[s.level] \in Nat /\ Ladder[0] \in Nat /\ s.recoverAt \in Nat /\ r.recoverAt \in Nat
  BY <1>1, LadderTypes DEF State
<1>3. Ladder[s.level] - Ladder[0] < s.recoverAt => Ladder[s.level] - Ladder[0] < r.recoverAt
  BY <1>2
<1> QED BY <1>3 DEF Earned

LEMMA EarnedClean == \A s : s.level = 0 => EarnedNow(s)
BY DEF EarnedNow, Earned

\* Clearing, expiring and merging give earned records.
LEMMA EarnedOps ==
  ASSUME Clocked, NEW s \in State, EarnedNow(s)
  PROVE  /\ EarnedNow(Expire(s))
         /\ EarnedNow(Cleared(s))
         /\ \A r \in TimedState, newer \in BOOLEAN :
              s \in TimedState /\ EarnedNow(r) /\ r.retryAt > now =>
                EarnedNow(Expire(mergeModelState(s, r, newer)))
<1>1. coolingOff \in BOOLEAN /\ FirstConfig \in BOOLEAN
  BY DEF Clocked, FirstConfig
<1>2. ASSUME NEW w \in State, EarnedNow(w) PROVE EarnedNow(Expire(w))
  <2>1. /\ Expire(w) \in State /\ Expire(w).level = w.level
        /\ Expire(w).recoverAt >= w.recoverAt
    BY ExpireKeeps DEF State
  <2> QED BY <1>1, <1>2, <2>1, EarnedLike DEF EarnedNow
<1>3. EarnedNow(Cleared(s))
  <2>1. CASE s.unavailable \/ s.retryAt # 0 \/ s.exceeded \/ s.recoverAt # 0
    <3>1. Cleared(s).level = 0
      BY <2>1 DEF Cleared, Clean
    <3> QED BY <3>1, EarnedClean
  <2>2. CASE ~(s.unavailable \/ s.retryAt # 0 \/ s.exceeded \/ s.recoverAt # 0)
    BY <2>2 DEF Cleared
  <2> QED BY <2>1, <2>2
<1>4. ASSUME NEW r \in TimedState, NEW newer \in BOOLEAN, s \in TimedState, EarnedNow(r),
             r.retryAt > now
      PROVE  EarnedNow(Expire(mergeModelState(s, r, newer)))
  <2> DEFINE w == mergeModelState(s, r, newer)
  <2>1. w \in State /\ r \in State
    BY <1>4, MergeTimed DEF TimedState
  <2>2. /\ w.recoverAt >= s.recoverAt /\ w.recoverAt >= r.recoverAt
        /\ w.level \in {s.level, r.level}
    BY <1>4, MergeWindow
  <2> HIDE DEF w
  <2>3. EarnedNow(w)
    BY <1>1, <1>4, <2>1, <2>2, EarnedLike DEF EarnedNow
  <2> QED BY <1>2, <2>1, <2>3 DEF w
<1> QED BY <1>2, <1>3, <1>4

\* A failure that is neither a Retry-After nor a Cloudflare challenge climbs
\* only when the window below has passed.
LEMMA EarnedFailure ==
  ASSUME NEW s \in State, NEW o \in OutcomeKinds \ {"retryAfter", "cloudflare"},
         NEW wait \in Nat, Clocked, EarnedNow(s)
  PROVE  EarnedNow(AfterFailure(s, o, wait))
<1> DEFINE a == AfterFailure(s, o, wait)
<1>1. /\ coolingOff \in BOOLEAN /\ FirstConfig \in BOOLEAN /\ now \in Nat /\ now > 0
      /\ a \in State
  BY FailureTimed DEF Clocked, FirstConfig
<1>2. CASE a.recoverAt = s.recoverAt /\ a.level = s.level
  <2>1. a.recoverAt >= s.recoverAt
    BY <1>1, <1>2 DEF State
  <2> HIDE DEF a
  <2>2. EarnedNow(a)
    BY <1>1, <1>2, <2>1, EarnedLike DEF EarnedNow
  <2> QED BY <2>2 DEF a
<1>3. CASE coolingOff /\ a.level = s.level
  BY <1>3 DEF EarnedNow, Earned
<1>4. CASE /\ ~coolingOff /\ ~(s.recoverAt > now)
           /\ a.recoverAt = now + nextQuotaCooldown(s.level).wait
           /\ a.level = nextQuotaCooldown(s.level).level
  <2> HIDE DEF a
  <2> DEFINE n == s.level
  <2>1. n \in 0..MaxLevel /\ 0 \in 0..MaxLevel /\ s.recoverAt \in Nat
    BY LadderTypes DEF State
  <2>2. Ladder[n] \in Nat /\ Ladder[0] \in Nat
    BY <2>1, LadderTypes
  <2>3. Ladder[n] - Ladder[0] < now
    <3>1. CASE n = 0
      BY <1>1, <2>2, <3>1
    <3>2. CASE n # 0
      <4>1. Ladder[n] - Ladder[0] < s.recoverAt
        BY <1>4, <2>1, <3>2 DEF EarnedNow, Earned
      <4> QED BY <1>1, <1>4, <2>1, <2>2, <4>1
    <3> QED BY <3>1, <3>2
  <2>4. CASE n = MaxLevel
    <3>1. nextQuotaCooldown(n) = [wait |-> QuotaMax, level |-> n]
      BY <2>1, <2>4, LadderTypes DEF nextQuotaCooldown
    <3>2. a.recoverAt = now + QuotaMax /\ a.level = n
      BY <1>4, <3>1
    <3>3. Ladder[n] - Ladder[0] < a.recoverAt
      BY <1>1, <2>2, <2>3, <3>2, LadderTypes
    <3>4. n > 0 => Ladder[n - 1] - Ladder[0] < now
      BY DEF EarnedNow, Earned
    <3> HIDE DEF n
    <3>5. EarnedNow(a)
      BY <1>4, <3>2, <3>3, <3>4 DEF EarnedNow, Earned
    <3> QED BY <3>5 DEF a
  <2>5. CASE n # MaxLevel
    <3>1. nextQuotaCooldown(n) = [wait |-> Ladder[n], level |-> n + 1]
      BY <2>1, <2>5, LadderTypes DEF nextQuotaCooldown
    <3>2. a.recoverAt = now + Ladder[n] /\ a.level = n + 1
      BY <1>4, <3>1
    <3>3. Ladder[n + 1] = 2 * Ladder[n]
      BY <2>1, <2>5, LadderTypes
    <3> HIDE DEF n
    <3>4. Ladder[n + 1] - Ladder[0] < a.recoverAt
      BY <1>1, <2>2, <2>3, <3>2, <3>3
    <3>5. a.level - 1 = n
      BY <2>1, <3>2
    <3>6. EarnedNow(a)
      BY <1>4, <2>3, <3>2, <3>4, <3>5 DEF EarnedNow, Earned
    <3> QED BY <3>6 DEF a
  <2> QED BY <2>4, <2>5
<1> HIDE DEF a
<1>5. \/ a.recoverAt = s.recoverAt /\ a.level = s.level
      \/ coolingOff /\ a.level = s.level
      \/ /\ ~coolingOff /\ ~(s.recoverAt > now)
         /\ a.recoverAt = now + nextQuotaCooldown(s.level).wait
         /\ a.level = nextQuotaCooldown(s.level).level
  BY FailureWindow, Zenon DEF QuotaKinds, a
<1> QED BY <1>2, <1>3, <1>4, <1>5 DEF a

\* The states that a credential carries, and the records of a snapshot.
AllEarned(c) == \A m \in Models : EarnedNow(c.models[m])

LEMMA EarnedExpired ==
  ASSUME Clocked, NEW ms \in [Models -> State], NEW keys,
         \A m \in Models : EarnedNow(ms[m])
  PROVE  \A m \in Models : EarnedNow(Expired(ms, keys)[m])
<1>1. EarnedNow(Clean)
  BY EarnedClean DEF Clean
<1>2. \A m \in Models : EarnedNow(Expire(ms[m]))
  BY EarnedOps
<1> QED BY <1>1, <1>2, Zenon DEF Expired

LEMMA EarnedClear ==
  ASSUME Clocked, NEW c \in Credentials, AllEarned(c)
  PROVE  AllEarned(clearCooldownStateForAuth(c))
<1> DEFINE ms == [m \in Models |-> Cleared(c.models[m])]
           d == clearCooldownStateForAuth(c)
<1>1. ms \in [Models -> State] /\ \A m \in Models : c.models[m] \in State
  BY ClearedTimed DEF Credentials, TimedState
<1>2. \A m \in Models : EarnedNow(ms[m])
  BY <1>1, EarnedOps, Zenon DEF AllEarned
<1>3. d = IF c.known = {} THEN [c EXCEPT !.auth = Cleared(@)]
          ELSE [models |-> Expired(ms, c.known), known |-> c.known,
                auth |-> Aggregate(ms, c.known)]
  BY Zenon DEF clearCooldownStateForAuth
<1> HIDE DEF ms, d
<1>4. d.models \in {c.models, Expired(ms, c.known)}
  BY <1>3 DEF Credentials
<1>5. \A m \in Models : EarnedNow(Expired(ms, c.known)[m])
  BY <1>1, <1>2, EarnedExpired
<1> QED BY <1>4, <1>5, Zenon DEF AllEarned, d

LEMMA EarnedUnauthorized ==
  ASSUME Clocked, NEW c \in Credentials, AllEarned(c)
  PROVE  AllEarned(clearUnauthorizedModelStates(c))
<1> DEFINE cured == {m \in c.known : c.models[m].unauthorized}
           ms == [m \in Models |-> IF m \in cured THEN Clean ELSE c.models[m]]
           d == clearUnauthorizedModelStates(c)
<1>1. ms \in [Models -> State]
  BY CleanTimed DEF Credentials, TimedState
<1>2. EarnedNow(Clean)
  BY EarnedClean DEF Clean
<1>3. \A m \in Models : EarnedNow(ms[m])
  BY <1>2, Zenon DEF AllEarned
<1>4. d = IF cured = {} THEN c
          ELSE [c EXCEPT !.models = Expired(ms, c.known),
                         !.auth = Aggregate(ms, c.known)]
  BY Zenon DEF clearUnauthorizedModelStates
<1> HIDE DEF cured, ms, d
<1>5. d.models \in {c.models, Expired(ms, c.known)}
  BY <1>4 DEF Credentials
<1>6. \A m \in Models : EarnedNow(Expired(ms, c.known)[m])
  BY <1>1, <1>3, EarnedExpired
<1> QED BY <1>5, <1>6, Zenon DEF AllEarned, d

LEMMA EarnedRestore ==
  ASSUME Clocked, NEW c \in Credentials, NEW rs \in TimedRecords,
         NEW newer \in SUBSET Models, AllEarned(c), AllEarned(rs)
  PROVE  AllEarned(restoreCooldownRecords(c, rs, newer))
<1> DEFINE d == restoreCooldownRecords(c, rs, newer)
<1> SUFFICES ASSUME NEW m \in Models PROVE EarnedNow(d.models[m])
  BY DEF AllEarned
<1>1. /\ c.models[m] \in TimedState /\ c.models[m] \in State
      /\ rs.models[m] \in TimedState /\ (m \in newer) \in BOOLEAN
  BY DEF Credentials, TimedRecords, TimedState
<1>2. EarnedNow(c.models[m]) /\ EarnedNow(rs.models[m]) /\ EarnedNow(Clean)
  BY EarnedClean DEF AllEarned, Clean
<1>3. /\ EarnedNow(Expire(c.models[m]))
      /\ rs.models[m].retryAt > now =>
           EarnedNow(Expire(mergeModelState(c.models[m], rs.models[m], m \in newer)))
  BY <1>1, <1>2, EarnedOps
<1>4. \/ d.models[m] = c.models[m]
      \/ m \notin d.known /\ d.models[m] = Clean
      \/ d.models[m] = Expire(c.models[m])
      \/ /\ rs.models[m].retryAt > now
         /\ d.models[m] = Expire(mergeModelState(c.models[m], rs.models[m], m \in newer))
  BY RestoreModels, Zenon
<1> HIDE DEF d
<1> QED BY <1>2, <1>3, <1>4, Zenon

LEMMA EarnedRecords ==
  ASSUME NEW c, AllEarned(c)
  PROVE  AllEarned(Records(c))
<1>1. EarnedNow(Clean)
  BY EarnedClean DEF Clean
<1>2. CASE coolingOff
  BY <1>1, <1>2 DEF Records, NoRecords, AllEarned
<1>3. CASE ~coolingOff
  <2>1. \A m \in Models : Records(c).models[m] \in {c.models[m], Clean}
    BY <1>3 DEF Records
  <2> QED BY <1>1, <2>1, Zenon DEF AllEarned
<1> QED BY <1>2, <1>3

\* Every step preserves the invariant of the ladder.
LEMMA StepLadder ==
  ASSUME ~TornCopies, Outcomes \cap {"retryAfter", "cloudflare"} = {}
  PROVE  CooldownInv /\ LadderInv /\ [Next]_vars /\ NotSwitchedBack => LadderInv'
<1> SUFFICES ASSUME CooldownInv, LadderInv, [Next]_vars, NotSwitchedBack PROVE LadderInv'
  OBVIOUS
<1> USE DEF memory, disk, restoring, writing, history, elsewhere
<1>1. /\ Clocked /\ now \in Nat /\ Current \in Credentials
      /\ Current.models = models /\ Current.known = known
      /\ Records(Current) \in TimedRecords
  BY CurrentTimed
<1>2. /\ models \in [Models -> State] /\ known \subseteq Models
      /\ store \in TimedRecords /\ loaded \in TimedRecords /\ clone \in Credentials
      /\ coolingOff \in BOOLEAN /\ FirstConfig \in BOOLEAN
  BY DEF CooldownInv, TypeOK, FirstConfig
<1>3. CooldownInv'
  BY StepTimed
<1>4. /\ AllEarned(Current) /\ AllEarned(store) /\ AllEarned(loaded) /\ AllEarned(clone)
      /\ WithinLimits
  BY <1>1 DEF LadderInv, AllEarned
<1>5. \A kind \in {"result", "reset", "config", "restore", "update", "restart"} :
        kind \in EventKinds
  BY DEF EventKinds
<1>6. AllEarned(NoRecords) /\ AllEarned([models |-> NoRecords.models, known |-> {},
                                         auth |-> Clean])
  BY EarnedClean DEF AllEarned, NoRecords, Clean
<1> DEFINE Steady == /\ WithinLimits' /\ now' \in Nat /\ now <= now'
                     /\ coolingOff' /\ FirstConfig' => coolingOff /\ FirstConfig
           Fine == /\ \A m \in Models : EarnedNow(models'[m])
                   /\ AllEarned(store') /\ AllEarned(loaded') /\ AllEarned(clone')
<1>7. ASSUME Steady, Fine PROVE LadderInv'
  <2>1. /\ models' \in [Models -> State] /\ coolingOff' \in BOOLEAN
        /\ \A m \in Models : /\ store'.models[m] \in State /\ loaded'.models[m] \in State
                             /\ clone'.models[m] \in State
        /\ FirstConfig' \in BOOLEAN
    BY <1>3 DEF CooldownInv, TypeOK, Snapshots, FirstConfig
  <2>2. coolingOff /\ ~coolingOff' => FirstConfig
    BY DEF NotSwitchedBack
  <2>3. \A s \in State : EarnedNow(s) => Earned(s, now', coolingOff', FirstConfig')
    BY <1>1, <1>2, <1>7, <2>1, <2>2, EarnedLater DEF EarnedNow
  <2>4. ASSUME NEW m \in Models
        PROVE  /\ EarnedNow(models[m])' /\ EarnedNow(store.models[m])'
               /\ EarnedNow(loaded.models[m])' /\ EarnedNow(clone.models[m])'
    <3>1. /\ EarnedNow(models'[m]) /\ EarnedNow(store'.models[m])
          /\ EarnedNow(loaded'.models[m]) /\ EarnedNow(clone'.models[m])
      BY <1>7 DEF AllEarned
    <3>2. /\ models'[m] \in State /\ store'.models[m] \in State
          /\ loaded'.models[m] \in State /\ clone'.models[m] \in State
      BY <2>1
    <3>3. /\ Earned(models'[m], now', coolingOff', FirstConfig')
          /\ Earned(store'.models[m], now', coolingOff', FirstConfig')
          /\ Earned(loaded'.models[m], now', coolingOff', FirstConfig')
          /\ Earned(clone'.models[m], now', coolingOff', FirstConfig')
      BY <2>3, <3>1, <3>2
    <3> QED BY <3>3 DEF EarnedNow
  <2> QED BY <1>7, <2>4 DEF LadderInv
<1>8. ASSUME UNCHANGED <<now, coolingOff, left>> PROVE Steady
  BY <1>1, <1>4, <1>8 DEF WithinLimits, FirstConfig
<1>9. ASSUME NEW kind \in EventKinds, Spend(kind), UNCHANGED now,
             coolingOff' = coolingOff \/ kind = "config"
      PROVE  Steady
  <2>1. WithinLimits' /\ (FirstConfig' => FirstConfig /\ kind # "config")
    BY <1>4, <1>5, <1>9, SpendCounts DEF FirstConfig
  <2> QED BY <1>1, <1>9, <2>1
<1>10. \A m \in Models : EarnedNow(models[m])
  BY <1>1, <1>4 DEF AllEarned
<1>11. ASSUME UNCHANGED <<models, store, loaded, clone>> PROVE Fine
  BY <1>4, <1>10, <1>11
<1>12. ASSUME NEW c, Assign(c), AllEarned(c) PROVE \A m \in Models : EarnedNow(models'[m])
  BY <1>12 DEF Assign, AllEarned
<1>13. ASSUME NEW ms \in [Models -> State], NEW keys, updateAggregatedAvailability(ms, keys),
              \A m \in Models : EarnedNow(ms[m])
       PROVE  \A m \in Models : EarnedNow(models'[m])
  <2>1. \A m \in Models : EarnedNow(Expired(ms, keys)[m])
    BY <1>1, <1>13, EarnedExpired
  <2> QED BY <1>13, <2>1 DEF updateAggregatedAvailability
<1> HIDE DEF Steady
<1>14. CASE UNCHANGED vars
  BY <1>7, <1>8, <1>11, <1>14 DEF vars
<1>15. CASE Tick
  <2>1. Steady
    BY <1>1, <1>4, <1>15 DEF Tick, Steady, WithinLimits, FirstConfig
  <2> QED BY <1>7, <1>11, <1>15, <2>1 DEF Tick
<1>16. ASSUME NEW m \in Models, MarkSuccess(m) PROVE LadderInv'
  <2> DEFINE ms == [models EXCEPT ![m] = Clean]
  <2>1. ms \in [Models -> State] /\ \A n \in Models : EarnedNow(ms[n])
    BY <1>2, <1>10, CleanTimed, EarnedClean DEF TimedState, Clean
  <2>2. /\ updateAggregatedAvailability(ms, known \cup {m}) /\ Spend("result")
        /\ UNCHANGED <<now, coolingOff, store, loaded, clone>>
    BY <1>16, Zenon DEF MarkSuccess
  <2> HIDE DEF ms
  <2> QED BY <1>4, <1>5, <1>7, <1>9, <1>13, <2>1, <2>2
<1>17. ASSUME NEW m \in Models, NEW o \in Outcomes, NEW wait \in Waits(o),
              MarkFailure(m, o, wait)
       PROVE  LadderInv'
  <2> DEFINE after == AfterFailure(models[m], o, wait)
             ms == [models EXCEPT ![m] = after]
  <2>1. /\ o \in OutcomeKinds \ {"retryAfter", "cloudflare"} /\ wait \in Nat
        /\ models[m] \in State
    BY <1>2, CooldownAssumption DEF Waits
  <2>2. after \in State /\ EarnedNow(after)
    BY <1>1, <1>10, <2>1, FailureTimed, EarnedFailure
  <2>3. /\ updateAggregatedAvailability(ms, known \cup {m}) /\ Spend("result")
        /\ UNCHANGED <<now, coolingOff, store, loaded, clone>>
    BY <1>17, Zenon DEF MarkFailure
  <2> HIDE DEF after
  <2>4. ms \in [Models -> State] /\ \A n \in Models : EarnedNow(ms[n])
    BY <1>2, <1>10, <2>2
  <2> HIDE DEF ms
  <2> QED BY <1>4, <1>5, <1>7, <1>9, <1>13, <2>3, <2>4
<1>18. CASE MarkAuthSuccess
  BY <1>5, <1>7, <1>9, <1>11, <1>18 DEF MarkAuthSuccess
<1>19. ASSUME NEW o, NEW wait, MarkAuthFailure(o, wait) PROVE LadderInv'
  BY <1>5, <1>7, <1>9, <1>11, <1>19 DEF MarkAuthFailure
<1>20. ASSUME NEW persisted, ResetQuota(persisted) PROVE LadderInv'
  <2> DEFINE c == [Current EXCEPT !.models = [m \in Models |-> Clean]]
  <2>1. c \in Credentials /\ AllEarned(c)
    BY <1>1, CleanTimed, EarnedClean DEF Credentials, AllEarned, Clean
  <2>2. /\ Assign(clearCooldownStateForAuth(c)) /\ Spend("reset")
        /\ UNCHANGED <<now, coolingOff, store, loaded, clone>>
    BY <1>20, Zenon DEF ResetQuota
  <2> HIDE DEF c
  <2>3. AllEarned(clearCooldownStateForAuth(c))
    BY <1>1, <2>1, EarnedClear
  <2> QED BY <1>4, <1>5, <1>7, <1>9, <1>12, <2>2, <2>3
<1>21. ASSUME NEW ok, Save(ok) PROVE AllEarned(store')
  <2>1. AllEarned(Records(Current))
    BY <1>4, EarnedRecords
  <2> QED BY <1>4, <1>21, <2>1 DEF Save
<1>22. ASSUME NEW ok, persistCooldownStates(ok) PROVE LadderInv'
  BY <1>4, <1>7, <1>8, <1>10, <1>21, <1>22 DEF persistCooldownStates
<1>23. ASSUME NEW off, ConfigStore(off) PROVE LadderInv'
  BY <1>5, <1>7, <1>9, <1>11, <1>23 DEF ConfigStore
<1>24. CASE ConfigClear
  <2>1. CASE coolingOff
    <3>1. AllEarned(clearCooldownStateForAuth(Current))
      BY <1>1, <1>4, EarnedClear
    <3>2. /\ Assign(clearCooldownStateForAuth(Current))
          /\ UNCHANGED <<now, coolingOff, left, store, loaded, clone>>
      BY <1>24, <2>1 DEF ConfigClear
    <3> QED BY <1>4, <1>7, <1>8, <1>12, <3>1, <3>2
  <2>2. CASE ~coolingOff
    BY <1>7, <1>8, <1>11, <1>24, <2>2 DEF ConfigClear
  <2> QED BY <2>1, <2>2
<1>25. ASSUME NEW ok, ConfigSave(ok) PROVE LadderInv'
  BY <1>4, <1>7, <1>8, <1>10, <1>21, <1>25 DEF ConfigSave
<1>26. CASE RestoreLoad
  <2>1. /\ Spend("restore") /\ loaded' = store
        /\ UNCHANGED <<now, coolingOff, models, store, clone>>
    BY <1>26 DEF RestoreLoad
  <2> QED BY <1>4, <1>5, <1>7, <1>9, <1>10, <2>1
<1>27. ASSUME NEW newer \in SUBSET Models, RestoreApply(newer) PROVE LadderInv'
  <2>1. AllEarned(restoreCooldownRecords(Current, loaded, newer))
    BY <1>1, <1>2, <1>4, EarnedRestore
  <2>2. /\ Assign(restoreCooldownRecords(Current, loaded, newer)) /\ loaded' = NoRecords
        /\ UNCHANGED <<now, coolingOff, left, store, clone>>
    BY <1>27 DEF RestoreApply
  <2> QED BY <1>4, <1>6, <1>7, <1>8, <1>12, <2>1, <2>2
<1>28. ASSUME NEW ok, Restart(ok) PROVE LadderInv'
  <2> DEFINE fresh == [models |-> NoRecords.models, known |-> {},
                       auth |-> Clean]
             back == restoreCooldownRecords(fresh, store, Models)
  <2>1. fresh \in Credentials
    BY CleanTimed DEF Credentials, TimedRecords, TimedState
  <2>2. AllEarned(fresh)
    BY <1>6
  <2>3. /\ Assign(back) /\ store' = IF ok THEN Records(back) ELSE store
        /\ loaded' = NoRecords /\ Spend("restart")
        /\ UNCHANGED <<now, coolingOff, clone>>
    BY <1>28, Zenon DEF Restart
  <2> HIDE DEF fresh
  <2>4. AllEarned(back)
    BY <1>1, <1>2, <1>4, <2>1, <2>2, EarnedRestore
  <2> HIDE DEF back
  <2>5. AllEarned(Records(back))
    BY <2>4, EarnedRecords
  <2> QED BY <1>4, <1>5, <1>6, <1>7, <1>9, <1>12, <2>3, <2>4, <2>5
<1>29. ASSUME NEW c \in Credentials, AllEarned(c), Update(c),
              UNCHANGED <<now, coolingOff, left, store, loaded, clone>>
       PROVE  LadderInv'
  <2> DEFINE kept == IF c.known # {} THEN c
                     ELSE [c EXCEPT !.models = models, !.known = known]
             new == IF coolingOff THEN clearCooldownStateForAuth(kept) ELSE kept
  <2>1. kept \in Credentials /\ kept.models \in {c.models, models}
    BY <1>1, <1>2 DEF Credentials
  <2>2. Assign(new)
    BY <1>29, Zenon DEF Update
  <2> HIDE DEF kept
  <2>3. AllEarned(kept)
    BY <1>10, <1>29, <2>1, Zenon DEF AllEarned
  <2>4. AllEarned(new)
    BY <1>1, <2>1, <2>3, EarnedClear
  <2> HIDE DEF new
  <2> QED BY <1>4, <1>7, <1>8, <1>12, <1>29, <2>2, <2>4
<1>30. ASSUME NEW step, TakeClone(step) PROVE LadderInv'
  <2>1. /\ Spend("update") /\ clone' = Current
        /\ UNCHANGED <<now, coolingOff, models, store, loaded>>
    BY <1>30 DEF TakeClone
  <2> QED BY <1>4, <1>5, <1>7, <1>9, <1>10, <2>1
<1>31. CASE RefreshOk
  <2> DEFINE c == [clone EXCEPT !.auth.unavailable = FALSE]
             d == clearUnauthorizedModelStates(c)
  <2>1. c \in Credentials /\ c.models = clone.models
    BY <1>2 DEF Credentials, State
  <2>2. /\ Update(d) /\ UNCHANGED <<now, coolingOff, left, store, loaded, clone>>
    BY <1>31 DEF RefreshOk
  <2> HIDE DEF c
  <2>3. AllEarned(c)
    BY <1>4, <2>1 DEF AllEarned
  <2>4. d \in Credentials /\ AllEarned(d)
    BY <1>1, <2>1, <2>3, UnauthorizedTimed, EarnedUnauthorized
  <2> HIDE DEF d
  <2> QED BY <1>29, <2>2, <2>4
<1>32. CASE RefreshUnauthorized \/ RefreshFailed
  BY <1>7, <1>8, <1>11, <1>32 DEF RefreshUnauthorized, RefreshFailed
<1>33. CASE RegisterUpdate
  <2> DEFINE c == [clone EXCEPT !.auth = Clean]
  <2>1. c \in Credentials /\ c.models = clone.models
    BY <1>2, CleanTimed DEF Credentials, TimedState
  <2>2. Update(c) /\ UNCHANGED <<now, coolingOff, left, store, loaded, clone>>
    BY <1>33 DEF RegisterUpdate
  <2> HIDE DEF c
  <2>3. AllEarned(c)
    BY <1>4, <2>1 DEF AllEarned
  <2> QED BY <1>29, <2>1, <2>2, <2>3
<1>34. ASSUME NEW supported, NEW stale, ReconcileRegistryModelStates(supported, stale)
       PROVE  LadderInv'
  <2>1. UNCHANGED <<now, coolingOff, left, store, loaded, clone>>
    BY <1>34 DEF ReconcileRegistryModelStates
  <2>2. CASE UNCHANGED memory
    BY <1>7, <1>8, <1>11, <2>1, <2>2
  <2>3. CASE updateAggregatedAvailability(NoRecords.models, known \cap supported)
    <3>1. NoRecords.models \in [Models -> State]
      BY CleanTimed DEF TimedRecords, TimedState
    <3>2. \A m \in Models : EarnedNow(NoRecords.models[m])
      BY <1>6 DEF AllEarned
    <3>3. \A m \in Models : EarnedNow(models'[m])
      BY <1>13, <2>3, <3>1, <3>2
    <3> QED BY <1>4, <1>7, <1>8, <2>1, <3>3
  <2> QED BY <1>34, <2>2, <2>3, Zenon DEF ReconcileRegistryModelStates
<1>35. /\ \A fields : ~RefreshTornAuth(fields)
       /\ \A m, fields, before, keys :
            ~RefreshTornModel(m, fields, before, keys)
  BY DEF RefreshTornAuth, RefreshTornModel, Tear
<1> QED BY <1>14, <1>15, <1>16, <1>17, <1>18, <1>19, <1>20, <1>22, <1>23, <1>24, <1>25,
           <1>26, <1>27, <1>28, <1>30, <1>31, <1>32, <1>33, <1>34, <1>35
    DEF Next, RefreshStart, RegisterStart

LEMMA InitLadder == Init => LadderInv
<1> SUFFICES ASSUME Init PROVE LadderInv
  OBVIOUS
<1>1. Limits \in [EventKinds -> Nat] /\ left = Limits
  BY CooldownAssumption DEF Init
<1>2. WithinLimits
  BY <1>1 DEF WithinLimits
<1>3. EarnedNow(Clean)
  BY EarnedClean DEF Clean
<1> QED BY <1>2, <1>3 DEF Init, LadderInv, NoRecords

LEMMA LadderEarned == CooldownInv /\ LadderInv => LadderTakesTime
<1> SUFFICES ASSUME CooldownInv, LadderInv, NEW m \in Models, models[m].level > 0
             PROVE  now - 1 >= Ladder[models[m].level - 1] - Ladder[0]
  BY DEF LadderTakesTime
<1>1. Ladder[models[m].level - 1] - Ladder[0] < now
  BY DEF LadderInv, EarnedNow, Earned
<1>2. models[m] \in State /\ now \in Nat
  BY CurrentTimed DEF CooldownInv, TypeOK
<1>3. models[m].level - 1 \in 0..MaxLevel /\ 0 \in 0..MaxLevel
  BY <1>2, LadderTypes DEF State
<1>4. Ladder[models[m].level - 1] \in Nat /\ Ladder[0] \in Nat
  BY <1>3, LadderTypes
<1> QED BY <1>1, <1>2, <1>4

\* However failures, refreshes, restores and restarts interleave, a model's
\* level takes the time of the windows below it, as long as no config change
\* but the first switches cooling on.
THEOREM LadderSafe ==
  ASSUME ~TornCopies, Outcomes \cap {"retryAfter", "cloudflare"} = {}
  PROVE  Spec /\ [][NotSwitchedBack]_vars => []LadderTakesTime
<1>1. CooldownInv /\ LadderInv /\ [Next]_vars /\ [NotSwitchedBack]_vars => LadderInv'
  <2>1. [Next]_vars /\ [NotSwitchedBack]_vars => NotSwitchedBack
    BY DEF NotSwitchedBack, vars
  <2> QED BY <2>1, StepLadder
<1> QED BY InitTimed, StepTimed, InitLadder, <1>1, LadderEarned, PTL DEF Spec

\* In particular when the config changes at most once.
THEOREM LadderSafeOneConfig ==
  ASSUME ~TornCopies, Outcomes \cap {"retryAfter", "cloudflare"} = {},
         Limits["config"] <= 1
  PROVE  Spec => []LadderTakesTime
<1>1. CooldownInv /\ LadderInv /\ [Next]_vars => NotSwitchedBack
  <2> SUFFICES ASSUME CooldownInv, LadderInv, [Next]_vars, coolingOff, ~coolingOff'
               PROVE  FirstConfig
    BY DEF NotSwitchedBack
  <2>1. PICK off \in BOOLEAN : ConfigStore(off)
    BY DEF Next, vars, memory, disk, restoring, writing, history, elsewhere, Tick,
       MarkSuccess, MarkFailure, MarkAuthSuccess, MarkAuthFailure, ResetQuota,
       persistCooldownStates, ConfigClear, ConfigSave, RestoreLoad, RestoreApply,
       Restart, RefreshStart, TakeClone, RefreshTornAuth, RefreshTornModel, Tear,
       RefreshOk, RefreshUnauthorized, RefreshFailed, RegisterStart, RegisterUpdate,
       ReconcileRegistryModelStates
  <2>2. left["config"] > 0
    BY <2>1 DEF ConfigStore, Spend
  <2>3. left["config"] \in Nat /\ Limits["config"] \in Nat /\ left["config"] <= Limits["config"]
    BY CooldownAssumption DEF CooldownInv, TypeOK, LadderInv, WithinLimits, EventKinds
  <2> QED BY <2>2, <2>3 DEF FirstConfig
<1>2. CooldownInv /\ LadderInv /\ [Next]_vars => LadderInv'
  BY <1>1, StepLadder
<1> QED BY InitTimed, StepTimed, InitLadder, <1>2, LadderEarned, PTL DEF Spec
=============================================================================
