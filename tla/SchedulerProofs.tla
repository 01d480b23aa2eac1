-------------------------- MODULE SchedulerProofs --------------------------
(***************************************************************************)
(* The scheduler, for any number of credentials, providers, priorities and *)
(* reporters and any of the built-in strategies.  The invariant says of    *)
(* the state what the steps rely on:                                       *)
(*   - SchedOK: a shard's entries are the published credentials with       *)
(*     models, and its views and blocked list are those of its entries;    *)
(*   - FreshInv: an entry says what the state it was made from said at     *)
(*     some time, or a publication of that state is on its way;            *)
(*   - RemovedInv: what a removed credential left in the scheduler has no  *)
(*     models, until Remove takes it out;                                  *)
(*   - HopeInv: what a waiting pick may count on is usable, in its         *)
(*     snapshot, and after the rebuild known to the scheduler.             *)
(* The picks are searches: what they find, and that they find it, follows  *)
(* from the least element of a set of numbers.                             *)
(* The rotation (RotationInv, at the end) is a matter of where a cursor or *)
(* a weighted state is: on a ring, where each candidate has one place, or  *)
(* on the one cycle of the weights, where it has as many as its weight.    *)
(* The picks of a window are the trail of the last places, and whatever is *)
(* published meanwhile leaves the place alone while the candidates stay.   *)
(***************************************************************************)
EXTENDS Scheduler, FiniteSetTheorems, TLAPS

-----------------------------------------------------------------------------
(* Numbers, finite sets and the order of a view *)

\* Every set of natural numbers has a least element: what a search from the
\* front finds, and what replaces induction below.
LEMMA Least ==
  ASSUME NEW T, T \subseteq Nat, T # {}
  PROVE  \E x \in T : \A y \in T : x <= y
<1> DEFINE R == {pair \in Nat \X Nat : pair[1] < pair[2]}
<1>1. OpToRel(<, Nat) = R
  BY DEF OpToRel
<1>2. IsWellFoundedOn(R, Nat)
  BY <1>1, NatLessThanWellFounded, Zenon
<1> HIDE DEF R
<1>3. PICK x \in T : \A y \in T : <<y, x>> \notin R
  BY ONLY <1>2, T \subseteq Nat, T # {}, WFMin, Zenon
<1>4. \A y \in T : ~(y < x)
  BY <1>3, Zenon DEF R
<1>5. \A y \in T : x \in Nat /\ y \in Nat
  OBVIOUS
<1> QED BY <1>4, <1>5

\* A finite set of numbers has a greatest one.
LEMMA FiniteMax ==
  ASSUME NEW S, IsFiniteSet(S), S \subseteq Int, S # {}
  PROVE  Max(S) \in S /\ \A y \in S : Max(S) >= y
<1> DEFINE HasMax(U) == \E x \in U : \A y \in U : x >= y
           Bad(U) == IsFiniteSet(U) /\ U \subseteq Int /\ U # {} /\ ~HasMax(U)
           T == {n \in Nat : \E U : Bad(U) /\ Cardinality(U) = n}
<1>1. ASSUME T # {} PROVE FALSE
  <2>1. PICK n \in T : \A m \in T : n <= m
    BY <1>1, Least, Zenon
  <2>2. PICK U : Bad(U) /\ Cardinality(U) = n
    BY <2>1
  <2>3. PICK u : u \in U
    BY <2>2
  <2> DEFINE V == U \ {u}
  <2>4. IsFiniteSet(V) /\ Cardinality(V) = n - 1 /\ Cardinality(V) \in Nat
    BY <2>2, <2>3, FS_RemoveElement, FS_CardinalityType, Zenon
  <2>5. n \in Nat
    BY <2>1
  <2>6. ~Bad(V)
    <3>1. ASSUME Bad(V) PROVE n - 1 \in T
      BY <2>4, <3>1, Zenon
    <3> HIDE DEF T
    <3> QED BY <2>1, <2>5, <3>1
  <2>7. CASE V = {}
    BY <2>2, <2>3, <2>7
  <2>8. CASE V # {}
    <3>1. HasMax(V)
      BY <2>2, <2>4, <2>6, <2>8, Zenon
    <3>2. PICK x \in V : \A y \in V : x >= y
      BY <3>1
    <3>3. x \in Int /\ u \in Int /\ U \subseteq Int /\ U = V \cup {u}
      BY <2>2, <2>3
    <3>4. CASE x >= u
      BY <2>2, <3>2, <3>3, <3>4
    <3>5. CASE u > x
      BY <2>2, <2>3, <3>2, <3>3, <3>5
    <3> QED BY <3>3, <3>4, <3>5
  <2> QED BY <2>7, <2>8
<1>2. Cardinality(S) \in Nat
  BY FS_CardinalityType
<1>3. HasMax(S)
  BY <1>1, <1>2, Zenon
<1> QED BY <1>3, Zenon DEF Max

\* sorted lists a finite set of numbers, each once.
LEMMA SortedSet ==
  ASSUME NEW S, IsFiniteSet(S), S \subseteq Int
  PROVE  /\ Cardinality(S) \in Nat
         /\ DOMAIN sorted(S) = 1..Cardinality(S) /\ Len(sorted(S)) = Cardinality(S)
         /\ ToSet(sorted(S)) = S
<1> DEFINE n == Cardinality(S)
           upTo(a) == {b \in S : b <= a}
           rank == [a \in S |-> Cardinality(upTo(a))]
<1>1. n \in Nat
  BY FS_CardinalityType
<1>2. ASSUME NEW a \in S
      PROVE  IsFiniteSet(upTo(a)) /\ Cardinality(upTo(a)) \in 1..n
  <2>1. /\ IsFiniteSet(upTo(a)) /\ Cardinality(upTo(a)) \in Nat
        /\ Cardinality(upTo(a)) <= n
    BY FS_Subset, FS_CardinalityType
  <2>2. a \in upTo(a)
    OBVIOUS
  <2>3. Cardinality(upTo(a)) # 0
    BY <2>1, <2>2, FS_EmptySet
  <2> QED BY <1>1, <2>1, <2>3
<1>3. ASSUME NEW a \in S, NEW b \in S, rank[a] = rank[b] PROVE a = b
  <2>1. ASSUME NEW x \in S, NEW y \in S, x < y PROVE rank[x] # rank[y]
    <3>1. x \in Int /\ y \in Int /\ \A z \in S : z \in Int
      OBVIOUS
    <3>2. upTo(x) \in SUBSET upTo(y) /\ y \in upTo(y) /\ y \notin upTo(x)
      <4>1. \A z \in S : z <= x => z <= y
        BY <2>1, <3>1
      <4>2. y <= y /\ ~(y <= x)
        BY <2>1, <3>1
      <4> QED BY <4>1, <4>2, Zenon
    <3>3. IsFiniteSet(upTo(y))
      BY <1>2
    <3> HIDE DEF upTo
    <3>4. Cardinality(upTo(x)) # Cardinality(upTo(y))
      BY <3>2, <3>3, FS_Subset
    <3> QED BY <3>4
  <2>2. a \in Int /\ b \in Int
    OBVIOUS
  <2> HIDE DEF rank
  <2> QED BY <1>3, <2>1, <2>2
<1>4. rank \in Injection(S, 1..n)
  BY <1>2, <1>3, Zenon DEF Injection, IsInjective
<1>5. Cardinality(1..n) = n /\ IsFiniteSet(1..n)
  BY <1>1, FS_Interval
<1>6. rank \in Surjection(S, 1..n)
  BY <1>4, <1>5, FS_Injection
<1>7. \A i \in 1..n : \E a \in S : rank[a] = i
  BY <1>6, Zenon DEF Surjection
<1>8. \A i \in 1..n : sorted(S)[i] \in S /\ rank[sorted(S)[i]] = i
  BY <1>7, Zenon DEF sorted
<1>9. \A a \in S : rank[a] \in 1..n /\ sorted(S)[rank[a]] = a
  BY <1>2, <1>3, <1>8, Zenon
<1>10. DOMAIN sorted(S) = 1..n
  BY DEF sorted
<1>11. Len(sorted(S)) = n
  BY <1>1 DEF sorted
<1> HIDE DEF rank, n
<1>12. ToSet(sorted(S)) = S
  BY <1>8, <1>9, <1>10 DEF ToSet
<1> QED BY <1>1, <1>10, <1>11, <1>12 DEF n

\* A search from the front.
LEMMA First ==
  ASSUME NEW n \in Nat, NEW ok, ok \subseteq 1..n, ok # {}
  PROVE  \E i \in 1..n : i \in ok /\ \A j \in 1..(i - 1) : j \notin ok
<1>1. ok \subseteq Nat
  OBVIOUS
<1>2. PICK i \in ok : \A j \in ok : i <= j
  BY <1>1, Least, Zenon
<1> QED BY <1>2

LEMMA TurnsFinite ==
  ASSUME NEW w, IsFiniteSet(DOMAIN w), \A a \in DOMAIN w : w[a] \in Nat
  PROVE  IsFiniteSet(turns(w)) /\ Cardinality(turns(w)) \in Nat
<1> DEFINE f == [a \in DOMAIN w |-> {a} \X (1..w[a])]
           parts == {{a} \X (1..w[a]) : a \in DOMAIN w}
<1>1. f \in Surjection(DOMAIN w, parts)
  BY Zenon DEF Surjection
<1>2. IsFiniteSet(parts)
  BY <1>1, FS_Surjection
<1>3. ASSUME NEW a \in DOMAIN w PROVE IsFiniteSet({a} \X (1..w[a]))
  <2>1. IsFiniteSet({a})
    BY FS_Singleton, Zenon
  <2>2. IsFiniteSet(1..w[a])
    BY FS_Interval
  <2> QED BY <2>1, <2>2, FS_Product, Zenon
<1>4. \A T \in parts : IsFiniteSet(T)
  BY <1>3
<1> QED BY <1>2, <1>4, FS_UNION, FS_CardinalityType, Zenon DEF turns

-----------------------------------------------------------------------------
(* What is always so of the scheduler *)

Creds == [priority : Priorities, weight : Nat, disabled : BOOLEAN, until : Nat]
Metas == [priority : Priorities, weight : Nat, disabled : BOOLEAN, until : Nat,
          supported : BOOLEAN, live : BOOLEAN]
MapTo(f, S) == \A a \in DOMAIN f : a \in Auths /\ f[a] \in S

\* The fields of the records.
IsView(v) ==
  v \in [flat : {v.flat}, cursor : {v.cursor}, current : {v.current}, weights : {v.weights}]
IsShard(h) == h \in [entries : {h.entries}, ready : {h.ready}, blocked : {h.blocked}]
IsSched(s) ==
  s \in [strategy : {s.strategy}, metas : {s.metas}, shards : {s.shards},
         cursor : {s.cursor}, weighted : {s.weighted}]

CurrentOK(w) == \A a \in DOMAIN w.current : w.current[a] \in Int
CursorsOK(v) == IsView(v) /\ v.cursor \in Nat /\ CurrentOK(v)

members(metas, p) == {a \in DOMAIN metas : ProviderOf[a] = p /\ metas[a].supported}
readyOf(entries, metas, q) ==
  {a \in DOMAIN entries : entries[a].state = "ready" /\ metas[a].priority = q}
blockedOf(entries) == {a \in DOMAIN entries : entries[a].state = "blocked"}

\* The entries of the shard of p: its credentials whose models were registered
\* when they were published.
EntriesOK(entries, metas, p) ==
  /\ DOMAIN entries = members(metas, p)
  /\ \A a \in DOMAIN entries : entries[a].nextRetryAt > 0 => entries[a].state = "blocked"

ShardOK(h, metas, p) ==
  /\ IsShard(h)
  /\ EntriesOK(h.entries, metas, p)
  /\ DOMAIN h.ready = Priorities
  /\ \A q \in Priorities :
       CursorsOK(h.ready[q]) /\ h.ready[q].flat = sorted(readyOf(h.entries, metas, q))
  /\ h.blocked = blockedOf(h.entries)

SchedOK(s) ==
  /\ IsSched(s)
  /\ s.strategy \in Strategies
  /\ MapTo(s.metas, Metas)
  /\ \A p \in DOMAIN s.shards : ShardOK(s.shards[p], s.metas, p)
  /\ s.cursor \in [Routes -> Nat]
  /\ DOMAIN s.weighted = Routes /\ \A r \in Routes : CurrentOK(s.weighted[r])

\* The entry of a says what its state does, as of some time up to
\* the one given.
FreshIn(h, metas, a, time) ==
  a \in DOMAIN h.entries => \E t \in 0..time : h.entries[a] = evaluated(metas[a], t)
Fresh(s, a, time) == \A p \in DOMAIN s.shards : FreshIn(s.shards[p], s.metas, a, time)

-----------------------------------------------------------------------------
(* One shard *)

LEMMA MembersFinite ==
  ASSUME NEW metas, MapTo(metas, Metas), NEW S, S \subseteq DOMAIN metas
  PROVE  IsFiniteSet(S) /\ S \subseteq Auths /\ S \subseteq Int
<1>1. IsFiniteSet(Auths) /\ Auths \subseteq Int
  BY SchedulerAssumption, FS_Interval DEF Auths
<1>2. S \in SUBSET Auths
  BY DEF MapTo
<1> QED BY <1>1, <1>2, FS_Subset, Zenon

LEMMA MetaType ==
  ASSUME NEW a, NEW c \in Creds, NEW live \in BOOLEAN
  PROVE  /\ meta(a, c, live) \in Metas
         /\ meta(a, c, live).supported = (a \in supports)
         /\ meta(a, c, live).priority = c.priority /\ meta(a, c, live).weight = c.weight
         /\ meta(a, c, live).until = c.until /\ meta(a, c, live).live = live
  BY DEF meta, Creds, Metas

LEMMA EvaluatedOK ==
  ASSUME NEW c, NEW t
  PROVE  evaluated(c, t).nextRetryAt > 0 => evaluated(c, t).state = "blocked"
  BY DEF evaluated

LEMMA Normalized ==
  ASSUME NEW cursor \in Nat, NEW size \in Nat
  PROVE  normalizeCursor(cursor, size) \in Nat
<1>1. CASE size = 0
  BY <1>1 DEF normalizeCursor
<1>2. CASE size # 0
  BY <1>2 DEF normalizeCursor
<1> QED BY <1>1, <1>2

\* A view that is rebuilt keeps numbers in its cursors.
LEMMA RestoredOK ==
  ASSUME NEW old, CursorsOK(old), NEW ids, IsFiniteSet(ids), NEW metas
  PROVE  CursorsOK(restored(old, ids, metas)) /\ restored(old, ids, metas).flat = sorted(ids)
<1> DEFINE v == restored(old, ids, metas)
<1>1. CASE ids = {}
  BY <1>1 DEF restored, EmptyView, IsView, CursorsOK, CurrentOK
<1>2. CASE ids # {}
  <2>1. /\ IsView(v) /\ v.flat = sorted(ids)
        /\ v.cursor = normalizeCursor(old.cursor, Cardinality(ids))
        /\ v.current = <<>> \/ v.current = old.current
    BY <1>2 DEF restored, IsView
  <2>2. v.cursor \in Nat
    BY <2>1, Normalized, FS_CardinalityType, Zenon DEF CursorsOK
  <2>3. CurrentOK(v)
    BY <2>1 DEF CursorsOK, CurrentOK
  <2> QED BY <2>1, <2>2, <2>3 DEF CursorsOK
<1> QED BY <1>1, <1>2

\* rebuildIndexes makes the views from the entries, whatever they were.
LEMMA RebuiltOK ==
  ASSUME NEW h, NEW entries, NEW metas, NEW p, EntriesOK(entries, metas, p),
         MapTo(metas, Metas), \A q \in Priorities : CursorsOK(h.ready[q])
  PROVE  /\ ShardOK(rebuildIndexes(h, entries, metas), metas, p)
         /\ rebuildIndexes(h, entries, metas).entries = entries
<1> DEFINE r == rebuildIndexes(h, entries, metas)
<1>1. /\ IsShard(r) /\ r.entries = entries
      /\ r.ready = [q \in Priorities |-> restored(h.ready[q], readyOf(entries, metas, q), metas)]
      /\ r.blocked = blockedOf(entries)
  BY DEF rebuildIndexes, IsShard, readyOf, blockedOf
<1> HIDE DEF r
<1>2. DOMAIN r.ready = Priorities
  BY <1>1
<1>3. ASSUME NEW q \in Priorities
      PROVE  CursorsOK(r.ready[q]) /\ r.ready[q].flat = sorted(readyOf(entries, metas, q))
  <2>1. readyOf(entries, metas, q) \subseteq DOMAIN metas
    BY DEF readyOf, EntriesOK, members
  <2>2. IsFiniteSet(readyOf(entries, metas, q))
    BY <2>1, MembersFinite
  <2>3. r.ready[q] = restored(h.ready[q], readyOf(entries, metas, q), metas)
    BY <1>1
  <2> QED BY <2>2, <2>3, RestoredOK
<1>4. ShardOK(r, metas, p)
  BY <1>1, <1>2, <1>3 DEF ShardOK
<1> QED BY <1>1, <1>4 DEF r

\* A shard depends on the priorities and the models of its own credentials.
LEMMA SameMetas ==
  ASSUME NEW h, NEW before, NEW after, NEW p, ShardOK(h, before, p),
         members(after, p) = members(before, p),
         \A a \in members(before, p) : after[a].priority = before[a].priority
  PROVE  ShardOK(h, after, p)
<1>1. EntriesOK(h.entries, after, p)
  BY DEF ShardOK, EntriesOK
<1>2. ASSUME NEW q PROVE readyOf(h.entries, after, q) = readyOf(h.entries, before, q)
  BY DEF readyOf, ShardOK, EntriesOK
<1> QED BY <1>1, <1>2 DEF ShardOK

\* upsertEntryLocked, whether it leaves the views alone or rebuilds them.
LEMMA UpsertOK ==
  ASSUME NEW h, NEW before, NEW a, NEW m, m.supported, NEW t \in 0..now,
         ShardOK(h, before, ProviderOf[a]), MapTo(put(before, a, m), Metas)
  PROVE  LET after == put(before, a, m)
             u == upsertEntry(h, a, before, after, t)
         IN  /\ ShardOK(u, after, ProviderOf[a])
             /\ u.entries = put(h.entries, a, evaluated(m, t))
<1> DEFINE p == ProviderOf[a]
           after == put(before, a, m)
           entry == evaluated(after[a], t)
           entries == put(h.entries, a, entry)
           u == upsertEntry(h, a, before, after, t)
<1>1. /\ DOMAIN after = DOMAIN before \cup {a} /\ after[a] = m
      /\ \A b \in DOMAIN before \ {a} : after[b] = before[b]
  BY DEF put
<1>2. entry.nextRetryAt > 0 => entry.state = "blocked"
  BY EvaluatedOK
<1>3. /\ DOMAIN entries = DOMAIN h.entries \cup {a} /\ entries[a] = entry
      /\ \A b \in DOMAIN h.entries \ {a} : entries[b] = h.entries[b]
  BY DEF put
<1>4. u = IF a \in DOMAIN h.entries /\ unchanged(h.entries[a], entry, before[a], after[a])
            THEN [h EXCEPT !.entries = entries]
            ELSE rebuildIndexes(h, entries, after)
  BY DEF upsertEntry
<1>5. entry = evaluated(m, t)
  BY <1>1
<1>6. MapTo(after, Metas)
  OBVIOUS
<1> HIDE DEF p, after, entry, entries, u
<1>7. EntriesOK(h.entries, before, p) /\ p = ProviderOf[a]
  BY DEF ShardOK, p
<1>8. members(after, p) = members(before, p) \cup {a}
  BY <1>1, <1>7 DEF members
<1>9. EntriesOK(entries, after, p)
  BY <1>2, <1>3, <1>7, <1>8 DEF EntriesOK
<1>10. ShardOK(u, after, p) /\ u.entries = entries
  <2>1. CASE a \in DOMAIN h.entries /\ unchanged(h.entries[a], entry, before[a], after[a])
    <3>1. h.entries[a] = entry /\ before[a].priority = after[a].priority
      BY <2>1 DEF unchanged
    <3>2. /\ DOMAIN entries = DOMAIN h.entries
          /\ \A b \in DOMAIN h.entries : entries[b] = h.entries[b]
      BY <1>3, <2>1, <3>1
    <3>3. ASSUME NEW q PROVE readyOf(entries, after, q) = readyOf(h.entries, before, q)
      <4>1. \A b \in DOMAIN h.entries : after[b].priority = before[b].priority
        BY <1>1, <1>7, <3>1 DEF EntriesOK, members
      <4> QED BY <3>2, <4>1 DEF readyOf
    <3>4. blockedOf(entries) = blockedOf(h.entries)
      BY <3>2 DEF blockedOf
    <3>5. IsShard(u) /\ u.entries = entries /\ u.ready = h.ready /\ u.blocked = h.blocked
      BY <1>4, <2>1 DEF ShardOK, IsShard
    <3> QED BY <1>9, <3>3, <3>4, <3>5 DEF ShardOK
  <2>2. CASE ~(a \in DOMAIN h.entries /\ unchanged(h.entries[a], entry, before[a], after[a]))
    <3>1. u = rebuildIndexes(h, entries, after)
      BY <1>4, <2>2
    <3>2. \A q \in Priorities : CursorsOK(h.ready[q])
      BY DEF ShardOK
    <3> QED BY <1>6, <1>9, <3>1, <3>2, RebuiltOK
  <2> QED BY <2>1, <2>2
<1> QED BY <1>5, <1>10 DEF u, after, p, entries

\* Taking an entry out; the credential itself goes or loses its models.
LEMMA RemoveOK ==
  ASSUME NEW h, NEW before, NEW after, NEW a, NEW p, ShardOK(h, before, p),
         MapTo(after, Metas), members(after, p) = members(before, p) \ {a},
         \A b \in DOMAIN before \ {a} : after[b] = before[b]
  PROVE  LET u == removeEntry(h, a, after)
         IN  /\ ShardOK(u, after, p)
             /\ u.entries = IF a \in DOMAIN h.entries THEN drop(h.entries, a) ELSE h.entries
<1>1. EntriesOK(h.entries, before, p) /\ \A q \in Priorities : CursorsOK(h.ready[q])
  BY DEF ShardOK
<1>2. CASE a \in DOMAIN h.entries
  <2> DEFINE entries == drop(h.entries, a)
  <2>1. /\ DOMAIN entries = DOMAIN h.entries \ {a}
        /\ \A b \in DOMAIN h.entries \ {a} : entries[b] = h.entries[b]
    BY DEF drop
  <2>2. removeEntry(h, a, after) = rebuildIndexes(h, entries, after)
    BY <1>2 DEF removeEntry
  <2> HIDE DEF entries
  <2>3. EntriesOK(entries, after, p)
    BY <1>1, <2>1 DEF EntriesOK
  <2>4. removeEntry(h, a, after).entries = entries
    BY <1>1, <2>2, <2>3, RebuiltOK
  <2> QED BY <1>1, <1>2, <2>2, <2>3, <2>4, RebuiltOK DEF entries
<1>3. CASE a \notin DOMAIN h.entries
  <2>1. removeEntry(h, a, after) = h
    BY <1>3 DEF removeEntry
  <2>2. members(after, p) = members(before, p)
    BY <1>1, <1>3 DEF EntriesOK
  <2>3. \A b \in members(before, p) : after[b].priority = before[b].priority
    BY <1>1, <1>3 DEF EntriesOK, members
  <2> QED BY <1>3, <2>1, <2>2, <2>3, SameMetas
<1> QED BY <1>2, <1>3

\* Promotion keeps fresh entries fresh, and leaves one ready exactly if its
\* time has come.
LEMMA PromotedOK ==
  ASSUME NEW h, NEW metas, NEW p, ShardOK(h, metas, p), MapTo(metas, Metas),
         now \in 0..MaxTime
  PROVE  LET u == promoteExpired(h, metas, now)
         IN  /\ ShardOK(u, metas, p)
             /\ \A a : FreshIn(h, metas, a, now) =>
                  /\ FreshIn(u, metas, a, now)
                  /\ a \in members(metas, p) =>
                       (u.entries[a].state = "ready" <=> metas[a].until <= now)
<1> DEFINE due == expired(h, now)
           entries == [a \in DOMAIN h.entries |->
                         IF a \in due THEN evaluated(metas[a], now) ELSE h.entries[a]]
           u == promoteExpired(h, metas, now)
<1>1. u = IF due = {} THEN h ELSE rebuildIndexes(h, entries, metas)
  BY DEF promoteExpired
<1>2. EntriesOK(entries, metas, p)
  BY EvaluatedOK DEF ShardOK, EntriesOK
<1>3. \A q \in Priorities : CursorsOK(h.ready[q])
  BY DEF ShardOK
<1>4. ShardOK(u, metas, p) /\ DOMAIN u.entries = DOMAIN h.entries
      /\ \A a \in DOMAIN h.entries : u.entries[a] = entries[a]
  <2>1. CASE due = {}
    BY <1>1, <2>1
  <2>2. CASE due # {}
    <3>1. u = rebuildIndexes(h, entries, metas)
      BY <1>1, <2>2
    <3> HIDE DEF u, due, entries
    <3>2. ShardOK(u, metas, p) /\ u.entries = entries
      BY <1>2, <1>3, <3>1, RebuiltOK
    <3> QED BY <3>2 DEF entries
  <2> QED BY <2>1, <2>2
<1>5. DOMAIN h.entries = members(metas, p) /\ h.blocked = blockedOf(h.entries)
  BY DEF ShardOK, EntriesOK
<1>6. ASSUME NEW a \in DOMAIN h.entries, FreshIn(h, metas, a, now)
      PROVE  /\ \E t \in 0..now : u.entries[a] = evaluated(metas[a], t)
             /\ u.entries[a].state = "ready" <=> metas[a].until <= now
  <2>1. PICK t \in 0..now : h.entries[a] = evaluated(metas[a], t)
    BY <1>6 DEF FreshIn
  <2>2. metas[a].until \in Nat /\ now \in Nat /\ t \in Nat /\ t <= now
        /\ MaxTime \in Nat /\ now <= MaxTime
    BY <1>5, SchedulerAssumption DEF members, MapTo, Metas
  <2>3. CASE a \in due
    <3>1. u.entries[a] = evaluated(metas[a], now)
      BY <1>4, <2>3, Zenon
    <3>2. metas[a].until <= now
      BY <2>1, <2>2, <2>3 DEF expired, evaluated, isAuthBlockedForModel, Forever
    <3> QED BY <2>2, <3>1, <3>2 DEF evaluated, isAuthBlockedForModel
  <2>4. CASE a \notin due
    <3>1. u.entries[a] = evaluated(metas[a], t)
      BY <1>4, <2>1, <2>4, Zenon
    <3>2. CASE metas[a].until <= t
      BY <2>2, <3>1, <3>2 DEF evaluated, isAuthBlockedForModel
    <3>3. CASE metas[a].until > t
      <4>1. u.entries[a].state = "blocked" /\ a \in h.blocked
        BY <1>5, <2>1, <2>2, <3>1, <3>3
        DEF evaluated, isAuthBlockedForModel, blockedOf
      <4>2. metas[a].until > now
        <5>1. CASE metas[a].until = Forever
          BY <2>2, <5>1 DEF Forever
        <5>2. CASE metas[a].until # Forever
          <6>1. h.entries[a].nextRetryAt = metas[a].until
            BY <2>1, <2>2, <3>3, <5>2 DEF evaluated, isAuthBlockedForModel
          <6>2. h.entries[a].nextRetryAt \notin 1..now
            BY <2>4, <4>1 DEF expired
          <6> QED BY <2>2, <3>3, <6>1, <6>2
        <5> QED BY <5>1, <5>2
      <4> QED BY <2>2, <3>1, <4>1, <4>2
    <3> QED BY <2>2, <3>2, <3>3
  <2> QED BY <2>3, <2>4
<1> HIDE DEF u, due, entries
<1>7. ASSUME NEW a, FreshIn(h, metas, a, now)
      PROVE  /\ FreshIn(u, metas, a, now)
             /\ a \in members(metas, p) =>
                  (u.entries[a].state = "ready" <=> metas[a].until <= now)
  BY <1>4, <1>5, <1>6, <1>7 DEF FreshIn
<1> QED BY <1>4, <1>7 DEF u

-----------------------------------------------------------------------------
(* The operations of authScheduler *)

\* removeAuthLocked.
LEMMA RemoveAuthOK ==
  ASSUME NEW s, SchedOK(s), NEW a
  PROVE  LET u == removeAuth(s, a)
         IN  /\ SchedOK(u) /\ u.strategy = s.strategy
             /\ u.metas = drop(s.metas, a)
             /\ \A b : Fresh(s, b, now) => Fresh(u, b, now)
<1> DEFINE k == ProviderOf[a]
           metas == drop(s.metas, a)
           shards == IF k \in DOMAIN s.shards
                       THEN [s.shards EXCEPT ![k] = removeEntry(s.shards[k], a, metas)]
                       ELSE s.shards
           u == removeAuth(s, a)
<1>1. /\ IsSched(u) /\ u.strategy = s.strategy /\ u.metas = metas /\ u.shards = shards
      /\ u.cursor = s.cursor /\ u.weighted = s.weighted
  BY Zenon DEF removeAuth, SchedOK, IsSched
<1>2. /\ DOMAIN metas = DOMAIN s.metas \ {a}
      /\ \A b \in DOMAIN s.metas \ {a} : metas[b] = s.metas[b]
  BY DEF drop
<1> HIDE DEF metas, u
<1>3. MapTo(metas, Metas)
  BY <1>2 DEF SchedOK, MapTo
<1>4. ASSUME NEW p \in DOMAIN s.shards
      PROVE  /\ ShardOK(shards[p], metas, p)
             /\ \A b \in DOMAIN shards[p].entries :
                  /\ b \in DOMAIN s.shards[p].entries
                  /\ shards[p].entries[b] = s.shards[p].entries[b]
                  /\ b # a /\ b \in DOMAIN s.metas
  <2>1. ShardOK(s.shards[p], s.metas, p)
    BY DEF SchedOK
  <2>2. DOMAIN s.shards[p].entries = members(s.metas, p)
    BY <2>1 DEF ShardOK, EntriesOK
  <2>3. members(metas, p) = members(s.metas, p) \ {a}
    BY <1>2 DEF members
  <2>4. CASE p = k
    <3>1. shards[p] = removeEntry(s.shards[p], a, metas)
      BY <2>4
    <3> HIDE DEF shards
    <3>2. \A b \in DOMAIN s.metas \ {a} : metas[b] = s.metas[b]
      BY <1>2
    <3>3. /\ ShardOK(shards[p], metas, p)
          /\ DOMAIN shards[p].entries = DOMAIN s.shards[p].entries \ {a}
          /\ \A b \in DOMAIN shards[p].entries : shards[p].entries[b] = s.shards[p].entries[b]
      <4> DEFINE r == removeEntry(s.shards[p], a, metas)
      <4>1. ShardOK(r, metas, p)
        BY <1>3, <2>1, <2>3, <3>2, RemoveOK
      <4>2. r.entries = IF a \in DOMAIN s.shards[p].entries
                          THEN drop(s.shards[p].entries, a) ELSE s.shards[p].entries
        BY <1>3, <2>1, <2>3, <3>2, <4>1, RemoveOK
      <4> QED BY <3>1, <4>1, <4>2 DEF drop
    <3> QED BY <2>2, <3>3 DEF members
  <2>5. CASE p # k
    <3>1. shards[p] = s.shards[p] /\ a \notin members(s.metas, p)
      BY <2>5 DEF members
    <3>2. \A b \in members(s.metas, p) : metas[b].priority = s.metas[b].priority
      BY <1>2, <3>1 DEF members
    <3>3. ShardOK(s.shards[p], metas, p)
      BY <2>1, <2>3, <3>1, <3>2, SameMetas, Zenon
    <3> QED BY <2>2, <3>1, <3>3 DEF members
  <2> QED BY <2>4, <2>5
<1>5. DOMAIN shards = DOMAIN s.shards
  OBVIOUS
<1> HIDE DEF shards
<1>6. SchedOK(u)
  BY <1>1, <1>3, <1>4, <1>5 DEF SchedOK
<1>7. ASSUME NEW b, Fresh(s, b, now) PROVE Fresh(u, b, now)
  BY <1>1, <1>2, <1>4, <1>5, <1>7 DEF Fresh, FreshIn
<1> QED BY <1>1, <1>6, <1>7 DEF u, metas

\* What is published of a credential is in the shard at once.
LEMMA UpsertAuthOK ==
  ASSUME NEW s, SchedOK(s), NEW a \in Auths, NEW c \in Creds, NEW live \in BOOLEAN,
         now \in 0..MaxTime
  PROVE  LET u == upsertAuth(s, a, c, live)
         IN  /\ SchedOK(u) /\ u.strategy = s.strategy
             /\ u.metas = IF c.disabled THEN drop(s.metas, a) ELSE put(s.metas, a, meta(a, c, live))
             /\ Fresh(u, a, now)
             /\ \A b : Fresh(s, b, now) => Fresh(u, b, now)
<1> DEFINE k == ProviderOf[a]
           m == meta(a, c, live)
           metas == put(s.metas, a, m)
           shard == s.shards[k]
           changed == IF a \in supports THEN upsertEntry(shard, a, s.metas, metas, now)
                                         ELSE removeEntry(shard, a, metas)
           shards == IF k \notin DOMAIN s.shards THEN s.shards
                     ELSE [s.shards EXCEPT ![k] = changed]
           u == upsertAuth(s, a, c, live)
<1>1. CASE c.disabled
  <2>1. u = removeAuth(s, a)
    BY <1>1 DEF upsertAuth
  <2> HIDE DEF u
  <2>2. SchedOK(u) /\ u.strategy = s.strategy /\ u.metas = drop(s.metas, a)
    BY <2>1, RemoveAuthOK
  <2>3. \A b : Fresh(s, b, now) => Fresh(u, b, now)
    BY <2>1, RemoveAuthOK
  <2>4. Fresh(u, a, now)
    <3>1. a \notin DOMAIN u.metas
      BY <2>2 DEF drop
    <3> QED BY <2>2, <3>1 DEF Fresh, FreshIn, SchedOK, ShardOK, EntriesOK, members
  <2> QED BY <1>1, <2>2, <2>3, <2>4 DEF u
<1>2. CASE ~c.disabled
  <2>1. /\ IsSched(u) /\ u.strategy = s.strategy /\ u.metas = metas /\ u.shards = shards
        /\ u.cursor = s.cursor /\ u.weighted = s.weighted
    BY <1>2, Zenon DEF upsertAuth, SchedOK, IsSched
  <2>2. /\ DOMAIN metas = DOMAIN s.metas \cup {a} /\ metas[a] = m
        /\ \A b \in DOMAIN s.metas \ {a} : metas[b] = s.metas[b]
    BY DEF put
  <2>3. m \in Metas /\ m.supported = (a \in supports)
    BY MetaType
  <2> HIDE DEF m
  <2>4. MapTo(metas, Metas)
    BY <2>2, <2>3, SMTT(30) DEF SchedOK, MapTo
  <2>5. ASSUME k \in DOMAIN s.shards
        PROVE  /\ ShardOK(changed, metas, k)
               /\ DOMAIN changed.entries \subseteq DOMAIN s.shards[k].entries \cup {a}
               /\ \A b \in DOMAIN changed.entries \ {a} :
                    changed.entries[b] = s.shards[k].entries[b]
               /\ a \in DOMAIN changed.entries => changed.entries[a] = evaluated(m, now)
    <3>1. ShardOK(shard, s.metas, k)
      BY <2>5 DEF SchedOK
    <3>2. CASE a \in supports
      <4>1. changed = upsertEntry(shard, a, s.metas, metas, now) /\ m.supported
        BY <2>3, <3>2, Zenon
      <4>2. now \in 0..now
        OBVIOUS
      <4> HIDE DEF changed
      <4>3. ShardOK(changed, metas, k) /\ changed.entries = put(shard.entries, a, evaluated(m, now))
        BY <2>4, <3>1, <4>1, <4>2, UpsertOK
      <4> QED BY <4>3 DEF put
    <3>3. CASE a \notin supports
      <4>1. changed = removeEntry(shard, a, metas) /\ ~m.supported
        BY <2>3, <3>3, Zenon
      <4> HIDE DEF changed, metas
      <4>2. members(metas, k) = members(s.metas, k) \ {a}
        BY <2>2, <4>1 DEF members
      <4>3. \A b \in DOMAIN s.metas \ {a} : metas[b] = s.metas[b]
        BY <2>2, SMTT(30)
      <4>4. /\ ShardOK(changed, metas, k)
            /\ DOMAIN changed.entries = DOMAIN shard.entries \ {a}
            /\ \A b \in DOMAIN changed.entries : changed.entries[b] = shard.entries[b]
        <5> DEFINE r == removeEntry(shard, a, metas)
        <5>1. ShardOK(r, metas, k)
          BY <2>4, <3>1, <4>2, <4>3, RemoveOK
        <5>2. r.entries = IF a \in DOMAIN shard.entries THEN drop(shard.entries, a)
                                                        ELSE shard.entries
          BY <2>4, <3>1, <4>2, <4>3, <5>1, RemoveOK
        <5> QED BY <4>1, <5>1, <5>2 DEF drop
      <4> QED BY <4>4
    <3> QED BY <3>2, <3>3
  <2> HIDE DEF metas, u, changed
  <2>6. ASSUME NEW p \in DOMAIN s.shards
        PROVE  /\ ShardOK(shards[p], metas, p)
               /\ DOMAIN shards[p].entries \subseteq DOMAIN s.shards[p].entries \cup {a}
               /\ \A b \in DOMAIN shards[p].entries \ {a} :
                    /\ shards[p].entries[b] = s.shards[p].entries[b]
                    /\ b \in DOMAIN s.metas
               /\ a \in DOMAIN shards[p].entries => shards[p].entries[a] = evaluated(m, now)
    <3>1. ShardOK(s.shards[p], s.metas, p)
      BY DEF SchedOK
    <3>2. DOMAIN s.shards[p].entries = members(s.metas, p)
      BY <3>1 DEF ShardOK, EntriesOK
    <3>3. CASE p = k
      <4>1. shards[p] = changed
        BY <3>3
      <4> QED BY <2>5, <3>2, <3>3, <4>1 DEF members
    <3>4. CASE p # k
      <4>1. shards[p] = s.shards[p] /\ a \notin members(s.metas, p)
        BY <3>4 DEF members
      <4>2. members(metas, p) = members(s.metas, p)
        BY <2>2, <3>4 DEF members
      <4>3. \A b \in members(s.metas, p) : metas[b].priority = s.metas[b].priority
        BY <2>2, <4>1 DEF members
      <4>4. ShardOK(s.shards[p], metas, p)
        BY <3>1, <4>2, <4>3, SameMetas
      <4> QED BY <3>2, <4>1, <4>4 DEF members
    <3> QED BY <3>3, <3>4
  <2>7. DOMAIN shards = DOMAIN s.shards
    OBVIOUS
  <2> HIDE DEF shards
  <2>8. SchedOK(u)
    BY <2>1, <2>4, <2>6, <2>7 DEF SchedOK
  <2>9. now \in 0..now
    OBVIOUS
  <2>10. Fresh(u, a, now)
    BY <2>1, <2>2, <2>6, <2>7, <2>9 DEF Fresh, FreshIn
  <2>11. ASSUME NEW b, b # a, Fresh(s, b, now) PROVE Fresh(u, b, now)
    <3>1. ASSUME NEW p \in DOMAIN s.shards, b \in DOMAIN shards[p].entries
          PROVE  /\ b \in DOMAIN s.shards[p].entries
                 /\ shards[p].entries[b] = s.shards[p].entries[b]
                 /\ metas[b] = s.metas[b]
      BY <2>2, <2>6, <2>11, <3>1
    <3> QED BY <2>1, <2>7, <2>11, <3>1 DEF Fresh, FreshIn
  <2> QED BY <1>2, <2>1, <2>8, <2>10, <2>11 DEF u, metas, m
<1> QED BY <1>1, <1>2

\* A rebuild has no shards, and so none that is out of date.
LEMMA RebuildOK ==
  ASSUME NEW s, s.strategy \in Strategies, NEW snapshot, MapTo(snapshot, Creds)
  PROVE  LET u == rebuild(s, snapshot)
         IN  /\ SchedOK(u) /\ u.strategy = s.strategy
             /\ \A b : Fresh(u, b, now)
<1> DEFINE u == rebuild(s, snapshot)
           ids == {b \in DOMAIN snapshot : ~snapshot[b].disabled}
           metas == [a \in ids |-> meta(a, snapshot[a], FALSE)]
<1>1. /\ IsSched(u) /\ u.strategy = s.strategy /\ u.metas = metas /\ u.shards = <<>>
      /\ u.cursor = [r \in Routes |-> 0]
      /\ u.weighted = [r \in Routes |-> [current |-> <<>>, weights |-> <<>>]]
  BY Zenon DEF rebuild, NewScheduler, IsSched
<1> HIDE DEF u
<1>2. \A a \in ids : a \in Auths /\ metas[a] = meta(a, snapshot[a], FALSE) /\ metas[a] \in Metas
  BY MetaType, Zenon DEF MapTo
<1>3. DOMAIN u.shards = {}
  BY <1>1
<1>4. DOMAIN metas = ids
  OBVIOUS
<1> HIDE DEF metas
<1>5. u.cursor \in [Routes -> Nat]
  BY <1>1
<1>6. DOMAIN u.weighted = Routes /\ \A r \in Routes : CurrentOK(u.weighted[r])
  BY <1>1 DEF CurrentOK
<1>7. MapTo(u.metas, Metas)
  BY <1>1, <1>2, <1>4, Zenon DEF MapTo
<1>8. SchedOK(u)
  BY <1>1, <1>3, <1>5, <1>6, <1>7 DEF SchedOK
<1>9. \A b : Fresh(u, b, now)
  BY <1>3 DEF Fresh
<1> QED BY <1>1, <1>2, <1>4, <1>8, <1>9 DEF u

\* A write to the object the scheduler holds leaves priority and models alone.
LEMMA SharedWriteOK ==
  ASSUME NEW s, SchedOK(s), NEW a \in DOMAIN s.metas, NEW m \in Metas,
         m.supported = s.metas[a].supported, m.priority = s.metas[a].priority
  PROVE  LET u == [s EXCEPT !.metas[a] = m]
         IN  /\ SchedOK(u) /\ u.strategy = s.strategy
             /\ u.shards = s.shards
             /\ u.metas = [s.metas EXCEPT ![a] = m]
             /\ \A b : b # a /\ Fresh(s, b, now) => Fresh(u, b, now)
<1> DEFINE metas == [s.metas EXCEPT ![a] = m]
           u == [s EXCEPT !.metas[a] = m]
<1>1. /\ IsSched(u) /\ u.strategy = s.strategy /\ u.metas = metas /\ u.shards = s.shards
      /\ u.cursor = s.cursor /\ u.weighted = s.weighted
  BY DEF SchedOK, IsSched
<1> HIDE DEF u
<1>2. DOMAIN metas = DOMAIN s.metas /\ metas[a] = m
      /\ \A b \in DOMAIN s.metas \ {a} : metas[b] = s.metas[b]
  OBVIOUS
<1> HIDE DEF metas
<1>3. MapTo(metas, Metas)
  BY <1>2 DEF SchedOK, MapTo
<1>4. \A p : members(metas, p) = members(s.metas, p)
  BY <1>2 DEF members
<1>5. ASSUME NEW p \in DOMAIN s.shards PROVE ShardOK(s.shards[p], metas, p)
  <2>1. ShardOK(s.shards[p], s.metas, p)
    BY DEF SchedOK
  <2>2. \A b \in members(s.metas, p) : metas[b].priority = s.metas[b].priority
    BY <1>2 DEF members
  <2> QED BY <1>4, <2>1, <2>2, SameMetas
<1>6. SchedOK(u)
  BY <1>1, <1>3, <1>5 DEF SchedOK
<1>7. ASSUME NEW b, b # a, Fresh(s, b, now) PROVE Fresh(u, b, now)
  <2>1. ASSUME NEW p \in DOMAIN s.shards, b \in DOMAIN s.shards[p].entries
        PROVE  metas[b] = s.metas[b]
    BY <1>2, <1>7, <2>1 DEF SchedOK, ShardOK, EntriesOK, members
  <2> QED BY <1>1, <1>7, <2>1 DEF Fresh, FreshIn
<1> QED BY <1>1, <1>6, <1>7 DEF u, metas

-----------------------------------------------------------------------------
(* Picks *)

LEMMA Remainder ==
  ASSUME NEW n \in Nat \ {0}, NEW x \in Nat, NEW d \in Nat, NEW r \in 0..(n - 1), x = n * d + r
  PROVE  x % n = r
<1> DEFINE e == x \div n
           t == x % n
<1>1. e \in Nat /\ t \in 0..(n - 1) /\ x = n * e + t
  OBVIOUS
<1> HIDE DEF e, t
<1>2. n * (d - e) = t - r
  BY <1>1
<1>3. CASE d - e >= 1
  <2>1. n * (d - e) >= n * 1
    BY <1>1, <1>3
  <2> QED BY <1>1, <1>2, <2>1
<1>4. CASE d - e <= -1
  <2>1. n * (e - d) >= n * 1
    BY <1>1, <1>4
  <2>2. n * (e - d) = r - t
    BY <1>1
  <2> QED BY <1>1, <2>1, <2>2
<1>5. CASE d = e
  BY <1>1, <1>2, <1>5 DEF t
<1> QED BY <1>1, <1>3, <1>4, <1>5

\* A round from any cursor comes by every position.
LEMMA RoundReaches ==
  ASSUME NEW c \in Nat, NEW n \in Nat \ {0}, NEW j \in 0..(n - 1)
  PROVE  \E k \in 0..(n - 1) : (c + k) % n = j
<1> DEFINE d == c \div n
           m == c % n
<1>1. d \in Nat /\ m \in 0..(n - 1) /\ c = n * d + m
  OBVIOUS
<1> HIDE DEF d, m
<1>2. CASE j >= m
  <2>1. j - m \in 0..(n - 1) /\ c + (j - m) \in Nat /\ c + (j - m) = n * d + j
    BY <1>1, <1>2
  <2>2. (c + (j - m)) % n = j
    BY <1>1, <2>1, Remainder
  <2> QED BY <2>1, <2>2
<1>3. CASE j < m
  <2> DEFINE k == j + n - m
  <2>1. n * (d + 1) = n * d + n
    BY <1>1
  <2>2. k \in 0..(n - 1) /\ c + k \in Nat /\ c + k = n * (d + 1) + j /\ d + 1 \in Nat
    BY <1>1, <1>3, <2>1
  <2> HIDE DEF k
  <2>3. (c + k) % n = j
    BY <2>2, Remainder, Zenon
  <2> QED BY <2>2, <2>3, Zenon
<1> QED BY <1>1, <1>2, <1>3

\* Round robin finds an eligible entry of the view wherever the cursor is.
LEMMA PickRoundRobinOK ==
  ASSUME NEW v, CursorsOK(v), NEW S, IsFiniteSet(S), S \subseteq Int, v.flat = sorted(S),
         NEW ok, S \cap ok # {}
  PROVE  LET r == pickRoundRobin(v, ok)
         IN  /\ r.picked \in S \cap ok
             /\ CursorsOK(r.view) /\ r.view.flat = v.flat
<1> DEFINE n == Len(v.flat)
           index(k) == (v.cursor + k) % n
           hit(k) == v.flat[index(k) + 1] \in ok
           T == {k \in 0..(n - 1) : hit(k)}
           r == pickRoundRobin(v, ok)
<1>1. n \in Nat /\ DOMAIN v.flat = 1..n /\ ToSet(v.flat) = S /\ v.cursor \in Nat
  BY SortedSet DEF CursorsOK
<1>2. PICK i \in 1..n : v.flat[i] \in ok
  BY <1>1 DEF ToSet
<1> HIDE DEF n
<1>3. n \in Nat \ {0} /\ i - 1 \in 0..(n - 1) /\ i \in Int
  BY <1>1, <1>2
<1>4. PICK k0 \in 0..(n - 1) : index(k0) = i - 1
  BY <1>1, <1>3, RoundReaches, Zenon
<1>5. T # {} /\ T \subseteq Nat
  <2>1. index(k0) + 1 = i
    BY <1>3, <1>4
  <2>2. hit(k0)
    BY <1>2, <2>1
  <2>3. 0..(n - 1) \subseteq Nat
    BY <1>3
  <2> QED BY <2>2, <2>3
<1>6. PICK k1 \in T : \A j \in T : k1 <= j
  BY <1>5, Least, Zenon
<1>7. k1 \in 0..(n - 1) /\ hit(k1) /\ \A j \in 0..(k1 - 1) : ~hit(j)
  <2>1. k1 \in 0..(n - 1) /\ hit(k1)
    BY <1>6
  <2>2. ASSUME NEW j \in 0..(k1 - 1), hit(j) PROVE FALSE
    <3>1. j \in T /\ j < k1 /\ j \in Int /\ k1 \in Int
      BY <1>3, <2>1, <2>2
    <3> QED BY <1>6, <3>1
  <2> QED BY <2>1, <2>2
<1> DEFINE k == CHOOSE k \in 0..(n - 1) : hit(k) /\ \A j \in 0..(k - 1) : ~hit(j)
<1>8. k \in 0..(n - 1) /\ hit(k)
  BY <1>7
<1>9. r = [picked |-> v.flat[index(k) + 1], view |-> [v EXCEPT !.cursor = index(k) + 1]]
  BY DEF pickRoundRobin, n
<1> HIDE DEF k
<1>10. index(k) \in 0..(n - 1)
  <2> DEFINE x == v.cursor + k
  <2>1. k \in 0..(n - 1)
    BY <1>8
  <2>2. v.cursor \in Nat
    BY <1>1
  <2>3. x \in Nat
    BY <1>3, <2>1, <2>2
  <2> HIDE DEF x
  <2>4. x % n \in 0..(n - 1)
    BY <1>3, <2>3
  <2> QED BY <2>4 DEF x
<1>11. index(k) + 1 \in 1..n
  BY <1>3, <1>10
<1>12. v.flat[index(k) + 1] \in S /\ v.flat[index(k) + 1] \in ok
  BY <1>1, <1>8, <1>11 DEF ToSet
<1> DEFINE c == index(k) + 1
<1>13. c \in Nat
  BY <1>11, <1>3
<1> HIDE DEF c
<1>14. r.picked \in S \cap ok /\ r.view = [v EXCEPT !.cursor = c]
  BY <1>9, <1>12 DEF c
<1> HIDE DEF r
<1>15. /\ IsView(r.view) /\ r.view.cursor = c /\ r.view.flat = v.flat
       /\ r.view.current = v.current
  BY <1>14 DEF CursorsOK, IsView
<1>16. CursorsOK(r.view)
  BY <1>13, <1>15 DEF CursorsOK, CurrentOK
<1> QED BY <1>14, <1>15, <1>16 DEF r

\* Fill-first finds the first eligible entry.
LEMMA PickFirstOK ==
  ASSUME NEW S, IsFiniteSet(S), S \subseteq Int, NEW ok, S \cap ok # {}
  PROVE  pickFirst(sorted(S), ok) \in S \cap ok
<1> DEFINE flat == sorted(S)
           n == Cardinality(S)
           T == {i \in 1..n : flat[i] \in ok}
<1>1. n \in Nat /\ DOMAIN flat = 1..n /\ ToSet(flat) = S
  BY SortedSet, Zenon
<1> HIDE DEF n, flat
<1>2. T # {} /\ T \subseteq 1..n
  BY <1>1 DEF ToSet
<1>3. PICK i \in 1..n : i \in T /\ \A j \in 1..(i - 1) : j \notin T
  BY <1>1, <1>2, First, ZenonT(40)
<1>4. \A j \in 1..(i - 1) : j \in 1..n
  BY <1>1
<1>5. flat[i] \in ok /\ \A j \in 1..(i - 1) : flat[j] \notin ok
  BY <1>3, <1>4
<1> DEFINE first == CHOOSE x \in DOMAIN flat :
                      flat[x] \in ok /\ \A j \in 1..(x - 1) : flat[j] \notin ok
<1>6. first \in 1..n /\ flat[first] \in ok
  BY <1>1, <1>5
<1>7. pickFirst(flat, ok) = flat[first]
  BY DEF pickFirst
<1> HIDE DEF first
<1>8. flat[first] \in S
  BY <1>1, <1>6 DEF ToSet
<1> QED BY <1>6, <1>7, <1>8 DEF flat

\* The greatest value, and of those who have it the first.
LEMMA LexMax ==
  ASSUME NEW ids, IsFiniteSet(ids), ids \subseteq Nat, ids # {},
         NEW f, \A a \in ids : f[a] \in Int
  PROVE  \E a \in ids : \A b \in ids \ {a} : f[a] > f[b] \/ (f[a] = f[b] /\ a < b)
<1> DEFINE V == {f[a] : a \in ids}
           g == [a \in ids |-> f[a]]
<1>1. g \in Surjection(ids, V)
  BY Zenon DEF Surjection
<1>2. IsFiniteSet(V) /\ V \subseteq Int /\ V # {}
  BY <1>1, FS_Surjection, Zenon
<1>3. Max(V) \in V /\ \A y \in V : Max(V) >= y
  BY <1>2, FiniteMax, Zenon
<1>4. PICK top \in Int : (\E a \in ids : f[a] = top) /\ \A a \in ids : top >= f[a]
  BY <1>3, Zenon
<1> DEFINE T == {a \in ids : f[a] = top}
<1>5. T # {} /\ T \subseteq Nat
  BY <1>4, Zenon
<1>6. PICK a \in T : \A b \in T : a <= b
  BY <1>5, Least, Zenon
<1>7. a \in ids /\ f[a] = top /\ a \in Nat
  BY <1>6
<1>8. ASSUME NEW b \in ids \ {a} PROVE f[a] > f[b] \/ (f[a] = f[b] /\ a < b)
  <2>1. f[b] \in Int /\ b \in Nat /\ a # b /\ f[b] <= top
    BY <1>4
  <2>2. CASE f[b] = top
    <3>1. a <= b
      BY <1>6, <2>2
    <3> QED BY <1>7, <2>1, <2>2, <3>1
  <2>3. CASE f[b] # top
    <3>1. f[b] < top
      BY <1>4, <2>1, <2>3
    <3> QED BY <1>4, <1>7, <2>1, <3>1
  <2> QED BY <2>2, <2>3
<1> QED BY <1>7, <1>8

\* The weighted pick is one of the entries it is given.
LEMMA PickSmoothWeightedOK ==
  ASSUME NEW state, CurrentOK(state), NEW ids, IsFiniteSet(ids), ids \subseteq Auths, ids # {},
         NEW metas, \A a \in ids : metas[a].weight \in Nat
  PROVE  LET r == pickSmoothWeighted(state, ids, metas)
         IN  r.picked \in ids /\ CurrentOK(r.state)
<1> DEFINE weights == weightVector(ids, metas)
           before(a) == IF state.weights = weights /\ a \in DOMAIN state.current
                          THEN state.current[a] ELSE 0
           current == [a \in ids |-> before(a) + metas[a].weight]
           picked == CHOOSE a \in ids : \A b \in ids \ {a} :
                       \/ current[a] > current[b]
                       \/ current[a] = current[b] /\ a < b
           total == Cardinality(turns(weights))
           r == pickSmoothWeighted(state, ids, metas)
<1>1. r = [picked |-> picked,
           state |-> [current |-> [current EXCEPT ![picked] = @ - total], weights |-> weights]]
  BY DEF pickSmoothWeighted
<1>2. DOMAIN weights \in SUBSET ids /\ \A a \in DOMAIN weights : weights[a] \in Nat
  BY DEF weightVector
<1> HIDE DEF weights
<1>3. total \in Nat
  <2>1. IsFiniteSet(DOMAIN weights)
    BY <1>2, FS_Subset
  <2> QED BY <1>2, <2>1, TurnsFinite
<1>4. ASSUME NEW a \in ids PROVE before(a) \in Int
  BY DEF CurrentOK
<1>5. DOMAIN current = ids
  OBVIOUS
<1>6. \A a \in ids : current[a] \in Int
  BY <1>4
<1> HIDE DEF current, total
<1>7. ids \subseteq Nat
  BY SchedulerAssumption DEF Auths
<1>8. picked \in ids
  <2>1. \E a \in ids : \A b \in ids \ {a} :
          current[a] > current[b] \/ (current[a] = current[b] /\ a < b)
    BY <1>6, <1>7, LexMax, Zenon
  <2> QED BY <2>1
<1> HIDE DEF picked, r
<1>9. r.picked = picked /\ r.state.current = [current EXCEPT ![picked] = @ - total]
  BY <1>1, Zenon
<1>10. ASSUME NEW a \in DOMAIN r.state.current PROVE r.state.current[a] \in Int
  BY <1>3, <1>5, <1>6, <1>8, <1>9
<1> QED BY <1>8, <1>9, <1>10 DEF r, CurrentOK

\* What a pick leaves alone.
Keeps(s, u) ==
  /\ SchedOK(u) /\ u.strategy = s.strategy /\ u.metas = s.metas
  /\ \A b : Fresh(s, b, now) => Fresh(u, b, now)

\* The ready entries of a shard.
LEMMA ReadySet ==
  ASSUME NEW s, SchedOK(s), NEW p, NEW q \in Priorities
  PROVE  /\ p \in DOMAIN s.shards =>
              LET S == readyOf(s.shards[p].entries, s.metas, q)
              IN  /\ S \subseteq members(s.metas, p) /\ S \subseteq Auths
                  /\ IsFiniteSet(S) /\ S \subseteq Int
                  /\ s.shards[p].ready[q].flat = sorted(S) /\ CursorsOK(s.shards[p].ready[q])
                  /\ ToSet(readyAt(s, p, q)) = S
         /\ p \notin DOMAIN s.shards => ToSet(readyAt(s, p, q)) = {}
<1>1. ASSUME p \notin DOMAIN s.shards PROVE ToSet(readyAt(s, p, q)) = {}
  BY <1>1 DEF readyAt, ToSet
<1>2. ASSUME p \in DOMAIN s.shards
      PROVE  LET S == readyOf(s.shards[p].entries, s.metas, q)
             IN  /\ S \subseteq members(s.metas, p) /\ S \subseteq Auths
                 /\ IsFiniteSet(S) /\ S \subseteq Int
                 /\ s.shards[p].ready[q].flat = sorted(S) /\ CursorsOK(s.shards[p].ready[q])
                 /\ ToSet(readyAt(s, p, q)) = S
  <2> DEFINE S == readyOf(s.shards[p].entries, s.metas, q)
  <2>1. ShardOK(s.shards[p], s.metas, p) /\ MapTo(s.metas, Metas)
    BY <1>2 DEF SchedOK
  <2>2. S \subseteq members(s.metas, p) /\ S \subseteq DOMAIN s.metas
    BY <2>1 DEF readyOf, ShardOK, EntriesOK, members
  <2>3. IsFiniteSet(S) /\ S \subseteq Auths /\ S \subseteq Int
    BY <2>1, <2>2, MembersFinite
  <2>4. s.shards[p].ready[q].flat = sorted(S) /\ CursorsOK(s.shards[p].ready[q])
    BY <2>1 DEF ShardOK
  <2> HIDE DEF S
  <2>5. readyAt(s, p, q) = sorted(S)
    BY <1>2, <2>4 DEF readyAt
  <2>6. ToSet(sorted(S)) = S
    BY <2>3, SortedSet, Zenon
  <2> QED BY <2>2, <2>3, <2>4, <2>5, <2>6 DEF S
<1> QED BY <1>1, <1>2

\* Turning a view round keeps all the rest.
LEMMA TurnedOK ==
  ASSUME NEW s, SchedOK(s), NEW p \in DOMAIN s.shards, NEW q \in Priorities,
         NEW v, CursorsOK(v), v.flat = s.shards[p].ready[q].flat
  PROVE  LET u == [s EXCEPT !.shards[p].ready[q] = v]
         IN  Keeps(s, u)
<1> DEFINE h == s.shards[p]
           g == [h EXCEPT !.ready[q] = v]
           shards == [s.shards EXCEPT ![p] = g]
           u == [s EXCEPT !.shards[p].ready[q] = v]
<1>1. /\ IsSched(u) /\ u.strategy = s.strategy /\ u.metas = s.metas /\ u.shards = shards
      /\ u.cursor = s.cursor /\ u.weighted = s.weighted
  BY DEF SchedOK, IsSched
<1>2. ShardOK(h, s.metas, p)
  BY DEF SchedOK
<1> HIDE DEF u
<1>3. /\ IsShard(g) /\ g.entries = h.entries /\ g.blocked = h.blocked
      /\ g.ready = [h.ready EXCEPT ![q] = v]
  BY <1>2 DEF ShardOK, IsShard
<1> HIDE DEF g
<1>4. DOMAIN g.ready = Priorities
  BY <1>2, <1>3 DEF ShardOK
<1>5. ASSUME NEW x \in Priorities
      PROVE  CursorsOK(g.ready[x]) /\ g.ready[x].flat = sorted(readyOf(g.entries, s.metas, x))
  BY <1>2, <1>3 DEF ShardOK
<1>6. ShardOK(g, s.metas, p)
  BY <1>2, <1>3, <1>4, <1>5 DEF ShardOK
<1>7. DOMAIN shards = DOMAIN s.shards /\ shards[p] = g
      /\ \A x \in DOMAIN s.shards \ {p} : shards[x] = s.shards[x]
  OBVIOUS
<1> HIDE DEF shards
<1>8. SchedOK(u)
  BY <1>1, <1>6, <1>7 DEF SchedOK
<1>9. \A x \in DOMAIN s.shards : shards[x].entries = s.shards[x].entries
  BY <1>3, <1>7
<1>10. ASSUME NEW b, Fresh(s, b, now) PROVE Fresh(u, b, now)
  BY <1>1, <1>7, <1>9, <1>10 DEF Fresh, FreshIn
<1> QED BY <1>1, <1>8, <1>10 DEF Keeps, u

\* What pickReadyAtPriority finds is ready and eligible.
LEMMA PickAtOK ==
  ASSUME NEW s, SchedOK(s), NEW p, NEW q \in Priorities,
         NEW ok, ok \subseteq DOMAIN s.metas, ToSet(readyAt(s, p, q)) \cap ok # {},
         NEW strategy \in {"rr", "fill", "weighted"}
  PROVE  LET r == pickAt(s, p, q, ok, strategy)
         IN  r.picked \in ToSet(readyAt(s, p, q)) \cap ok /\ Keeps(s, r.s)
<1> DEFINE S == readyOf(s.shards[p].entries, s.metas, q)
           view == s.shards[p].ready[q]
           rr == pickRoundRobin(view, ok)
           sw == pickSmoothWeighted(view, ToSet(view.flat) \cap ok, s.metas)
           r == pickAt(s, p, q, ok, strategy)
<1>1. p \in DOMAIN s.shards
  BY ReadySet
<1>2. /\ S \subseteq Auths /\ IsFiniteSet(S) /\ S \subseteq Int
      /\ view.flat = sorted(S) /\ CursorsOK(view) /\ ToSet(readyAt(s, p, q)) = S
  BY <1>1, ReadySet
<1>3. ToSet(view.flat) = S /\ S \cap ok # {}
  BY <1>2, SortedSet
<1> HIDE DEF S, view
<1>4. CASE strategy = "rr"
  <2>1. r = [picked |-> rr.picked, s |-> [s EXCEPT !.shards[p].ready[q] = rr.view]]
    BY <1>4 DEF pickAt, view
  <2>2. rr.picked \in S \cap ok /\ CursorsOK(rr.view) /\ rr.view.flat = view.flat
    BY <1>2, <1>3, PickRoundRobinOK, Zenon
  <2> HIDE DEF rr, r
  <2>3. Keeps(s, [s EXCEPT !.shards[p].ready[q] = rr.view])
    BY <1>1, <2>2, TurnedOK DEF view
  <2> QED BY <1>2, <2>1, <2>2, <2>3 DEF r
<1>5. CASE strategy = "weighted"
  <2> DEFINE turned == [view EXCEPT !.current = sw.state.current, !.weights = sw.state.weights]
  <2>1. r = [picked |-> sw.picked, s |-> [s EXCEPT !.shards[p].ready[q] = turned]]
    <3>1. [s EXCEPT !.shards[p].ready[q] =
             [@ EXCEPT !.current = sw.state.current, !.weights = sw.state.weights]]
            = [s EXCEPT !.shards[p].ready[q] = turned]
      BY DEF view
    <3> QED BY <1>5, <3>1 DEF pickAt, view
  <2>2. sw.picked \in S \cap ok /\ CurrentOK(sw.state)
    <3>1. CurrentOK(view)
      BY <1>2 DEF CursorsOK
    <3>2. S \cap ok \in SUBSET S /\ S \cap ok \subseteq Auths
      BY <1>2, Zenon
    <3>3. IsFiniteSet(S \cap ok)
      BY <1>2, <3>2, FS_Subset
    <3>4. \A a \in S \cap ok : s.metas[a].weight \in Nat
      BY DEF SchedOK, MapTo, Metas
    <3>5. sw = pickSmoothWeighted(view, S \cap ok, s.metas)
      BY <1>3
    <3> HIDE DEF sw
    <3> QED BY <1>3, <3>1, <3>2, <3>3, <3>4, <3>5, PickSmoothWeightedOK
  <2> HIDE DEF sw
  <2>3. IsView(turned) /\ turned.flat = view.flat /\ turned.cursor = view.cursor
        /\ turned.current = sw.state.current
    BY <1>2, Zenon DEF CursorsOK, IsView
  <2> HIDE DEF r, turned
  <2>4. CursorsOK(turned)
    BY <1>2, <2>2, <2>3 DEF CursorsOK, CurrentOK
  <2>5. Keeps(s, [s EXCEPT !.shards[p].ready[q] = turned])
    BY <1>1, <2>3, <2>4, TurnedOK DEF view
  <2> QED BY <1>2, <2>1, <2>2, <2>5 DEF r
<1>6. CASE strategy = "fill"
  <2>1. r = [picked |-> pickFirst(view.flat, ok), s |-> s]
    BY <1>6 DEF pickAt, view
  <2>2. pickFirst(view.flat, ok) \in S \cap ok
    BY <1>2, <1>3, PickFirstOK, Zenon
  <2>3. Keeps(s, s)
    BY DEF Keeps
  <2> QED BY <1>2, <2>1, <2>2, <2>3
<1> QED BY <1>4, <1>5, <1>6

\* The shard a pick looks at, promoted or built.
LEMMA EnsureModelOK ==
  ASSUME NEW s, SchedOK(s), NEW p, now \in 0..MaxTime
  PROVE  LET u == ensureModel(s, p)
         IN  /\ ShardOK(u, s.metas, p)
             /\ \A a : Fresh(s, a, now) =>
                  /\ FreshIn(u, s.metas, a, now)
                  /\ a \in members(s.metas, p) =>
                       (u.entries[a].state = "ready" <=> s.metas[a].until <= now)
<1> DEFINE u == ensureModel(s, p)
           metas == s.metas
<1>1. MapTo(metas, Metas)
  BY DEF SchedOK
<1>2. CASE p \in DOMAIN s.shards
  <2>1. u = promoteExpired(s.shards[p], metas, now) /\ ShardOK(s.shards[p], metas, p)
    BY <1>2 DEF ensureModel, SchedOK
  <2>2. \A a : Fresh(s, a, now) => FreshIn(s.shards[p], metas, a, now)
    BY <1>2 DEF Fresh
  <2> HIDE DEF u, metas
  <2>3. ShardOK(u, metas, p)
    BY <1>1, <2>1, PromotedOK
  <2>4. ASSUME NEW a, Fresh(s, a, now)
        PROVE  /\ FreshIn(u, metas, a, now)
               /\ a \in members(metas, p) =>
                    (u.entries[a].state = "ready" <=> metas[a].until <= now)
    <3>1. FreshIn(s.shards[p], metas, a, now)
      BY <2>2, <2>4
    <3> QED BY <1>1, <2>1, <2>3, <3>1, PromotedOK
  <2> QED BY <2>3, <2>4 DEF u, metas
<1>3. CASE p \notin DOMAIN s.shards
  <2> DEFINE ids == {b \in providerAuths(s, p) : metas[b].supported}
             entries == [a \in ids |-> evaluated(metas[a], now)]
  <2>1. u = rebuildIndexes(EmptyShard, entries, metas)
    BY <1>3 DEF ensureModel
  <2>2. ids = members(metas, p)
    BY DEF providerAuths, members
  <2>3. EntriesOK(entries, metas, p)
    BY <2>2, EvaluatedOK DEF EntriesOK
  <2>4. DOMAIN entries = members(metas, p)
        /\ \A a \in members(metas, p) : entries[a] = evaluated(metas[a], now)
    BY <2>2
  <2>5. \A q \in Priorities : CursorsOK(EmptyShard.ready[q])
    BY DEF EmptyShard, EmptyView, CursorsOK, IsView, CurrentOK
  <2> HIDE DEF u, metas, entries, ids
  <2>6. ShardOK(u, metas, p) /\ u.entries = entries
    BY <1>1, <2>1, <2>3, <2>5, RebuiltOK
  <2>7. now \in 0..now
    OBVIOUS
  <2>8. \A a : FreshIn(u, metas, a, now)
    BY <2>4, <2>6, <2>7 DEF FreshIn
  <2>9. ASSUME NEW a \in members(metas, p)
        PROVE  u.entries[a].state = "ready" <=> metas[a].until <= now
    <3>1. metas[a].until \in Nat /\ u.entries[a] = evaluated(metas[a], now)
      BY <1>1, <2>4, <2>6 DEF members, MapTo, Metas
    <3> QED BY <3>1 DEF evaluated, isAuthBlockedForModel
  <2> QED BY <2>6, <2>8, <2>9 DEF u, metas
<1> QED BY <1>2, <1>3

\* The promotion before a pick: a fresh entry is ready exactly if its time
\* has come.
LEMMA PreparedOK ==
  ASSUME NEW s, SchedOK(s), NEW route, now \in 0..MaxTime
  PROVE  LET u == prepared(s, route)
         IN  /\ Keeps(s, u)
             /\ \A a \in DOMAIN s.metas :
                  Fresh(s, a, now) /\ s.metas[a].supported /\ ProviderOf[a] \in ToSet(route) =>
                    /\ ProviderOf[a] \in DOMAIN u.shards
                    /\ u.shards[ProviderOf[a]].entries[a].state = "ready"
                         <=> s.metas[a].until <= now
<1> DEFINE asked == {p \in ToSet(route) : p \in DOMAIN s.shards \/ providerAuths(s, p) # {}}
           shards == [p \in DOMAIN s.shards \cup asked |->
                        IF p \in asked THEN ensureModel(s, p) ELSE s.shards[p]]
           u == prepared(s, route)
<1>1. /\ IsSched(u) /\ u.strategy = s.strategy /\ u.metas = s.metas /\ u.shards = shards
      /\ u.cursor = s.cursor /\ u.weighted = s.weighted
  BY DEF prepared, SchedOK, IsSched
<1> HIDE DEF u
<1>2. DOMAIN shards = DOMAIN s.shards \cup asked
  OBVIOUS
<1>3. \A p \in asked : shards[p] = ensureModel(s, p)
  OBVIOUS
<1>4. \A p \in DOMAIN s.shards \ asked : shards[p] = s.shards[p]
  OBVIOUS
<1> HIDE DEF shards
<1>5. ASSUME NEW p \in DOMAIN shards
      PROVE  ShardOK(shards[p], s.metas, p)
             /\ \A b : Fresh(s, b, now) => FreshIn(shards[p], s.metas, b, now)
  <2>1. CASE p \in asked
    BY <1>3, <2>1, EnsureModelOK
  <2>2. CASE p \notin asked
    BY <1>2, <1>4, <2>2 DEF SchedOK, Fresh
  <2> QED BY <2>1, <2>2
<1>6. SchedOK(u)
  BY <1>1, <1>5 DEF SchedOK
<1>7. Keeps(s, u)
  BY <1>1, <1>5, <1>6 DEF Keeps, Fresh
<1>8. ASSUME NEW a \in DOMAIN s.metas, Fresh(s, a, now), s.metas[a].supported,
             ProviderOf[a] \in ToSet(route)
      PROVE  /\ ProviderOf[a] \in DOMAIN u.shards
             /\ u.shards[ProviderOf[a]].entries[a].state = "ready" <=> s.metas[a].until <= now
  <2> DEFINE p == ProviderOf[a]
  <2>1. p \in asked /\ a \in members(s.metas, p)
    BY <1>8 DEF providerAuths, members
  <2> HIDE DEF p, asked
  <2>2. p \in DOMAIN u.shards /\ u.shards[p] = ensureModel(s, p)
    BY <1>1, <1>2, <1>3, <2>1
  <2>3. u.shards[p].entries[a].state = "ready" <=> s.metas[a].until <= now
    BY <1>8, <2>1, <2>2, EnsureModelOK
  <2> QED BY <2>2, <2>3 DEF p
<1> QED BY <1>7, <1>8 DEF u

\* The candidates of a request at one priority.
LEMMA AtPriority ==
  ASSUME NEW s, SchedOK(s), NEW route, NEW q \in Priorities, NEW ok, ok \subseteq DOMAIN s.metas
  PROVE  /\ atPriority(s, route, q, ok) \subseteq ok
         /\ \A a \in ok : a \in atPriority(s, route, q, ok) <=>
              /\ ProviderOf[a] \in ToSet(route) /\ ProviderOf[a] \in DOMAIN s.shards
              /\ s.metas[a].supported /\ s.metas[a].priority = q
              /\ s.shards[ProviderOf[a]].entries[a].state = "ready"
<1>1. ASSUME NEW p \in DOMAIN s.shards
      PROVE  /\ ToSet(readyAt(s, p, q)) = readyOf(s.shards[p].entries, s.metas, q)
             /\ DOMAIN s.shards[p].entries = members(s.metas, p)
  BY ReadySet DEF SchedOK, ShardOK, EntriesOK
<1>2. ASSUME NEW p, p \notin DOMAIN s.shards PROVE ToSet(readyAt(s, p, q)) = {}
  BY <1>2, ReadySet
<1>3. ASSUME NEW a \in ok, NEW p
      PROVE  a \in ToSet(readyAt(s, p, q)) <=>
               /\ p = ProviderOf[a] /\ p \in DOMAIN s.shards
               /\ s.metas[a].supported /\ s.metas[a].priority = q
               /\ s.shards[p].entries[a].state = "ready"
  BY <1>1, <1>2 DEF readyOf, members
<1>4. atPriority(s, route, q, ok)
        = {a \in ok : \E i \in DOMAIN route : a \in ToSet(readyAt(s, route[i], q))}
  BY DEF atPriority
<1>5. ToSet(route) = {route[i] : i \in DOMAIN route}
  BY DEF ToSet
<1> QED BY <1>3, <1>4, <1>5

\* What the picks of one request are about.
Found(s, route, ok, q) ==
  /\ q \in Priorities /\ atPriority(s, route, q, ok) # {}
  /\ \A x \in Priorities : atPriority(s, route, x, ok) # {} => x <= q

LEMMA BestPriority ==
  ASSUME NEW s, NEW route, NEW ok, NEW x \in Priorities, atPriority(s, route, x, ok) # {}
  PROVE  Found(s, route, ok, bestPriority(s, route, ok))
<1> DEFINE Q == {q \in Priorities : atPriority(s, route, q, ok) # {}}
           f == [p \in Loadable |-> p.priority]
           g == [i \in DOMAIN Initial |-> Initial[i]]
<1>1. IsFiniteSet(Priorities)
  <2>1. IsFiniteSet(DOMAIN Initial)
    <3>1. IsFiniteSet(Auths)
      BY SchedulerAssumption, FS_Interval DEF Auths
    <3> QED BY <3>1, SchedulerAssumption, FS_Subset
  <2>2. g \in Surjection(DOMAIN Initial, ToSet(Initial))
    BY DEF Surjection, ToSet
  <2>3. IsFiniteSet(ToSet(Initial))
    BY <2>1, <2>2, FS_Surjection
  <2>4. IsFiniteSet(Loadable)
    BY <2>3, SchedulerAssumption, FS_Union, Zenon DEF Loadable
  <2>5. f \in Surjection(Loadable, Priorities)
    BY DEF Surjection, Priorities
  <2> QED BY <2>4, <2>5, FS_Surjection
<1>2. Priorities \subseteq Int
  BY SchedulerAssumption DEF Priorities
<1>3. Q \in SUBSET Priorities /\ x \in Q
  OBVIOUS
<1>4. IsFiniteSet(Q) /\ Q \subseteq Int /\ Q # {}
  BY <1>1, <1>2, <1>3, FS_Subset, Zenon
<1>5. bestPriority(s, route, ok) = Max(Q)
  BY DEF bestPriority
<1>6. Max(Q) \in Q /\ \A y \in Q : Max(Q) >= y
  BY <1>4, FiniteMax, Zenon
<1>7. Max(Q) \in Int
  BY <1>4, <1>6
<1>8. \A y \in Q : y <= Max(Q)
  BY <1>2, <1>6, <1>7
<1> QED BY <1>5, <1>6, <1>8, Zenon DEF Found

\* The strategies over several providers find a candidate.
LEMMA MixedFillOK ==
  ASSUME NEW s, SchedOK(s), NEW route \in Seq(Providers), NEW ok, ok \subseteq DOMAIN s.metas,
         NEW q \in Priorities, atPriority(s, route, q, ok) # {}
  PROVE  LET r == pickMixedFill(s, route, q, ok)
         IN  r.picked \in atPriority(s, route, q, ok) /\ Keeps(s, r.s)
<1> DEFINE has(x) == ToSet(readyAt(s, route[x], q)) \cap ok # {}
           T == {x \in 1..Len(route) : has(x)}
           i == CHOOSE i \in DOMAIN route : has(i) /\ \A j \in 1..(i - 1) : ~has(j)
<1>1. DOMAIN route = 1..Len(route) /\ Len(route) \in Nat
  OBVIOUS
<1>2. T # {} /\ T \subseteq 1..Len(route)
  BY <1>1 DEF atPriority
<1>3. PICK x \in 1..Len(route) : x \in T /\ \A j \in 1..(x - 1) : j \notin T
  BY <1>1, <1>2, First, Zenon
<1>4. \A j \in 1..(x - 1) : j \in 1..Len(route)
  BY <1>1
<1>5. x \in DOMAIN route /\ has(x) /\ \A j \in 1..(x - 1) : ~has(j)
  BY <1>1, <1>3, <1>4
<1>6. i \in DOMAIN route /\ has(i)
  BY <1>5, Zenon
<1>7. pickMixedFill(s, route, q, ok) = pickAt(s, route[i], q, ok, "fill")
  BY DEF pickMixedFill
<1> HIDE DEF i
<1> DEFINE r == pickAt(s, route[i], q, ok, "fill")
<1>8. r.picked \in ToSet(readyAt(s, route[i], q)) \cap ok /\ Keeps(s, r.s)
  BY <1>6, PickAtOK
<1> HIDE DEF r
<1>9. r.picked \in atPriority(s, route, q, ok)
  BY <1>6, <1>8 DEF atPriority
<1> QED BY <1>7, <1>8, <1>9 DEF r

\* The eligible entries of the first x providers.
slotsOf(s, route, q, ok, x) == {a \in ok : \E j \in 1..x : a \in ToSet(readyAt(s, route[j], q))}

\* The cursor is in the slots of the provider i, which answers the pick.
Answers(s, route, q, ok, i, slot) ==
  LET r == pickAt(s, route[i], q, ok, "rr")
  IN  /\ slot = s.cursor[route] % Cardinality(atPriority(s, route, q, ok))
      /\ slot < Cardinality(slotsOf(s, route, q, ok, i))
      /\ \A j \in 1..(i - 1) : slot >= Cardinality(slotsOf(s, route, q, ok, j))
      /\ ToSet(readyAt(s, route[i], q)) \cap ok # {}
      /\ pickMixedRoundRobin(s, route, q, ok)
           = [picked |-> r.picked, s |-> [r.s EXCEPT !.cursor[route] = slot + 1]]

\* The mixed rotation takes the provider whose slots the cursor is in.
LEMMA MixedSlot ==
  ASSUME NEW s, SchedOK(s), NEW route \in Routes, NEW ok, ok \subseteq DOMAIN s.metas,
         NEW q \in Priorities, atPriority(s, route, q, ok) # {}
  PROVE  \E i \in DOMAIN route, slot \in Nat : Answers(s, route, q, ok, i, slot)
<1> DEFINE slots(x) == atPriority(s, SubSeq(route, 1, x), q, ok)
           end(x) == Cardinality(slots(x))
           n == Len(route)
           slot == s.cursor[route] % end(n)
           T == {x \in 1..n : slot < end(x)}
           i == CHOOSE i \in DOMAIN route : slot < end(i) /\ \A j \in 1..(i - 1) : slot >= end(j)
<1>1. route \in Seq(Providers) /\ DOMAIN route = 1..n /\ n \in Nat
  BY SchedulerAssumption
<1>2. ASSUME NEW x \in 0..n
      PROVE  slots(x) = {a \in ok : \E j \in 1..x : a \in ToSet(readyAt(s, route[j], q))}
  <2>1. SubSeq(route, 1, x) \in Seq(Providers) /\ Len(SubSeq(route, 1, x)) = x
        /\ DOMAIN SubSeq(route, 1, x) = 1..x
        /\ \A j \in 1..x : SubSeq(route, 1, x)[j] = route[j]
    BY <1>1
  <2> QED BY <2>1, Zenon DEF atPriority
<1>3. slots(n) = atPriority(s, route, q, ok)
  BY <1>1, <1>2, SMTT(30) DEF atPriority
<1>4. \A x : IsFiniteSet(slots(x)) /\ end(x) \in Nat
  <2>1. \A x : slots(x) \in SUBSET ok
    BY DEF atPriority
  <2>2. IsFiniteSet(ok)
    BY MembersFinite DEF SchedOK
  <2> QED BY <2>1, <2>2, FS_Subset, FS_CardinalityType
<1> HIDE DEF slots, n
<1>5. end(n) \in Nat \ {0} /\ n # 0
  <2>1. end(n) # 0
    BY <1>3, <1>4, FS_EmptySet
  <2>2. n = 0 => slots(n) = {}
    BY <1>1, <1>2
  <2> QED BY <1>3, <1>4, <2>1, <2>2
<1>6. slot \in 0..(end(n) - 1) /\ slot \in Nat
  <2>1. s.cursor[route] \in Nat
    BY DEF SchedOK
  <2> HIDE DEF end
  <2> QED BY <1>5, <2>1
<1> HIDE DEF slot, end
<1>7. n \in 1..n /\ slot < end(n)
  BY <1>1, <1>5, <1>6
<1>8. T # {} /\ T \subseteq 1..n
  BY <1>7
<1>9. PICK x \in 1..n : x \in T /\ \A j \in 1..(x - 1) : j \notin T
  BY <1>1, <1>8, First, Zenon
<1>10. x \in DOMAIN route /\ slot < end(x) /\ \A j \in 1..(x - 1) : slot >= end(j)
  <2>1. ASSUME NEW j \in 1..(x - 1) PROVE slot >= end(j)
    <3>1. j \in 1..n /\ j \notin T
      BY <1>1, <1>9
    <3>2. end(j) \in Nat
      BY <1>4 DEF end
    <3> QED BY <1>6, <3>1, <3>2
  <2> QED BY <1>1, <1>9, <2>1
<1>11. i \in DOMAIN route /\ slot < end(i) /\ \A j \in 1..(i - 1) : slot >= end(j)
  BY <1>10
<1> HIDE DEF i, T
<1>12. \E a \in ok : a \in ToSet(readyAt(s, route[i], q))
  <2>1. i \in 1..n /\ i \in Nat /\ i - 1 \in 0..n /\ i \in 0..n
    BY <1>1, <1>11
  <2>2. end(i) # end(i - 1)
    <3>1. CASE i = 1
      <4>1. slots(0) = {}
        BY <1>1, <1>2
      <4>2. end(0) = 0
        BY <4>1, FS_EmptySet DEF end
      <4>3. end(1) \in Nat
        BY <1>4 DEF end
      <4> QED BY <1>6, <1>11, <3>1, <4>2, <4>3
    <3>2. CASE i # 1
      <4>1. i - 1 \in 1..(i - 1)
        BY <2>1, <3>2
      <4>2. slot >= end(i - 1) /\ slot < end(i)
        BY <1>11, <4>1
      <4>3. end(i) \in Nat /\ end(i - 1) \in Nat
        BY <1>4 DEF end
      <4> QED BY <1>6, <4>2, <4>3
    <3> QED BY <3>1, <3>2
  <2>3. slots(i) # slots(i - 1)
    BY <2>2 DEF end
  <2>4. PICK a \in ok : a \in slots(i) /\ a \notin slots(i - 1)
    <3>1. slots(i - 1) \subseteq slots(i) /\ slots(i) \subseteq ok
      BY <1>2, <2>1
    <3> QED BY <2>3, <3>1
  <2>5. \E j \in 1..i : a \in ToSet(readyAt(s, route[j], q))
    BY <1>2, <2>1, <2>4
  <2>6. ~\E j \in 1..(i - 1) : a \in ToSet(readyAt(s, route[j], q))
    BY <1>2, <2>1, <2>4
  <2>7. \A j \in 1..i : j = i \/ j \in 1..(i - 1)
    BY <2>1
  <2> QED BY <2>5, <2>6, <2>7
<1>13. pickMixedRoundRobin(s, route, q, ok)
         = [picked |-> pickAt(s, route[i], q, ok, "rr").picked,
            s |-> [pickAt(s, route[i], q, ok, "rr").s EXCEPT !.cursor[route] = slot + 1]]
  BY DEF pickMixedRoundRobin, slot, end, slots, i, n
<1>14. slot = s.cursor[route] % Cardinality(atPriority(s, route, q, ok))
  BY <1>3 DEF slot, end
<1>15. \A x0 \in 1..n : end(x0) = Cardinality(slotsOf(s, route, q, ok, x0))
  <2>1. \A x0 \in 1..n : x0 \in 0..n
    BY <1>1
  <2> QED BY <1>2, <2>1, Zenon DEF end, slotsOf
<1>16. slot < Cardinality(slotsOf(s, route, q, ok, i))
  BY <1>1, <1>11, <1>15
<1>17. \A j \in 1..(i - 1) : slot >= Cardinality(slotsOf(s, route, q, ok, j))
  <2>1. \A j \in 1..(i - 1) : j \in 1..n
    BY <1>1, <1>11
  <2> QED BY <1>11, <1>15, <2>1
<1>18. ToSet(readyAt(s, route[i], q)) \cap ok # {}
  BY <1>12
<1>19. i \in DOMAIN route /\ slot \in Nat
  BY <1>6, <1>11
<1>20. Answers(s, route, q, ok, i, slot)
  BY <1>13, <1>14, <1>16, <1>17, <1>18 DEF Answers
<1> QED BY <1>19, <1>20

\* The mixed rotation finds a candidate and keeps the shape.
LEMMA MixedRoundRobinOK ==
  ASSUME NEW s, SchedOK(s), NEW route \in Routes, NEW ok, ok \subseteq DOMAIN s.metas,
         NEW q \in Priorities, atPriority(s, route, q, ok) # {}
  PROVE  LET r == pickMixedRoundRobin(s, route, q, ok)
         IN  r.picked \in atPriority(s, route, q, ok) /\ Keeps(s, r.s)
<1>1. PICK i \in DOMAIN route, slot \in Nat : Answers(s, route, q, ok, i, slot)
  BY MixedSlot
<1> DEFINE r == pickAt(s, route[i], q, ok, "rr")
<1>8. /\ ToSet(readyAt(s, route[i], q)) \cap ok # {}
      /\ pickMixedRoundRobin(s, route, q, ok)
           = [picked |-> r.picked, s |-> [r.s EXCEPT !.cursor[route] = slot + 1]]
  BY <1>1 DEF Answers
<1>2. r.picked \in ToSet(readyAt(s, route[i], q)) \cap ok /\ Keeps(s, r.s)
  BY <1>8, PickAtOK
<1> HIDE DEF r
<1>3. r.picked \in atPriority(s, route, q, ok)
  BY <1>2 DEF atPriority
<1> DEFINE u == [r.s EXCEPT !.cursor[route] = slot + 1]
<1>4. /\ IsSched(u) /\ u.strategy = r.s.strategy /\ u.metas = r.s.metas /\ u.shards = r.s.shards
      /\ u.cursor = [r.s.cursor EXCEPT ![route] = slot + 1] /\ u.weighted = r.s.weighted
  BY <1>2 DEF Keeps, SchedOK, IsSched
<1> HIDE DEF u
<1>5. u.cursor \in [Routes -> Nat]
  BY <1>2, <1>4 DEF Keeps, SchedOK
<1>6. SchedOK(u)
  BY <1>2, <1>4, <1>5 DEF Keeps, SchedOK
<1>7. Keeps(s, u)
  BY <1>2, <1>4, <1>6 DEF Keeps, Fresh
<1> QED BY <1>3, <1>7, <1>8 DEF u

LEMMA MixedWeightedOK ==
  ASSUME NEW s, SchedOK(s), NEW route \in Routes, NEW ok, ok \subseteq DOMAIN s.metas,
         NEW q \in Priorities, atPriority(s, route, q, ok) # {}
  PROVE  LET r == pickMixedWeighted(s, route, q, ok)
         IN  r.picked \in atPriority(s, route, q, ok) /\ Keeps(s, r.s)
<1> DEFINE ids == atPriority(s, route, q, ok)
           sw == pickSmoothWeighted(s.weighted[route], ids, s.metas)
           u == [s EXCEPT !.weighted[route] = sw.state]
<1>1. ids \in SUBSET ok
  BY DEF atPriority
<1>2. IsFiniteSet(ids) /\ ids \subseteq Auths
  BY <1>1, MembersFinite DEF SchedOK
<1>3. \A a \in ids : s.metas[a].weight \in Nat
  BY <1>1 DEF SchedOK, MapTo, Metas
<1>4. CurrentOK(s.weighted[route])
  BY DEF SchedOK
<1>5. pickMixedWeighted(s, route, q, ok) = [picked |-> sw.picked, s |-> u]
  BY DEF pickMixedWeighted
<1> HIDE DEF ids
<1>6. ids # {}
  BY DEF ids
<1>7. sw.picked \in ids /\ CurrentOK(sw.state)
  BY <1>2, <1>3, <1>4, <1>6, PickSmoothWeightedOK
<1> HIDE DEF sw
<1>8. /\ IsSched(u) /\ u.strategy = s.strategy /\ u.metas = s.metas /\ u.shards = s.shards
      /\ u.cursor = s.cursor /\ u.weighted = [s.weighted EXCEPT ![route] = sw.state]
  BY DEF SchedOK, IsSched
<1> HIDE DEF u
<1>9. DOMAIN u.weighted = Routes /\ \A x \in Routes : CurrentOK(u.weighted[x])
  BY <1>7, <1>8 DEF SchedOK
<1>10. SchedOK(u)
  BY <1>8, <1>9 DEF SchedOK
<1>11. Keeps(s, u)
  BY <1>8, <1>10 DEF Keeps, Fresh
<1> QED BY <1>5, <1>7, <1>11 DEF ids

\* A pick finds nothing exactly if there is no candidate, and otherwise a
\* candidate of the best priority, whatever the strategy.
LEMMA PickFromOK ==
  ASSUME NEW s, SchedOK(s), NEW route \in Routes, NEW tried, now \in 0..MaxTime
  PROVE  LET u == prepared(s, route)
             ok == eligible(u, tried)
             r == pickFrom(s, route, tried)
         IN  /\ Keeps(s, r.s)
             /\ IF \A q \in Priorities : atPriority(u, route, q, ok) = {} THEN r.picked = 0
                ELSE \E q : Found(u, route, ok, q) /\ r.picked \in atPriority(u, route, q, ok)
<1> DEFINE u == prepared(s, route)
           ok == eligible(u, tried)
           q == bestPriority(u, route, ok)
           r == pickFrom(s, route, tried)
<1>1. Keeps(s, u) /\ SchedOK(u)
  BY PreparedOK DEF Keeps
<1>2. ok \subseteq DOMAIN u.metas
  BY DEF eligible
<1>3. route \in Seq(Providers) /\ u.strategy \in {"rr", "fill", "weighted"}
  BY <1>1, SchedulerAssumption, Zenon DEF SchedOK
<1>4. r = IF \A p \in Priorities : atPriority(u, route, p, ok) = {} THEN [picked |-> 0, s |-> u]
          ELSE IF Len(route) = 1 THEN pickAt(u, route[1], q, ok, u.strategy)
          ELSE CASE u.strategy = "rr" -> pickMixedRoundRobin(u, route, q, ok)
                 [] u.strategy = "weighted" -> pickMixedWeighted(u, route, q, ok)
                 [] u.strategy = "fill" -> pickMixedFill(u, route, q, ok)
  BY DEF pickFrom
<1> HIDE DEF u, ok, q, r
<1>5. CASE \A p \in Priorities : atPriority(u, route, p, ok) = {}
  <2>1. r = [picked |-> 0, s |-> u]
    BY <1>4, <1>5
  <2> QED BY <1>1, <1>5, <2>1 DEF u, ok, r
<1>6. CASE ~\A p \in Priorities : atPriority(u, route, p, ok) = {}
  <2>1. PICK x \in Priorities : atPriority(u, route, x, ok) # {}
    BY <1>6
  <2>2. Found(u, route, ok, q) /\ q \in Priorities /\ atPriority(u, route, q, ok) # {}
    BY <2>1, BestPriority DEF q, Found
  <2>3. r.picked \in atPriority(u, route, q, ok) /\ Keeps(u, r.s)
    <3>1. CASE Len(route) = 1
      <4>1. DOMAIN route = {1}
        BY <1>3, <3>1
      <4>2. atPriority(u, route, q, ok) = ToSet(readyAt(u, route[1], q)) \cap ok
        BY <4>1 DEF atPriority
      <4>3. r = pickAt(u, route[1], q, ok, u.strategy)
        BY <1>4, <1>6, <3>1
      <4>4. ToSet(readyAt(u, route[1], q)) \cap ok # {}
        BY <2>2, <4>2
      <4> QED BY <1>1, <1>2, <1>3, <2>2, <4>2, <4>3, <4>4, PickAtOK
    <3>2. CASE Len(route) # 1 /\ u.strategy = "rr"
      <4>1. r = pickMixedRoundRobin(u, route, q, ok)
        BY <1>4, <1>6, <3>2
      <4> QED BY <1>1, <1>2, <2>2, <4>1, MixedRoundRobinOK
    <3>3. CASE Len(route) # 1 /\ u.strategy = "weighted"
      <4>1. r = pickMixedWeighted(u, route, q, ok)
        BY <1>4, <1>6, <3>3
      <4> QED BY <1>1, <1>2, <2>2, <4>1, MixedWeightedOK
    <3>4. CASE Len(route) # 1 /\ u.strategy = "fill"
      <4>1. r = pickMixedFill(u, route, q, ok)
        BY <1>4, <1>6, <3>4
      <4> QED BY <1>1, <1>2, <1>3, <2>2, <4>1, MixedFillOK
    <3> QED BY <1>3, <3>1, <3>2, <3>3, <3>4
  <2>4. Keeps(s, r.s)
    BY <1>1, <2>3 DEF Keeps
  <2> QED BY <1>6, <2>2, <2>3, <2>4 DEF u, ok, r
<1> QED BY <1>5, <1>6

-----------------------------------------------------------------------------
(* The inductive invariant *)

SvcOK ==
  \/ svc = Idle
  \/ svc \in [pc : {"upsert", "register", "reconcile", "read"}, auth : DOMAIN auths]
  \/ svc \in [pc : {"reconciled", "refresh"}, auth : DOMAIN auths, snapshot : Creds]
  \/ svc \in [pc : {"delete"}, auth : DOMAIN auths \ supports]
  \/ svc \in [pc : {"remove"}, auth : Auths \ supports]

PickOK ==
  /\ pick \in [pc : {"idle", "snapshot", "rebuild", "again"}, route : {pick.route},
               tried : {pick.tried}, snapshot : {pick.snapshot}, hope : {pick.hope}]
  /\ pick.pc # "idle" => pick.route \in Routes
  /\ pick.pc = "rebuild" => MapTo(pick.snapshot, Creds)

ReportsOK ==
  reports \in [Reporters -> {Idle} \cup [pc : {"publish"}, auth : Auths, snapshot : Creds]]

SyncOK == sync.pc = "rebuild" => MapTo(sync.snapshot, Creds)

TypeOK ==
  /\ now \in 0..MaxTime
  /\ MapTo(auths, Creds)
  /\ supports \subseteq DOMAIN auths
  /\ SchedOK(sched)
  /\ SvcOK
  /\ ReportsOK
  /\ PickOK
  /\ SyncOK

\* Who wrote to the state of a and has yet to publish it.
Pending(a) ==
  \/ svc.pc = "reconciled" /\ svc.auth = a
  \/ \E r \in Reporters : reports[r] # Idle /\ reports[r].auth = a

\* An entry lags behind the state it was made from only until a publication.
FreshInv == \A a \in Auths : Fresh(sched, a, now) \/ Pending(a)

\* The scheduler's leftovers of a removed credential have no models.
RemovedInv ==
  \A a \in DOMAIN sched.metas \ DOMAIN auths :
    svc = [pc |-> "remove", auth |-> a] \/ ~sched.metas[a].supported

\* What the scheduler knows of a hope after the rebuild.
Known(a) ==
  /\ a \in DOMAIN sched.metas /\ sched.metas[a].supported
  /\ sched.metas[a].weight = auths[a].weight /\ sched.metas[a].until = auths[a].until
  /\ Fresh(sched, a, now)

\* The hopes of a waiting pick remain usable, are in its snapshot as they are,
\* and are known to the scheduler after the rebuild.
HopeInv ==
  pick.pc # "idle" => \A a \in pick.hope :
    /\ a \in usable(pick.route, pick.tried)
    /\ pick.pc = "rebuild" => a \in DOMAIN pick.snapshot /\ pick.snapshot[a] = auths[a]
    /\ pick.pc = "again" => Known(a)

IInv == TypeOK /\ FreshInv /\ RemovedInv /\ HopeInv

-----------------------------------------------------------------------------
(* What the parts of a step keep *)

LEMMA FreshLater ==
  ASSUME NEW s, NEW a, NEW t \in Nat, NEW u \in Nat, t <= u, Fresh(s, a, t)
  PROVE  Fresh(s, a, u)
<1>1. 0..t \subseteq 0..u
  OBVIOUS
<1> QED BY <1>1 DEF Fresh, FreshIn

\* A pick under way loses hopes at most.
LEMMA PickKept ==
  ASSUME PickOK, NEW H, pick' = [pick EXCEPT !.hope = H] \/ (pick' = pick /\ pick.hope = H)
  PROVE  /\ PickOK' /\ pick'.pc = pick.pc /\ pick'.route = pick.route /\ pick'.tried = pick.tried
         /\ pick'.snapshot = pick.snapshot /\ pick'.hope = H
<1>1. pick \in [pc : {"idle", "snapshot", "rebuild", "again"}, route : {pick.route},
               tried : {pick.tried}, snapshot : {pick.snapshot}, hope : {pick.hope}]
  BY DEF PickOK
<1>2. /\ pick'.pc = pick.pc /\ pick'.route = pick.route /\ pick'.tried = pick.tried
      /\ pick'.snapshot = pick.snapshot /\ pick'.hope = H
      /\ pick' \in [pc : {"idle", "snapshot", "rebuild", "again"}, route : {pick'.route},
                    tried : {pick'.tried}, snapshot : {pick'.snapshot}, hope : {pick'.hope}]
  BY <1>1
<1> QED BY <1>2 DEF PickOK

\* A step that leaves the remaining hopes alone keeps what is known of them.
LEMMA HopeKept ==
  ASSUME HopeInv, now \in Nat, now' \in Nat, now <= now', MapTo(auths, Creds),
         pick'.pc = pick.pc, pick'.route = pick.route, pick'.tried = pick.tried,
         pick'.snapshot = pick.snapshot, pick'.hope \subseteq pick.hope,
         sched'.strategy = sched.strategy,
         pick.pc # "idle" => \A b \in pick'.hope :
           b \in DOMAIN auths' /\ auths'[b] = auths[b] /\ b \in supports',
         pick.pc = "again" => \A b \in pick'.hope : Known(b)'
  PROVE  HopeInv'
<1> SUFFICES ASSUME pick'.pc # "idle", NEW b \in pick'.hope
             PROVE  /\ b \in usable(pick.route, pick.tried)'
                    /\ pick'.pc = "rebuild" =>
                         b \in DOMAIN pick'.snapshot /\ pick'.snapshot[b] = auths'[b]
                    /\ pick'.pc = "again" => Known(b)'
  BY DEF HopeInv
<1>1. b \in usable(pick.route, pick.tried)
      /\ (pick.pc = "rebuild" => b \in DOMAIN pick.snapshot /\ pick.snapshot[b] = auths[b])
  BY DEF HopeInv
<1>2. b \in DOMAIN auths' /\ auths'[b] = auths[b] /\ b \in supports'
  OBVIOUS
<1>3. auths[b].until \in Nat
  BY <1>1 DEF usable, MapTo, Creds
<1>4. b \in usable(pick.route, pick.tried)'
  BY <1>1, <1>2, <1>3 DEF usable, isAuthBlockedForModel
<1> QED BY <1>1, <1>2, <1>4

LEMMA RemovedKept ==
  ASSUME RemovedInv, svc' = svc \/ svc.pc # "remove",
         DOMAIN auths \subseteq DOMAIN auths',
         \A b \in DOMAIN sched'.metas \ DOMAIN auths' :
           \/ ~sched'.metas[b].supported
           \/ b \in DOMAIN sched.metas /\ sched'.metas[b].supported = sched.metas[b].supported
  PROVE  RemovedInv'
<1> SUFFICES ASSUME NEW b \in DOMAIN sched'.metas \ DOMAIN auths', sched'.metas[b].supported
             PROVE  svc' = [pc |-> "remove", auth |-> b]
  BY DEF RemovedInv
<1>1. b \in DOMAIN sched.metas \ DOMAIN auths /\ sched.metas[b].supported
  OBVIOUS
<1>2. svc = [pc |-> "remove", auth |-> b]
  BY <1>1 DEF RemovedInv
<1> QED BY <1>2

\* A step keeps entries fresh if it does so for all but a, and a is fresh or
\* about to be published.
LEMMA FreshKept ==
  ASSUME FreshInv, NEW a,
         \A b \in Auths \ {a} : Fresh(sched, b, now) => Fresh(sched', b, now'),
         \A b \in Auths \ {a} : Pending(b) => Pending(b)',
         Fresh(sched', a, now') \/ Pending(a)'
  PROVE  FreshInv'
<1> SUFFICES ASSUME NEW b \in Auths PROVE Fresh(sched', b, now') \/ Pending(b)'
  BY DEF FreshInv
<1>1. Fresh(sched, b, now) \/ Pending(b)
  BY DEF FreshInv
<1>2. CASE b = a
  BY <1>2
<1>3. CASE b # a
  BY <1>1, <1>3
<1> QED BY <1>2, <1>3

\* A hope is usable, and not the credential that is being removed.
LEMMA HopesUsable ==
  ASSUME IInv, pick.pc # "idle", NEW b \in pick.hope
  PROVE  /\ b \in DOMAIN auths /\ b \in supports /\ ~auths[b].disabled /\ b \in Auths
         /\ svc.pc \in {"delete", "remove"} => svc.auth # b
<1>1. b \in DOMAIN auths /\ b \in supports /\ ~auths[b].disabled /\ b \in Auths
  BY DEF IInv, HopeInv, usable, TypeOK, MapTo
<1>2. svc.pc \in {"delete", "remove"} => svc.auth \notin supports
  BY DEF IInv, TypeOK, SvcOK, Idle
<1> QED BY <1>1, <1>2

\* What a publication keeps.
LEMMA PublishKeeps ==
  ASSUME IInv, NEW a \in Auths, NEW c \in Creds, NEW live \in BOOLEAN,
         Publish(a, c, live), UNCHANGED <<auths, supports, now>>
  PROVE  /\ SchedOK(sched') /\ sched'.strategy = sched.strategy
         /\ Fresh(sched', a, now')
         /\ \A b : Fresh(sched, b, now) => Fresh(sched', b, now')
         /\ \A b \in DOMAIN sched'.metas \ DOMAIN auths' :
              \/ ~sched'.metas[b].supported
              \/ b \in DOMAIN sched.metas /\ sched'.metas[b].supported = sched.metas[b].supported
         /\ PickOK' /\ HopeInv'
<1>1. /\ now \in 0..MaxTime /\ now \in Nat /\ SchedOK(sched) /\ PickOK /\ HopeInv
      /\ supports \subseteq DOMAIN auths /\ MapTo(auths, Creds)
  BY SchedulerAssumption DEF IInv, TypeOK
<1>2. sched' = upsertAuth(sched, a, c, live)
  BY DEF Publish
<1>3. SchedOK(sched') /\ sched'.strategy = sched.strategy
  BY <1>1, <1>2, UpsertAuthOK
<1>4. sched'.metas = IF c.disabled THEN drop(sched.metas, a)
                                   ELSE put(sched.metas, a, meta(a, c, live))
  BY <1>1, <1>2, UpsertAuthOK
<1>5. Fresh(sched', a, now) /\ \A b : Fresh(sched, b, now) => Fresh(sched', b, now)
  BY <1>1, <1>2, UpsertAuthOK
<1>6. /\ c.disabled => DOMAIN sched'.metas = DOMAIN sched.metas \ {a}
      /\ ~c.disabled => /\ DOMAIN sched'.metas = DOMAIN sched.metas \cup {a}
                        /\ sched'.metas[a] = meta(a, c, live)
      /\ \A b \in DOMAIN sched.metas \ {a} : sched'.metas[b] = sched.metas[b]
  BY <1>4 DEF put, drop
<1>7. /\ meta(a, c, live).supported = (a \in supports)
      /\ meta(a, c, live).weight = c.weight /\ meta(a, c, live).until = c.until
  BY MetaType
<1>8. ASSUME NEW b \in DOMAIN sched'.metas \ DOMAIN auths'
      PROVE  \/ ~sched'.metas[b].supported
             \/ b \in DOMAIN sched.metas /\ sched'.metas[b].supported = sched.metas[b].supported
  <2>1. CASE b = a
    <3>1. a \notin supports /\ sched'.metas[a] = meta(a, c, live)
      BY <1>1, <1>6, <2>1
    <3> QED BY <1>7, <2>1, <3>1, Zenon
  <2>2. CASE b # a
    BY <1>6, <2>2
  <2> QED BY <2>1, <2>2
<1>9. PICK H : /\ H \subseteq pick.hope
               /\ pick' = [pick EXCEPT !.hope = H] \/ (pick' = pick /\ pick.hope = H)
               /\ a \in H => a \in DOMAIN auths /\ c = auths[a]
  <2>1. CASE a \in DOMAIN auths /\ c = auths[a]
    <3>1. pick' = pick
      BY <2>1 DEF Publish
    <3> WITNESS pick.hope
    <3> QED BY <2>1, <3>1
  <2>2. CASE ~(a \in DOMAIN auths /\ c = auths[a])
    <3>1. pick' = [pick EXCEPT !.hope = pick.hope \ {a}]
      BY <2>2 DEF Publish, lost
    <3> WITNESS pick.hope \ {a}
    <3> QED BY <3>1
  <2> QED BY <2>1, <2>2
<1>10. /\ PickOK' /\ pick'.pc = pick.pc /\ pick'.route = pick.route /\ pick'.tried = pick.tried
       /\ pick'.snapshot = pick.snapshot /\ pick'.hope = H
  BY <1>1, <1>9, PickKept
<1>11. ASSUME pick.pc = "again", NEW b \in H PROVE Known(b)'
  <2>1. Known(b) /\ b \in DOMAIN auths /\ b \in supports /\ ~auths[b].disabled
    BY <1>1, <1>9, <1>11, HopesUsable DEF HopeInv
  <2>2. CASE b = a
    <3>1. c = auths[a] /\ ~c.disabled
      BY <1>9, <2>1, <2>2
    <3>2. sched'.metas[a] = meta(a, c, live) /\ a \in DOMAIN sched'.metas
      BY <1>6, <3>1
    <3> QED BY <1>5, <1>7, <2>1, <2>2, <3>1, <3>2, Zenon DEF Known
  <2>3. CASE b # a
    BY <1>5, <1>6, <2>1, <2>3 DEF Known
  <2> QED BY <2>2, <2>3
<1>12. ASSUME pick.pc # "idle", NEW b \in H
       PROVE  b \in DOMAIN auths' /\ auths'[b] = auths[b] /\ b \in supports'
  BY <1>9, <1>12, HopesUsable
<1>13. HopeInv'
  BY <1>1, <1>3, <1>9, <1>10, <1>11, <1>12, HopeKept
<1> QED BY <1>3, <1>5, <1>8, <1>10, <1>13

\* What a write to a shared credential keeps: the entry may lag now.
LEMMA MutateKeeps ==
  ASSUME IInv, NEW a \in DOMAIN auths, NEW until \in Nat, Mutate(a, until),
         UNCHANGED <<supports, now>>
  PROVE  /\ MapTo(auths', Creds) /\ DOMAIN auths' = DOMAIN auths /\ auths'[a] \in Creds
         /\ SchedOK(sched')
         /\ \A b : b # a /\ Fresh(sched, b, now) => Fresh(sched', b, now')
         /\ DOMAIN sched'.metas = DOMAIN sched.metas
         /\ \A b \in DOMAIN sched.metas : sched'.metas[b].supported = sched.metas[b].supported
         /\ PickOK' /\ HopeInv'
<1>1. /\ now \in 0..MaxTime /\ now \in Nat /\ SchedOK(sched) /\ PickOK /\ HopeInv
      /\ supports \subseteq DOMAIN auths /\ MapTo(auths, Creds)
  BY SchedulerAssumption DEF IInv, TypeOK
<1>2. auths' = [auths EXCEPT ![a].until = until]
  BY DEF Mutate
<1>3. /\ DOMAIN auths' = DOMAIN auths /\ auths'[a] \in Creds
      /\ \A b \in DOMAIN auths \ {a} : auths'[b] = auths[b]
  <2>1. auths[a] \in Creds
    BY <1>1 DEF MapTo
  <2>2. [auths[a] EXCEPT !.until = until] \in Creds
    BY <2>1 DEF Creds
  <2> QED BY <1>2, <2>2
<1>4. MapTo(auths', Creds)
  BY <1>1, <1>3 DEF MapTo
<1>5. /\ SchedOK(sched') /\ sched'.strategy = sched.strategy
      /\ \A b : b # a /\ Fresh(sched, b, now) => Fresh(sched', b, now)
      /\ DOMAIN sched'.metas = DOMAIN sched.metas
      /\ \A b \in DOMAIN sched.metas : sched'.metas[b].supported = sched.metas[b].supported
      /\ \A b \in DOMAIN sched.metas \ {a} : sched'.metas[b] = sched.metas[b]
  <2>1. CASE a \in DOMAIN sched.metas /\ sched.metas[a].live
    <3> DEFINE m == [sched.metas[a] EXCEPT !.until = until]
    <3>1. sched' = [sched EXCEPT !.metas[a] = m]
      BY <2>1 DEF Mutate
    <3>2. sched.metas[a] \in Metas
      BY <1>1, <2>1 DEF SchedOK, MapTo
    <3>3. m \in Metas /\ m.supported = sched.metas[a].supported
          /\ m.priority = sched.metas[a].priority
      BY <3>2 DEF Metas
    <3> HIDE DEF m
    <3>4. SchedOK(sched') /\ sched'.strategy = sched.strategy
      BY <1>1, <2>1, <3>1, <3>3, SharedWriteOK
    <3>5. sched'.metas = [sched.metas EXCEPT ![a] = m]
      BY <1>1, <2>1, <3>1, <3>3, SharedWriteOK
    <3>6. \A b : b # a /\ Fresh(sched, b, now) => Fresh(sched', b, now)
      BY <1>1, <2>1, <3>1, <3>3, SharedWriteOK
    <3> QED BY <3>3, <3>4, <3>5, <3>6
  <2>2. CASE ~(a \in DOMAIN sched.metas /\ sched.metas[a].live)
    <3>1. sched' = sched
      BY <2>2 DEF Mutate
    <3> QED BY <1>1, <3>1
  <2> QED BY <2>1, <2>2
<1>6. pick' = [pick EXCEPT !.hope = pick.hope \ {a}]
  BY DEF Mutate, lost
<1>7. /\ PickOK' /\ pick'.pc = pick.pc /\ pick'.route = pick.route /\ pick'.tried = pick.tried
      /\ pick'.snapshot = pick.snapshot /\ pick'.hope = pick.hope \ {a}
  BY <1>1, <1>6, PickKept
<1>8. ASSUME pick.pc # "idle", NEW b \in pick'.hope
      PROVE  b \in DOMAIN auths' /\ auths'[b] = auths[b] /\ b \in supports'
  BY <1>3, <1>7, <1>8, HopesUsable
<1>9. ASSUME pick.pc = "again", NEW b \in pick'.hope PROVE Known(b)'
  <2>1. Known(b) /\ b \in DOMAIN auths /\ b # a
    BY <1>1, <1>7, <1>9, HopesUsable DEF HopeInv
  <2> QED BY <1>3, <1>5, <2>1 DEF Known
<1>10. HopeInv'
  BY <1>1, <1>5, <1>7, <1>8, <1>9, HopeKept
<1> QED BY <1>3, <1>4, <1>5, <1>7, <1>10

-----------------------------------------------------------------------------
(* The steps *)

\* A publication, whoever makes it.
LEMMA PublishStep ==
  ASSUME IInv, NEW a \in Auths, NEW c \in Creds, NEW live \in BOOLEAN,
         Publish(a, c, live), UNCHANGED <<auths, supports, now, sync>>,
         SvcOK', ReportsOK', svc' = svc \/ svc.pc # "remove",
         \A b \in Auths \ {a} : Pending(b) => Pending(b)'
  PROVE  IInv'
<1>1. /\ SchedOK(sched') /\ PickOK' /\ HopeInv'
      /\ Fresh(sched', a, now')
      /\ \A b : Fresh(sched, b, now) => Fresh(sched', b, now')
  BY PublishKeeps
<1>2. \A b \in DOMAIN sched'.metas \ DOMAIN auths' :
        \/ ~sched'.metas[b].supported
        \/ b \in DOMAIN sched.metas /\ sched'.metas[b].supported = sched.metas[b].supported
  BY PublishKeeps
<1>3. TypeOK'
  BY <1>1 DEF IInv, TypeOK, SyncOK
<1>4. FreshInv'
  BY <1>1, FreshKept DEF IInv
<1>5. RemovedInv'
  BY <1>2, RemovedKept DEF IInv
<1> QED BY <1>1, <1>3, <1>4, <1>5 DEF IInv

\* A write to the state of a credential, which its writer will publish.
LEMMA MutateStep ==
  ASSUME IInv, NEW a \in DOMAIN auths, NEW until \in Nat, Mutate(a, until),
         UNCHANGED <<supports, now, sync>>,
         SvcOK', ReportsOK', svc' = svc \/ svc.pc # "remove",
         \A b \in Auths : Pending(b) => Pending(b)', Pending(a)'
  PROVE  IInv'
<1>1. /\ MapTo(auths', Creds) /\ DOMAIN auths' = DOMAIN auths
      /\ SchedOK(sched') /\ PickOK' /\ HopeInv'
      /\ \A b : b # a /\ Fresh(sched, b, now) => Fresh(sched', b, now')
  BY MutateKeeps
<1>2. /\ DOMAIN sched'.metas = DOMAIN sched.metas
      /\ \A b \in DOMAIN sched.metas : sched'.metas[b].supported = sched.metas[b].supported
  BY MutateKeeps
<1>3. TypeOK'
  BY <1>1 DEF IInv, TypeOK, SyncOK
<1>4. FreshInv'
  BY <1>1, FreshKept DEF IInv
<1>5. RemovedInv'
  BY <1>1, <1>2, RemovedKept DEF IInv
<1> QED BY <1>1, <1>3, <1>4, <1>5 DEF IInv

\* A step that touches neither credentials nor scheduler.
LEMMA QuietStep ==
  ASSUME IInv, UNCHANGED <<auths, sched, now, reports>>,
         supports' \subseteq DOMAIN auths, SvcOK', PickOK', SyncOK', HopeInv',
         svc' = svc \/ svc.pc \notin {"remove", "reconciled"}
  PROVE  IInv'
<1>1. TypeOK'
  BY DEF IInv, TypeOK, ReportsOK
<1>2. FreshInv'
  BY DEF IInv, FreshInv, Pending
<1>3. RemovedInv'
  BY RemovedKept DEF IInv
<1> QED BY <1>1, <1>2, <1>3 DEF IInv

\* Such a step that takes a from the models or gives it back.
LEMMA LostStep ==
  ASSUME IInv, NEW a, UNCHANGED <<auths, sched, now, reports, sync>>, pick' = lost(a),
         supports' \subseteq DOMAIN auths, supports \ {a} \subseteq supports', SvcOK',
         svc.pc \notin {"remove", "reconciled"}
  PROVE  IInv'
<1>1. now \in Nat /\ PickOK /\ HopeInv /\ MapTo(auths, Creds) /\ SyncOK
  BY SchedulerAssumption DEF IInv, TypeOK
<1>2. pick' = [pick EXCEPT !.hope = pick.hope \ {a}]
  BY DEF lost
<1>3. /\ PickOK' /\ pick'.pc = pick.pc /\ pick'.route = pick.route /\ pick'.tried = pick.tried
      /\ pick'.snapshot = pick.snapshot /\ pick'.hope = pick.hope \ {a}
  BY <1>1, <1>2, PickKept
<1>4. ASSUME pick.pc # "idle", NEW b \in pick'.hope
      PROVE  b \in DOMAIN auths' /\ auths'[b] = auths[b] /\ b \in supports'
  BY <1>3, <1>4, HopesUsable
<1>5. ASSUME pick.pc = "again", NEW b \in pick'.hope PROVE Known(b)'
  BY <1>1, <1>3, <1>5 DEF HopeInv, Known
<1>6. HopeInv'
  BY <1>1, <1>3, <1>4, <1>5, HopeKept
<1>7. SyncOK'
  BY <1>1 DEF SyncOK
<1> QED BY <1>3, <1>6, <1>7, QuietStep

\* A pick or a change of the shards only: no credential is touched.
LEMMA KeepsStep ==
  ASSUME IInv, Keeps(sched, sched'), UNCHANGED <<auths, supports, svc, reports, sync, now>>,
         PickOK', HopeInv'
  PROVE  IInv'
<1>1. /\ SchedOK(sched') /\ sched'.metas = sched.metas
      /\ \A b : Fresh(sched, b, now) => Fresh(sched', b, now)
  BY DEF Keeps
<1>2. TypeOK'
  BY <1>1 DEF IInv, TypeOK, ReportsOK, SyncOK, SvcOK
<1>3. FreshInv'
  BY <1>1 DEF IInv, FreshInv, Pending
<1>4. RemovedInv'
  BY <1>1 DEF IInv, RemovedInv
<1> QED BY <1>2, <1>3, <1>4 DEF IInv

\* The rebuild of the scheduler from a snapshot, however old.
LEMMA RebuildStep ==
  ASSUME IInv, NEW snapshot, MapTo(snapshot, Creds), sched' = rebuild(sched, snapshot),
         UNCHANGED <<auths, supports, svc, reports, now>>, PickOK', HopeInv', SyncOK'
  PROVE  IInv'
<1>1. sched.strategy \in Strategies /\ supports \subseteq DOMAIN auths
  BY DEF IInv, TypeOK, SchedOK
<1>2. SchedOK(sched') /\ \A b : Fresh(sched', b, now)
  BY <1>1, RebuildOK
<1>3. TypeOK'
  BY <1>2 DEF IInv, TypeOK, ReportsOK, SvcOK
<1>4. FreshInv'
  BY <1>2 DEF FreshInv
<1>5. ASSUME NEW b \in DOMAIN sched'.metas \ DOMAIN auths' PROVE ~sched'.metas[b].supported
  <2>1. b \in DOMAIN snapshot /\ sched'.metas[b] = meta(b, snapshot[b], FALSE)
    BY Zenon DEF rebuild, NewScheduler
  <2>2. snapshot[b] \in Creds /\ b \notin supports
    BY <1>1, <2>1 DEF MapTo
  <2>3. meta(b, snapshot[b], FALSE).supported = (b \in supports)
    BY <2>2, MetaType, Zenon
  <2> QED BY <2>1, <2>2, <2>3, Zenon
<1>6. RemovedInv'
  BY <1>5 DEF RemovedInv
<1> QED BY <1>3, <1>4, <1>6 DEF IInv

\* The new object of a credential, which the scheduler does not hold yet.
LEMMA CommitStep ==
  ASSUME IInv, NEW a \in Auths, NEW p \in Profiles, Commit(a, p)
  PROVE  IInv'
<1>1. /\ now \in 0..MaxTime /\ now \in Nat /\ SchedOK(sched) /\ PickOK /\ HopeInv
      /\ supports \subseteq DOMAIN auths /\ MapTo(auths, Creds)
  BY SchedulerAssumption DEF IInv, TypeOK
<1>2. svc = Idle /\ svc' = [pc |-> "upsert", auth |-> a]
      /\ UNCHANGED <<supports, reports, sync, now>>
  BY DEF Commit, IInv, TypeOK, SvcOK, Idle
<1>3. PICK u \in Nat : auths' = put(auths, a, Credential(p, u))
  <2> DEFINE carried == a \in DOMAIN auths /\ ~auths[a].disabled /\ ~p.disabled
             u == IF carried THEN auths[a].until ELSE Free
  <2>1. auths' = put(auths, a, Credential(p, u))
    BY DEF Commit
  <2>2. u \in Nat
    BY <1>1 DEF MapTo, Creds, Free
  <2> QED BY <2>1, <2>2
<1>4. Credential(p, u) \in Creds
  <2>1. p \in Loadable /\ p.priority \in Priorities
    BY DEF Loadable, Priorities
  <2>2. p.weight \in Nat /\ p.disabled \in BOOLEAN
    BY <2>1, SchedulerAssumption
  <2> QED BY <2>1, <2>2 DEF Credential, Creds
<1>5. /\ DOMAIN auths' = DOMAIN auths \cup {a} /\ auths'[a] \in Creds
      /\ \A b \in DOMAIN auths \ {a} : auths'[b] = auths[b]
  BY <1>3, <1>4 DEF put
<1>6. MapTo(auths', Creds)
  BY <1>1, <1>5 DEF MapTo
<1>7. /\ SchedOK(sched') /\ sched'.strategy = sched.strategy
      /\ DOMAIN sched'.metas = DOMAIN sched.metas
      /\ \A b \in DOMAIN sched.metas : sched'.metas[b].supported = sched.metas[b].supported
      /\ \A b \in DOMAIN sched.metas \ {a} : sched'.metas[b] = sched.metas[b]
      /\ \A b : Fresh(sched, b, now) => Fresh(sched', b, now)
  <2>1. CASE a \in DOMAIN sched.metas
    <3> DEFINE m == [sched.metas[a] EXCEPT !.live = FALSE]
    <3>1. sched' = [sched EXCEPT !.metas[a] = m]
      BY <2>1 DEF Commit
    <3>2. sched.metas[a] \in Metas
      BY <1>1, <2>1 DEF SchedOK, MapTo
    <3>3. m \in Metas /\ m.supported = sched.metas[a].supported
          /\ m.priority = sched.metas[a].priority /\ m.until = sched.metas[a].until
      BY <3>2, Zenon DEF Metas
    <3> HIDE DEF m
    <3>4. SchedOK(sched') /\ sched'.strategy = sched.strategy /\ sched'.shards = sched.shards
      BY <1>1, <2>1, <3>1, <3>3, SharedWriteOK
    <3>5. sched'.metas = [sched.metas EXCEPT ![a] = m]
      BY <1>1, <2>1, <3>1, <3>3, SharedWriteOK
    <3>6. \A b : b # a /\ Fresh(sched, b, now) => Fresh(sched', b, now)
      BY <1>1, <2>1, <3>1, <3>3, SharedWriteOK
    <3>7. sched'.metas[a] = m
      BY <2>1, <3>5
    <3>8. \A t : evaluated(m, t) = evaluated(sched.metas[a], t)
      BY <3>3 DEF evaluated, isAuthBlockedForModel
    <3>9. Fresh(sched, a, now) => Fresh(sched', a, now)
      BY <3>4, <3>7, <3>8 DEF Fresh, FreshIn
    <3> QED BY <3>3, <3>4, <3>5, <3>6, <3>9
  <2>2. CASE a \notin DOMAIN sched.metas
    <3>1. sched' = sched
      BY <2>2 DEF Commit
    <3> QED BY <1>1, <2>2, <3>1
  <2> QED BY <2>1, <2>2
<1>8. pick' = [pick EXCEPT !.hope = pick.hope \ {a}]
  BY DEF Commit, lost
<1>9. /\ PickOK' /\ pick'.pc = pick.pc /\ pick'.route = pick.route /\ pick'.tried = pick.tried
      /\ pick'.snapshot = pick.snapshot /\ pick'.hope = pick.hope \ {a}
  BY <1>1, <1>8, PickKept
<1>10. ASSUME pick.pc # "idle", NEW b \in pick'.hope
       PROVE  b \in DOMAIN auths' /\ auths'[b] = auths[b] /\ b \in supports'
  BY <1>2, <1>5, <1>9, <1>10, HopesUsable
<1>11. ASSUME pick.pc = "again", NEW b \in pick'.hope PROVE Known(b)'
  <2>1. Known(b) /\ b \in DOMAIN auths /\ b # a
    BY <1>1, <1>9, <1>11, HopesUsable DEF HopeInv
  <2> QED BY <1>2, <1>5, <1>7, <2>1 DEF Known
<1>12. HopeInv'
  BY <1>1, <1>2, <1>7, <1>9, <1>10, <1>11, HopeKept
<1>13. TypeOK'
  <2>1. SvcOK'
    BY <1>2, <1>5 DEF SvcOK
  <2> QED BY <1>1, <1>2, <1>5, <1>6, <1>7, <1>9, <2>1 DEF IInv, TypeOK, ReportsOK, SyncOK
<1>14. FreshInv'
  <2>1. \A b : Pending(b) => Pending(b)'
    BY <1>2 DEF Pending, Idle
  <2> QED BY <1>2, <1>7, <2>1 DEF IInv, FreshInv
<1>15. RemovedInv'
  <2>1. svc.pc # "remove"
    BY <1>2 DEF Idle
  <2> QED BY <1>5, <1>7, <2>1, RemovedKept DEF IInv
<1> QED BY <1>12, <1>13, <1>14, <1>15 DEF IInv

\* The deletion of a credential whose models are unregistered.
LEMMA RemoveAuthStep ==
  ASSUME IInv, RemoveAuth
  PROVE  IInv'
<1> DEFINE a == svc.auth
<1>1. /\ now \in Nat /\ PickOK /\ HopeInv /\ MapTo(auths, Creds)
      /\ supports \subseteq DOMAIN auths
  BY SchedulerAssumption DEF IInv, TypeOK
<1>2. /\ UNCHANGED <<supports, sched, reports, pick, sync, now>>
      /\ auths' = drop(auths, a) /\ svc.pc = "delete"
  BY DEF RemoveAuth
<1>3. svc \in [pc : {"delete"}, auth : DOMAIN auths \ supports]
  BY <1>2 DEF IInv, TypeOK, SvcOK, Idle
<1>4. a \in Auths \ supports /\ svc' = [pc |-> "remove", auth |-> a]
  BY <1>1, <1>3 DEF RemoveAuth, MapTo
<1> HIDE DEF a
<1>5. /\ DOMAIN auths' = DOMAIN auths \ {a}
      /\ \A b \in DOMAIN auths \ {a} : auths'[b] = auths[b]
  BY <1>2 DEF drop
<1>6. MapTo(auths', Creds) /\ supports' \subseteq DOMAIN auths'
  BY <1>1, <1>2, <1>4, <1>5 DEF MapTo
<1>7. TypeOK'
  <2>1. SvcOK'
    BY <1>2, <1>4 DEF SvcOK
  <2> QED BY <1>2, <1>6, <2>1 DEF IInv, TypeOK, ReportsOK, SyncOK, PickOK
<1>8. FreshInv'
  BY <1>2 DEF IInv, FreshInv, Pending
<1>9. RemovedInv'
  BY <1>2, <1>4, <1>5 DEF IInv, RemovedInv
<1>10. ASSUME pick.pc # "idle", NEW b \in pick'.hope
       PROVE  b \in DOMAIN auths' /\ auths'[b] = auths[b] /\ b \in supports'
  <2>1. b \in supports /\ b \in DOMAIN auths
    BY <1>2, <1>10, HopesUsable
  <2> QED BY <1>2, <1>4, <1>5, <2>1
<1>11. ASSUME pick.pc = "again", NEW b \in pick'.hope PROVE Known(b)'
  BY <1>1, <1>2, <1>10, <1>11 DEF HopeInv, Known
<1>12. HopeInv'
  BY <1>1, <1>2, <1>10, <1>11, HopeKept
<1> QED BY <1>7, <1>8, <1>9, <1>12 DEF IInv

LEMMA RemovePublishStep ==
  ASSUME IInv, RemovePublish
  PROVE  IInv'
<1> DEFINE a == svc.auth
<1>1. now \in Nat /\ PickOK /\ HopeInv /\ MapTo(auths, Creds) /\ SchedOK(sched)
  BY SchedulerAssumption DEF IInv, TypeOK
<1>2. /\ UNCHANGED <<auths, supports, reports, pick, sync, now>>
      /\ sched' = removeAuth(sched, a) /\ svc.pc = "remove" /\ svc' = Idle
  BY DEF RemovePublish
<1> HIDE DEF a
<1>3. /\ SchedOK(sched') /\ sched'.strategy = sched.strategy
      /\ \A b : Fresh(sched, b, now) => Fresh(sched', b, now)
  BY <1>1, <1>2, RemoveAuthOK
<1>4. sched'.metas = drop(sched.metas, a)
  BY <1>1, <1>2, RemoveAuthOK
<1>5. /\ DOMAIN sched'.metas = DOMAIN sched.metas \ {a}
      /\ \A b \in DOMAIN sched.metas \ {a} : sched'.metas[b] = sched.metas[b]
  BY <1>4 DEF drop
<1>6. TypeOK'
  BY <1>2, <1>3 DEF IInv, TypeOK, SvcOK, ReportsOK, SyncOK, PickOK
<1>7. FreshInv'
  <2>1. \A b : Pending(b) => Pending(b)'
    BY <1>2 DEF Pending
  <2> QED BY <1>2, <1>3, <2>1 DEF IInv, FreshInv
<1>8. RemovedInv'
  BY <1>2, <1>5 DEF IInv, RemovedInv, a
<1>9. ASSUME pick.pc # "idle", NEW b \in pick'.hope
      PROVE  b \in DOMAIN auths' /\ auths'[b] = auths[b] /\ b \in supports' /\ b # a
  BY <1>2, <1>9, HopesUsable DEF a
<1>10. ASSUME pick.pc = "again", NEW b \in pick'.hope PROVE Known(b)'
  BY <1>1, <1>2, <1>3, <1>5, <1>9, <1>10 DEF HopeInv, Known
<1>11. HopeInv'
  BY <1>1, <1>2, <1>3, <1>9, <1>10, HopeKept
<1> QED BY <1>6, <1>7, <1>8, <1>11 DEF IInv

LEMMA InitInv ==
  ASSUME Init
  PROVE  IInv
<1>1. /\ now = 0 /\ svc = Idle /\ pick = NoPick /\ sync = Idle
      /\ reports = [r \in Reporters |-> Idle] /\ supports = DOMAIN Initial
      /\ auths = [a \in DOMAIN Initial |-> Credential(Initial[a], Free)]
  BY DEF Init
<1>2. MapTo(auths, Creds)
  <2> SUFFICES ASSUME NEW a \in DOMAIN Initial
               PROVE  a \in Auths /\ Credential(Initial[a], Free) \in Creds
    BY <1>1 DEF MapTo
  <2>1. Initial[a] \in Loadable
    BY DEF Loadable, ToSet
  <2>2. Initial[a].priority \in Priorities
    BY <2>1 DEF Priorities
  <2> QED BY <2>1, <2>2, SchedulerAssumption DEF Credential, Creds, Free
<1>3. PICK st \in Strategies : sched = rebuild([NewScheduler EXCEPT !.strategy = st], auths)
  BY DEF Init
<1> DEFINE s == [NewScheduler EXCEPT !.strategy = st]
<1>4. s.strategy \in Strategies
  BY DEF NewScheduler
<1> HIDE DEF s
<1>5. SchedOK(sched) /\ \A b : Fresh(sched, b, now)
  BY <1>2, <1>3, <1>4, RebuildOK, Zenon DEF s
<1>6. DOMAIN sched.metas \subseteq DOMAIN auths
  BY <1>3 DEF rebuild, NewScheduler
<1>7. TypeOK
  <2>1. now \in 0..MaxTime /\ supports \subseteq DOMAIN auths
    BY <1>1, SchedulerAssumption
  <2>2. SvcOK /\ ReportsOK /\ PickOK /\ SyncOK
    BY <1>1 DEF SvcOK, ReportsOK, PickOK, SyncOK, NoPick, Idle
  <2> QED BY <1>2, <1>5, <2>1, <2>2 DEF TypeOK
<1>8. FreshInv /\ RemovedInv
  BY <1>5, <1>6 DEF FreshInv, RemovedInv
<1>9. HopeInv
  BY <1>1 DEF HopeInv, NoPick
<1> QED BY <1>7, <1>8, <1>9 DEF IInv

\* The worker of the service, one step per action.
LEMMA ServiceStep ==
  ASSUME IInv, Service
  PROVE  IInv'
<1>1. /\ SvcOK /\ ReportsOK /\ SyncOK /\ MapTo(auths, Creds) /\ supports \subseteq DOMAIN auths
      /\ DOMAIN auths \subseteq Auths
  BY DEF IInv, TypeOK, MapTo
<1>2. ASSUME NEW a \in Changing, Unregister(a) PROVE IInv'
  <2>1. /\ UNCHANGED <<auths, sched, now, reports, sync>> /\ pick' = lost(a) /\ a \in DOMAIN auths
        /\ supports' = supports \ {a} /\ svc.pc = "idle" /\ svc' = [pc |-> "delete", auth |-> a]
    BY <1>2 DEF Unregister, unregistered
  <2>2. SvcOK'
    BY <2>1 DEF SvcOK
  <2> QED BY <1>1, <2>1, <2>2, LostStep
<1>3. ASSUME NEW a \in Changing, NEW p \in Profiles, Commit(a, p) PROVE IInv'
  <2>1. a \in Auths
    BY SchedulerAssumption
  <2> QED BY <1>3, <2>1, CommitStep
<1>4. CASE CommitUpsert
  <2>1. /\ Publish(svc.auth, auths[svc.auth], TRUE) /\ svc.pc = "upsert"
        /\ svc' = [svc EXCEPT !.pc = "register"]
        /\ UNCHANGED <<auths, supports, reports, sync, now>>
    BY <1>4, Zenon DEF CommitUpsert
  <2>2. svc \in [pc : {"upsert"}, auth : DOMAIN auths]
    BY <1>1, <2>1 DEF SvcOK, Idle
  <2>3. svc.auth \in Auths /\ auths[svc.auth] \in Creds
    BY <1>1, <2>2 DEF MapTo
  <2>4. svc' \in [pc : {"register"}, auth : DOMAIN auths]
    BY <2>1, <2>2
  <2>5. SvcOK' /\ ReportsOK'
    BY <1>1, <2>1, <2>4 DEF SvcOK, ReportsOK
  <2>6. \A b : Pending(b) => Pending(b)'
    BY <2>1 DEF Pending
  <2> QED BY <2>1, <2>3, <2>5, <2>6, PublishStep, Zenon
<1>5. CASE RegisterModels
  <2>1. /\ UNCHANGED <<auths, sched, now, reports, sync>> /\ pick' = lost(svc.auth)
        /\ svc.pc = "register" /\ svc' = [svc EXCEPT !.pc = "reconcile"]
    BY <1>5 DEF RegisterModels
  <2>2. svc \in [pc : {"register"}, auth : DOMAIN auths]
    BY <1>1, <2>1 DEF SvcOK, Idle
  <2>3. svc' \in [pc : {"reconcile"}, auth : DOMAIN auths]
    BY <2>1, <2>2
  <2>4. SvcOK'
    BY <2>1, <2>3 DEF SvcOK
  <2>5. supports' \subseteq DOMAIN auths /\ supports \ {svc.auth} \subseteq supports'
    BY <1>1, <1>5, <2>2 DEF RegisterModels
  <2> QED BY <2>1, <2>4, <2>5, LostStep
<1>6. CASE ReconcileRegistryModelStates
  <2>1. svc.pc = "reconcile" /\ UNCHANGED <<supports, reports, sync, now>>
    BY <1>6 DEF ReconcileRegistryModelStates
  <2>2. svc \in [pc : {"reconcile"}, auth : DOMAIN auths]
    BY <1>1, <2>1 DEF SvcOK, Idle
  <2>3. CASE auths[svc.auth].until = Free
    <3>1. svc' = [svc EXCEPT !.pc = "read"] /\ UNCHANGED <<auths, sched, pick>>
      BY <1>6, <2>3 DEF ReconcileRegistryModelStates
    <3>2. svc' \in [pc : {"read"}, auth : DOMAIN auths]
      BY <2>2, <3>1
    <3>3. SvcOK' /\ SyncOK' /\ PickOK'
      BY <1>1, <2>1, <3>1, <3>2 DEF IInv, TypeOK, SvcOK, SyncOK, PickOK
    <3>4. HopeInv'
      BY <2>1, <3>1 DEF IInv, HopeInv, usable, Known
    <3> QED BY <1>1, <2>1, <3>1, <3>3, <3>4, QuietStep
  <2>4. CASE auths[svc.auth].until # Free
    <3>1. /\ Mutate(svc.auth, Free)
          /\ svc' = [pc |-> "reconciled", auth |-> svc.auth, snapshot |-> auths'[svc.auth]]
      BY <1>6, <2>4 DEF ReconcileRegistryModelStates
    <3>2. DOMAIN auths' = DOMAIN auths /\ auths'[svc.auth] \in Creds
      BY <2>1, <2>2, <3>1, MutateKeeps DEF Free
    <3>3. SvcOK' /\ ReportsOK'
      BY <1>1, <2>1, <2>2, <3>1, <3>2 DEF SvcOK, ReportsOK
    <3>4. Pending(svc.auth)' /\ \A b : Pending(b) => Pending(b)'
      BY <2>1, <3>1 DEF Pending
    <3> QED BY <2>1, <2>2, <3>1, <3>3, <3>4, MutateStep DEF Free
  <2> QED BY <2>3, <2>4
<1>7. CASE ReconcilePublish
  <2>1. /\ Publish(svc.auth, svc.snapshot, FALSE) /\ svc.pc = "reconciled"
        /\ svc' = [pc |-> "read", auth |-> svc.auth]
        /\ UNCHANGED <<auths, supports, reports, sync, now>>
    BY <1>7, Zenon DEF ReconcilePublish
  <2>2. svc \in [pc : {"reconciled"}, auth : DOMAIN auths, snapshot : Creds]
    BY <1>1, <2>1 DEF SvcOK, Idle
  <2>3. SvcOK' /\ ReportsOK'
    BY <1>1, <2>1, <2>2 DEF SvcOK, ReportsOK
  <2>4. \A b : b # svc.auth /\ Pending(b) => Pending(b)'
    BY <2>1 DEF Pending
  <2> QED BY <1>1, <2>1, <2>2, <2>3, <2>4, PublishStep, Zenon
<1>8. CASE RefreshRead
  <2>1. /\ svc.pc = "read"
        /\ svc' = [pc |-> "refresh", auth |-> svc.auth, snapshot |-> auths[svc.auth]]
        /\ UNCHANGED <<auths, supports, sched, reports, pick, sync, now>>
    BY <1>8 DEF RefreshRead
  <2>2. svc \in [pc : {"read"}, auth : DOMAIN auths]
    BY <1>1, <2>1 DEF SvcOK, Idle
  <2>3. svc' \in [pc : {"refresh"}, auth : DOMAIN auths, snapshot : Creds]
    BY <1>1, <2>1, <2>2 DEF MapTo
  <2>4. SvcOK' /\ SyncOK' /\ PickOK'
    BY <1>1, <2>1, <2>3 DEF IInv, TypeOK, SvcOK, SyncOK, PickOK
  <2>5. HopeInv'
    BY <2>1 DEF IInv, HopeInv, usable, Known
  <2> QED BY <1>1, <2>1, <2>4, <2>5, QuietStep
<1>9. CASE RefreshPublish
  <2>1. /\ Publish(svc.auth, svc.snapshot, FALSE) /\ svc.pc = "refresh" /\ svc' = Idle
        /\ UNCHANGED <<auths, supports, reports, sync, now>>
    BY <1>9, Zenon DEF RefreshPublish
  <2>2. svc \in [pc : {"refresh"}, auth : DOMAIN auths, snapshot : Creds]
    BY <1>1, <2>1 DEF SvcOK, Idle
  <2>3. SvcOK' /\ ReportsOK'
    BY <1>1, <2>1 DEF SvcOK, ReportsOK
  <2>4. \A b : Pending(b) => Pending(b)'
    BY <2>1 DEF Pending
  <2> QED BY <1>1, <2>1, <2>2, <2>3, <2>4, PublishStep, Zenon
<1> QED BY <1>2, <1>3, <1>4, <1>5, <1>6, <1>7, <1>8, <1>9, RemoveAuthStep, RemovePublishStep
        DEF Service

LEMMA ReportStep ==
  ASSUME IInv, NEW r \in Reporters,
         \/ MarkResultPublish(r)
         \/ \E a \in Changing, u \in {Free, now + 1, Forever} : MarkResult(r, a, u)
  PROVE  IInv'
<1>1. /\ SvcOK /\ ReportsOK /\ MapTo(auths, Creds) /\ DOMAIN auths \subseteq Auths
      /\ now \in Nat /\ MaxTime \in Nat
  BY SchedulerAssumption DEF IInv, TypeOK, MapTo
<1>2. CASE MarkResultPublish(r)
  <2>1. /\ Publish(reports[r].auth, reports[r].snapshot, FALSE) /\ reports[r] # Idle
        /\ reports' = [reports EXCEPT ![r] = Idle]
        /\ UNCHANGED <<auths, supports, svc, sync, now>>
    BY <1>2, Zenon DEF MarkResultPublish
  <2>2. reports[r] \in [pc : {"publish"}, auth : Auths, snapshot : Creds]
    BY <1>1, <2>1 DEF ReportsOK
  <2>3. SvcOK' /\ ReportsOK'
    BY <1>1, <2>1 DEF SvcOK, ReportsOK
  <2>4. \A b : b # reports[r].auth /\ Pending(b) => Pending(b)'
    BY <1>1, <2>1 DEF Pending, ReportsOK
  <2> QED BY <2>1, <2>2, <2>3, <2>4, PublishStep, Zenon
<1>3. ASSUME NEW a \in Changing, NEW u \in {Free, now + 1, Forever}, MarkResult(r, a, u)
      PROVE  IInv'
  <2>1. /\ Mutate(a, u) /\ reports[r] = Idle /\ a \in DOMAIN auths
        /\ reports' = [reports EXCEPT ![r] = [pc |-> "publish", auth |-> a, snapshot |-> auths'[a]]]
        /\ UNCHANGED <<supports, svc, sync, now>>
    BY <1>3 DEF MarkResult
  <2>2. u \in Nat
    BY <1>1 DEF Free, Forever
  <2>3. DOMAIN auths' = DOMAIN auths /\ auths'[a] \in Creds
    BY <2>1, <2>2, MutateKeeps
  <2>4. a \in Auths
    BY <1>1, <2>1
  <2>5. SvcOK' /\ ReportsOK'
    BY <1>1, <2>1, <2>3, <2>4 DEF SvcOK, ReportsOK
  <2>6. reports'[r] # Idle /\ reports'[r].auth = a
    BY <1>1, <2>1 DEF ReportsOK, Idle
  <2>7. Pending(a)' /\ \A b : Pending(b) => Pending(b)'
    BY <1>1, <2>1, <2>6 DEF Pending, ReportsOK
  <2> QED BY <2>1, <2>2, <2>5, <2>7, MutateStep
<1> QED BY <1>2, <1>3

\* A pick of a request, the first one and the one after the rebuild.
LEMMA PickStep ==
  ASSUME IInv, NEW q \in Requests, Pick(q.route, q.tried)
  PROVE  IInv'
<1> DEFINE route == q.route
           tried == q.tried
           r == pickFrom(sched, route, tried)
<1>1. route \in Routes /\ now \in 0..MaxTime /\ SchedOK(sched) /\ PickOK
  BY DEF IInv, TypeOK, Routes
<1>2. /\ UNCHANGED <<auths, supports, svc, reports, sync, now>>
      /\ sched' = r.s /\ pick.pc = "idle"
      /\ \/ UNCHANGED pick
         \/ pick' = [NoPick EXCEPT !.pc = "snapshot", !.route = route, !.tried = tried,
                                   !.hope = usable(route, tried)]
  BY DEF Pick
<1> HIDE DEF route, tried, r
<1>3. Keeps(sched, sched')
  BY <1>1, <1>2, PickFromOK DEF r
<1>4. CASE UNCHANGED pick
  BY <1>1, <1>2, <1>3, <1>4, KeepsStep DEF HopeInv, PickOK
<1>5. CASE pick' = [NoPick EXCEPT !.pc = "snapshot", !.route = route, !.tried = tried,
                                  !.hope = usable(route, tried)]
  <2>1. /\ pick'.pc = "snapshot" /\ pick'.route = route /\ pick'.tried = tried
        /\ pick'.hope = usable(route, tried)
        /\ pick' \in [pc : {"idle", "snapshot", "rebuild", "again"}, route : {pick'.route},
                      tried : {pick'.tried}, snapshot : {pick'.snapshot}, hope : {pick'.hope}]
    BY <1>5, Zenon DEF NoPick
  <2>2. PickOK'
    BY <1>1, <2>1 DEF PickOK
  <2>3. usable(route, tried)' = usable(route, tried)
    BY <1>2, <1>3 DEF usable, Keeps, route, tried
  <2>4. HopeInv'
    BY <2>1, <2>3 DEF HopeInv, usable
  <2> QED BY <1>2, <1>3, <2>2, <2>4, KeepsStep
<1> QED BY <1>2, <1>4, <1>5

LEMMA PickRebuildStep ==
  ASSUME IInv, PickRebuild
  PROVE  IInv'
<1>1. /\ PickOK /\ HopeInv /\ SyncOK /\ sched.strategy \in Strategies
      /\ now \in Nat /\ MapTo(auths, Creds)
  BY SchedulerAssumption DEF IInv, TypeOK, SchedOK
<1>2. /\ UNCHANGED <<auths, supports, svc, reports, sync, now>> /\ pick.pc = "rebuild"
      /\ sched' = rebuild(sched, pick.snapshot)
      /\ pick' = [pick EXCEPT !.pc = "again", !.snapshot = <<>>]
  BY DEF PickRebuild
<1>3. MapTo(pick.snapshot, Creds)
  BY <1>1, <1>2 DEF PickOK
<1>4. sched'.strategy = sched.strategy /\ \A b : Fresh(sched', b, now)
  BY <1>1, <1>2, <1>3, RebuildOK
<1>5. /\ pick'.pc = "again" /\ pick'.route = pick.route /\ pick'.tried = pick.tried
      /\ pick'.hope = pick.hope
      /\ pick' \in [pc : {"idle", "snapshot", "rebuild", "again"}, route : {pick'.route},
                    tried : {pick'.tried}, snapshot : {pick'.snapshot}, hope : {pick'.hope}]
  BY <1>1, <1>2, Zenon DEF PickOK
<1>6. PickOK'
  BY <1>1, <1>2, <1>5 DEF PickOK
<1>7. ASSUME NEW b \in pick.hope PROVE Known(b)' /\ b \in usable(pick.route, pick.tried)'
  <2>1. /\ b \in usable(pick.route, pick.tried)
        /\ b \in DOMAIN pick.snapshot /\ pick.snapshot[b] = auths[b]
    BY <1>1, <1>2 DEF HopeInv
  <2>2. b \in DOMAIN auths /\ b \in supports /\ ~auths[b].disabled /\ auths[b] \in Creds
    BY <1>1, <2>1 DEF usable, MapTo
  <2>3. b \in DOMAIN sched'.metas /\ sched'.metas[b] = meta(b, auths[b], FALSE)
    BY <1>2, <2>1, <2>2, Zenon DEF rebuild, NewScheduler
  <2>4. /\ meta(b, auths[b], FALSE).supported = (b \in supports)
        /\ meta(b, auths[b], FALSE).weight = auths[b].weight
        /\ meta(b, auths[b], FALSE).until = auths[b].until
    BY <2>2, MetaType, Zenon
  <2>5. Known(b)'
    BY <1>2, <1>4, <2>2, <2>3, <2>4, Zenon DEF Known
  <2>6. b \in usable(pick.route, pick.tried)'
    BY <1>2, <1>4, <1>5, <2>1 DEF usable
  <2> QED BY <2>5, <2>6
<1>8. HopeInv'
  BY <1>5, <1>7 DEF HopeInv
<1>9. SyncOK'
  BY <1>1, <1>2 DEF SyncOK
<1> QED BY <1>2, <1>3, <1>6, <1>8, <1>9, RebuildStep

\* The rest of the steps of requests and of SetSelector, and the clock.
LEMMA OtherStep ==
  ASSUME IInv, \/ PickSnapshot \/ PickAgain \/ SyncSnapshot \/ SyncRebuild \/ Tick
               \/ \E st \in Strategies : SetSelector(st)
               \/ UNCHANGED vars
  PROVE  IInv'
<1>1. /\ PickOK /\ HopeInv /\ SyncOK /\ SvcOK /\ SchedOK(sched)
      /\ now \in 0..MaxTime /\ now \in Nat /\ MapTo(auths, Creds) /\ supports \subseteq DOMAIN auths
  BY SchedulerAssumption DEF IInv, TypeOK
<1>2. CASE PickSnapshot
  <2>1. /\ UNCHANGED <<auths, supports, sched, svc, reports, sync, now>>
        /\ pick.pc = "snapshot" /\ pick' = [pick EXCEPT !.pc = "rebuild", !.snapshot = auths]
    BY <1>2 DEF PickSnapshot
  <2>2. /\ pick'.pc = "rebuild" /\ pick'.route = pick.route /\ pick'.tried = pick.tried
        /\ pick'.hope = pick.hope /\ pick'.snapshot = auths
        /\ pick' \in [pc : {"idle", "snapshot", "rebuild", "again"}, route : {pick'.route},
                      tried : {pick'.tried}, snapshot : {pick'.snapshot}, hope : {pick'.hope}]
    BY <1>1, <2>1, Zenon DEF PickOK
  <2>3. PickOK' /\ SyncOK' /\ SvcOK'
    BY <1>1, <2>1, <2>2 DEF PickOK, SyncOK, SvcOK
  <2>4. HopeInv'
    BY <1>1, <2>1, <2>2 DEF HopeInv, usable
  <2> QED BY <1>1, <2>1, <2>3, <2>4, QuietStep
<1>3. CASE PickAgain
  <2>1. /\ UNCHANGED <<auths, supports, svc, reports, sync, now>> /\ pick' = NoPick
        /\ pick.pc = "again" /\ sched' = pickFrom(sched, pick.route, pick.tried).s
    BY <1>3 DEF PickAgain
  <2>2. pick.route \in Routes
    BY <1>1, <2>1 DEF PickOK
  <2>3. Keeps(sched, sched')
    BY <1>1, <2>1, <2>2, PickFromOK
  <2>4. PickOK' /\ HopeInv'
    BY <2>1 DEF PickOK, HopeInv, NoPick
  <2> QED BY <2>1, <2>3, <2>4, KeepsStep
<1>4. CASE SyncSnapshot
  <2>1. /\ UNCHANGED <<auths, supports, sched, svc, reports, pick, now>>
        /\ sync' = [pc |-> "rebuild", snapshot |-> auths]
    BY <1>4 DEF SyncSnapshot
  <2>2. PickOK' /\ SyncOK' /\ SvcOK'
    BY <1>1, <2>1 DEF PickOK, SyncOK, SvcOK
  <2>3. HopeInv'
    BY <1>1, <2>1 DEF HopeInv, usable, Known
  <2> QED BY <1>1, <2>1, <2>2, <2>3, QuietStep
<1>5. CASE SyncRebuild
  <2>1. /\ UNCHANGED <<auths, supports, svc, reports, now>> /\ sync.pc = "rebuild"
        /\ sched' = rebuild(sched, sync.snapshot) /\ sync' = Idle
        /\ pick' = [pick EXCEPT !.hope = {}]
    BY <1>5 DEF SyncRebuild
  <2>2. MapTo(sync.snapshot, Creds) /\ SyncOK'
    BY <1>1, <2>1 DEF SyncOK, Idle
  <2>3. PickOK' /\ HopeInv'
    BY <1>1, <2>1, PickKept DEF HopeInv
  <2> QED BY <2>1, <2>2, <2>3, RebuildStep
<1>6. CASE Tick
  <2>1. /\ UNCHANGED <<auths, supports, sched, svc, reports, pick, sync>>
        /\ now' = now + 1 /\ now < MaxTime
    BY <1>6 DEF Tick
  <2>2. now' \in 0..MaxTime /\ now' \in Nat /\ now <= now'
    BY <1>1, <2>1, SchedulerAssumption
  <2>3. \A b : Fresh(sched, b, now) => Fresh(sched', b, now')
    BY <1>1, <2>1, <2>2, FreshLater
  <2>4. TypeOK'
    BY <2>1, <2>2 DEF IInv, TypeOK, SvcOK, ReportsOK, SyncOK, PickOK
  <2>5. FreshInv' /\ RemovedInv'
    BY <2>1, <2>3 DEF IInv, FreshInv, RemovedInv, Pending
  <2>6. ASSUME pick.pc # "idle", NEW b \in pick'.hope
        PROVE  b \in DOMAIN auths' /\ auths'[b] = auths[b] /\ b \in supports'
    BY <2>1, <2>6, HopesUsable
  <2>7. ASSUME pick.pc = "again", NEW b \in pick'.hope PROVE Known(b)'
    BY <1>1, <2>1, <2>3, <2>7 DEF HopeInv, Known
  <2>8. HopeInv'
    BY <1>1, <2>1, <2>2, <2>6, <2>7, HopeKept
  <2> QED BY <2>4, <2>5, <2>8 DEF IInv
<1>7. ASSUME NEW st \in Strategies, SetSelector(st) PROVE IInv'
  <2>1. /\ UNCHANGED <<auths, supports, svc, reports, now>> /\ sync' = [pc |-> "snapshot"]
        /\ sched' = [sched EXCEPT !.strategy = st, !.cursor = NewScheduler.cursor,
                                  !.weighted = NewScheduler.weighted]
        /\ pick' = [pick EXCEPT !.hope = {}]
    BY <1>7, Zenon DEF SetSelector
  <2>2. /\ NewScheduler.cursor = [r \in Routes |-> 0]
        /\ NewScheduler.weighted = [r \in Routes |-> [current |-> <<>>, weights |-> <<>>]]
    BY DEF NewScheduler
  <2>3. NewScheduler.cursor \in [Routes -> Nat]
    BY <2>2
  <2>4. /\ DOMAIN NewScheduler.weighted = Routes
        /\ \A r \in Routes : CurrentOK(NewScheduler.weighted[r])
    BY <2>2 DEF CurrentOK
  <2>5. /\ IsSched(sched') /\ sched'.strategy = st /\ sched'.metas = sched.metas
        /\ sched'.shards = sched.shards /\ sched'.cursor = NewScheduler.cursor
        /\ sched'.weighted = NewScheduler.weighted
    BY <1>1, <2>1, Zenon DEF SchedOK, IsSched
  <2>6. SchedOK(sched')
    BY <1>1, <2>3, <2>4, <2>5 DEF SchedOK
  <2>7. \A b : Fresh(sched, b, now) => Fresh(sched', b, now)
    BY <2>5 DEF Fresh
  <2>8. PickOK' /\ HopeInv'
    BY <1>1, <2>1, PickKept DEF HopeInv
  <2>9. TypeOK'
    BY <2>1, <2>6, <2>8 DEF IInv, TypeOK, SvcOK, ReportsOK, SyncOK
  <2>10. FreshInv' /\ RemovedInv'
    BY <2>1, <2>5, <2>7 DEF IInv, FreshInv, RemovedInv, Pending
  <2> QED BY <2>8, <2>9, <2>10 DEF IInv
<1>8. CASE UNCHANGED vars
  <2>1. UNCHANGED <<auths, supports, sched, svc, reports, pick, sync, now>>
    BY <1>8 DEF vars
  <2>2. PickOK' /\ SyncOK' /\ SvcOK'
    BY <1>1, <2>1 DEF PickOK, SyncOK, SvcOK
  <2>3. HopeInv'
    BY <1>1, <2>1 DEF HopeInv, usable, Known
  <2> QED BY <1>1, <2>1, <2>2, <2>3, QuietStep
<1> QED BY <1>2, <1>3, <1>4, <1>5, <1>6, <1>7, <1>8

LEMMA Inductive == Spec => []IInv
<1>1. Init => IInv
  BY InitInv
<1>2. IInv /\ [Next]_vars => IInv'
  BY ServiceStep, ReportStep, PickStep, PickRebuildStep, OtherStep DEF Next
<1> QED BY <1>1, <1>2, PTL DEF Spec

-----------------------------------------------------------------------------
(* What follows from it *)

\* The scheduler keeps its shape through every interleaving: entries are those
\* of the published credentials with models, cursors are numbers in range, and
\* a worker's credential is there when it uses it.
THEOREM TypeCorrect == Spec => []TypeOK
<1>1. IInv => TypeOK
  BY DEF IInv
<1> QED BY <1>1, Inductive, PTL

\* The views and the blocked list of a shard are always those of its entries,
\* although upsertEntryLocked leaves them alone when nothing seems to change.
THEOREM ViewsCorrect == Spec => []ViewsMatchEntries
<1>1. IInv => ViewsMatchEntries
  <2> SUFFICES ASSUME IInv, NEW p \in DOMAIN sched.shards
               PROVE  /\ \A q \in Priorities :
                           sched.shards[p].ready[q].flat = sorted(readyEntries(p, q))
                      /\ {a \in DOMAIN sched.shards[p].entries :
                            sched.shards[p].entries[a].nextRetryAt > 0} \subseteq sched.shards[p].blocked
    BY DEF ViewsMatchEntries
  <2>1. ShardOK(sched.shards[p], sched.metas, p)
    BY DEF IInv, TypeOK, SchedOK
  <2>2. \A q : readyEntries(p, q) = readyOf(sched.shards[p].entries, sched.metas, q)
    BY DEF readyEntries, readyOf
  <2>3. {a \in DOMAIN sched.shards[p].entries :
           sched.shards[p].entries[a].nextRetryAt > 0} \subseteq sched.shards[p].blocked
    BY <2>1 DEF ShardOK, EntriesOK, blockedOf
  <2>4. \A q \in Priorities :
          sched.shards[p].ready[q].flat = sorted(readyOf(sched.shards[p].entries, sched.metas, q))
    BY <2>1 DEF ShardOK
  <2> QED BY <2>2, <2>3, <2>4
<1> QED BY <1>1, Inductive, PTL

\* The candidates of a pick, by what the scheduler holds of them: a fresh
\* credential is one exactly if its models are registered and its time has come.
LEMMA Candidate ==
  ASSUME SchedOK(sched), now \in 0..MaxTime, NEW route, NEW tried, NEW q \in Priorities,
         NEW a \in DOMAIN sched.metas, Fresh(sched, a, now)
  PROVE  LET u == prepared(sched, route)
         IN  a \in atPriority(u, route, q, eligible(u, tried)) <=>
               /\ a \notin tried /\ (sched.strategy = "weighted" => sched.metas[a].weight > 0)
               /\ ProviderOf[a] \in ToSet(route) /\ sched.metas[a].supported
               /\ sched.metas[a].priority = q /\ sched.metas[a].until <= now
<1> DEFINE u == prepared(sched, route)
           ok == eligible(u, tried)
<1>1. Keeps(sched, u)
  BY PreparedOK
<1>2. SchedOK(u) /\ u.metas = sched.metas /\ u.strategy = sched.strategy
  BY <1>1 DEF Keeps
<1>3. sched.metas[a].supported /\ ProviderOf[a] \in ToSet(route) =>
        /\ ProviderOf[a] \in DOMAIN u.shards
        /\ u.shards[ProviderOf[a]].entries[a].state = "ready" <=> sched.metas[a].until <= now
  BY PreparedOK
<1> HIDE DEF u
<1>4. ok \subseteq DOMAIN u.metas
  BY DEF eligible
<1>5. a \in ok <=> a \notin tried /\ (sched.strategy = "weighted" => sched.metas[a].weight > 0)
  BY <1>2 DEF eligible
<1> HIDE DEF ok
<1>6. atPriority(u, route, q, ok) \subseteq ok
  BY <1>2, <1>4, AtPriority, Zenon
<1>7. a \in ok => (a \in atPriority(u, route, q, ok) <=>
              /\ ProviderOf[a] \in ToSet(route) /\ ProviderOf[a] \in DOMAIN u.shards
              /\ u.metas[a].supported /\ u.metas[a].priority = q
              /\ u.shards[ProviderOf[a]].entries[a].state = "ready")
  BY <1>2, <1>4, AtPriority
<1> QED BY <1>2, <1>3, <1>5, <1>6, <1>7 DEF u, ok

\* What is picked was published with its models.
LEMMA PickedSupported ==
  ASSUME SchedOK(sched), now \in 0..MaxTime, NEW route \in Routes, NEW tried,
         pickFrom(sched, route, tried).picked # 0
  PROVE  LET a == pickFrom(sched, route, tried).picked
         IN  a \in DOMAIN sched.metas /\ sched.metas[a].supported
<1> DEFINE u == prepared(sched, route)
           ok == eligible(u, tried)
           a == pickFrom(sched, route, tried).picked
<1>1. Keeps(sched, u)
  BY PreparedOK
<1>2. SchedOK(u) /\ u.metas = sched.metas
  BY <1>1 DEF Keeps
<1>3. PICK q : Found(u, route, ok, q) /\ a \in atPriority(u, route, q, ok)
  BY PickFromOK
<1>4. ok \subseteq DOMAIN u.metas /\ q \in Priorities
  BY <1>3 DEF eligible, Found
<1> HIDE DEF u, ok, a
<1>5. a \in ok
  BY <1>2, <1>3, <1>4, AtPriority, Zenon
<1>6. u.metas[a].supported
  BY <1>2, <1>3, <1>4, <1>5, AtPriority, Zenon
<1> QED BY <1>2, <1>4, <1>5, <1>6 DEF a

\* A removed credential is not picked once Remove has reached the scheduler,
\* whatever copies of it are published afterwards.
THEOREM RemovedNeverPicked == Spec => []NoRemovedPicked
<1>1. IInv => NoRemovedPicked
  <2> SUFFICES ASSUME IInv, NEW a \in DOMAIN sched.metas \ DOMAIN auths,
                      svc # [pc |-> "remove", auth |-> a],
                      NEW r \in Requests, picks(r) = a
               PROVE  FALSE
    BY DEF NoRemovedPicked
  <2>1. SchedOK(sched) /\ now \in 0..MaxTime /\ r.route \in Routes
    BY DEF IInv, TypeOK, Routes
  <2>2. ~sched.metas[a].supported
    BY DEF IInv, RemovedInv
  <2>3. a # 0 /\ pickFrom(sched, r.route, r.tried).picked = a
    BY <2>1, SchedulerAssumption DEF SchedOK, MapTo, Auths, picks
  <2>4. sched.metas[a].supported
    BY <2>1, <2>3, PickedSupported
  <2> QED BY <2>2, <2>4
<1> QED BY <1>1, Inductive, PTL

\* A request that is refused after the rebuild had no credential that was
\* usable when its pick began and stayed untouched since.
THEOREM RefusedOnlyIfNoneReady == Spec => []PickFindsReady
<1>1. IInv => PickFindsReady
  <2> SUFFICES ASSUME IInv, pick.pc = "again", NEW a \in pick.hope
               PROVE  pickFrom(sched, pick.route, pick.tried).picked # 0
    BY DEF PickFindsReady
  <2> DEFINE route == pick.route
             tried == pick.tried
             u == prepared(sched, route)
             ok == eligible(u, tried)
             q == sched.metas[a].priority
             picked == pickFrom(sched, route, tried).picked
  <2>1. SchedOK(sched) /\ now \in 0..MaxTime /\ route \in Routes /\ MapTo(auths, Creds)
    BY DEF IInv, TypeOK, PickOK
  <2>2. Known(a) /\ a \in usable(route, tried)
    BY DEF IInv, HopeInv
  <2>3. q \in Priorities
    BY <2>1, <2>2 DEF Known, SchedOK, MapTo, Metas
  <2>4. auths[a].until \in Nat /\ now \in Nat
    BY <2>1, <2>2, SchedulerAssumption DEF usable, MapTo, Creds
  <2>5. /\ a \in DOMAIN sched.metas /\ Fresh(sched, a, now) /\ sched.metas[a].supported
        /\ a \notin tried /\ (sched.strategy = "weighted" => sched.metas[a].weight > 0)
        /\ ProviderOf[a] \in ToSet(route) /\ sched.metas[a].until <= now
    BY <2>2, <2>4 DEF Known, usable, isAuthBlockedForModel
  <2> HIDE DEF route, tried
  <2>6. a \in atPriority(u, route, q, ok)
    BY <2>1, <2>3, <2>5, Candidate
  <2>7. PICK x : Found(u, route, ok, x) /\ picked \in atPriority(u, route, x, ok)
    BY <2>1, <2>3, <2>6, PickFromOK
  <2>8. picked \in DOMAIN sched.metas
    <3>1. SchedOK(u) /\ u.metas = sched.metas
      BY <2>1, PreparedOK DEF Keeps
    <3>2. ok \subseteq DOMAIN u.metas /\ x \in Priorities
      BY <2>7 DEF eligible, Found
    <3> HIDE DEF u, ok, picked
    <3>3. picked \in ok
      BY <2>7, <3>1, <3>2, AtPriority, Zenon
    <3> QED BY <3>1, <3>2, <3>3
  <2>9. picked # 0
    BY <2>1, <2>8, SchedulerAssumption DEF SchedOK, MapTo, Auths
  <2> QED BY <2>9 DEF route, tried
<1> QED BY <1>1, Inductive, PTL

\* In step, the candidates at a priority are the usable credentials that have it.
LEMMA CandidatesUsable ==
  ASSUME IInv, InStep, NEW route, NEW tried, NEW q \in Priorities
  PROVE  LET u == prepared(sched, route)
         IN  \A a : a \in atPriority(u, route, q, eligible(u, tried)) <=>
                      a \in usable(route, tried) /\ auths[a].priority = q
<1> DEFINE u == prepared(sched, route)
           ok == eligible(u, tried)
<1>1. SchedOK(sched) /\ now \in 0..MaxTime /\ now \in Nat /\ MapTo(auths, Creds)
  BY SchedulerAssumption DEF IInv, TypeOK
<1>2. SchedOK(u) /\ u.metas = sched.metas
  BY <1>1, PreparedOK DEF Keeps
<1>3. atPriority(u, route, q, ok) \subseteq DOMAIN sched.metas
  BY <1>2 DEF atPriority, eligible
<1>4. usable(route, tried) \subseteq DOMAIN sched.metas
  BY DEF InStep, usable
<1>5. ASSUME NEW a \in DOMAIN sched.metas
      PROVE  a \in atPriority(u, route, q, ok) <=>
               a \in usable(route, tried) /\ auths[a].priority = q
  <2>1. a \in Auths /\ a \in DOMAIN auths /\ auths[a] \in Creds /\ ~auths[a].disabled
    BY <1>1 DEF InStep, MapTo
  <2>2. Fresh(sched, a, now)
    BY <2>1 DEF IInv, FreshInv, Pending, InStep
  <2>3. DOMAIN auths[a] = {"priority", "weight", "disabled", "until"} /\ auths[a].until \in Nat
    BY <2>1 DEF Creds
  <2>4. /\ sched.metas[a]["priority"] = auths[a]["priority"]
        /\ sched.metas[a]["weight"] = auths[a]["weight"]
        /\ sched.metas[a]["until"] = auths[a]["until"]
        /\ sched.metas[a].supported = (a \in supports)
    BY <2>3 DEF InStep
  <2>5. a \in atPriority(u, route, q, ok) <=>
          /\ a \notin tried /\ (sched.strategy = "weighted" => sched.metas[a].weight > 0)
          /\ ProviderOf[a] \in ToSet(route) /\ sched.metas[a].supported
          /\ sched.metas[a].priority = q /\ sched.metas[a].until <= now
    BY <1>1, <2>2, Candidate
  <2> HIDE DEF u, ok
  <2>6. auths[a].until <= now <=> ~isAuthBlockedForModel(auths[a], now)
    BY <1>1, <2>3 DEF isAuthBlockedForModel
  <2> QED BY <2>1, <2>4, <2>5, <2>6, Zenon DEF usable
<1> QED BY <1>3, <1>4, <1>5

\* A scheduler in step picks one of the highest priority among the credentials
\* a scan would find usable, and nothing only if there are none.
THEOREM PicksBest == Spec => []PickIsBest
<1>1. IInv => PickIsBest
  <2> SUFFICES ASSUME IInv, InStep, NEW r \in Requests
               PROVE  LET best == Best(r.route, r.tried)
                      IN  picks(r) \in IF best = {} THEN {0} ELSE best
    BY DEF PickIsBest
  <2> DEFINE route == r.route
             tried == r.tried
             u == prepared(sched, route)
             ok == eligible(u, tried)
             can(q) == atPriority(u, route, q, ok)
             picked == pickFrom(sched, route, tried).picked
  <2>1. SchedOK(sched) /\ now \in 0..MaxTime /\ route \in Routes /\ MapTo(auths, Creds)
    BY DEF IInv, TypeOK, Routes
  <2>2. IF \A q \in Priorities : can(q) = {} THEN picked = 0
        ELSE \E q : Found(u, route, ok, q) /\ picked \in can(q)
    BY <2>1, PickFromOK
  <2>3. \A q \in Priorities : \A a : a \in can(q) <=>
          a \in usable(route, tried) /\ auths[a].priority = q
    BY CandidatesUsable
  <2>4. \A a \in usable(route, tried) : auths[a].priority \in Priorities
    BY <2>1 DEF usable, MapTo, Creds
  <2>5. \A q : Found(u, route, ok, q) =>
          q \in Priorities /\ \A x \in Priorities : can(x) # {} => x <= q
    BY DEF Found
  <2>6. picks(r) = picked
    BY DEF picks
  <2> HIDE DEF can, picked, u, ok
  <2>7. CASE \A q \in Priorities : can(q) = {}
    <3>1. usable(route, tried) = {}
      BY <2>3, <2>4, <2>7
    <3>2. Best(r.route, r.tried) = {}
      BY <3>1 DEF Best
    <3> QED BY <2>2, <2>6, <2>7, <3>2
  <2>8. CASE ~\A q \in Priorities : can(q) = {}
    <3>1. PICK q : Found(u, route, ok, q) /\ picked \in can(q)
      BY <2>2, <2>8
    <3>2. picked \in usable(route, tried) /\ auths[picked].priority = q
      BY <2>3, <2>5, <3>1
    <3>3. ASSUME NEW b \in usable(route, tried) PROVE auths[b].priority <= auths[picked].priority
      <4>1. b \in can(auths[b].priority)
        BY <2>3, <2>4
      <4> QED BY <2>4, <2>5, <3>1, <3>2, <4>1
    <3>4. picked \in Best(r.route, r.tried)
      BY <3>2, <3>3 DEF Best
    <3> QED BY <2>6, <3>4
  <2> QED BY <2>7, <2>8
<1> QED BY <1>1, Inductive, PTL

-----------------------------------------------------------------------------
(* The cycle of the smooth weighted rotation *)

\* The positive weights of the candidates.
Vector(w) ==
  /\ w = [a \in DOMAIN w |-> w[a]]
  /\ DOMAIN w # {} /\ IsFiniteSet(DOMAIN w) /\ DOMAIN w \subseteq Nat
  /\ \A a \in DOMAIN w : w[a] \in Nat \ {0}

\* The length of a round: one turn for each unit of weight.
round(w) == Cardinality(turns(w))

\* How often a is among the first k of c, and what it is owed then.
given(c, k, a) == Cardinality({j \in 0..(k - 1) : c[j] = a})
credit(w, c, k, a) == k * w[a] - round(w) * given(c, k, a)

\* The one at k is owed most, and of those it has the smallest ID.
Leads(w, c, k) ==
  \A b \in DOMAIN w \ {c[k]} :
    LET mine == credit(w, c, k, c[k]) + w[c[k]]
        other == credit(w, c, k, b) + w[b]
    IN  mine > other \/ (mine = other /\ c[k] < b)

\* The first n of c are what the rotation gives from a fresh start.
Smooth(w, c, n) == c \in [0..(n - 1) -> DOMAIN w] /\ \A k \in 0..(n - 1) : Leads(w, c, k)

\* One round of it.
Cycle(w) == CHOOSE c : Smooth(w, c, round(w))

LEMMA TurnsMember ==
  ASSUME NEW w, NEW t
  PROVE  t \in turns(w) <=> \E a \in DOMAIN w : \E i \in 1..w[a] : t = <<a, i>>
  BY DEF turns

\* A round of m times the weights is m rounds long.
LEMMA ScaledTurns ==
  ASSUME NEW w, IsFiniteSet(DOMAIN w), \A a \in DOMAIN w : w[a] \in Nat, NEW m \in Nat \ {0},
         NEW v, DOMAIN v = DOMAIN w, \A a \in DOMAIN w : v[a] = m * w[a]
  PROVE  Cardinality(turns(v)) = m * Cardinality(turns(w))
<1> DEFINE S == turns(w) \X (1..m)
           f == [t \in S |-> <<t[1][1], (t[1][2] - 1) * m + t[2]>>]
<1>1. ASSUME NEW t \in S
      PROVE  \E a \in DOMAIN w : \E i \in 1..w[a], j \in 1..m :
               t = <<<<a, i>>, j>> /\ f[t] = <<a, (i - 1) * m + j>>
  <2>1. PICK x \in turns(w), j \in 1..m : t = <<x, j>>
    OBVIOUS
  <2>2. PICK a \in DOMAIN w : \E i \in 1..w[a] : x = <<a, i>>
    BY TurnsMember
  <2>3. PICK i \in 1..w[a] : x = <<a, i>>
    BY <2>2
  <2>4. f[t] = <<a, (i - 1) * m + j>>
    BY <2>1, <2>3
  <2> QED BY <2>1, <2>3, <2>4
<1>2. ASSUME NEW a \in DOMAIN w, NEW i \in 1..w[a], NEW j \in 1..m
      PROVE  (i - 1) * m + j \in 1..v[a]
  <2>1. i \in Nat /\ i - 1 \in Nat /\ w[a] \in Nat /\ i <= w[a] /\ v[a] = m * w[a]
    OBVIOUS
  <2>2. (i - 1) * m \in Nat
    BY <2>1
  <2>3. (i - 1) * m + m <= m * w[a]
    <3>1. (w[a] - i) \in Nat
      BY <2>1
    <3>2. (w[a] - i) * m \in Nat
      BY <3>1
    <3>3. (w[a] - i) * m = m * w[a] - ((i - 1) * m + m)
      BY <2>1
    <3>4. m * w[a] \in Nat
      BY <2>1
    <3> QED BY <2>2, <3>2, <3>3, <3>4
  <2>4. m * w[a] \in Nat
    BY <2>1
  <2> QED BY <2>1, <2>2, <2>3, <2>4
<1>3. \A t \in S : f[t] \in turns(v)
  <2> SUFFICES ASSUME NEW t \in S PROVE f[t] \in turns(v)
    OBVIOUS
  <2>0. PICK a \in DOMAIN w : \E i \in 1..w[a], j \in 1..m : f[t] = <<a, (i - 1) * m + j>>
    BY <1>1
  <2>1. PICK i \in 1..w[a], j \in 1..m : f[t] = <<a, (i - 1) * m + j>>
    BY <2>0
  <2>2. (i - 1) * m + j \in 1..v[a]
    BY <1>2
  <2> HIDE DEF f
  <2> QED BY <2>1, <2>2, TurnsMember
<1>4. ASSUME NEW i \in Nat, NEW x \in Nat, NEW j \in 1..m, NEW y \in 1..m,
             i * m + j = x * m + y
      PROVE  i = x /\ j = y
  <2> DEFINE z == i * m + (j - 1)
  <2>1. z = m * i + (j - 1) /\ z = m * x + (y - 1) /\ z \in Nat
        /\ j - 1 \in 0..(m - 1) /\ y - 1 \in 0..(m - 1)
    BY <1>4
  <2> HIDE DEF z
  <2>2. z % m = j - 1
    BY <2>1, Remainder, Zenon
  <2>3. z % m = y - 1
    BY <2>1, Remainder, Zenon
  <2>4. j = y
    BY <2>2, <2>3
  <2>5. m * i = m * x
    BY <2>1, <2>4
  <2>6. CASE i < x
    <3>1. x - i \in Nat \ {0}
      BY <2>6
    <3>2. m * (x - i) > 0
      BY <3>1
    <3> QED BY <2>5, <3>2
  <2>7. CASE x < i
    <3>1. i - x \in Nat \ {0}
      BY <2>7
    <3>2. m * (i - x) > 0
      BY <3>1
    <3> QED BY <2>5, <3>2
  <2> QED BY <2>4, <2>6, <2>7
<1>5. ASSUME NEW s \in S, NEW t \in S, f[s] = f[t] PROVE s = t
  <2>1. PICK a \in DOMAIN w : \E i \in 1..w[a], j \in 1..m :
          s = <<<<a, i>>, j>> /\ f[s] = <<a, (i - 1) * m + j>>
    BY <1>1
  <2>2. PICK i \in 1..w[a], j \in 1..m :
          s = <<<<a, i>>, j>> /\ f[s] = <<a, (i - 1) * m + j>>
    BY <2>1
  <2>3. PICK b \in DOMAIN w : \E x \in 1..w[b], y \in 1..m :
          t = <<<<b, x>>, y>> /\ f[t] = <<b, (x - 1) * m + y>>
    BY <1>1
  <2>4. PICK x \in 1..w[b], y \in 1..m :
          t = <<<<b, x>>, y>> /\ f[t] = <<b, (x - 1) * m + y>>
    BY <2>3
  <2> HIDE DEF f
  <2>5. a = b /\ (i - 1) * m + j = (x - 1) * m + y /\ i - 1 \in Nat /\ x - 1 \in Nat
    BY <1>5, <2>2, <2>4
  <2> DEFINE i0 == i - 1
             x0 == x - 1
  <2>6. i0 * m + j = x0 * m + y /\ i0 \in Nat /\ x0 \in Nat /\ i = i0 + 1 /\ x = x0 + 1
    BY <2>5
  <2> HIDE DEF i0, x0
  <2>7. i0 = x0 /\ j = y
    BY <1>4, <2>6
  <2> QED BY <2>2, <2>4, <2>5, <2>6, <2>7
<1>6. \A u \in turns(v) : \E t \in S : f[t] = u
  <2> SUFFICES ASSUME NEW u \in turns(v) PROVE \E t \in S : f[t] = u
    OBVIOUS
  <2>0. PICK a \in DOMAIN w : \E z \in 1..v[a] : u = <<a, z>>
    BY TurnsMember
  <2>1. PICK z \in 1..v[a] : u = <<a, z>>
    BY <2>0
  <2> DEFINE d == (z - 1) \div m
             e == (z - 1) % m
  <2>2. z - 1 \in Nat
    OBVIOUS
  <2>3. d \in Nat /\ e \in 0..(m - 1) /\ z - 1 = m * d + e
    BY <2>2
  <2> HIDE DEF d, e
  <2>4. d < w[a]
    <3>1. SUFFICES ASSUME d >= w[a] PROVE FALSE
      BY <2>3
    <3>2. d - w[a] \in Nat
      BY <2>3, <3>1
    <3>3. m * (d - w[a]) \in Nat
      BY <3>2
    <3>4. m * (d - w[a]) = m * d - m * w[a]
      BY <2>3
    <3>5. m * w[a] \in Nat /\ m * d \in Nat /\ z <= m * w[a]
      BY <2>3
    <3> QED BY <2>3, <3>3, <3>4, <3>5
  <2>5. <<a, d + 1>> \in turns(w)
    <3>1. d + 1 \in 1..w[a]
      BY <2>3, <2>4
    <3> QED BY <3>1, TurnsMember
  <2>6. <<<<a, d + 1>>, e + 1>> \in S
    BY <2>3, <2>5
  <2>7. f[<<<<a, d + 1>>, e + 1>>] = <<a, d * m + (e + 1)>>
    <3>1. (d + 1) - 1 = d
      BY <2>3
    <3> QED BY <2>6, <3>1
  <2>8. d * m + (e + 1) = z
    BY <2>3
  <2> QED BY <2>1, <2>6, <2>7, <2>8
<1>7. f \in Bijection(S, turns(v))
  BY <1>3, <1>5, <1>6, Zenon DEF Bijection, Injection, Surjection, IsInjective
<1>8. ExistsBijection(S, turns(v))
  BY <1>7 DEF ExistsBijection
<1>9. IsFiniteSet(turns(w)) /\ Cardinality(turns(w)) \in Nat
  BY TurnsFinite
<1>10. IsFiniteSet(1..m) /\ Cardinality(1..m) = m
  BY FS_Interval
<1>11. IsFiniteSet(S) /\ Cardinality(S) = Cardinality(turns(w)) * m
  BY <1>9, <1>10, FS_Product, Zenon
<1> HIDE DEF S, f
<1>12. Cardinality(turns(v)) = Cardinality(S)
  BY <1>8, <1>11, FS_Bijection
<1> QED BY <1>9, <1>11, <1>12

\* Induction over the numbers, for a set of them.
LEMMA AllNat ==
  ASSUME NEW G, 0 \in G, \A k \in Nat : k \in G => k + 1 \in G
  PROVE  \A k \in Nat : k \in G
<1> DEFINE T == {k \in Nat : k \notin G}
<1> SUFFICES ASSUME T # {} PROVE FALSE
  OBVIOUS
<1>1. PICK x \in T : \A y \in T : x <= y
  BY Least, Zenon
<1>2. x \in Nat /\ x \notin G /\ x # 0
  BY <1>1
<1>3. x - 1 \in Nat /\ (x - 1) + 1 = x
  BY <1>2
<1>4. x - 1 \notin G
  BY <1>2, <1>3
<1>5. x - 1 \in T
  BY <1>3, <1>4
<1> HIDE DEF T
<1> QED BY <1>1, <1>2, <1>5

\* The count goes up by one with each that is given.
LEMMA GivenNext ==
  ASSUME NEW c, NEW k \in Nat, NEW a
  PROVE  /\ given(c, k, a) \in Nat
         /\ given(c, 0, a) = 0
         /\ given(c, k + 1, a) = IF c[k] = a THEN given(c, k, a) + 1 ELSE given(c, k, a)
<1> DEFINE S(n) == {j \in 0..(n - 1) : c[j] = a}
<1>1. \A n \in Nat : IsFiniteSet(S(n)) /\ Cardinality(S(n)) \in Nat
  <2> TAKE n \in Nat
  <2>1. IsFiniteSet(0..(n - 1)) /\ S(n) \in SUBSET (0..(n - 1))
    BY FS_Interval
  <2> HIDE DEF S
  <2> QED BY <2>1, FS_Subset, FS_CardinalityType
<1>2. S(0) = {}
  OBVIOUS
<1>3. S(k + 1) = IF c[k] = a THEN S(k) \cup {k} ELSE S(k)
  <2>1. 0..((k + 1) - 1) = 0..(k - 1) \cup {k}
    OBVIOUS
  <2> QED BY <2>1
<1>4. k \notin S(k)
  OBVIOUS
<1>5. given(c, k, a) = Cardinality(S(k)) /\ given(c, 0, a) = Cardinality(S(0))
      /\ given(c, k + 1, a) = Cardinality(S(k + 1))
  BY DEF given
<1> HIDE DEF S
<1>6. Cardinality(S(k) \cup {k}) = Cardinality(S(k)) + 1
  BY <1>1, <1>4, FS_AddElement, Zenon
<1> QED BY <1>1, <1>2, <1>3, <1>5, <1>6, FS_EmptySet

\* It depends on what was given before only.
LEMMA GivenSame ==
  ASSUME NEW c, NEW d, NEW k \in Nat, \A j \in 0..(k - 1) : c[j] = d[j], NEW a
  PROVE  given(c, k, a) = given(d, k, a)
<1>1. {j \in 0..(k - 1) : c[j] = a} = {j \in 0..(k - 1) : d[j] = a}
  OBVIOUS
<1> QED BY <1>1 DEF given

\* Among them, k have been given after k.
LEMMA GivenTurns ==
  ASSUME NEW D, IsFiniteSet(D), NEW n \in Nat, NEW c \in [0..(n - 1) -> D]
  PROVE  \A k \in Nat : k <= n => Cardinality(turns([a \in D |-> given(c, k, a)])) = k
<1> DEFINE v(k) == [a \in D |-> given(c, k, a)]
           G == {k \in Nat : k <= n => Cardinality(turns(v(k))) = k}
<1>1. 0 \in G
  <2>1. \A a \in D : v(0)[a] = 0
    BY GivenNext
  <2>2. turns(v(0)) = {}
    <3>1. ASSUME NEW t \in turns(v(0)) PROVE FALSE
      <4>1. PICK a \in D : \E i \in 1..v(0)[a] : t = <<a, i>>
        BY TurnsMember
      <4> QED BY <2>1, <4>1
    <3> QED BY <3>1
  <2> HIDE DEF v
  <2> QED BY <2>2, FS_EmptySet
<1>2. ASSUME NEW k \in Nat, k \in G PROVE k + 1 \in G
  <2> SUFFICES ASSUME k + 1 <= n PROVE Cardinality(turns(v(k + 1))) = k + 1
    OBVIOUS
  <2>1. Cardinality(turns(v(k))) = k
    BY <1>2
  <2>2. c[k] \in D
    OBVIOUS
  <2> DEFINE b == c[k]
             last == <<b, v(k)[b] + 1>>
  <2>3. \A a \in D : v(k)[a] \in Nat /\ v(k + 1)[a] = IF a = b THEN v(k)[a] + 1 ELSE v(k)[a]
    BY GivenNext
  <2>4. DOMAIN v(k) = D /\ DOMAIN v(k + 1) = D
    OBVIOUS
  <2>5. IsFiniteSet(turns(v(k)))
    BY <2>3, <2>4, TurnsFinite
  <2> HIDE DEF v, b, G
  <2>6. last \notin turns(v(k))
    <3>1. SUFFICES ASSUME last \in turns(v(k)) PROVE FALSE
      OBVIOUS
    <3>2. PICK a \in D : \E i \in 1..v(k)[a] : last = <<a, i>>
      BY <2>4, <3>1, TurnsMember
    <3>3. a = b /\ v(k)[b] + 1 \in 1..v(k)[b]
      BY <3>2
    <3> QED BY <2>3, <3>2, <3>3
  <2>7. turns(v(k + 1)) = turns(v(k)) \cup {last}
    <3>1. ASSUME NEW t \in turns(v(k + 1)) PROVE t \in turns(v(k)) \cup {last}
      <4>1. PICK a \in D : \E i \in 1..v(k + 1)[a] : t = <<a, i>>
        BY <2>4, TurnsMember
      <4>2. PICK i \in 1..v(k + 1)[a] : t = <<a, i>>
        BY <4>1
      <4>3. i \in 1..v(k)[a] \/ (a = b /\ i = v(k)[b] + 1)
        BY <2>3
      <4> QED BY <2>4, <4>2, <4>3, TurnsMember
    <3>2. ASSUME NEW t \in turns(v(k)) PROVE t \in turns(v(k + 1))
      <4>1. PICK a \in D : \E i \in 1..v(k)[a] : t = <<a, i>>
        BY <2>4, TurnsMember
      <4>2. PICK i \in 1..v(k)[a] : t = <<a, i>>
        BY <4>1
      <4>3. i \in 1..v(k + 1)[a]
        BY <2>3
      <4> QED BY <2>4, <4>2, <4>3, TurnsMember
    <3>3. last \in turns(v(k + 1))
      <4>1. b \in D /\ v(k)[b] + 1 \in 1..v(k + 1)[b]
        BY <2>2, <2>3 DEF b
      <4> QED BY <2>4, <4>1, TurnsMember
    <3> QED BY <3>1, <3>2, <3>3, Zenon
  <2> QED BY <2>1, <2>5, <2>6, <2>7, FS_AddElement, Zenon
<1> HIDE DEF G
<1>3. \A k \in Nat : k \in G
  BY <1>1, <1>2, AllNat
<1> QED BY <1>3 DEF G

\* Less for everyone is less in all.
LEMMA LessTurns ==
  ASSUME NEW v, NEW w, DOMAIN v = DOMAIN w, IsFiniteSet(DOMAIN w),
         \A a \in DOMAIN w : v[a] \in Nat /\ w[a] \in Nat /\ v[a] <= w[a]
  PROVE  /\ Cardinality(turns(v)) <= Cardinality(turns(w))
         /\ Cardinality(turns(v)) = Cardinality(turns(w)) => \A a \in DOMAIN w : v[a] = w[a]
<1>1. IsFiniteSet(turns(w))
  BY TurnsFinite
<1>2. turns(v) \subseteq turns(w)
  <2> SUFFICES ASSUME NEW t \in turns(v) PROVE t \in turns(w)
    OBVIOUS
  <2>1. PICK a \in DOMAIN w : \E i \in 1..v[a] : t = <<a, i>>
    BY TurnsMember
  <2>2. PICK i \in 1..v[a] : t = <<a, i>>
    BY <2>1
  <2>3. i \in 1..w[a]
    OBVIOUS
  <2> QED BY <2>2, <2>3, TurnsMember
<1>3. ASSUME turns(v) = turns(w), NEW a \in DOMAIN w PROVE v[a] = w[a]
  <2> SUFFICES ASSUME v[a] < w[a] PROVE FALSE
    OBVIOUS
  <2>1. w[a] \in 1..w[a]
    OBVIOUS
  <2>2. <<a, w[a]>> \in turns(v)
    BY <1>3, <2>1, TurnsMember
  <2>3. PICK b \in DOMAIN v : \E i \in 1..v[b] : <<a, w[a]>> = <<b, i>>
    BY <2>2, TurnsMember
  <2>4. w[a] \in 1..v[a]
    BY <2>3
  <2> QED BY <2>4
<1>4. turns(v) \in SUBSET turns(w)
  BY <1>2
<1> QED BY <1>1, <1>3, <1>4, FS_Subset

\* A round is not empty.
LEMMA RoundPositive ==
  ASSUME NEW w, Vector(w)
  PROVE  round(w) \in Nat \ {0}
<1>1. IsFiniteSet(turns(w)) /\ round(w) \in Nat
  BY TurnsFinite DEF Vector, round
<1>2. PICK a \in DOMAIN w : w[a] \in Nat \ {0}
  BY DEF Vector
<1>3. 1 \in 1..w[a]
  BY <1>2
<1>4. <<a, 1>> \in turns(w)
  BY <1>3, TurnsMember
<1> QED BY <1>1, <1>4, FS_EmptySet DEF round

\* A step gives everyone its weight and takes a round from the one given.
LEMMA CreditNext ==
  ASSUME NEW w, Vector(w), NEW c, NEW k \in Nat, NEW a \in DOMAIN w
  PROVE  /\ credit(w, c, k, a) \in Int
         /\ credit(w, c, 0, a) = 0
         /\ credit(w, c, k + 1, a)
              = IF c[k] = a THEN credit(w, c, k, a) + w[a] - round(w)
                            ELSE credit(w, c, k, a) + w[a]
<1> DEFINE W == round(w)
           g == given(c, k, a)
           h == given(c, k + 1, a)
           x == w[a]
<1>1. W \in Nat /\ x \in Nat
  BY RoundPositive DEF Vector
<1>2. g \in Nat /\ given(c, 0, a) = 0 /\ h = IF c[k] = a THEN g + 1 ELSE g
  BY GivenNext
<1>3. /\ credit(w, c, k, a) = k * x - W * g
      /\ credit(w, c, 0, a) = 0 * x - W * given(c, 0, a)
      /\ credit(w, c, k + 1, a) = (k + 1) * x - W * h
  BY DEF credit
<1> HIDE DEF W, g, h, x
<1>4. (k + 1) * x = k * x + x /\ k * x \in Int
  BY <1>1
<1>5. W * g \in Int /\ W * (g + 1) = W * g + W
  BY <1>1, <1>2
<1>6. 0 * x = 0 /\ W * 0 = 0
  BY <1>1
<1>7. CASE c[k] = a
  <2>1. h = g + 1
    BY <1>2, <1>7
  <2> QED BY <1>1, <1>2, <1>3, <1>4, <1>5, <1>6, <1>7, <2>1 DEF W, x
<1>8. CASE c[k] # a
  <2>1. h = g
    BY <1>2, <1>8
  <2> QED BY <1>1, <1>2, <1>3, <1>4, <1>5, <1>6, <1>8, <2>1 DEF W, x
<1> QED BY <1>7, <1>8

\* Together they are owed a round, so someone is owed something.
LEMMA SomeoneOwed ==
  ASSUME NEW w, Vector(w), NEW n \in Nat, NEW c \in [0..(n - 1) -> DOMAIN w],
         NEW k \in Nat, k <= n
  PROVE  \E b \in DOMAIN w : credit(w, c, k, b) + w[b] >= 1
<1> DEFINE W == round(w)
           D == DOMAIN w
           g == [a \in D |-> given(c, k, a)]
           u == [a \in D |-> (k + 1) * w[a]]
           v == [a \in D |-> W * g[a]]
<1>1. W \in Nat \ {0} /\ IsFiniteSet(D) /\ \A a \in D : w[a] \in Nat
  BY RoundPositive DEF Vector
<1>2. \A a \in D : g[a] \in Nat
  BY GivenNext
<1>3. Cardinality(turns(g)) = k
  BY <1>1, GivenTurns
<1>4. k + 1 \in Nat \ {0}
  OBVIOUS
<1>5. DOMAIN u = D /\ \A a \in D : u[a] = (k + 1) * w[a]
  OBVIOUS
<1>6. DOMAIN v = D /\ DOMAIN g = D /\ \A a \in D : v[a] = W * g[a]
  OBVIOUS
<1>7. \A a \in D : credit(w, c, k, a) = k * w[a] - W * g[a]
  BY DEF credit
<1> HIDE DEF u, v, g, W
<1>8. Cardinality(turns(u)) = (k + 1) * W
  <2> HIDE DEF D
  <2> DEFINE m == k + 1
  <2>1. m \in Nat \ {0} /\ \A a \in D : u[a] = m * w[a]
    BY <1>4, <1>5
  <2> HIDE DEF m
  <2>2. Cardinality(turns(u)) = m * Cardinality(turns(w))
    BY <1>1, <1>5, <2>1, ScaledTurns DEF D
  <2> QED BY <2>2 DEF m, W, round
<1>9. Cardinality(turns(v)) = W * k
  <2>1. Cardinality(turns(v)) = W * Cardinality(turns(g))
    BY <1>1, <1>2, <1>6, ScaledTurns
  <2> QED BY <1>3, <2>1
<1>10. \A a \in D : u[a] \in Nat /\ v[a] \in Nat
  <2> TAKE a \in D
  <2>1. (k + 1) * w[a] \in Nat
    BY <1>1, <1>4
  <2>2. W * g[a] \in Nat
    BY <1>1, <1>2
  <2> QED BY <1>5, <1>6, <2>1, <2>2
<1>11. SUFFICES ASSUME \A b \in D : ~(credit(w, c, k, b) + w[b] >= 1) PROVE FALSE
  OBVIOUS
<1>12. \A a \in D : u[a] <= v[a]
  <2> TAKE a \in D
  <2>1. (k + 1) * w[a] = k * w[a] + w[a] /\ k * w[a] \in Int /\ W * g[a] \in Int /\ w[a] \in Int
    BY <1>1, <1>2
  <2>2. ~(k * w[a] - W * g[a] + w[a] >= 1)
    BY <1>7, <1>11
  <2> QED BY <1>5, <1>6, <2>1, <2>2
<1>13. Cardinality(turns(u)) <= Cardinality(turns(v))
  <2> HIDE DEF D
  <2> QED BY <1>1, <1>5, <1>6, <1>10, <1>12, LessTurns
<1>14. (k + 1) * W = W * k + W /\ W * k \in Nat
  BY <1>1
<1> QED BY <1>1, <1>8, <1>9, <1>13, <1>14

\* Nobody is ever a round behind.
LEMMA CreditLow ==
  ASSUME NEW w, Vector(w), NEW n \in Nat, NEW c, Smooth(w, c, n)
  PROVE  \A k \in Nat : k <= n => \A a \in DOMAIN w : credit(w, c, k, a) > -round(w)
<1> DEFINE W == round(w)
           low(k) == \A a \in DOMAIN w : credit(w, c, k, a) > -W
           G == {k \in Nat : k <= n => low(k)}
<1>1. W \in Nat \ {0} /\ \A a \in DOMAIN w : w[a] \in Nat
  BY RoundPositive DEF Vector
<1>2. c \in [0..(n - 1) -> DOMAIN w] /\ \A k \in 0..(n - 1) : Leads(w, c, k)
  BY DEF Smooth
<1>3. 0 \in G
  <2>1. \A a \in DOMAIN w : credit(w, c, 0, a) = 0
    BY CreditNext
  <2> QED BY <1>1, <2>1
<1>4. ASSUME NEW k \in Nat, k \in G PROVE k + 1 \in G
  <2> SUFFICES ASSUME k + 1 <= n, NEW a \in DOMAIN w PROVE credit(w, c, k + 1, a) > -W
    OBVIOUS
  <2>1. low(k) /\ k <= n /\ k \in 0..(n - 1)
    BY <1>4
  <2>2. c[k] \in DOMAIN w /\ Leads(w, c, k)
    BY <1>2, <2>1
  <2>3. \A b \in DOMAIN w : credit(w, c, k, b) \in Int /\ w[b] \in Nat
    BY <1>1, CreditNext, Zenon
  <2>4. credit(w, c, k + 1, a)
          = IF c[k] = a THEN credit(w, c, k, a) + w[a] - W ELSE credit(w, c, k, a) + w[a]
    BY CreditNext
  <2>5. credit(w, c, k, a) > -W
    BY <2>1
  <2>6. credit(w, c, k, c[k]) + w[c[k]] >= 1
    <3>1. PICK b \in DOMAIN w : credit(w, c, k, b) + w[b] >= 1
      BY <1>2, <2>1, SomeoneOwed
    <3>2. CASE b = c[k]
      BY <3>1, <3>2
    <3>3. CASE b # c[k]
      <4>1. credit(w, c, k, c[k]) + w[c[k]] >= credit(w, c, k, b) + w[b]
        BY <2>2, <2>3, <3>3 DEF Leads
      <4> QED BY <2>2, <2>3, <3>1, <4>1
    <3> QED BY <3>2, <3>3
  <2>7. credit(w, c, k, a) \in Int /\ w[a] \in Nat
    BY <2>3
  <2> HIDE DEF W
  <2>8. CASE c[k] = a
    BY <1>1, <2>4, <2>6, <2>7, <2>8
  <2>9. CASE c[k] # a
    BY <1>1, <2>4, <2>5, <2>7, <2>9
  <2> QED BY <2>8, <2>9
<1> HIDE DEF G
<1>5. \A k \in Nat : k \in G
  BY <1>3, <1>4, AllNat
<1> QED BY <1>5 DEF G

\* After a round everyone has been given as often as its weight says.
LEMMA FullRound ==
  ASSUME NEW w, Vector(w), NEW c, Smooth(w, c, round(w)), NEW a \in DOMAIN w
  PROVE  given(c, round(w), a) = w[a] /\ credit(w, c, round(w), a) = 0
<1> DEFINE W == round(w)
           g == [b \in DOMAIN w |-> given(c, W, b)]
<1>1. W \in Nat \ {0} /\ IsFiniteSet(DOMAIN w) /\ \A b \in DOMAIN w : w[b] \in Nat
  BY RoundPositive DEF Vector
<1>2. \A b \in DOMAIN w : g[b] \in Nat
  BY <1>1, GivenNext
<1>3. DOMAIN g = DOMAIN w
  OBVIOUS
<1>4. Cardinality(turns(g)) = W
  BY <1>1, GivenTurns DEF Smooth
<1>5. \A b \in DOMAIN w : g[b] <= w[b]
  <2> TAKE b \in DOMAIN w
  <2>1. credit(w, c, W, b) > -W
    BY <1>1, CreditLow
  <2>2. credit(w, c, W, b) = W * w[b] - W * g[b]
    BY DEF credit
  <2>3. w[b] \in Nat /\ g[b] \in Nat
    BY <1>1, <1>2
  <2> HIDE DEF g, W
  <2> SUFFICES ASSUME g[b] - w[b] >= 1 PROVE FALSE
    BY <2>3
  <2> DEFINE d == g[b] - w[b] - 1
  <2>4. d \in Nat /\ g[b] = w[b] + 1 + d
    BY <2>3
  <2> HIDE DEF d
  <2>5. W * d \in Nat /\ W * w[b] \in Nat
    BY <1>1, <2>3, <2>4
  <2>6. W * (w[b] + 1 + d) = W * w[b] + W + W * d
    BY <1>1, <2>3, <2>4
  <2>7. W * g[b] = W * (w[b] + 1 + d)
    BY <2>4
  <2> QED BY <1>1, <2>1, <2>2, <2>5, <2>6, <2>7
<1>6. Cardinality(turns(w)) = W
  BY DEF round
<1> HIDE DEF g, W
<1>7. \A b \in DOMAIN w : g[b] = w[b]
  BY <1>1, <1>2, <1>3, <1>4, <1>5, <1>6, LessTurns
<1>8. given(c, W, a) = w[a]
  BY <1>7 DEF g
<1>9. credit(w, c, W, a) = W * w[a] - W * w[a]
  BY <1>8 DEF credit, W
<1>10. W * w[a] \in Int
  BY <1>1
<1> QED BY <1>8, <1>9, <1>10 DEF W

\* The rotation goes on from wherever it is.
LEMMA SmoothExists ==
  ASSUME NEW w, Vector(w)
  PROVE  \A n \in Nat : \E c : Smooth(w, c, n)
<1> DEFINE G == {n \in Nat : \E c : Smooth(w, c, n)}
<1>1. 0 \in G
  <2> DEFINE c == [j \in 0..(0 - 1) |-> 0]
  <2>1. Smooth(w, c, 0)
    <3>1. 0..(0 - 1) = {}
      OBVIOUS
    <3> QED BY <3>1 DEF Smooth
  <2> QED BY <2>1
<1>2. ASSUME NEW n \in Nat, n \in G PROVE n + 1 \in G
  <2>1. PICK c : Smooth(w, c, n)
    BY <1>2
  <2> DEFINE f == [a \in DOMAIN w |-> credit(w, c, n, a) + w[a]]
  <2>2. \A a \in DOMAIN w : f[a] \in Int
    <3>1. \A a \in DOMAIN w : credit(w, c, n, a) \in Int
      BY CreditNext, Zenon
    <3>2. \A a \in DOMAIN w : w[a] \in Int
      BY DEF Vector
    <3> QED BY <3>1, <3>2
  <2>3. \A a \in DOMAIN w : f[a] = credit(w, c, n, a) + w[a]
    OBVIOUS
  <2> HIDE DEF f
  <2>4. PICK a \in DOMAIN w : \A b \in DOMAIN w \ {a} : f[a] > f[b] \/ (f[a] = f[b] /\ a < b)
    <3>1. IsFiniteSet(DOMAIN w) /\ DOMAIN w \subseteq Nat /\ DOMAIN w # {}
      BY DEF Vector
    <3> QED BY <2>2, <3>1, LexMax
  <2> DEFINE d == [j \in 0..((n + 1) - 1) |-> IF j = n THEN a ELSE c[j]]
  <2>5. c \in [0..(n - 1) -> DOMAIN w] /\ \A k \in 0..(n - 1) : Leads(w, c, k)
    BY <2>1 DEF Smooth
  <2>6. d \in [0..((n + 1) - 1) -> DOMAIN w] /\ d[n] = a /\ \A j \in 0..(n - 1) : d[j] = c[j]
    BY <2>5
  <2> HIDE DEF d
  <2>7. \A k \in 0..n : \A b : given(d, k, b) = given(c, k, b)
    <3> TAKE k \in 0..n
    <3>1. k \in Nat /\ \A j \in 0..(k - 1) : d[j] = c[j]
      BY <2>6
    <3> QED BY <3>1, GivenSame
  <2>8. \A k \in 0..n : \A b : credit(w, d, k, b) = credit(w, c, k, b)
    BY <2>7 DEF credit
  <2>9. ASSUME NEW k \in 0..((n + 1) - 1) PROVE Leads(w, d, k)
    <3>1. k \in 0..n
      OBVIOUS
    <3>2. CASE k = n
      BY <2>3, <2>4, <2>6, <2>8, <3>1, <3>2 DEF Leads
    <3>3. CASE k # n
      <4>1. k \in 0..(n - 1) /\ d[k] = c[k] /\ Leads(w, c, k)
        BY <2>5, <2>6, <3>1, <3>3
      <4> QED BY <2>8, <3>1, <4>1 DEF Leads
    <3> QED BY <3>2, <3>3
  <2>10. Smooth(w, d, n + 1)
    BY <2>6, <2>9 DEF Smooth
  <2> QED BY <2>10
<1> HIDE DEF G
<1>3. \A n \in Nat : n \in G
  BY <1>1, <1>2, AllNat
<1> QED BY <1>3 DEF G

\* The weighted rotation is a cycle of one round that gives everyone as many
\* turns as its weight, and leaves nothing owed.
LEMMA CycleOK ==
  ASSUME NEW w, Vector(w)
  PROVE  /\ round(w) \in Nat \ {0}
         /\ Smooth(w, Cycle(w), round(w))
         /\ \A a \in DOMAIN w : given(Cycle(w), round(w), a) = w[a]
         /\ \A a \in DOMAIN w : credit(w, Cycle(w), round(w), a) = 0
<1>1. round(w) \in Nat \ {0}
  BY RoundPositive
<1>2. \E c : Smooth(w, c, round(w))
  BY <1>1, SmoothExists
<1>3. Smooth(w, Cycle(w), round(w))
  BY <1>2 DEF Cycle
<1> QED BY <1>1, <1>3, FullRound

-----------------------------------------------------------------------------
(* Picks that follow a ring of n places *)

\* The place x of a ring of n, where x may be one round ahead.
wrap(x, n) == IF x >= n THEN x - n ELSE x

\* The place k + 1 picks before x.
ago(x, k, n) == IF k < x THEN x - 1 - k ELSE x - 1 - k + n

\* The picks so far and their places; x is the place of the next.
Trail(R, n, x, ps) == \A k \in 0..(Len(ps) - 1) : <<ps[Len(ps) - k], ago(x, k, n)>> \in R

\* A pick of the place x goes on to the next.
LEMMA TrailStep ==
  ASSUME NEW S, NEW ps \in Seq(S), NEW n \in Nat \ {0}, Len(ps) <= n, NEW x \in 0..(n - 1),
         NEW R, Trail(R, n, x, ps), NEW a \in S, <<a, x>> \in R
  PROVE  LET all == Append(ps, a)
             new == IF Len(all) > n THEN Tail(all) ELSE all
         IN  /\ new \in Seq(S) /\ Len(new) \in 1..n
             /\ wrap(x + 1, n) \in 0..(n - 1)
             /\ Trail(R, n, wrap(x + 1, n), new)
<1> DEFINE L == Len(ps)
           all == Append(ps, a)
           new == IF Len(all) > n THEN Tail(all) ELSE all
           y == wrap(x + 1, n)
<1>1. L \in Nat /\ L <= n /\ all \in Seq(S) /\ Len(all) = L + 1
      /\ all[L + 1] = a /\ \A i \in 1..L : all[i] = ps[i]
  OBVIOUS
<1>2. y = IF x + 1 = n THEN 0 ELSE x + 1
  BY DEF wrap
<1>3. /\ new \in Seq(S) /\ Len(new) \in 1..n
      /\ \A k \in 0..(Len(new) - 1) :
           new[Len(new) - k] = IF k = 0 THEN a ELSE ps[L - (k - 1)]
  <2> HIDE DEF all
  <2>1. CASE L + 1 > n
    <3>1. new = Tail(all) /\ L = n /\ all # <<>>
      BY <1>1, <2>1
    <3>2. Len(new) = L /\ new \in Seq(S) /\ \A i \in 1..L : new[i] = all[i + 1]
      BY <1>1, <3>1
    <3> HIDE DEF new
    <3>3. ASSUME NEW k \in 0..(L - 1)
          PROVE  new[L - k] = IF k = 0 THEN a ELSE ps[L - (k - 1)]
      <4>0. L - k \in 1..L
        BY <1>1
      <4>1. new[L - k] = all[(L - k) + 1]
        BY <3>2, <4>0
      <4>2. CASE k = 0
        BY <1>1, <4>1, <4>2
      <4>3. CASE k # 0
        <5>1. (L - k) + 1 = L - (k - 1) /\ L - (k - 1) \in 1..L
          BY <1>1, <4>3
        <5> QED BY <1>1, <4>1, <4>3, <5>1, Zenon
      <4> QED BY <4>2, <4>3
    <3>4. Len(new) = L /\ new \in Seq(S) /\ Len(new) \in 1..n
      BY <1>1, <3>1, <3>2
    <3> QED BY <3>3, <3>4
  <2>2. CASE L + 1 <= n
    <3>1. new = all
      BY <1>1, <2>2
    <3> HIDE DEF new
    <3>2. ASSUME NEW k \in 0..L
          PROVE  all[(L + 1) - k] = IF k = 0 THEN a ELSE ps[L - (k - 1)]
      <4>1. CASE k = 0
        BY <1>1, <4>1
      <4>2. CASE k # 0
        <5>1. (L + 1) - k = L - (k - 1) /\ L - (k - 1) \in 1..L
          BY <1>1, <4>2
        <5> QED BY <1>1, <4>2, <5>1, Zenon
      <4> QED BY <4>1, <4>2
    <3>3. Len(new) = L + 1 /\ new \in Seq(S) /\ Len(new) \in 1..n
      BY <1>1, <2>2, <3>1
    <3>4. 0..(Len(new) - 1) = 0..L
      BY <1>1, <3>3
    <3> QED BY <3>1, <3>2, <3>3, <3>4
  <2> QED BY <1>1, <2>1, <2>2
<1> HIDE DEF new, all, y
<1>4. ASSUME NEW k \in 0..(Len(new) - 1) PROVE <<new[Len(new) - k], ago(y, k, n)>> \in R
  <2>1. CASE k = 0
    <3>1. ago(y, k, n) = x
      BY <1>2, <2>1 DEF ago
    <3> QED BY <1>3, <2>1, <3>1, Zenon
  <2>2. CASE k # 0
    <3>1. Len(new) \in Nat /\ Len(new) <= L + 1 /\ Len(new) <= n
      <4>1. Len(new) = IF L + 1 > n THEN L ELSE L + 1
        BY <1>1 DEF new
      <4> QED BY <1>1, <1>3, <4>1
    <3>2. k - 1 \in 0..(L - 1) /\ k < n
      BY <1>1, <2>2, <3>1
    <3>3. <<ps[L - (k - 1)], ago(x, k - 1, n)>> \in R
      BY <3>2 DEF Trail
    <3>4. ago(y, k, n) = ago(x, k - 1, n)
      BY <1>2, <2>2, <3>2 DEF ago
    <3> QED BY <1>3, <2>2, <3>3, <3>4, Zenon
  <2> QED BY <2>1, <2>2
<1>5. Trail(R, n, y, new)
  BY <1>4 DEF Trail
<1>6. y \in 0..(n - 1)
  BY <1>2
<1> QED BY <1>3, <1>5, <1>6 DEF new, all, y

\* The n last picks are at n different places.
LEMMA Places ==
  ASSUME NEW n \in Nat \ {0}, NEW x \in 0..(n - 1)
  PROVE  /\ \A i \in 1..n : ago(x, n - i, n) \in 0..(n - 1)
         /\ \A i, j \in 1..n : ago(x, n - i, n) = ago(x, n - j, n) => i = j
         /\ \A z \in 0..(n - 1) : \E i \in 1..n : ago(x, n - i, n) = z
<1>1. \A i \in 1..n : ago(x, n - i, n) \in 0..(n - 1)
  BY DEF ago
<1>2. \A i, j \in 1..n : ago(x, n - i, n) = ago(x, n - j, n) => i = j
  BY DEF ago
<1>3. ASSUME NEW z \in 0..(n - 1) PROVE \E i \in 1..n : ago(x, n - i, n) = z
  <2>1. CASE z < x
    <3> DEFINE i == n - (x - 1 - z)
    <3>1. i \in 1..n /\ ago(x, n - i, n) = z
      BY <2>1 DEF ago
    <3> QED BY <3>1
  <2>2. CASE z >= x
    <3> DEFINE i == z - x + 1
    <3>1. i \in 1..n /\ ago(x, n - i, n) = z
      BY <2>2 DEF ago
    <3> QED BY <3>1
  <2> QED BY <2>1, <2>2
<1> QED BY <1>1, <1>2, <1>3

\* Where everyone has one place, n picks meet everyone once.
LEMMA OnceEach ==
  ASSUME NEW T, IsFiniteSet(T), NEW n \in Nat \ {0}, n = Cardinality(T),
         NEW x \in 0..(n - 1), NEW ps \in Seq(T), Len(ps) = n,
         NEW f, Trail({<<a, f[a]>> : a \in T}, n, x, ps), NEW b \in T
  PROVE  Cardinality({i \in DOMAIN ps : ps[i] = b}) = 1
<1>1. DOMAIN ps = 1..n /\ ps \in [1..n -> T]
  OBVIOUS
<1>2. \A i \in 1..n : f[ps[i]] = ago(x, n - i, n)
  <2> TAKE i \in 1..n
  <2>1. n - i \in 0..(Len(ps) - 1) /\ Len(ps) - (n - i) = i
    OBVIOUS
  <2>2. <<ps[i], ago(x, n - i, n)>> \in {<<a, f[a]>> : a \in T}
    BY <2>1, Zenon DEF Trail
  <2> QED BY <2>2
<1>3. \A i, j \in 1..n : ps[i] = ps[j] => i = j
  <2>1. \A i, j \in 1..n : ago(x, n - i, n) = ago(x, n - j, n) => i = j
    BY ONLY Places, n \in Nat \ {0}, x \in 0..(n - 1)
  <2> TAKE i, j \in 1..n
  <2>2. ps[i] = ps[j] => ago(x, n - i, n) = ago(x, n - j, n)
    BY <1>2
  <2> QED BY <2>1, <2>2
<1>4. ps \in Injection(1..n, T)
  BY <1>1, <1>3 DEF Injection, IsInjective
<1>5. Cardinality(1..n) = n
  BY FS_Interval
<1>6. ps \in Surjection(1..n, T)
  BY <1>4, <1>5, FS_Injection
<1>7. PICK i \in 1..n : ps[i] = b
  BY <1>6 DEF Surjection
<1>8. {j \in DOMAIN ps : ps[j] = b} = {i}
  BY <1>1, <1>3, <1>7
<1> QED BY <1>8, FS_Singleton, Zenon

\* How often b was picked.
times(ps, b) == Cardinality({i \in DOMAIN ps : ps[i] = b})

\* The places of c.
PlacesOf(R, c, n) == \A t \in R : \E z \in 0..(n - 1) : t = <<c[z], z>>

\* Where places are given to the same ones again and again, a round of picks
\* meets everyone as often as it has a place.
LEMMA RoundCount ==
  ASSUME NEW S, NEW n \in Nat \ {0}, NEW x \in 0..(n - 1), NEW ps \in Seq(S), Len(ps) = n,
         NEW c, NEW R, Trail(R, n, x, ps),
         PlacesOf(R, c, n), NEW b
  PROVE  times(ps, b) = given(c, n, b)
<1> DEFINE I == {i \in DOMAIN ps : ps[i] = b}
           Z == {z \in 0..(n - 1) : c[z] = b}
           h == [i \in I |-> ago(x, n - i, n)]
<1>20. \A i, j \in 1..n : ago(x, n - i, n) = ago(x, n - j, n) => i = j
  BY ONLY Places, n \in Nat \ {0}, x \in 0..(n - 1), Zenon
<1>1. DOMAIN ps = 1..n
  OBVIOUS
<1>2. \A i \in 1..n : ps[i] = c[ago(x, n - i, n)]
  <2> TAKE i \in 1..n
  <2>1. n - i \in 0..(Len(ps) - 1) /\ Len(ps) - (n - i) = i
    OBVIOUS
  <2>2. <<ps[i], ago(x, n - i, n)>> \in R
    BY <2>1 DEF Trail
  <2>3. PICK z \in 0..(n - 1) : <<ps[i], ago(x, n - i, n)>> = <<c[z], z>>
    BY <2>2 DEF PlacesOf
  <2> QED BY <2>3
<1>3. \A i \in I : i \in 1..n /\ h[i] = ago(x, n - i, n)
  BY <1>1
<1>4. h \in [I -> Z]
  BY <1>1, <1>2, Places, Zenon
<1>5. \A i, j \in I : h[i] = h[j] => i = j
  <2>1. \A i, j \in 1..n : ago(x, n - i, n) = ago(x, n - j, n) => i = j
    BY <1>20
  <2> TAKE i, j \in I
  <2>2. h[i] = h[j] => ago(x, n - i, n) = ago(x, n - j, n)
    BY <1>3
  <2>3. i \in 1..n /\ j \in 1..n
    BY <1>3
  <2> QED BY <2>1, <2>2, <2>3
<1>6. \A z \in Z : \E i \in I : h[i] = z
  <2> TAKE z \in Z
  <2>1. PICK i \in 1..n : ago(x, n - i, n) = z
    BY Places
  <2>2. i \in I
    BY <1>1, <1>2, <2>1
  <2> QED BY <1>3, <2>1, <2>2
<1>7. h \in Bijection(I, Z)
  BY <1>4, <1>5, <1>6, Zenon DEF Bijection, Injection, Surjection, IsInjective
<1>8. ExistsBijection(I, Z)
  BY <1>7 DEF ExistsBijection
<1>9. IsFiniteSet(I)
  <2>1. IsFiniteSet(1..n) /\ I \in SUBSET (1..n)
    BY <1>1, FS_Interval
  <2> QED BY <2>1, FS_Subset
<1>10. given(c, n, b) = Cardinality(Z)
  BY DEF given
<1> HIDE DEF I, Z, h
<1>11. Cardinality(Z) = Cardinality(I)
  BY <1>8, <1>9, FS_Bijection
<1> QED BY <1>10, <1>11 DEF I, times

-----------------------------------------------------------------------------
(* Weighted picks go round the cycle *)

\* What the weights of a pick find of the state a view or a route keeps.
held(st, w, a) == IF st.weights = w /\ a \in DOMAIN st.current THEN st.current[a] ELSE 0

\* The state is that of place x of the cycle; for other weights, of its start.
At(st, w, x) == \A a \in DOMAIN w : held(st, w, a) = credit(w, Cycle(w), x, a)
Good(st) == \A w : Vector(w) => \E x \in 0..(round(w) - 1) : At(st, w, x)

\* Who holds no credit is at the start.
LEMMA AtStart ==
  ASSUME NEW st, NEW w, Vector(w), \A a \in DOMAIN w : held(st, w, a) = 0
  PROVE  0 \in 0..(round(w) - 1) /\ At(st, w, 0)
<1>1. round(w) \in Nat \ {0}
  BY RoundPositive
<1>2. \A a \in DOMAIN w : credit(w, Cycle(w), 0, a) = 0
  BY CreditNext, Zenon
<1> QED BY <1>1, <1>2 DEF At

\* A new view or route is at the start of every cycle.
LEMMA EmptyGood ==
  ASSUME NEW st, st.weights = <<>>
  PROVE  Good(st)
<1> SUFFICES ASSUME NEW w, Vector(w) PROVE \E x \in 0..(round(w) - 1) : At(st, w, x)
  BY DEF Good
<1>1. w # <<>>
  BY DEF Vector
<1>2. \A a \in DOMAIN w : held(st, w, a) = 0
  BY <1>1 DEF held
<1> QED BY <1>2, AtStart

\* Only the weights and credits matter.
LEMMA SameGood ==
  ASSUME NEW st, NEW other, st.weights = other.weights, st.current = other.current, Good(other)
  PROVE  Good(st)
  BY DEF Good, At, held

\* A pick takes the one of its place and goes on to the next place.
LEMMA WeightedTurn ==
  ASSUME NEW st, NEW ids, NEW metas, NEW w, w = weightVector(ids, metas), DOMAIN w = ids,
         Vector(w), NEW x \in 0..(round(w) - 1), At(st, w, x)
  PROVE  LET r == pickSmoothWeighted(st, ids, metas)
         IN  /\ r.picked = Cycle(w)[x] /\ r.picked \in ids
             /\ At(r.state, w, wrap(x + 1, round(w)))
             /\ Good(r.state)
<1> DEFINE W == round(w)
           c == Cycle(w)
           before(a) == IF st.weights = w /\ a \in DOMAIN st.current THEN st.current[a] ELSE 0
           current == [a \in ids |-> before(a) + metas[a].weight]
           tops(a) == \A b \in ids \ {a} :
                        \/ current[a] > current[b]
                        \/ current[a] = current[b] /\ a < b
           picked == CHOOSE a \in ids : tops(a)
           r == pickSmoothWeighted(st, ids, metas)
           y == wrap(x + 1, W)
<1>1. r = [picked |-> picked,
           state |-> [current |-> [current EXCEPT ![picked] = @ - W], weights |-> w]]
  BY DEF pickSmoothWeighted, round
<1>2. \A a \in ids : metas[a].weight = w[a]
  BY DEF weightVector
<1>3. /\ W \in Nat \ {0} /\ c \in [0..(W - 1) -> ids] /\ Leads(w, c, x)
      /\ \A a \in ids : credit(w, c, W, a) = 0
  BY CycleOK DEF Smooth
<1>4. \A a \in ids : credit(w, c, x, a) \in Int /\ credit(w, c, 0, a) = 0
  BY <1>3, CreditNext
<1>5. \A a \in ids : current[a] = credit(w, c, x, a) + w[a]
  BY <1>2 DEF At, held
<1>6. ids \subseteq Nat /\ \A a \in ids : w[a] \in Nat
  BY DEF Vector
<1>7. DOMAIN current = ids
  OBVIOUS
<1>8. \A a \in ids : current[a] \in Int
  BY <1>4, <1>5, <1>6
<1> HIDE DEF current, W, c
<1>9. c[x] \in ids /\ tops(c[x])
  <2>1. c[x] \in ids
    BY <1>3 DEF W
  <2> QED BY <1>3, <1>5, <2>1 DEF Leads
<1>10. \A a, b \in ids : tops(a) /\ tops(b) => a = b
  <2> SUFFICES ASSUME NEW a \in ids, NEW b \in ids, tops(a), tops(b), a # b PROVE FALSE
    OBVIOUS
  <2>1. current[a] \in Int /\ current[b] \in Int /\ a \in Nat /\ b \in Nat
    BY <1>6, <1>8
  <2>2. current[a] > current[b] \/ (current[a] = current[b] /\ a < b)
    OBVIOUS
  <2>3. current[b] > current[a] \/ (current[b] = current[a] /\ b < a)
    OBVIOUS
  <2> QED BY <2>1, <2>2, <2>3
<1>11. picked = c[x]
  <2>1. picked \in ids /\ tops(picked)
    BY <1>9
  <2> HIDE DEF picked, tops
  <2> QED BY <1>9, <1>10, <2>1
<1> HIDE DEF picked, tops
<1>12. x \in Nat /\ y = IF x + 1 = W THEN 0 ELSE x + 1
  BY <1>3 DEF wrap, W
<1>13. y \in 0..(W - 1)
  BY <1>3, <1>12 DEF W
<1> HIDE DEF y, r
<1>14. r.picked = picked /\ r.state.weights = w
       /\ r.state.current = [current EXCEPT ![picked] = @ - W]
  BY <1>1, Zenon
<1>15. ASSUME NEW a \in ids PROVE held(r.state, w, a) = credit(w, c, y, a)
  <2>1. credit(w, c, x + 1, a)
          = IF c[x] = a THEN credit(w, c, x, a) + w[a] - W ELSE credit(w, c, x, a) + w[a]
    BY <1>12, CreditNext DEF W
  <2>2. held(r.state, w, a) = IF a = picked THEN current[a] - W ELSE current[a]
    BY <1>7, <1>9, <1>11, <1>14 DEF held
  <2>3. held(r.state, w, a) = credit(w, c, x + 1, a)
    <3>1. current[a] = credit(w, c, x, a) + w[a]
      BY <1>5
    <3>2. CASE c[x] = a
      <4>1. credit(w, c, x + 1, a) = credit(w, c, x, a) + w[a] - W
        BY <2>1, <3>2
      <4>2. held(r.state, w, a) = current[a] - W
        BY <1>11, <2>2, <3>2
      <4>3. credit(w, c, x, a) \in Int /\ w[a] \in Int /\ W \in Int
        BY <1>3, <1>4, <1>6
      <4> QED BY <3>1, <4>1, <4>2, <4>3
    <3>3. CASE c[x] # a
      BY <1>11, <2>1, <2>2, <3>1, <3>3
    <3> QED BY <3>2, <3>3
  <2>4. credit(w, c, x + 1, a) = credit(w, c, y, a)
    BY <1>3, <1>4, <1>12
  <2> QED BY <2>3, <2>4
<1>16. At(r.state, w, y)
  BY <1>15 DEF At, c
<1>17. Good(r.state)
  <2> SUFFICES ASSUME NEW v, Vector(v) PROVE \E z \in 0..(round(v) - 1) : At(r.state, v, z)
    BY DEF Good
  <2>1. CASE v = w
    BY <1>13, <1>16, <2>1 DEF W
  <2>2. CASE v # w
    <3>1. \A a \in DOMAIN v : held(r.state, v, a) = 0
      BY <1>14, <2>2 DEF held
    <3> QED BY <3>1, AtStart
  <2> QED BY <2>1, <2>2
<1> QED BY <1>9, <1>11, <1>14, <1>16, <1>17 DEF r, y, W, c

\* Weights that were published are a vector.
LEMMA WeightsVector ==
  ASSUME NEW metas, MapTo(metas, Metas), NEW ids, ids \subseteq DOMAIN metas, ids # {},
         \A a \in ids : metas[a].weight > 0
  PROVE  LET w == weightVector(ids, metas)
         IN  DOMAIN w = ids /\ Vector(w) /\ \A a \in ids : w[a] = metas[a].weight
<1> DEFINE w == weightVector(ids, metas)
<1>1. DOMAIN w = ids /\ \A a \in ids : w[a] = metas[a].weight
  BY DEF weightVector
<1>2. w = [a \in DOMAIN w |-> w[a]]
  BY DEF weightVector
<1>3. \A a \in ids : metas[a].weight \in Nat \ {0}
  BY DEF MapTo, Metas
<1>4. IsFiniteSet(ids) /\ ids \subseteq Auths
  BY MembersFinite
<1>5. ids \subseteq Nat
  BY <1>4, SchedulerAssumption DEF Auths
<1> HIDE DEF w
<1>6. Vector(w)
  BY <1>1, <1>2, <1>3, <1>4, <1>5 DEF Vector
<1> QED BY <1>1, <1>6 DEF w

-----------------------------------------------------------------------------
(* What happens to the rotation besides the picks *)

\* The view of a provider at a priority, as it is or as it would be made.
viewOf(s, p, q) == IF p \in DOMAIN s.shards THEN s.shards[p].ready[q] ELSE EmptyView

\* Every weighted state of the scheduler is at a place of its cycle.
GoodSched(s) ==
  /\ \A p \in DOMAIN s.shards, q \in Priorities : Good(s.shards[p].ready[q])
  /\ \A r \in Routes : Good(s.weighted[r])

\* Every view is left alone or restored, and at most one credential has
\* another priority than before.
CarriesOn(s, u) ==
  /\ u.strategy = s.strategy /\ u.cursor = s.cursor /\ u.weighted = s.weighted
  /\ DOMAIN s.shards \subseteq DOMAIN u.shards
  /\ \A p \in DOMAIN u.shards, q \in Priorities :
       \/ u.shards[p].ready[q] = viewOf(s, p, q)
       \/ u.shards[p].ready[q]
            = restored(viewOf(s, p, q), readyOf(u.shards[p].entries, u.metas, q), u.metas)
  /\ \E a : \A b \in DOMAIN s.metas \cap DOMAIN u.metas :
       b # a => u.metas[b].priority = s.metas[b].priority

\* What rebuildIndexesLocked makes of a view.
LEMMA RebuiltViews ==
  ASSUME NEW h, NEW entries, NEW metas, NEW q \in Priorities
  PROVE  LET r == rebuildIndexes(h, entries, metas)
         IN  r.ready[q] = restored(h.ready[q], readyOf(r.entries, metas, q), metas)
  BY DEF rebuildIndexes, readyOf

\* A removal.
LEMMA RemoveCarriesOn ==
  ASSUME NEW s, SchedOK(s), NEW a
  PROVE  CarriesOn(s, removeAuth(s, a))
<1> DEFINE k == ProviderOf[a]
           metas == drop(s.metas, a)
           new == removeEntry(s.shards[k], a, metas)
           shards == IF k \in DOMAIN s.shards THEN [s.shards EXCEPT ![k] = new] ELSE s.shards
           u == removeAuth(s, a)
<1>1. /\ u.strategy = s.strategy /\ u.metas = metas /\ u.shards = shards
      /\ u.cursor = s.cursor /\ u.weighted = s.weighted
  BY DEF removeAuth, SchedOK, IsSched
<1>2. \A b \in DOMAIN s.metas \cap DOMAIN metas : metas[b] = s.metas[b]
  BY DEF drop
<1> HIDE DEF u, metas
<1>3. \A q \in Priorities :
        \/ new.ready[q] = s.shards[k].ready[q]
        \/ new.ready[q] = restored(s.shards[k].ready[q], readyOf(new.entries, metas, q), metas)
  <2>1. CASE a \in DOMAIN s.shards[k].entries
    <3>1. new = rebuildIndexes(s.shards[k], drop(s.shards[k].entries, a), metas)
      BY <2>1 DEF removeEntry
    <3> HIDE DEF new
    <3> QED BY <3>1, RebuiltViews
  <2>2. CASE a \notin DOMAIN s.shards[k].entries
    BY <2>2 DEF removeEntry
  <2> QED BY <2>1, <2>2
<1> HIDE DEF new
<1>4. DOMAIN shards = DOMAIN s.shards
      /\ \A p \in DOMAIN s.shards : shards[p] = IF p = k THEN new ELSE s.shards[p]
  OBVIOUS
<1> HIDE DEF shards
<1>5. \A p \in DOMAIN u.shards, q \in Priorities :
        \/ u.shards[p].ready[q] = viewOf(s, p, q)
        \/ u.shards[p].ready[q]
             = restored(viewOf(s, p, q), readyOf(u.shards[p].entries, u.metas, q), u.metas)
  BY <1>1, <1>3, <1>4 DEF viewOf
<1> QED BY <1>1, <1>2, <1>4, <1>5 DEF CarriesOn, u

\* A publication.
LEMMA UpsertCarriesOn ==
  ASSUME NEW s, SchedOK(s), NEW a, NEW c, NEW live
  PROVE  CarriesOn(s, upsertAuth(s, a, c, live))
<1> DEFINE k == ProviderOf[a]
           m == meta(a, c, live)
           metas == put(s.metas, a, m)
           shard == s.shards[k]
           new == IF a \in supports THEN upsertEntry(shard, a, s.metas, metas, now)
                                    ELSE removeEntry(shard, a, metas)
           shards == IF k \notin DOMAIN s.shards THEN s.shards
                     ELSE [s.shards EXCEPT ![k] = new]
           u == upsertAuth(s, a, c, live)
<1>1. CASE c.disabled
  <2>1. u = removeAuth(s, a)
    BY <1>1 DEF upsertAuth
  <2> QED BY <2>1, RemoveCarriesOn
<1>2. CASE ~c.disabled
  <2>1. /\ u.strategy = s.strategy /\ u.metas = metas /\ u.shards = shards
        /\ u.cursor = s.cursor /\ u.weighted = s.weighted
    BY <1>2 DEF upsertAuth, SchedOK, IsSched
  <2>2. \A b \in DOMAIN s.metas : b # a => metas[b] = s.metas[b]
    BY DEF put
  <2> HIDE DEF u, metas
  <2>3. ASSUME k \in DOMAIN s.shards
        PROVE  \A q \in Priorities :
                 \/ new.ready[q] = shard.ready[q]
                 \/ new.ready[q] = restored(shard.ready[q], readyOf(new.entries, metas, q), metas)
    <3>1. IsShard(shard)
      BY <2>3 DEF SchedOK, ShardOK
    <3>2. CASE a \in supports
      <4> DEFINE entry == evaluated(metas[a], now)
                 entries == put(shard.entries, a, entry)
      <4>1. new = upsertEntry(shard, a, s.metas, metas, now)
        BY <3>2
      <4>2. CASE a \in DOMAIN shard.entries /\ unchanged(shard.entries[a], entry, s.metas[a], metas[a])
        <5>1. new = [shard EXCEPT !.entries = entries]
          BY <4>1, <4>2 DEF upsertEntry
        <5> HIDE DEF new, entries
        <5>2. new.ready = shard.ready
          BY <3>1, <5>1 DEF IsShard
        <5> QED BY <5>2
      <4>3. CASE ~(a \in DOMAIN shard.entries /\ unchanged(shard.entries[a], entry, s.metas[a], metas[a]))
        <5>1. new = rebuildIndexes(shard, entries, metas)
          BY <4>1, <4>3, SMTT(30) DEF upsertEntry
        <5> HIDE DEF new, entries, shard
        <5> QED BY <5>1, RebuiltViews
      <4> QED BY <4>2, <4>3
    <3>3. CASE a \notin supports
      <4>1. new = removeEntry(shard, a, metas)
        BY <3>3
      <4>2. CASE a \in DOMAIN shard.entries
        <5>1. new = rebuildIndexes(shard, drop(shard.entries, a), metas)
          BY <4>1, <4>2 DEF removeEntry
        <5> HIDE DEF new, shard
        <5> QED BY <5>1, RebuiltViews
      <4>3. CASE a \notin DOMAIN shard.entries
        BY <4>1, <4>3 DEF removeEntry
      <4> QED BY <4>2, <4>3
    <3> QED BY <3>2, <3>3
  <2> HIDE DEF new
  <2>4. DOMAIN shards = DOMAIN s.shards
        /\ \A p \in DOMAIN s.shards : shards[p] = IF p = k THEN new ELSE s.shards[p]
    OBVIOUS
  <2> HIDE DEF shards
  <2>5. \A p \in DOMAIN u.shards, q \in Priorities :
          \/ u.shards[p].ready[q] = viewOf(s, p, q)
          \/ u.shards[p].ready[q]
               = restored(viewOf(s, p, q), readyOf(u.shards[p].entries, u.metas, q), u.metas)
    BY <2>1, <2>3, <2>4 DEF viewOf
  <2> QED BY <2>1, <2>2, <2>4, <2>5 DEF CarriesOn, u
<1> QED BY <1>1, <1>2

\* The promotion before a pick.
LEMMA PreparedCarriesOn ==
  ASSUME NEW s, SchedOK(s), NEW route
  PROVE  CarriesOn(s, prepared(s, route))
<1> DEFINE asked == {p \in ToSet(route) : p \in DOMAIN s.shards \/ providerAuths(s, p) # {}}
           shards == [p \in DOMAIN s.shards \cup asked |->
                        IF p \in asked THEN ensureModel(s, p) ELSE s.shards[p]]
           u == prepared(s, route)
<1>1. /\ u.strategy = s.strategy /\ u.metas = s.metas /\ u.shards = shards
      /\ u.cursor = s.cursor /\ u.weighted = s.weighted
  BY DEF prepared, SchedOK, IsSched
<1>2. ASSUME NEW p, NEW q \in Priorities
      PROVE  LET h == ensureModel(s, p)
             IN  \/ h.ready[q] = viewOf(s, p, q)
                 \/ h.ready[q] = restored(viewOf(s, p, q), readyOf(h.entries, s.metas, q), s.metas)
  <2> DEFINE h == ensureModel(s, p)
  <2>1. CASE p \in DOMAIN s.shards
    <3> DEFINE shard == s.shards[p]
               due == expired(shard, now)
               entries == [a \in DOMAIN shard.entries |->
                             IF a \in due THEN evaluated(s.metas[a], now) ELSE shard.entries[a]]
    <3>1. h = IF due = {} THEN shard ELSE rebuildIndexes(shard, entries, s.metas)
      BY <2>1 DEF ensureModel, promoteExpired
    <3>2. viewOf(s, p, q) = shard.ready[q]
      BY <2>1 DEF viewOf
    <3> HIDE DEF h, shard, due, entries
    <3>3. CASE due = {}
      BY <3>1, <3>2, <3>3 DEF h
    <3>4. CASE due # {}
      BY <3>1, <3>2, <3>4, RebuiltViews DEF h
    <3> QED BY <3>3, <3>4
  <2>2. CASE p \notin DOMAIN s.shards
    <3> DEFINE entries == [a \in {b \in providerAuths(s, p) : s.metas[b].supported} |->
                             evaluated(s.metas[a], now)]
    <3>1. h = rebuildIndexes(EmptyShard, entries, s.metas)
      BY <2>2 DEF ensureModel
    <3>2. viewOf(s, p, q) = EmptyShard.ready[q]
      BY <2>2 DEF viewOf, EmptyShard
    <3> HIDE DEF h, entries
    <3> QED BY <3>1, <3>2, RebuiltViews DEF h
  <2> QED BY <2>1, <2>2
<1>3. DOMAIN shards = DOMAIN s.shards \cup asked
      /\ \A p \in DOMAIN shards :
           shards[p] = IF p \in asked THEN ensureModel(s, p) ELSE s.shards[p]
  OBVIOUS
<1> HIDE DEF u, shards, asked
<1>4. ASSUME NEW p \in DOMAIN u.shards, NEW q \in Priorities
      PROVE  \/ u.shards[p].ready[q] = viewOf(s, p, q)
             \/ u.shards[p].ready[q]
                  = restored(viewOf(s, p, q), readyOf(u.shards[p].entries, u.metas, q), u.metas)
  <2>1. CASE p \in asked
    BY <1>1, <1>2, <1>3, <2>1
  <2>2. CASE p \notin asked
    BY <1>1, <1>3, <2>2 DEF viewOf
  <2> QED BY <2>1, <2>2
<1> QED BY <1>1, <1>3, <1>4 DEF CarriesOn, u

\* A write that is not about priorities.
LEMMA WriteCarriesOn ==
  ASSUME NEW s, NEW u, u.strategy = s.strategy, u.cursor = s.cursor, u.weighted = s.weighted,
         u.shards = s.shards,
         \A b \in DOMAIN s.metas \cap DOMAIN u.metas : u.metas[b].priority = s.metas[b].priority
  PROVE  CarriesOn(s, u)
  BY DEF CarriesOn, viewOf

\* Restored or not, a view stays on the cycle.
LEMMA GoodCarried ==
  ASSUME NEW s, NEW u, GoodSched(s), CarriesOn(s, u)
  PROVE  GoodSched(u)
<1>1. \A p, q : q \in Priorities => Good(viewOf(s, p, q))
  <2> SUFFICES ASSUME NEW p, NEW q \in Priorities PROVE Good(viewOf(s, p, q))
    OBVIOUS
  <2>1. CASE p \in DOMAIN s.shards
    BY <2>1 DEF viewOf, GoodSched
  <2>2. CASE p \notin DOMAIN s.shards
    <3>1. viewOf(s, p, q).weights = <<>>
      BY <2>2 DEF viewOf, EmptyView
    <3> QED BY <3>1, EmptyGood
  <2> QED BY <2>1, <2>2
<1>2. ASSUME NEW v, Good(v), NEW ids, NEW metas PROVE Good(restored(v, ids, metas))
  <2> DEFINE r == restored(v, ids, metas)
  <2>1. r.weights = <<>> \/ (r.weights = v.weights /\ r.current = v.current)
    BY DEF restored, EmptyView
  <2> HIDE DEF r
  <2>2. Good(r)
    BY <1>2, <2>1, EmptyGood, SameGood
  <2> QED BY <2>2 DEF r
<1>3. \A p \in DOMAIN u.shards, q \in Priorities : Good(u.shards[p].ready[q])
  BY <1>1, <1>2 DEF CarriesOn
<1> QED BY <1>3 DEF GoodSched, CarriesOn

-----------------------------------------------------------------------------
(* The candidates of a route *)

\* The priority a first pick of the route is made at.
top(s, route) == bestPriority(s, route, eligible(s, {}))
\* The candidates of a provider.
part(T, p) == {a \in T : ProviderOf[a] = p}

\* Which they are.
LEMMA CandidateSet ==
  ASSUME NEW s, SchedOK(s), NEW route \in Routes, DOMAIN candidates(s, route) # {}
  PROVE  LET w == candidates(s, route)
             T == DOMAIN w
             q == top(s, route)
             ok == eligible(s, {})
         IN  /\ q \in Priorities /\ T = atPriority(s, route, q, ok)
             /\ T \subseteq DOMAIN s.metas /\ T \subseteq Auths /\ T \subseteq Int /\ IsFiniteSet(T)
             /\ Cardinality(T) \in Nat \ {0}
             /\ \A a \in T : /\ w[a] = s.metas[a].weight /\ s.metas[a].priority = q
                             /\ ProviderOf[a] \in ToSet(route)
             /\ w = [a \in T |-> w[a]]
<1> DEFINE w == candidates(s, route)
           T == DOMAIN w
           q == top(s, route)
           ok == eligible(s, {})
<1>1. CASE \A x \in Priorities : atPriority(s, route, x, ok) = {}
  BY <1>1 DEF candidates
<1>2. CASE ~\A x \in Priorities : atPriority(s, route, x, ok) = {}
  <2>1. w = [a \in atPriority(s, route, q, ok) |-> s.metas[a].weight]
    BY <1>2 DEF candidates, top
  <2>2. T = atPriority(s, route, q, ok) /\ (\A a \in T : w[a] = s.metas[a].weight)
        /\ w = [a \in T |-> w[a]]
    BY <2>1
  <2>3. PICK x \in Priorities : atPriority(s, route, x, ok) # {}
    BY <1>2
  <2>4. Found(s, route, ok, q)
    BY <2>3, BestPriority DEF top
  <2>5. q \in Priorities /\ T # {}
    BY <2>2, <2>4 DEF Found
  <2>6. ok \subseteq DOMAIN s.metas
    BY DEF eligible
  <2> HIDE DEF w, q, ok
  <2>7. T \subseteq ok
    BY <2>2, <2>5, <2>6, AtPriority, Zenon
  <2>8. T \subseteq DOMAIN s.metas
    BY <2>6, <2>7
  <2>9. T \subseteq Auths /\ T \subseteq Int /\ IsFiniteSet(T)
    BY <2>8, MembersFinite DEF SchedOK
  <2>10. Cardinality(T) \in Nat \ {0}
    BY <2>5, <2>9, FS_CardinalityType, FS_EmptySet
  <2>11. \A a \in T : s.metas[a].priority = q /\ ProviderOf[a] \in ToSet(route)
    BY <2>2, <2>5, <2>6, <2>7, AtPriority, ZenonT(40)
  <2> QED BY <2>2, <2>5, <2>8, <2>9, <2>10, <2>11 DEF w, q, ok
<1> QED BY <1>1, <1>2

\* Without weights they are the views of the providers.
LEMMA CandidateParts ==
  ASSUME NEW s, SchedOK(s), NEW route \in Routes, DOMAIN candidates(s, route) # {},
         s.strategy # "weighted", NEW i \in DOMAIN route
  PROVE  LET T == DOMAIN candidates(s, route)
             q == top(s, route)
             p == route[i]
             ok == eligible(s, {})
         IN  /\ ToSet(readyAt(s, p, q)) = part(T, p)
             /\ part(T, p) # {} => /\ p \in DOMAIN s.shards
                                   /\ readyOf(s.shards[p].entries, s.metas, q) = part(T, p)
<1> DEFINE T == DOMAIN candidates(s, route)
           q == top(s, route)
           p == route[i]
           ok == eligible(s, {})
<1>1. ok = DOMAIN s.metas
  BY DEF eligible
<1>2. q \in Priorities /\ T = atPriority(s, route, q, ok) /\ T \subseteq DOMAIN s.metas
  BY CandidateSet
<1> HIDE DEF T, q, ok
<1>3. \A j : j \in DOMAIN route =>
        \A a \in ToSet(readyAt(s, route[j], q)) : a \in DOMAIN s.metas /\ ProviderOf[a] = route[j]
  BY <1>2, ReadySet DEF members
<1>4. ToSet(readyAt(s, p, q)) \subseteq part(T, p)
  BY <1>1, <1>2, <1>3 DEF atPriority, part
<1>5. ASSUME NEW a \in part(T, p) PROVE a \in ToSet(readyAt(s, p, q))
  <2>1. ProviderOf[a] = p /\ a \in atPriority(s, route, q, ok)
    BY <1>2 DEF part
  <2>2. PICK j \in DOMAIN route : a \in ToSet(readyAt(s, route[j], q))
    BY <2>1 DEF atPriority
  <2> QED BY <1>3, <2>1, <2>2
<1>6. ToSet(readyAt(s, p, q)) = part(T, p)
  BY <1>4, <1>5, Zenon
<1>7. ASSUME part(T, p) # {}
      PROVE  p \in DOMAIN s.shards /\ readyOf(s.shards[p].entries, s.metas, q) = part(T, p)
  <2>1. p \in DOMAIN s.shards
    BY <1>2, <1>6, <1>7, ReadySet
  <2> QED BY <1>2, <1>6, <2>1, ReadySet
<1> QED BY <1>6, <1>7 DEF T, q, ok

\* With weights they are what the weighted picks choose from.
LEMMA CandidateWeights ==
  ASSUME NEW s, SchedOK(s), NEW route \in Routes, DOMAIN candidates(s, route) # {},
         s.strategy = "weighted"
  PROVE  LET w == candidates(s, route)
             q == top(s, route)
             ok == eligible(s, {})
             view == s.shards[route[1]].ready[q]
         IN  /\ Vector(w) /\ w = weightVector(DOMAIN w, s.metas)
             /\ Len(route) = 1 =>
                  /\ route[1] \in DOMAIN s.shards /\ ToSet(view.flat) \cap ok = DOMAIN w
                  /\ weightVector(readyOf(s.shards[route[1]].entries, s.metas, q), s.metas) = w
<1> DEFINE w == candidates(s, route)
           T == DOMAIN w
           q == top(s, route)
           ok == eligible(s, {})
           view == s.shards[route[1]].ready[q]
<1>1. /\ q \in Priorities /\ T = atPriority(s, route, q, ok) /\ T \subseteq DOMAIN s.metas
      /\ \A a \in T : w[a] = s.metas[a].weight
      /\ w = [a \in T |-> w[a]]
  BY CandidateSet
<1>2. ok = {a \in DOMAIN s.metas : s.metas[a].weight > 0}
  BY DEF eligible
<1>3. MapTo(s.metas, Metas) /\ route \in Seq(Providers)
  BY SchedulerAssumption DEF SchedOK
<1> HIDE DEF w, q, ok
<1>4. \A a \in T : s.metas[a].weight > 0
  BY <1>1, <1>2 DEF atPriority
<1> DEFINE v == weightVector(T, s.metas)
<1>5. T # {}
  BY DEF w
<1>6. DOMAIN v = T /\ Vector(v) /\ \A a \in T : v[a] = s.metas[a].weight
  BY <1>1, <1>3, <1>4, <1>5, WeightsVector
<1>7. v = [a \in T |-> v[a]]
  BY <1>6 DEF Vector
<1> HIDE DEF v
<1>8. w = v
  BY <1>1, <1>6, <1>7, SMTT(30)
<1>9. ASSUME Len(route) = 1
      PROVE  /\ route[1] \in DOMAIN s.shards /\ ToSet(view.flat) \cap ok = T
             /\ weightVector(readyOf(s.shards[route[1]].entries, s.metas, q), s.metas) = w
  <2>1. DOMAIN route = {1}
    BY <1>3, <1>9
  <2>2. T = ToSet(readyAt(s, route[1], q)) \cap ok
    BY <1>1, <2>1 DEF atPriority
  <2>3. route[1] \in DOMAIN s.shards
    BY <1>1, <1>5, <2>2, ReadySet
  <2>4. readyAt(s, route[1], q) = view.flat
    BY <2>3 DEF readyAt
  <2> DEFINE ids == readyOf(s.shards[route[1]].entries, s.metas, q)
  <2>5. ToSet(readyAt(s, route[1], q)) = ids /\ ids \subseteq members(s.metas, route[1])
    BY <1>1, <2>3, ReadySet, ZenonT(40)
  <2> HIDE DEF ids
  <2>6. ids \subseteq DOMAIN s.metas
    BY <2>5 DEF members
  <2>7. {b \in ids : s.metas[b].weight > 0} = T
    BY <1>2, <2>2, <2>5, <2>6
  <2>8. {b \in T : s.metas[b].weight > 0} = T
    BY <1>4, Zenon
  <2>9. weightVector(ids, s.metas) = weightVector(T, s.metas)
    BY <2>7, <2>8 DEF weightVector
  <2> QED BY <1>8, <2>2, <2>3, <2>4, <2>9 DEF ids, v
<1> QED BY <1>6, <1>8, <1>9 DEF w, q, ok, v

\* They depend on what is ready, not on the cursors.
LEMMA SameCandidates ==
  ASSUME NEW s, NEW u, u.strategy = s.strategy, u.metas = s.metas,
         \A p : \A q \in Priorities : readyAt(u, p, q) = readyAt(s, p, q), NEW route
  PROVE  candidates(u, route) = candidates(s, route) /\ top(u, route) = top(s, route)
<1>1. eligible(u, {}) = eligible(s, {})
  BY DEF eligible
<1> DEFINE ok == eligible(s, {})
<1>2. \A q \in Priorities : atPriority(u, route, q, ok) = atPriority(s, route, q, ok)
  BY DEF atPriority
<1> HIDE DEF ok
<1>3. {q \in Priorities : atPriority(u, route, q, ok) # {}}
        = {q \in Priorities : atPriority(s, route, q, ok) # {}}
  BY <1>2
<1>4. bestPriority(u, route, ok) = bestPriority(s, route, ok)
  BY <1>3, Zenon DEF bestPriority
<1>5. top(u, route) = top(s, route)
  BY <1>1, <1>4 DEF top, ok
<1> DEFINE none == \A q \in Priorities : atPriority(s, route, q, ok) = {}
           q == bestPriority(s, route, ok)
<1>6. /\ candidates(s, route) = [a \in (IF none THEN {} ELSE atPriority(s, route, q, ok)) |->
                                   s.metas[a].weight]
      /\ candidates(u, route) = [a \in (IF none THEN {} ELSE atPriority(u, route, q, ok)) |->
                                   s.metas[a].weight]
  BY <1>1, <1>2, <1>4 DEF candidates, ok
<1>7. ~none => atPriority(u, route, q, ok) = atPriority(s, route, q, ok)
  <2>1. ASSUME ~none PROVE q \in Priorities
    BY <2>1, BestPriority DEF Found
  <2> QED BY <1>2, <2>1
<1> QED BY <1>5, <1>6, <1>7

-----------------------------------------------------------------------------
(* The ring of the round robin *)

\* The providers of a route have blocks of places, one after the other.
ahead(T, route, i) == {a \in T : \E j \in 1..(i - 1) : ProviderOf[a] = route[j]}
start(T, route, i) == Cardinality(ahead(T, route, i))
size(T, route, i) == Cardinality(part(T, route[i]))

\* How many places of a block are behind x.
behind(x, b, m) == IF b <= x /\ x < b + m THEN x - b ELSE 0

\* Each candidate has a place f in the block of its provider: they follow
\* each other in the order of IDs, from an offset.
Ring(T, route, f, off) ==
  /\ f \in [T -> 0..(Cardinality(T) - 1)]
  /\ \A i \in DOMAIN route : size(T, route, i) > 0 =>
       /\ off[i] \in 0..(size(T, route, i) - 1)
       /\ \A z \in 0..(size(T, route, i) - 1) :
            f[sorted(part(T, route[i]))[wrap(off[i] + z, size(T, route, i)) + 1]]
              = start(T, route, i) + z

\* The next pick is the one at x: the cursors of the views are as far as the
\* picks of their blocks have come.
Turning(s, T, route, q, off, x) ==
  /\ x \in 0..(Cardinality(T) - 1)
  /\ Len(route) # 1 => s.cursor[route] % Cardinality(T) = x
  /\ \A i \in DOMAIN route : size(T, route, i) > 0 =>
       viewOf(s, route[i], q).cursor % size(T, route, i)
         = wrap(off[i] + behind(x, start(T, route, i), size(T, route, i)), size(T, route, i))

\* What the blocks are.
Split(T, route) ==
  /\ IsFiniteSet(T) /\ T \subseteq Int /\ Cardinality(T) \in Nat \ {0}
  /\ route \in Seq(Providers) /\ IsInjective(route)
  /\ \A a \in T : ProviderOf[a] \in ToSet(route)

\* The blocks are as long as their providers have candidates and end at the last place.
LEMMA Blocks ==
  ASSUME NEW T, NEW route, Split(T, route)
  PROVE  /\ \A i \in 1..(Len(route) + 1) : start(T, route, i) \in Nat
         /\ \A i \in DOMAIN route : size(T, route, i) \in Nat
         /\ \A i \in DOMAIN route : start(T, route, i + 1) = start(T, route, i) + size(T, route, i)
         /\ \A i, j \in 1..(Len(route) + 1) :
              i <= j => start(T, route, i) <= start(T, route, j)
         /\ start(T, route, 1) = 0 /\ start(T, route, Len(route) + 1) = Cardinality(T)
<1>1. /\ IsFiniteSet(T) /\ Len(route) \in Nat /\ DOMAIN route = 1..Len(route)
      /\ \A i, j \in DOMAIN route : route[i] = route[j] => i = j
  BY DEF Split, IsInjective
<1>2. \A i : IsFiniteSet(ahead(T, route, i)) /\ start(T, route, i) \in Nat
  <2>1. \A i : ahead(T, route, i) \in SUBSET T
    BY DEF ahead
  <2> QED BY <1>1, <2>1, FS_Subset, FS_CardinalityType DEF start
<1>3. \A i : IsFiniteSet(part(T, route[i])) /\ size(T, route, i) \in Nat
  <2>1. \A i : part(T, route[i]) \in SUBSET T
    BY DEF part
  <2> QED BY <1>1, <2>1, FS_Subset, FS_CardinalityType DEF size
<1>4. ASSUME NEW i \in DOMAIN route
      PROVE  start(T, route, i + 1) = start(T, route, i) + size(T, route, i)
  <2>1. 1..((i + 1) - 1) = 1..(i - 1) \cup {i} /\ i \notin 1..(i - 1)
    BY <1>1
  <2>2. ahead(T, route, i + 1) = ahead(T, route, i) \cup part(T, route[i])
    BY <2>1 DEF ahead, part
  <2>3. \A j \in 1..(i - 1) : j \in DOMAIN route /\ j # i
    BY <1>1
  <2>4. ahead(T, route, i) \cap part(T, route[i]) = {}
    BY <1>1, <2>3 DEF ahead, part
  <2>5. Cardinality(ahead(T, route, i + 1))
          = Cardinality(ahead(T, route, i)) + Cardinality(part(T, route[i])) - Cardinality({})
    BY <1>2, <1>3, <2>2, <2>4, FS_Union
  <2> QED BY <1>2, <1>3, <2>5, FS_EmptySet DEF start, size
<1>5. ASSUME NEW i \in 1..(Len(route) + 1), NEW j \in 1..(Len(route) + 1), i <= j
      PROVE  start(T, route, i) <= start(T, route, j)
  <2>1. \A k \in 1..(i - 1) : k \in 1..(j - 1)
    BY <1>1, <1>5
  <2>2. ahead(T, route, i) \in SUBSET ahead(T, route, j)
    BY <2>1 DEF ahead
  <2> QED BY <1>2, <2>2, FS_Subset DEF start
<1>6. start(T, route, 1) = 0
  <2>1. ahead(T, route, 1) = {}
    BY DEF ahead
  <2> QED BY <2>1, FS_EmptySet DEF start
<1>7. start(T, route, Len(route) + 1) = Cardinality(T)
  <2>1. 1..((Len(route) + 1) - 1) = DOMAIN route
    BY <1>1
  <2>2. ahead(T, route, Len(route) + 1) = T
    BY <2>1, Zenon DEF ahead, Split, ToSet
  <2> QED BY <2>2 DEF start
<1> QED BY <1>2, <1>3, <1>4, <1>5, <1>6, <1>7

\* The block of i is among the places.
LEMMA BlockIn ==
  ASSUME NEW T, NEW route, Split(T, route), NEW i \in DOMAIN route
  PROVE  /\ start(T, route, i) \in Nat /\ size(T, route, i) \in Nat
         /\ start(T, route, i) + size(T, route, i) <= Cardinality(T)
         /\ Cardinality(T) \in Nat \ {0}
         /\ \A j \in DOMAIN route :
              /\ j < i => start(T, route, j) + size(T, route, j) <= start(T, route, i)
              /\ i < j => start(T, route, i) + size(T, route, i) <= start(T, route, j)
<1>1. Len(route) \in Nat /\ DOMAIN route = 1..Len(route) /\ Cardinality(T) \in Nat \ {0}
  BY DEF Split
<1>2. i \in 1..(Len(route) + 1) /\ i + 1 \in 1..(Len(route) + 1) /\ i \in Nat
      /\ Len(route) + 1 \in 1..(Len(route) + 1) /\ i + 1 <= Len(route) + 1
  BY <1>1
<1>3. start(T, route, i) \in Nat /\ size(T, route, i) \in Nat
  BY <1>2, Blocks
<1>4. start(T, route, i + 1) = start(T, route, i) + size(T, route, i)
  BY Blocks
<1>5. start(T, route, i + 1) <= start(T, route, Len(route) + 1)
      /\ start(T, route, Len(route) + 1) = Cardinality(T)
  BY <1>2, Blocks
<1>6. ASSUME NEW j \in DOMAIN route
      PROVE  /\ j < i => start(T, route, j) + size(T, route, j) <= start(T, route, i)
             /\ i < j => start(T, route, i) + size(T, route, i) <= start(T, route, j)
  <2>1. j \in 1..(Len(route) + 1) /\ j + 1 \in 1..(Len(route) + 1) /\ j \in Nat
    BY <1>1
  <2>2. start(T, route, j + 1) = start(T, route, j) + size(T, route, j)
    BY Blocks
  <2>3. ASSUME j < i PROVE start(T, route, j + 1) <= start(T, route, i)
    <3>1. j + 1 <= i
      BY <1>2, <2>1, <2>3
    <3> QED BY <1>2, <2>1, <3>1, Blocks
  <2>4. ASSUME i < j PROVE start(T, route, i + 1) <= start(T, route, j)
    <3>1. i + 1 <= j
      BY <1>2, <2>1, <2>4
    <3> QED BY <1>2, <2>1, <3>1, Blocks
  <2> QED BY <1>4, <2>2, <2>3, <2>4
<1> QED BY <1>1, <1>3, <1>4, <1>5, <1>6

\* sorted lists everyone once.
LEMMA SortedOnce ==
  ASSUME NEW S, IsFiniteSet(S), S \subseteq Int
  PROVE  \A i, j \in 1..Cardinality(S) : sorted(S)[i] = sorted(S)[j] => i = j
<1> DEFINE n == Cardinality(S)
           g == sorted(S)
<1>1. n \in Nat /\ DOMAIN g = 1..n /\ ToSet(g) = S
  BY SortedSet, Zenon
<1>2. g \in [1..n -> S]
  <2>1. \A i \in 1..n : g[i] \in S
    BY <1>1 DEF ToSet
  <2> DEFINE h == [i \in 1..n |-> CHOOSE a \in S : Cardinality({b \in S : b <= a}) = i]
  <2>2. g = h
    BY DEF sorted
  <2> HIDE DEF g
  <2>3. \A i \in 1..n : h[i] \in S
    BY <2>1, <2>2, Zenon
  <2> QED BY <2>2, <2>3, Zenon
<1>3. IsFiniteSet(1..n) /\ Cardinality(1..n) = n
  BY <1>1, FS_Interval
<1> HIDE DEF g
<1>4. g \in Surjection(1..n, S)
  BY <1>1, <1>2 DEF Surjection, ToSet
<1>5. g \in Injection(1..n, S)
  BY <1>3, <1>4, FS_Surjection
<1> QED BY <1>1, <1>5 DEF Injection, IsInjective, g

\* Remainders are taken once.
LEMMA Modulo ==
  ASSUME NEW c \in Nat, NEW n \in Nat \ {0}
  PROVE  c % n \in 0..(n - 1) /\ (c % n) % n = c % n
<1> DEFINE r == c % n
<1>1. r \in 0..(n - 1) /\ r \in Nat
  OBVIOUS
<1> HIDE DEF r
<1>2. r % n = r
  <2>1. r = n * 0 + r
    BY <1>1
  <2> QED BY <1>1, <2>1, Remainder
<1> QED BY <1>1, <1>2 DEF r

\* The cursor after a pick, as a place.
LEMMA ModuloNext ==
  ASSUME NEW n \in Nat \ {0}, NEW x \in 0..(n - 1)
  PROVE  (x + 1) % n = wrap(x + 1, n)
<1>1. CASE x + 1 = n
  <2>1. n = n * 1 + 0 /\ 0 \in 0..(n - 1)
    OBVIOUS
  <2>2. n % n = 0
    BY <2>1, Remainder
  <2> QED BY <1>1, <2>2 DEF wrap
<1>2. CASE x + 1 # n
  <2> DEFINE y == x + 1
  <2>1. y \in 0..(n - 1) /\ y = n * 0 + y /\ y \in Nat /\ ~(y >= n)
    BY <1>2
  <2> HIDE DEF y
  <2>2. y % n = y
    BY <2>1, Remainder
  <2> QED BY <2>1, <2>2 DEF wrap, y
<1> QED BY <1>1, <1>2

\* The candidates of a route fill its blocks.
LEMMA CandidatesSplit ==
  ASSUME NEW s, SchedOK(s), NEW route \in Routes, DOMAIN candidates(s, route) # {}
  PROVE  Split(DOMAIN candidates(s, route), route)
<1> DEFINE T == DOMAIN candidates(s, route)
<1>1. /\ IsFiniteSet(T) /\ T \subseteq Int /\ Cardinality(T) \in Nat \ {0}
      /\ \A a \in T : ProviderOf[a] \in ToSet(route)
  BY CandidateSet
<1>2. route \in Seq(Providers) /\ IsInjective(route)
  BY SchedulerAssumption
<1> HIDE DEF T
<1>3. Split(T, route)
  BY <1>1, <1>2 DEF Split
<1> QED BY <1>3 DEF T

\* Cursors are numbers.
LEMMA CursorNat ==
  ASSUME NEW s, SchedOK(s), NEW p, NEW q \in Priorities
  PROVE  viewOf(s, p, q).cursor \in Nat
<1>1. CASE p \in DOMAIN s.shards
  BY <1>1 DEF viewOf, SchedOK, ShardOK, CursorsOK
<1>2. CASE p \notin DOMAIN s.shards
  BY <1>2 DEF viewOf, EmptyView
<1> QED BY <1>1, <1>2

\* Offsets within a block.
LEMMA Offsets ==
  ASSUME NEW m \in Nat \ {0}, NEW o \in 0..(m - 1)
  PROVE  /\ \A z \in 0..(m - 1) : wrap(o + z, m) \in 0..(m - 1)
         /\ \A y, z \in 0..(m - 1) : wrap(o + y, m) = wrap(o + z, m) => y = z
         /\ \A j \in 0..(m - 1) : \E z \in 0..(m - 1) : wrap(o + z, m) = j
<1>1. \A z \in 0..(m - 1) : wrap(o + z, m) \in 0..(m - 1)
  BY DEF wrap
<1>2. \A y, z \in 0..(m - 1) : wrap(o + y, m) = wrap(o + z, m) => y = z
  BY DEF wrap
<1>3. ASSUME NEW j \in 0..(m - 1) PROVE \E z \in 0..(m - 1) : wrap(o + z, m) = j
  <2> DEFINE z == IF j >= o THEN j - o ELSE j - o + m
  <2>1. z \in 0..(m - 1) /\ wrap(o + z, m) = j
    BY DEF wrap
  <2> QED BY <2>1
<1> QED BY <1>1, <1>2, <1>3

\* Wherever the cursors are, there is a ring they turn on.
LEMMA RingExists ==
  ASSUME NEW s, SchedOK(s), NEW route \in Routes, NEW T, Split(T, route), NEW q \in Priorities
  PROVE  \E f, off, x : Ring(T, route, f, off) /\ Turning(s, T, route, q, off, x)
<1> DEFINE n == Cardinality(T)
           m(i) == size(T, route, i)
           b(i) == start(T, route, i)
           flat(i) == sorted(part(T, route[i]))
           x == IF Len(route) # 1 THEN s.cursor[route] % n ELSE 0
           d(i) == behind(x, b(i), m(i))
           y(i) == viewOf(s, route[i], q).cursor % m(i)
           off == [i \in DOMAIN route |-> IF y(i) >= d(i) THEN y(i) - d(i) ELSE y(i) - d(i) + m(i)]
           idx(a) == CHOOSE i \in DOMAIN route : route[i] = ProviderOf[a]
           place(i, a) == CHOOSE z \in 0..(m(i) - 1) : flat(i)[wrap(off[i] + z, m(i)) + 1] = a
           f == [a \in T |-> b(idx(a)) + place(idx(a), a)]
<1>1. /\ IsFiniteSet(T) /\ T \subseteq Int /\ n \in Nat \ {0}
      /\ \A i, j \in DOMAIN route : route[i] = route[j] => i = j
      /\ \A a \in T : \E i \in DOMAIN route : route[i] = ProviderOf[a]
  BY DEF Split, IsInjective, ToSet
<1>2. x \in 0..(n - 1) /\ (Len(route) # 1 => s.cursor[route] % n = x)
  <2>1. s.cursor[route] \in Nat
    BY DEF SchedOK
  <2> HIDE DEF n
  <2>2. s.cursor[route] % n \in 0..(n - 1)
    BY <1>1, <2>1
  <2> QED BY <1>1, <2>2
<1>3. ASSUME NEW i \in DOMAIN route, m(i) > 0
      PROVE  /\ m(i) \in Nat \ {0} /\ b(i) \in Nat /\ b(i) + m(i) <= n
             /\ y(i) \in 0..(m(i) - 1) /\ d(i) \in 0..(m(i) - 1)
  <2>1. m(i) \in Nat \ {0} /\ b(i) \in Nat /\ b(i) + m(i) <= n
    BY <1>3, BlockIn
  <2>2. viewOf(s, route[i], q).cursor \in Nat
    BY CursorNat
  <2> HIDE DEF m, b, x
  <2>3. y(i) \in 0..(m(i) - 1)
    BY <2>1, <2>2
  <2>4. d(i) \in 0..(m(i) - 1)
    BY <1>1, <1>2, <2>1 DEF behind
  <2> QED BY <2>1, <2>3, <2>4
<1> HIDE DEF n, m, b, x, d, y
<1>4. ASSUME NEW i \in DOMAIN route, m(i) > 0
      PROVE  off[i] \in 0..(m(i) - 1) /\ wrap(off[i] + d(i), m(i)) = y(i)
  <2>1. off[i] = IF y(i) >= d(i) THEN y(i) - d(i) ELSE y(i) - d(i) + m(i)
    OBVIOUS
  <2> HIDE DEF off
  <2> QED BY <1>3, <1>4, <2>1 DEF wrap
<1> HIDE DEF off
<1>5. ASSUME NEW i \in DOMAIN route
      PROVE  /\ DOMAIN flat(i) = 1..m(i) /\ ToSet(flat(i)) = part(T, route[i])
             /\ \A j, k \in 1..m(i) : flat(i)[j] = flat(i)[k] => j = k
  <2>1. part(T, route[i]) \in SUBSET T /\ part(T, route[i]) \subseteq Int
    BY <1>1, Zenon DEF part
  <2>2. IsFiniteSet(part(T, route[i]))
    BY <1>1, <2>1, FS_Subset
  <2> QED BY <2>1, <2>2, SortedSet, SortedOnce DEF m, size
<1> HIDE DEF flat
<1>6. ASSUME NEW a \in T
      PROVE  /\ idx(a) \in DOMAIN route /\ route[idx(a)] = ProviderOf[a]
             /\ a \in part(T, route[idx(a)]) /\ m(idx(a)) > 0
             /\ place(idx(a), a) \in 0..(m(idx(a)) - 1)
             /\ flat(idx(a))[wrap(off[idx(a)] + place(idx(a), a), m(idx(a))) + 1] = a
  <2> DEFINE i == idx(a)
  <2>1. i \in DOMAIN route /\ route[i] = ProviderOf[a]
    BY <1>1
  <2> HIDE DEF i
  <2>2. a \in part(T, route[i])
    BY <2>1 DEF part
  <2>20. DOMAIN flat(i) = 1..m(i) /\ a \in ToSet(flat(i))
    BY <1>5, <2>1, <2>2
  <2>3. PICK j \in 1..m(i) : flat(i)[j] = a
    BY <2>20 DEF ToSet
  <2>4. m(i) \in Nat
    BY <2>1, Blocks DEF m
  <2>5. m(i) > 0 /\ j - 1 \in 0..(m(i) - 1) /\ (j - 1) + 1 = j
    BY <2>3, <2>4
  <2>6. off[i] \in 0..(m(i) - 1) /\ m(i) \in Nat \ {0}
    BY <1>4, <2>1, <2>4, <2>5
  <2>21. \A l \in 0..(m(i) - 1) : \E z \in 0..(m(i) - 1) : wrap(off[i] + z, m(i)) = l
    BY <2>6, Offsets, Zenon
  <2>7. PICK z \in 0..(m(i) - 1) : wrap(off[i] + z, m(i)) = j - 1
    BY <2>5, <2>21
  <2>8. flat(i)[wrap(off[i] + z, m(i)) + 1] = a
    BY <2>3, <2>5, <2>7
  <2>9. place(i, a) \in 0..(m(i) - 1) /\ flat(i)[wrap(off[i] + place(i, a), m(i)) + 1] = a
    BY <2>8
  <2> HIDE DEF place, idx
  <2> QED BY <2>1, <2>2, <2>5, <2>9 DEF i
<1> HIDE DEF idx, place
<1>7. f \in [T -> 0..(n - 1)]
  <2> SUFFICES ASSUME NEW a \in T PROVE b(idx(a)) + place(idx(a), a) \in 0..(n - 1)
    OBVIOUS
  <2>1. b(idx(a)) \in Nat /\ m(idx(a)) \in Nat /\ b(idx(a)) + m(idx(a)) <= n
    BY <1>3, <1>6
  <2>2. place(idx(a), a) \in 0..(m(idx(a)) - 1)
    BY <1>6
  <2> QED BY <1>1, <2>1, <2>2
<1>8. ASSUME NEW i \in DOMAIN route, m(i) > 0, NEW z \in 0..(m(i) - 1)
      PROVE  f[flat(i)[wrap(off[i] + z, m(i)) + 1]] = b(i) + z
  <2> DEFINE j == wrap(off[i] + z, m(i))
             a == flat(i)[j + 1]
  <2>1. m(i) \in Nat \ {0} /\ off[i] \in 0..(m(i) - 1)
    BY <1>3, <1>4, <1>8
  <2>2. j \in 0..(m(i) - 1)
    BY <2>1, Offsets, Zenon
  <2> HIDE DEF j
  <2>3. j + 1 \in 1..m(i)
    BY <2>1, <2>2
  <2>30. DOMAIN flat(i) = 1..m(i) /\ ToSet(flat(i)) = part(T, route[i])
    BY <1>5
  <2>31. a \in ToSet(flat(i))
    BY <2>3, <2>30 DEF ToSet
  <2>4. a \in part(T, route[i])
    BY <2>30, <2>31
  <2> HIDE DEF a
  <2>5. a \in T /\ ProviderOf[a] = route[i]
    BY <2>4 DEF part
  <2>6. idx(a) = i
    BY <1>1, <1>6, <2>5
  <2> DEFINE k == place(i, a)
             l == wrap(off[i] + k, m(i))
  <2>7. k \in 0..(m(i) - 1) /\ flat(i)[l + 1] = a
    BY <1>6, <2>5, <2>6
  <2> HIDE DEF k
  <2>8. l \in 0..(m(i) - 1)
    BY <2>1, <2>7, Offsets
  <2> HIDE DEF l
  <2>9. l + 1 \in 1..m(i)
    BY <2>1, <2>8
  <2>10. l + 1 = j + 1
    BY <1>5, <2>3, <2>7, <2>9 DEF a
  <2>11. l = j
    BY <2>1, <2>2, <2>8, <2>10
  <2>12. k = z
    BY <2>1, <2>7, <2>11, Offsets DEF l, j
  <2>13. f[a] = b(i) + k
    BY <2>5, <2>6 DEF k
  <2> QED BY <2>12, <2>13 DEF a, j
<1>9. Ring(T, route, f, off)
  <2> HIDE DEF f
  <2> QED BY <1>4, <1>7, <1>8 DEF Ring, m, b, n, flat
<1>10. Turning(s, T, route, q, off, x)
  BY <1>2, <1>4 DEF Turning, m, b, n, d, y
<1> HIDE DEF f
<1> QED BY <1>9, <1>10

\* The view of the provider i has given e and gone on by one; x is in its block.
Advances(s, u, T, route, q, i, x, e) ==
  /\ i \in DOMAIN route
  /\ start(T, route, i) <= x /\ x < start(T, route, i) + size(T, route, i)
  /\ e = sorted(part(T, route[i]))[(viewOf(s, route[i], q).cursor % size(T, route, i)) + 1]
  /\ viewOf(u, route[i], q).cursor = (viewOf(s, route[i], q).cursor % size(T, route, i)) + 1
  /\ \A j \in DOMAIN route \ {i} : viewOf(u, route[j], q).cursor = viewOf(s, route[j], q).cursor
  /\ Len(route) # 1 => u.cursor[route] = x + 1

\* A pick of the place x, from the block it is in.
LEMMA RingStep ==
  ASSUME NEW s, NEW u, NEW T, NEW route, Split(T, route), NEW q, NEW off, NEW x,
         NEW f, Ring(T, route, f, off), Turning(s, T, route, q, off, x),
         NEW i, NEW e, Advances(s, u, T, route, q, i, x, e)
  PROVE  /\ e \in T /\ f[e] = x
         /\ Turning(u, T, route, q, off, wrap(x + 1, Cardinality(T)))
<1> DEFINE n == Cardinality(T)
           m(j) == size(T, route, j)
           b(j) == start(T, route, j)
           y == viewOf(s, route[i], q).cursor % m(i)
           a == sorted(part(T, route[i]))[y + 1]
           x1 == wrap(x + 1, n)
<1>1. n \in Nat \ {0} /\ x \in 0..(n - 1)
  BY DEF Split, Turning
<1>20. i \in DOMAIN route
  BY DEF Advances
<1>2. ASSUME NEW j \in DOMAIN route
      PROVE  /\ b(j) \in Nat /\ m(j) \in Nat /\ b(j) + m(j) <= n
             /\ j < i => b(j) + m(j) <= b(i)
             /\ i < j => b(i) + m(i) <= b(j)
  BY <1>20, BlockIn
<1>3. b(i) <= x /\ x < b(i) + m(i)
  BY DEF Advances
<1>4. /\ m(i) > 0 => off[i] \in 0..(m(i) - 1)
      /\ m(i) > 0 => y = wrap(off[i] + behind(x, b(i), m(i)), m(i))
      /\ m(i) > 0 => \A z \in 0..(m(i) - 1) :
           f[sorted(part(T, route[i]))[wrap(off[i] + z, m(i)) + 1]] = b(i) + z
  BY <1>20 DEF Ring, Turning
<1>5. \A j \in DOMAIN route : m(j) > 0 =>
        viewOf(s, route[j], q).cursor % m(j) = wrap(off[j] + behind(x, b(j), m(j)), m(j))
  BY DEF Turning
<1>6. /\ viewOf(u, route[i], q).cursor = y + 1
      /\ \A j \in DOMAIN route \ {i} : viewOf(u, route[j], q).cursor = viewOf(s, route[j], q).cursor
      /\ Len(route) # 1 => u.cursor[route] = x + 1
  BY DEF Advances
<1> HIDE DEF n, m, b, y
<1>7. m(i) \in Nat \ {0} /\ b(i) \in Nat /\ b(i) + m(i) <= n
  BY <1>1, <1>2, <1>3, <1>20
<1>8. off[i] \in 0..(m(i) - 1) /\ behind(x, b(i), m(i)) = x - b(i) /\ x - b(i) \in 0..(m(i) - 1)
  BY <1>1, <1>3, <1>4, <1>7 DEF behind
<1>9. y = wrap(off[i] + (x - b(i)), m(i)) /\ y \in 0..(m(i) - 1)
  <2>1. y = wrap(off[i] + (x - b(i)), m(i))
    BY <1>4, <1>7, <1>8
  <2> QED BY <1>7, <1>8, <2>1, Offsets, Zenon
<1>10. f[a] = x
  <2>1. f[sorted(part(T, route[i]))[wrap(off[i] + (x - b(i)), m(i)) + 1]] = b(i) + (x - b(i))
    BY <1>4, <1>7, <1>8
  <2>2. b(i) + (x - b(i)) = x
    BY <1>1, <1>7
  <2> QED BY <1>9, <2>1, <2>2
<1>11. a \in T
  <2>1. part(T, route[i]) \in SUBSET T /\ part(T, route[i]) \subseteq Int /\ IsFiniteSet(T)
    BY Zenon DEF part, Split
  <2>2. IsFiniteSet(part(T, route[i]))
    BY <2>1, FS_Subset
  <2>3. DOMAIN sorted(part(T, route[i])) = 1..m(i)
        /\ ToSet(sorted(part(T, route[i]))) = part(T, route[i])
    BY <2>1, <2>2, SortedSet DEF m, size
  <2>4. y + 1 \in 1..m(i)
    BY <1>7, <1>9
  <2> QED BY <2>1, <2>3, <2>4 DEF ToSet
<1>12. x1 = (IF x + 1 = n THEN 0 ELSE x + 1) /\ x1 \in 0..(n - 1)
  BY <1>1 DEF wrap
<1>13. Len(route) # 1 => u.cursor[route] % n = x1
  BY <1>1, <1>6, ModuloNext
<1> HIDE DEF x1
<1>14. ASSUME NEW j \in DOMAIN route, m(j) > 0
       PROVE  viewOf(u, route[j], q).cursor % m(j) = wrap(off[j] + behind(x1, b(j), m(j)), m(j))
  <2>1. CASE j = i
    <3>1. (y + 1) % m(i) = wrap(y + 1, m(i))
      BY <1>7, <1>9, ModuloNext
    <3>2. wrap(y + 1, m(i)) = wrap(off[i] + behind(x1, b(i), m(i)), m(i))
      BY <1>1, <1>3, <1>7, <1>8, <1>9, <1>12 DEF wrap, behind
    <3> QED BY <1>6, <2>1, <3>1, <3>2
  <2>2. CASE j # i
    <3>1. behind(x1, b(j), m(j)) = behind(x, b(j), m(j))
      <4>1. b(j) \in Nat /\ m(j) \in Nat /\ (b(j) + m(j) <= b(i) \/ b(i) + m(i) <= b(j))
        <5>1. i \in Int /\ j \in Int
          BY <1>20 DEF Split
        <5>2. i < j \/ j < i
          BY <2>2, <5>1
        <5> QED BY <1>2, <5>2
      <4> QED BY <1>1, <1>3, <1>7, <1>12, <4>1 DEF behind
    <3>2. viewOf(u, route[j], q).cursor = viewOf(s, route[j], q).cursor
      BY <1>6, <2>2
    <3> QED BY <1>5, <1>14, <3>1, <3>2
  <2> QED BY <2>1, <2>2
<1>15. Turning(u, T, route, q, off, x1)
  BY <1>12, <1>13, <1>14 DEF Turning, n, m, b
<1>16. e = a
  BY DEF y, m, Advances
<1> QED BY <1>10, <1>11, <1>15, <1>16 DEF x1, n

-----------------------------------------------------------------------------
(* A rotation under way *)

\* What a weighted pick of the route goes on from.
stateOf(s, route, q) == IF Len(route) = 1 THEN viewOf(s, route[1], q) ELSE s.weighted[route]

\* The picks are the last ones of a ring, of the cycle.
RingAt(s, T, route, q, ps) ==
  /\ ps \in Seq(T) /\ Len(ps) <= Cardinality(T)
  /\ \E f, off, x :
       /\ Ring(T, route, f, off) /\ Turning(s, T, route, q, off, x)
       /\ Trail({<<a, f[a]>> : a \in T}, Cardinality(T), x, ps)

\* The same for the cycle of the weights w.
CycleAt(st, w, ps) ==
  /\ ps \in Seq(DOMAIN w) /\ Len(ps) <= round(w)
  /\ \E x \in 0..(round(w) - 1) :
       /\ At(st, w, x)
       /\ Trail({<<Cycle(w)[z], z>> : z \in 0..(round(w) - 1)}, round(w), x, ps)

\* Under the scheduler's strategy, ps are the last picks of the route's rotation.
OnCourse(s, route, ps) ==
  /\ s.strategy = "rr" => RingAt(s, DOMAIN candidates(s, route), route, top(s, route), ps)
  /\ s.strategy = "weighted" =>
       CycleAt(stateOf(s, route, top(s, route)), candidates(s, route), ps)

\* A weighted pick starts from a place of the cycle.
LEMMA GoodState ==
  ASSUME NEW s, GoodSched(s), NEW route \in Routes, NEW q \in Priorities
  PROVE  Good(stateOf(s, route, q))
<1>1. Good(EmptyView)
  <2>1. EmptyView.weights = <<>>
    BY DEF EmptyView
  <2> QED BY <2>1, EmptyGood
<1>2. Good(viewOf(s, route[1], q))
  <2>1. CASE route[1] \in DOMAIN s.shards
    BY <2>1 DEF viewOf, GoodSched
  <2>2. CASE route[1] \notin DOMAIN s.shards
    BY <1>1, <2>2 DEF viewOf
  <2> QED BY <2>1, <2>2
<1>3. Good(s.weighted[route])
  BY DEF GoodSched
<1> QED BY <1>2, <1>3 DEF stateOf

\* Before the first pick any place will do.
LEMMA NoTrail ==
  ASSUME NEW R, NEW n, NEW x
  PROVE  Trail(R, n, x, <<>>)
<1>1. Len(<<>>) = 0 /\ 0..(0 - 1) = {}
  OBVIOUS
<1> QED BY <1>1 DEF Trail

\* The first pick finds a rotation to go on with.
LEMMA CourseStart ==
  ASSUME NEW s, SchedOK(s), GoodSched(s), NEW route \in Routes, DOMAIN candidates(s, route) # {}
  PROVE  OnCourse(s, route, <<>>)
<1> DEFINE w == candidates(s, route)
           T == DOMAIN w
           q == top(s, route)
<1>1. q \in Priorities /\ Cardinality(T) \in Nat \ {0}
  BY CandidateSet
<1>2. Split(T, route)
  BY CandidatesSplit
<1>3. RingAt(s, T, route, q, <<>>)
  <2> HIDE DEF w, q
  <2>1. PICK f, off, x : Ring(T, route, f, off) /\ Turning(s, T, route, q, off, x)
    BY <1>1, <1>2, RingExists
  <2>2. Trail({<<a, f[a]>> : a \in T}, Cardinality(T), x, <<>>)
    BY NoTrail
  <2>3. <<>> \in Seq(T) /\ Len(<<>>) <= Cardinality(T)
    BY <1>1
  <2> QED BY <2>1, <2>2, <2>3, Zenon DEF RingAt
<1>4. ASSUME s.strategy = "weighted" PROVE CycleAt(stateOf(s, route, q), w, <<>>)
  <2>1. Vector(w)
    BY <1>4, CandidateWeights, Zenon
  <2> DEFINE st == stateOf(s, route, q)
  <2>2. Good(st)
    BY <1>1, GoodState
  <2> HIDE DEF w, q, st
  <2>3. PICK x \in 0..(round(w) - 1) : At(st, w, x)
    BY <2>1, <2>2 DEF Good
  <2>4. Trail({<<Cycle(w)[z], z>> : z \in 0..(round(w) - 1)}, round(w), x, <<>>)
    BY NoTrail
  <2>5. round(w) \in Nat
    BY <2>1, CycleOK
  <2>6. <<>> \in Seq(DOMAIN w) /\ Len(<<>>) <= round(w)
    BY <2>5
  <2>7. CycleAt(st, w, <<>>)
    BY <2>3, <2>4, <2>6, Zenon DEF CycleAt
  <2> QED BY <2>7 DEF st
<1> QED BY <1>3, <1>4 DEF OnCourse

\* The only candidate: every place is its own.
LEMMA AloneRing ==
  ASSUME NEW u, SchedOK(u), NEW route \in Routes, NEW a, NEW T, T = {a}, Split(T, route),
         NEW q \in Priorities, NEW ps \in Seq(T), Len(ps) <= Cardinality(T)
  PROVE  RingAt(u, T, route, q, ps)
<1>1. PICK f, off, x : Ring(T, route, f, off) /\ Turning(u, T, route, q, off, x)
  BY RingExists
<1>2. Cardinality(T) = 1
  BY FS_Singleton, Zenon
<1>3. x = 0 /\ f[a] = 0
  BY <1>1, <1>2 DEF Ring, Turning
<1>4. Len(ps) \in {0, 1} /\ \A i \in 1..Len(ps) : ps[i] = a
  <2>1. Len(ps) \in Nat /\ Len(ps) <= 1
    BY <1>2
  <2>2. \A i \in 1..Len(ps) : ps[i] \in T
    OBVIOUS
  <2>3. \A l \in Nat : l <= 1 => l \in {0, 1}
    OBVIOUS
  <2>4. Len(ps) \in {0, 1}
    BY ONLY <2>1, <2>3, Zenon
  <2>5. \A i \in 1..Len(ps) : ps[i] = a
    BY <2>2, Zenon
  <2> QED BY <2>4, <2>5
<1>5. Trail({<<b, f[b]>> : b \in T}, 1, 0, ps)
  <2>1. SUFFICES ASSUME NEW k \in 0..(Len(ps) - 1)
                 PROVE  <<ps[Len(ps) - k], ago(0, k, 1)>> \in {<<b, f[b]>> : b \in T}
    BY DEF Trail
  <2>2. k = 0 /\ Len(ps) - k = 1 /\ Len(ps) = 1
    BY <1>4
  <2>3. ago(0, 0, 1) = 0
    BY DEF ago
  <2> QED BY <1>3, <1>4, <2>2, <2>3
<1> QED BY <1>1, <1>2, <1>3, <1>5, Zenon DEF RingAt

\* A sole candidate fills the cycle.
LEMMA AloneCycle ==
  ASSUME NEW st, Good(st), NEW w, Vector(w), NEW a, DOMAIN w = {a},
         NEW ps \in Seq(DOMAIN w), Len(ps) <= round(w)
  PROVE  CycleAt(st, w, ps)
<1> DEFINE n == round(w)
           R == {<<Cycle(w)[z], z>> : z \in 0..(n - 1)}
<1>1. n \in Nat \ {0} /\ Smooth(w, Cycle(w), n)
  BY CycleOK
<1>2. PICK x \in 0..(n - 1) : At(st, w, x)
  BY DEF Good
<1>3. \A z \in 0..(n - 1) : Cycle(w)[z] = a
  <2>1. Cycle(w) \in [0..(n - 1) -> DOMAIN w]
    BY <1>1 DEF Smooth
  <2> QED BY <2>1
<1> HIDE DEF n
<1>4. Trail(R, n, x, ps)
  <2>1. SUFFICES ASSUME NEW k \in 0..(Len(ps) - 1)
                 PROVE  <<ps[Len(ps) - k], ago(x, k, n)>> \in R
    BY Zenon DEF Trail
  <2>2. Len(ps) \in Nat /\ Len(ps) <= n
    BY DEF n
  <2>3. Len(ps) - k \in 1..Len(ps)
    BY <2>2
  <2>4. ps[Len(ps) - k] = a
    BY <2>3
  <2>5. ago(x, k, n) \in 0..(n - 1)
    BY <1>1, <2>2 DEF ago
  <2> QED BY <1>3, <2>4, <2>5
<1> QED BY <1>2, <1>4, Zenon DEF CycleAt, n

\* A restored view keeps its cursor modulo the size of the view, ...
LEMMA CursorCarried ==
  ASSUME NEW s, SchedOK(s), NEW u, CarriesOn(s, u), NEW p \in DOMAIN u.shards,
         NEW q \in Priorities, NEW ids, IsFiniteSet(ids), ids # {},
         readyOf(u.shards[p].entries, u.metas, q) = ids
  PROVE  viewOf(u, p, q).cursor % Cardinality(ids) = viewOf(s, p, q).cursor % Cardinality(ids)
<1> DEFINE m == Cardinality(ids)
           c == viewOf(s, p, q).cursor
<1>1. m \in Nat \ {0} /\ c \in Nat
  <2>1. m \in Nat /\ m # 0
    BY FS_CardinalityType, FS_EmptySet
  <2> QED BY <2>1, CursorNat
<1>2. viewOf(u, p, q) = u.shards[p].ready[q]
  BY DEF viewOf
<1>3. CASE u.shards[p].ready[q] = viewOf(s, p, q)
  BY <1>2, <1>3
<1>4. CASE u.shards[p].ready[q] = restored(viewOf(s, p, q), ids, u.metas)
  <2>1. restored(viewOf(s, p, q), ids, u.metas).cursor = normalizeCursor(c, m)
    BY DEF restored
  <2>2. viewOf(u, p, q).cursor = normalizeCursor(c, m)
    BY <1>2, <1>4, <2>1
  <2> HIDE DEF m, c
  <2>3. normalizeCursor(c, m) = c % m
    BY <1>1 DEF normalizeCursor
  <2>4. (c % m) % m = c % m
    BY <1>1, Modulo, Zenon
  <2>5. viewOf(u, p, q).cursor % m = c % m
    BY <2>2, <2>3, <2>4
  <2> QED BY <2>5 DEF m, c
<1> QED BY <1>3, <1>4 DEF CarriesOn

\* ... and what it owes for weights that are still the ones of the view.
LEMMA HeldCarried ==
  ASSUME NEW old, NEW ids, NEW metas, NEW w, w = weightVector(ids, metas), DOMAIN w # {}, NEW a
  PROVE  held(restored(old, ids, metas), w, a) = held(old, w, a)
<1> DEFINE r == restored(old, ids, metas)
<1>1. ids # {}
  BY DEF weightVector
<1>2. r.current = (IF old.weights = w THEN old.current ELSE <<>>)
      /\ r.weights = (IF old.weights = w THEN old.weights ELSE <<>>)
  BY <1>1 DEF restored
<1>3. w # <<>>
  OBVIOUS
<1> HIDE DEF r
<1>4. held(r, w, a) = held(old, w, a)
  BY <1>2, <1>3 DEF held
<1> QED BY <1>4 DEF r

\* Of several candidates one keeps its priority.
LEMMA SameTop ==
  ASSUME NEW s, SchedOK(s), NEW u, SchedOK(u), CarriesOn(s, u), NEW route \in Routes,
         DOMAIN candidates(s, route) # {}, candidates(u, route) = candidates(s, route)
  PROVE  \/ top(u, route) = top(s, route)
         \/ \E a : DOMAIN candidates(s, route) = {a}
<1> DEFINE T == DOMAIN candidates(s, route)
<1>1. T \subseteq DOMAIN s.metas /\ \A a \in T : s.metas[a].priority = top(s, route)
  BY CandidateSet
<1>2. DOMAIN candidates(u, route) # {}
  OBVIOUS
<1>3. T \subseteq DOMAIN u.metas /\ \A a \in T : u.metas[a].priority = top(u, route)
  BY <1>2, CandidateSet
<1>4. PICK a : \A b \in DOMAIN s.metas \cap DOMAIN u.metas :
        b # a => u.metas[b].priority = s.metas[b].priority
  BY DEF CarriesOn
<1>5. T # {}
  OBVIOUS
<1> HIDE DEF T
<1>6. CASE T = {a}
  BY <1>6, Zenon DEF T
<1>7. CASE T # {a}
  <2>1. PICK b \in T : b # a
    BY <1>5, <1>7
  <2> QED BY <1>1, <1>3, <1>4, <2>1
<1> QED BY <1>6, <1>7, Zenon

\* A change that leaves the candidates alone leaves the rotation on its course.
LEMMA CourseKept ==
  ASSUME NEW s, SchedOK(s), NEW u, SchedOK(u), GoodSched(u), CarriesOn(s, u),
         NEW route \in Routes, DOMAIN candidates(s, route) # {},
         candidates(u, route) = candidates(s, route), NEW ps, OnCourse(s, route, ps)
  PROVE  OnCourse(u, route, ps)
<1> DEFINE w == candidates(s, route)
           T == DOMAIN w
           q == top(s, route)
<1>1. q \in Priorities /\ IsFiniteSet(T)
  BY CandidateSet
<1>2. Split(T, route)
  BY CandidatesSplit
<1>3. /\ candidates(u, route) = w /\ u.strategy = s.strategy /\ T # {}
      /\ u.cursor = s.cursor /\ u.weighted = s.weighted
  BY DEF CarriesOn
<1>4. top(u, route) \in Priorities
  BY CandidateSet
<1>5. s.strategy = "rr" => RingAt(s, T, route, q, ps)
  BY DEF OnCourse
<1>6. s.strategy = "weighted" => CycleAt(stateOf(s, route, q), w, ps) /\ Vector(w)
  BY CandidateWeights, Zenon DEF OnCourse
<1>7. top(u, route) = q \/ \E a : T = {a}
  BY SameTop, Zenon
<1>8. CASE top(u, route) = q
  <2>1. ASSUME s.strategy = "rr" PROVE RingAt(u, T, route, q, ps)
    <3>1. ASSUME NEW i \in DOMAIN route, size(T, route, i) > 0
          PROVE  viewOf(u, route[i], q).cursor % size(T, route, i)
                   = viewOf(s, route[i], q).cursor % size(T, route, i)
      <4> DEFINE p == route[i]
                 ids == part(T, p)
      <4>1. ids \in SUBSET T
        BY DEF part
      <4>2. IsFiniteSet(ids)
        BY <1>1, <4>1, FS_Subset
      <4>3. ids # {}
        BY <3>1, FS_EmptySet DEF size
      <4>4. u.strategy # "weighted" /\ DOMAIN candidates(u, route) # {}
        BY <1>3, <2>1
      <4>5. p \in DOMAIN u.shards /\ readyOf(u.shards[p].entries, u.metas, q) = ids
        BY <1>3, <1>8, <4>3, <4>4, CandidateParts
      <4> HIDE DEF ids, p, q
      <4>6. viewOf(u, p, q).cursor % Cardinality(ids) = viewOf(s, p, q).cursor % Cardinality(ids)
        BY <1>1, <4>2, <4>3, <4>5, CursorCarried
      <4> QED BY <4>6 DEF ids, p, size
    <3> HIDE DEF w, q
    <3>2. ASSUME NEW off, NEW x, Turning(s, T, route, q, off, x)
          PROVE  Turning(u, T, route, q, off, x)
      BY <1>3, <3>1, <3>2 DEF Turning
    <3>3. RingAt(s, T, route, q, ps)
      BY <1>5, <2>1
    <3> QED BY <3>2, <3>3, Zenon DEF RingAt
  <2>2. ASSUME s.strategy = "weighted" PROVE CycleAt(stateOf(u, route, q), w, ps)
    <3>1. ASSUME NEW a PROVE held(stateOf(u, route, q), w, a) = held(stateOf(s, route, q), w, a)
      <4>1. CASE Len(route) # 1
        BY <1>3, <4>1 DEF stateOf
      <4>2. CASE Len(route) = 1
        <5> DEFINE p == route[1]
                   ids == readyOf(u.shards[p].entries, u.metas, q)
        <5>1. u.strategy = "weighted" /\ DOMAIN candidates(u, route) # {}
          BY <1>3, <2>2
        <5>2. p \in DOMAIN u.shards /\ weightVector(ids, u.metas) = w
          BY <1>3, <1>8, <4>2, <5>1, CandidateWeights, Zenon
        <5>3. viewOf(u, p, q) = viewOf(s, p, q) \/ viewOf(u, p, q) = restored(viewOf(s, p, q), ids, u.metas)
          BY <1>1, <5>2 DEF CarriesOn, viewOf
        <5> HIDE DEF ids, p, w
        <5>4. held(restored(viewOf(s, p, q), ids, u.metas), w, a) = held(viewOf(s, p, q), w, a)
          BY <1>3, <5>2, HeldCarried
        <5>5. held(viewOf(u, p, q), w, a) = held(viewOf(s, p, q), w, a)
          BY <5>3, <5>4
        <5> QED BY <4>2, <5>5 DEF stateOf, p
      <4> QED BY <4>1, <4>2
    <3> DEFINE su == stateOf(u, route, q)
               ss == stateOf(s, route, q)
    <3>2. \A a : held(su, w, a) = held(ss, w, a)
      BY <3>1
    <3>3. CycleAt(ss, w, ps)
      BY <1>6, <2>2
    <3> HIDE DEF su, ss, w, q
    <3>4. CycleAt(su, w, ps)
      BY <3>2, <3>3, Zenon DEF CycleAt, At
    <3> QED BY <3>4 DEF su
  <2> QED BY <1>3, <1>8, <2>1, <2>2 DEF OnCourse
<1>9. ASSUME NEW a, T = {a} PROVE OnCourse(u, route, ps)
  <2> DEFINE k == top(u, route)
  <2>1. k \in Priorities
    BY <1>4
  <2>2. Good(stateOf(u, route, k))
    BY <2>1, GoodState
  <2>3. OnCourse(u, route, ps) <=>
          /\ s.strategy = "rr" => RingAt(u, T, route, k, ps)
          /\ s.strategy = "weighted" => CycleAt(stateOf(u, route, k), w, ps)
    BY <1>3 DEF OnCourse
  <2> HIDE DEF k, w, q
  <2>4. ASSUME s.strategy = "rr" PROVE RingAt(u, T, route, k, ps)
    <3>1. ps \in Seq(T) /\ Len(ps) <= Cardinality(T)
      BY <1>5, <2>4 DEF RingAt
    <3> QED BY <1>2, <1>9, <2>1, <3>1, AloneRing, Zenon
  <2>5. ASSUME s.strategy = "weighted" PROVE CycleAt(stateOf(u, route, k), w, ps)
    <3>1. ps \in Seq(DOMAIN w) /\ Len(ps) <= round(w) /\ Vector(w)
      BY <1>6, <2>5 DEF CycleAt
    <3> QED BY <1>9, <2>2, <3>1, AloneCycle, Zenon
  <2> QED BY <2>3, <2>4, <2>5
<1> QED BY <1>7, <1>8, <1>9, Zenon

-----------------------------------------------------------------------------
(* What a pick does to the rotations *)

\* The view of p at q is v now, and nothing else has changed.
Turned(s, u, p, q, v) ==
  /\ u.strategy = s.strategy /\ u.metas = s.metas /\ u.cursor = s.cursor
  /\ u.weighted = s.weighted /\ DOMAIN u.shards = DOMAIN s.shards
  /\ viewOf(u, p, q) = v
  /\ \A x : \A y \in Priorities : (x # p \/ y # q) => viewOf(u, x, y) = viewOf(s, x, y)

\* A write of one view.
LEMMA TurnedViews ==
  ASSUME NEW s, SchedOK(s), NEW p \in DOMAIN s.shards, NEW q \in Priorities, NEW v
  PROVE  Turned(s, [s EXCEPT !.shards[p].ready[q] = v], p, q, v)
<1> DEFINE h == s.shards[p]
           g == [h EXCEPT !.ready[q] = v]
           shards == [s.shards EXCEPT ![p] = g]
           u == [s EXCEPT !.shards[p].ready[q] = v]
<1>1. /\ u.strategy = s.strategy /\ u.metas = s.metas /\ u.shards = shards
      /\ u.cursor = s.cursor /\ u.weighted = s.weighted
  BY DEF SchedOK, IsSched
<1>2. ShardOK(h, s.metas, p)
  BY DEF SchedOK
<1>3. g.ready = [h.ready EXCEPT ![q] = v] /\ DOMAIN h.ready = Priorities
  BY <1>2 DEF ShardOK, IsShard
<1> HIDE DEF g, u
<1>4. g.ready[q] = v /\ \A y \in Priorities \ {q} : g.ready[y] = h.ready[y]
  BY <1>3
<1>5. DOMAIN shards = DOMAIN s.shards /\ shards[p] = g
      /\ \A x \in DOMAIN s.shards \ {p} : shards[x] = s.shards[x]
  OBVIOUS
<1> HIDE DEF shards
<1>6. viewOf(u, p, q) = v
  BY <1>1, <1>4, <1>5 DEF viewOf
<1>7. ASSUME NEW x, NEW y \in Priorities, x # p \/ y # q
      PROVE  viewOf(u, x, y) = viewOf(s, x, y)
  BY <1>1, <1>4, <1>5, <1>7 DEF viewOf
<1>8. Turned(s, u, p, q, v)
  BY <1>1, <1>5, <1>6, <1>7 DEF Turned
<1> QED BY <1>8 DEF u

\* Whatever a view has been turned to, the flat lists are the ones before.
LEMMA FlatSame ==
  ASSUME NEW s, NEW u, DOMAIN u.shards = DOMAIN s.shards, NEW p \in DOMAIN s.shards,
         NEW q \in Priorities, viewOf(u, p, q).flat = viewOf(s, p, q).flat,
         \A x : \A y \in Priorities : (x # p \/ y # q) => viewOf(u, x, y) = viewOf(s, x, y)
  PROVE  \A x : \A y \in Priorities : readyAt(u, x, y) = readyAt(s, x, y)
<1> SUFFICES ASSUME NEW x, NEW y \in Priorities PROVE readyAt(u, x, y) = readyAt(s, x, y)
  OBVIOUS
<1>1. viewOf(u, x, y).flat = viewOf(s, x, y).flat
  <2>1. CASE x = p /\ y = q
    BY <2>1
  <2>2. CASE x # p \/ y # q
    BY <2>2
  <2> QED BY <2>1, <2>2
<1>2. CASE x \in DOMAIN s.shards
  BY <1>1, <1>2 DEF readyAt, viewOf
<1>3. CASE x \notin DOMAIN s.shards
  BY <1>3 DEF readyAt
<1> QED BY <1>2, <1>3

\* A view turned as above keeps to the cycles if its new state does.
LEMMA GoodTurned ==
  ASSUME NEW s, GoodSched(s), NEW u, DOMAIN u.shards = DOMAIN s.shards,
         u.weighted = s.weighted, NEW p, NEW q, Good(viewOf(u, p, q)),
         \A x : \A y \in Priorities : (x # p \/ y # q) => viewOf(u, x, y) = viewOf(s, x, y)
  PROVE  GoodSched(u)
<1>1. ASSUME NEW x \in DOMAIN u.shards, NEW y \in Priorities PROVE Good(u.shards[x].ready[y])
  <2>1. viewOf(u, x, y) = u.shards[x].ready[y] /\ viewOf(s, x, y) = s.shards[x].ready[y]
    BY DEF viewOf
  <2>2. CASE x = p /\ y = q
    BY <2>1, <2>2
  <2>3. CASE x # p \/ y # q
    <3>1. u.shards[x].ready[y] = s.shards[x].ready[y]
      BY <2>1, <2>3
    <3> QED BY <3>1 DEF GoodSched
  <2> QED BY <2>2, <2>3
<1> QED BY <1>1 DEF GoodSched

\* The view after a pick of the round robin.
LEMMA RoundRobinView ==
  ASSUME NEW v, CursorsOK(v), NEW ok
  PROVE  LET r == pickRoundRobin(v, ok)
         IN  r.view.current = v.current /\ r.view.weights = v.weights
<1> DEFINE r == pickRoundRobin(v, ok)
<1>1. \E c : r.view = [v EXCEPT !.cursor = c]
  BY Zenon DEF pickRoundRobin
<1> HIDE DEF r
<1>2. r.view.current = v.current /\ r.view.weights = v.weights
  BY <1>1 DEF CursorsOK, IsView
<1> QED BY <1>2 DEF r

\* If all are eligible, it takes the one at the cursor.
LEMMA RoundRobinAll ==
  ASSUME NEW v, CursorsOK(v), NEW S, IsFiniteSet(S), S \subseteq Int, S # {}, v.flat = sorted(S),
         NEW ok, S \subseteq ok
  PROVE  LET r == pickRoundRobin(v, ok)
             y == v.cursor % Cardinality(S)
         IN  r.picked = sorted(S)[y + 1] /\ r.view.cursor = y + 1
<1> DEFINE n == Len(v.flat)
           index(k) == (v.cursor + k) % n
           good(k) == /\ v.flat[index(k) + 1] \in ok
                      /\ \A j \in 0..(k - 1) : v.flat[index(j) + 1] \notin ok
           k0 == CHOOSE k \in 0..(n - 1) : good(k)
           r == pickRoundRobin(v, ok)
<1>1. /\ n \in Nat /\ n = Cardinality(S) /\ DOMAIN v.flat = 1..n /\ ToSet(v.flat) = S
      /\ v.cursor \in Nat
  BY SortedSet DEF CursorsOK
<1>2. n # 0
  BY <1>1, FS_EmptySet
<1>3. r = [picked |-> v.flat[index(k0) + 1], view |-> [v EXCEPT !.cursor = index(k0) + 1]]
  BY DEF pickRoundRobin
<1> HIDE DEF n, r
<1>4. ASSUME NEW k \in 0..(n - 1) PROVE v.flat[index(k) + 1] \in ok
  <2> DEFINE c == v.cursor + k
  <2>1. c \in Nat
    BY <1>1
  <2> HIDE DEF c
  <2>2. c % n \in 0..(n - 1)
    BY <1>1, <1>2, <2>1
  <2>3. (c % n) + 1 \in 1..n
    BY <1>1, <2>2
  <2>4. v.flat[(c % n) + 1] \in ok
    BY <1>1, <2>3, Zenon DEF ToSet
  <2> QED BY <2>4 DEF c
<1>5. 0 \in 0..(n - 1) /\ 0..(0 - 1) = {}
  BY <1>1, <1>2
<1>6. good(0)
  BY <1>4, <1>5
<1>7. k0 \in 0..(n - 1) /\ good(k0)
  BY <1>5, <1>6
<1> HIDE DEF k0
<1>8. k0 = 0
  <2>1. SUFFICES ASSUME k0 # 0 PROVE FALSE
    OBVIOUS
  <2>2. 0 \in 0..(k0 - 1)
    BY <1>1, <1>7, <2>1
  <2> QED BY <1>4, <1>5, <1>7, <2>2
<1>9. index(k0) = v.cursor % n
  <2>1. v.cursor + 0 = v.cursor
    BY <1>1
  <2> QED BY <1>8, <2>1
<1> DEFINE c == index(k0) + 1
<1>10. r.picked = v.flat[c] /\ r.view = [v EXCEPT !.cursor = c]
  BY <1>3
<1>11. c = (v.cursor % n) + 1
  BY <1>9
<1> HIDE DEF c, index
<1>12. r.view.cursor = c
  BY <1>10 DEF CursorsOK, IsView
<1> QED BY <1>1, <1>10, <1>11, <1>12 DEF r

\* Only the view of p at q has moved on.
Moves(s, u, p, q) ==
  /\ u.strategy = s.strategy /\ u.metas = s.metas /\ u.cursor = s.cursor
  /\ u.weighted = s.weighted /\ DOMAIN u.shards = DOMAIN s.shards
  /\ \A x : \A y \in Priorities : readyAt(u, x, y) = readyAt(s, x, y)
  /\ \A x : \A y \in Priorities : (x # p \/ y # q) => viewOf(u, x, y) = viewOf(s, x, y)

\* A smooth weighted pick leaves a state of the cycle of its weights.
LEMMA WeightedGood ==
  ASSUME NEW st, Good(st), NEW metas, MapTo(metas, Metas), NEW ids, ids \subseteq DOMAIN metas,
         ids # {}, \A a \in ids : metas[a].weight > 0
  PROVE  Good(pickSmoothWeighted(st, ids, metas).state)
<1> DEFINE w == weightVector(ids, metas)
<1>1. DOMAIN w = ids /\ Vector(w)
  BY WeightsVector
<1> HIDE DEF w
<1>2. PICK x \in 0..(round(w) - 1) : At(st, w, x)
  BY <1>1 DEF Good
<1>3. w = weightVector(ids, metas)
  BY DEF w
<1> QED BY <1>1, <1>2, <1>3, WeightedTurn

\* Round robin within a view takes the entry at the view's cursor and goes on.
LEMMA PickAtRoundRobin ==
  ASSUME NEW s, SchedOK(s), NEW p, NEW q \in Priorities, NEW ok,
         ToSet(readyAt(s, p, q)) \cap ok # {}
  PROVE  LET r == pickAt(s, p, q, ok, "rr")
             S == ToSet(readyAt(s, p, q))
             y == viewOf(s, p, q).cursor % Cardinality(S)
         IN  /\ Moves(s, r.s, p, q)
             /\ GoodSched(s) => GoodSched(r.s)
             /\ S \subseteq ok => r.picked = sorted(S)[y + 1] /\ viewOf(r.s, p, q).cursor = y + 1
<1> DEFINE S == ToSet(readyAt(s, p, q))
           view == s.shards[p].ready[q]
           rr == pickRoundRobin(view, ok)
           r == pickAt(s, p, q, ok, "rr")
           u == [s EXCEPT !.shards[p].ready[q] = rr.view]
<1>1. p \in DOMAIN s.shards
  BY ReadySet
<1>2. /\ IsFiniteSet(S) /\ S \subseteq Int /\ S # {}
      /\ view.flat = sorted(S) /\ CursorsOK(view)
  BY <1>1, ReadySet
<1>3. viewOf(s, p, q) = view
  BY <1>1 DEF viewOf
<1>4. r = [picked |-> rr.picked, s |-> u]
  BY DEF pickAt
<1> HIDE DEF view, S
<1>5. rr.view.current = view.current /\ rr.view.weights = view.weights
  BY <1>2, RoundRobinView
<1>6. S \cap ok # {}
  BY DEF S
<1>7. CursorsOK(rr.view) /\ rr.view.flat = view.flat
  BY <1>2, <1>6, PickRoundRobinOK, Zenon
<1>8. S \subseteq ok =>
        rr.picked = sorted(S)[(view.cursor % Cardinality(S)) + 1]
        /\ rr.view.cursor = (view.cursor % Cardinality(S)) + 1
  BY <1>2, RoundRobinAll, Zenon
<1> HIDE DEF rr
<1>20. Turned(s, u, p, q, rr.view)
  BY <1>1, TurnedViews
<1> HIDE DEF u
<1>9. /\ u.strategy = s.strategy /\ u.metas = s.metas /\ u.cursor = s.cursor
      /\ u.weighted = s.weighted /\ DOMAIN u.shards = DOMAIN s.shards
      /\ viewOf(u, p, q) = rr.view
      /\ \A x : \A y \in Priorities : (x # p \/ y # q) => viewOf(u, x, y) = viewOf(s, x, y)
  BY <1>20 DEF Turned
<1>10. \A x : \A y \in Priorities : readyAt(u, x, y) = readyAt(s, x, y)
  <2>1. viewOf(u, p, q).flat = viewOf(s, p, q).flat
    BY <1>3, <1>7, <1>9
  <2> QED BY <1>1, <1>9, <2>1, FlatSame
<1>11. Moves(s, u, p, q)
  BY <1>9, <1>10 DEF Moves
<1>12. ASSUME GoodSched(s) PROVE GoodSched(u)
  <2>1. Good(view)
    BY <1>1, <1>12 DEF GoodSched, view
  <2>2. Good(rr.view)
    BY <1>5, <2>1, SameGood
  <2>3. Good(viewOf(u, p, q))
    BY <1>9, <2>2
  <2> QED BY <1>9, <1>12, <2>3, GoodTurned
<1>13. r.s = u /\ r.picked = rr.picked
  BY <1>4
<1>14. Moves(s, r.s, p, q) /\ (GoodSched(s) => GoodSched(r.s))
  BY <1>11, <1>12, <1>13
<1>15. S \subseteq ok =>
         /\ r.picked = sorted(S)[(viewOf(s, p, q).cursor % Cardinality(S)) + 1]
         /\ viewOf(r.s, p, q).cursor = (viewOf(s, p, q).cursor % Cardinality(S)) + 1
  BY <1>3, <1>8, <1>9, <1>13
<1> QED BY <1>14, <1>15 DEF S, r

\* The weighted pick within a view.
LEMMA PickAtWeighted ==
  ASSUME NEW s, SchedOK(s), NEW p, NEW q \in Priorities, NEW ok, ok \subseteq DOMAIN s.metas,
         ToSet(readyAt(s, p, q)) \cap ok # {}, \A a \in ok : s.metas[a].weight > 0
  PROVE  LET r == pickAt(s, p, q, ok, "weighted")
             sw == pickSmoothWeighted(viewOf(s, p, q), ToSet(readyAt(s, p, q)) \cap ok, s.metas)
         IN  /\ Moves(s, r.s, p, q)
             /\ GoodSched(s) => GoodSched(r.s)
             /\ r.picked = sw.picked
             /\ viewOf(r.s, p, q).weights = sw.state.weights
             /\ viewOf(r.s, p, q).current = sw.state.current
<1> DEFINE ids == ToSet(readyAt(s, p, q)) \cap ok
           view == s.shards[p].ready[q]
           sw == pickSmoothWeighted(view, ids, s.metas)
           turned == [view EXCEPT !.current = sw.state.current, !.weights = sw.state.weights]
           r == pickAt(s, p, q, ok, "weighted")
           u == [s EXCEPT !.shards[p].ready[q] = turned]
<1>1. p \in DOMAIN s.shards
  BY ReadySet
<1>2. CursorsOK(view) /\ ToSet(view.flat) \cap ok = ids
  BY <1>1, ReadySet DEF readyAt
<1>3. viewOf(s, p, q) = view
  BY <1>1 DEF viewOf
<1>4. r = [picked |-> sw.picked, s |-> u]
  <2> DEFINE sv == pickSmoothWeighted(view, ToSet(view.flat) \cap ok, s.metas)
  <2>1. r = [picked |-> sv.picked, s |-> [s EXCEPT !.shards[p].ready[q] =
                [@ EXCEPT !.current = sv.state.current, !.weights = sv.state.weights]]]
    BY DEF pickAt
  <2>2. sv = sw
    BY <1>2, Zenon
  <2> HIDE DEF sv, sw, r
  <2>3. [s EXCEPT !.shards[p].ready[q] =
           [@ EXCEPT !.current = sw.state.current, !.weights = sw.state.weights]] = u
    OBVIOUS
  <2> QED BY <2>1, <2>2, <2>3
<1>5. ids \subseteq DOMAIN s.metas /\ ids # {} /\ \A a \in ids : s.metas[a].weight > 0
  OBVIOUS
<1> HIDE DEF ids
<1>6. GoodSched(s) => Good(sw.state)
  <2>1. GoodSched(s) => Good(view)
    BY <1>1 DEF GoodSched
  <2>2. MapTo(s.metas, Metas)
    BY DEF SchedOK
  <2> HIDE DEF view
  <2> QED BY <1>5, <2>1, <2>2, WeightedGood
<1> HIDE DEF sw
<1>7. /\ turned.flat = view.flat /\ turned.current = sw.state.current
      /\ turned.weights = sw.state.weights
  BY <1>2 DEF CursorsOK, IsView
<1> HIDE DEF view, turned
<1>20. Turned(s, u, p, q, turned)
  BY <1>1, TurnedViews
<1> HIDE DEF u
<1>9. /\ u.strategy = s.strategy /\ u.metas = s.metas /\ u.cursor = s.cursor
      /\ u.weighted = s.weighted /\ DOMAIN u.shards = DOMAIN s.shards
      /\ viewOf(u, p, q) = turned
      /\ \A x : \A y \in Priorities : (x # p \/ y # q) => viewOf(u, x, y) = viewOf(s, x, y)
  BY <1>20 DEF Turned
<1>10. \A x : \A y \in Priorities : readyAt(u, x, y) = readyAt(s, x, y)
  <2>1. viewOf(u, p, q).flat = viewOf(s, p, q).flat
    BY <1>3, <1>7, <1>9
  <2> QED BY <1>1, <1>9, <2>1, FlatSame
<1>11. Moves(s, u, p, q)
  BY <1>9, <1>10 DEF Moves
<1>12. ASSUME GoodSched(s) PROVE GoodSched(u)
  <2>1. Good(sw.state)
    BY <1>6, <1>12
  <2>2. Good(viewOf(u, p, q))
    BY <1>7, <1>9, <2>1, SameGood
  <2> QED BY <1>9, <1>12, <2>2, GoodTurned
<1>13. r.s = u /\ r.picked = sw.picked
  BY <1>4
<1>14. Moves(s, r.s, p, q) /\ (GoodSched(s) => GoodSched(r.s)) /\ r.picked = sw.picked
       /\ viewOf(r.s, p, q).weights = sw.state.weights
       /\ viewOf(r.s, p, q).current = sw.state.current
  BY <1>7, <1>9, <1>11, <1>12, <1>13
<1>15. sw = pickSmoothWeighted(viewOf(s, p, q), ids, s.metas)
  BY <1>3 DEF sw
<1> QED BY <1>14, <1>15 DEF ids, r

\* The weighted pick over the providers of a route.
LEMMA MixedWeightedPick ==
  ASSUME NEW s, SchedOK(s), NEW route \in Routes, NEW q \in Priorities, NEW ok,
         ok \subseteq DOMAIN s.metas, atPriority(s, route, q, ok) # {},
         \A a \in ok : s.metas[a].weight > 0
  PROVE  LET r == pickMixedWeighted(s, route, q, ok)
             sw == pickSmoothWeighted(s.weighted[route], atPriority(s, route, q, ok), s.metas)
         IN  /\ r.s.strategy = s.strategy /\ r.s.metas = s.metas /\ r.s.shards = s.shards
             /\ r.s.weighted[route] = sw.state /\ r.picked = sw.picked
             /\ GoodSched(s) => GoodSched(r.s)
<1> DEFINE ids == atPriority(s, route, q, ok)
           sw == pickSmoothWeighted(s.weighted[route], ids, s.metas)
           r == pickMixedWeighted(s, route, q, ok)
           u == [s EXCEPT !.weighted[route] = sw.state]
<1>1. r = [picked |-> sw.picked, s |-> u]
  BY DEF pickMixedWeighted
<1>2. ids \subseteq ok
  BY DEF atPriority
<1>3. GoodSched(s) => Good(sw.state)
  <2>1. GoodSched(s) => Good(s.weighted[route])
    BY DEF GoodSched
  <2>2. MapTo(s.metas, Metas)
    BY DEF SchedOK
  <2>3. ids # {}
    OBVIOUS
  <2> HIDE DEF ids
  <2> QED BY <1>2, <2>1, <2>2, <2>3, WeightedGood
<1> HIDE DEF sw
<1>4. /\ u.strategy = s.strategy /\ u.metas = s.metas /\ u.shards = s.shards
      /\ u.weighted = [s.weighted EXCEPT ![route] = sw.state] /\ DOMAIN s.weighted = Routes
  BY DEF SchedOK, IsSched
<1> HIDE DEF u
<1>5. u.weighted[route] = sw.state /\ \A x \in Routes \ {route} : u.weighted[x] = s.weighted[x]
  BY <1>4
<1>6. GoodSched(s) => GoodSched(u)
  BY <1>3, <1>4, <1>5 DEF GoodSched
<1>7. r.s = u /\ r.picked = sw.picked
  BY <1>1
<1> QED BY <1>4, <1>5, <1>6, <1>7 DEF sw

\* Fill-first leaves the scheduler alone.
LEMMA FillPick ==
  ASSUME NEW s, NEW p, NEW q, NEW ok
  PROVE  pickAt(s, p, q, ok, "fill").s = s
  BY DEF pickAt

\* The last n picks after one more.
recent(ps, a, n) ==
  LET all == Append(ps, a)
  IN  IF Len(all) > n THEN Tail(all) ELSE all

\* The trail after one more pick.
LEMMA RecentStep ==
  ASSUME NEW S, NEW ps \in Seq(S), NEW n \in Nat \ {0}, Len(ps) <= n, NEW x \in 0..(n - 1),
         NEW R, Trail(R, n, x, ps), NEW a \in S, <<a, x>> \in R
  PROVE  /\ recent(ps, a, n) \in Seq(S) /\ Len(recent(ps, a, n)) \in 1..n
         /\ wrap(x + 1, n) \in 0..(n - 1)
         /\ Trail(R, n, wrap(x + 1, n), recent(ps, a, n))
  BY TrailStep DEF recent

\* One more pick of the cycle.
LEMMA CycleTurn ==
  ASSUME NEW w, Vector(w), NEW metas, w = weightVector(DOMAIN w, metas),
         NEW st, NEW ps, CycleAt(st, w, ps), NEW other,
         NEW sw, sw = pickSmoothWeighted(st, DOMAIN w, metas),
         other.weights = sw.state.weights, other.current = sw.state.current
  PROVE  CycleAt(other, w, recent(ps, sw.picked, round(w)))
<1> DEFINE n == round(w)
           c == Cycle(w)
           R == {<<c[z], z>> : z \in 0..(n - 1)}
           new == recent(ps, sw.picked, n)
<1>1. n \in Nat \ {0}
  BY CycleOK
<1>2. PICK x \in 0..(n - 1) : At(st, w, x) /\ Trail(R, n, x, ps)
  BY Zenon DEF CycleAt
<1>3. ps \in Seq(DOMAIN w) /\ Len(ps) <= n
  BY DEF CycleAt
<1>4. sw.picked = c[x] /\ sw.picked \in DOMAIN w /\ At(sw.state, w, wrap(x + 1, n))
  BY <1>2, WeightedTurn
<1> HIDE DEF n, c
<1>5. <<sw.picked, x>> \in R
  BY <1>4
<1> HIDE DEF R
<1>6. /\ new \in Seq(DOMAIN w) /\ Len(new) \in 1..n /\ wrap(x + 1, n) \in 0..(n - 1)
      /\ Trail(R, n, wrap(x + 1, n), new)
  BY <1>1, <1>2, <1>3, <1>4, <1>5, RecentStep
<1>7. At(other, w, wrap(x + 1, n))
  BY <1>4 DEF At, held
<1> HIDE DEF new
<1>8. Len(new) <= n
  BY <1>1, <1>6
<1>9. CycleAt(other, w, new)
  BY <1>6, <1>7, <1>8, Zenon DEF CycleAt, n, c, R
<1> QED BY <1>9 DEF new, n

\* One more pick of the ring.
LEMMA RingTurn ==
  ASSUME NEW s, NEW u, NEW T, NEW route, Split(T, route), NEW q, NEW ps,
         RingAt(s, T, route, q, ps), NEW a,
         \A f, off, x : Ring(T, route, f, off) /\ Turning(s, T, route, q, off, x) =>
           /\ a \in T /\ f[a] = x
           /\ Turning(u, T, route, q, off, wrap(x + 1, Cardinality(T)))
  PROVE  RingAt(u, T, route, q, recent(ps, a, Cardinality(T)))
<1> DEFINE n == Cardinality(T)
           new == recent(ps, a, n)
<1>1. n \in Nat \ {0}
  BY DEF Split
<1>2. ps \in Seq(T) /\ Len(ps) <= n
  BY DEF RingAt
<1>3. PICK f, off, x : /\ Ring(T, route, f, off) /\ Turning(s, T, route, q, off, x)
                       /\ Trail({<<b, f[b]>> : b \in T}, n, x, ps)
  BY Zenon DEF RingAt
<1>4. a \in T /\ f[a] = x /\ Turning(u, T, route, q, off, wrap(x + 1, n))
  BY <1>3
<1>5. x \in 0..(n - 1)
  BY <1>3 DEF Turning
<1> DEFINE R == {<<b, f[b]>> : b \in T}
<1>6. <<a, x>> \in R /\ Trail(R, n, x, ps)
  BY <1>3, <1>4
<1> HIDE DEF n, R
<1>7. new \in Seq(T) /\ Len(new) \in 1..n /\ Trail(R, n, wrap(x + 1, n), new)
  BY <1>1, <1>2, <1>4, <1>5, <1>6, RecentStep
<1> HIDE DEF new
<1>8. Len(new) <= n
  BY <1>1, <1>7
<1>9. RingAt(u, T, route, q, new)
  BY <1>3, <1>4, <1>7, <1>8, Zenon DEF RingAt, n, R
<1> QED BY <1>9 DEF new, n

\* The picks of a route with one provider and with several.
LEMMA SingleRing ==
  ASSUME NEW u, SchedOK(u), NEW route \in Routes, DOMAIN candidates(u, route) # {},
         u.strategy = "rr", Len(route) = 1, NEW ps,
         RingAt(u, DOMAIN candidates(u, route), route, top(u, route), ps)
  PROVE  LET r == pickAt(u, route[1], top(u, route), eligible(u, {}), "rr")
             T == DOMAIN candidates(u, route)
         IN  /\ candidates(r.s, route) = candidates(u, route) /\ top(r.s, route) = top(u, route)
             /\ r.s.strategy = u.strategy
             /\ RingAt(r.s, T, route, top(u, route), recent(ps, r.picked, Cardinality(T)))
<1> DEFINE T == DOMAIN candidates(u, route)
           q == top(u, route)
           ok == eligible(u, {})
           p == route[1]
           S == ToSet(readyAt(u, p, q))
           r == pickAt(u, p, q, ok, "rr")
<1>1. q \in Priorities /\ T = atPriority(u, route, q, ok) /\ T # {}
  BY CandidateSet
<1>2. Split(T, route)
  BY CandidatesSplit
<1>3. DOMAIN route = {1} /\ 1 \in DOMAIN route /\ Len(route) + 1 = 2 /\ 1 + 1 = 2
  BY <1>2 DEF Split
<1>4. S = part(T, p)
  BY <1>3, CandidateParts
<1>5. S \cap ok = T
  BY <1>1, <1>3 DEF atPriority
<1>6. S \subseteq ok
  BY <1>4, <1>5 DEF part
<1> DEFINE y == viewOf(u, p, q).cursor % Cardinality(S)
<1>7. /\ Moves(u, r.s, p, q)
      /\ S \subseteq ok => r.picked = sorted(S)[y + 1] /\ viewOf(r.s, p, q).cursor = y + 1
  <2> HIDE DEF ok, q
  <2>1. S \cap ok # {}
    BY <1>1, <1>5
  <2> QED BY <1>1, <2>1, PickAtRoundRobin
<1>8. /\ r.s.strategy = u.strategy /\ r.s.metas = u.metas
      /\ \A x : \A z \in Priorities : readyAt(r.s, x, z) = readyAt(u, x, z)
  BY <1>7 DEF Moves
<1>9. candidates(r.s, route) = candidates(u, route) /\ top(r.s, route) = q
  BY <1>8, SameCandidates
<1>10. r.picked = sorted(S)[y + 1] /\ viewOf(r.s, p, q).cursor = y + 1
  BY <1>6, <1>7
<1> HIDE DEF r
<1> DEFINE a == r.picked
<1>11. size(T, route, 1) = Cardinality(S)
  BY <1>4 DEF size
<1>12. start(T, route, 1) = 0 /\ start(T, route, 1) + size(T, route, 1) = Cardinality(T)
  <2>1. start(T, route, 1) = 0 /\ start(T, route, 2) = Cardinality(T)
    BY <1>2, <1>3, Blocks, Zenon
  <2>2. start(T, route, 2) = start(T, route, 1) + size(T, route, 1)
    BY <1>2, <1>3, Blocks
  <2> QED BY <2>1, <2>2
<1> HIDE DEF T, q, S, p
<1>13. ASSUME NEW f, NEW off, NEW x, Ring(T, route, f, off), Turning(u, T, route, q, off, x)
       PROVE  /\ a \in T /\ f[a] = x
              /\ Turning(r.s, T, route, q, off, wrap(x + 1, Cardinality(T)))
  <2>1. x \in 0..(Cardinality(T) - 1) /\ Cardinality(T) \in Nat
    BY <1>2, <1>13 DEF Turning, Split
  <2>2. start(T, route, 1) <= x /\ x < start(T, route, 1) + size(T, route, 1)
    BY <1>12, <2>1
  <2>3. viewOf(r.s, route[1], q).cursor = (viewOf(u, route[1], q).cursor % size(T, route, 1)) + 1
    BY <1>10, <1>11 DEF p
  <2>4. \A j \in DOMAIN route \ {1} : viewOf(r.s, route[j], q).cursor = viewOf(u, route[j], q).cursor
    BY <1>3
  <2>5. a = sorted(part(T, route[1]))[(viewOf(u, route[1], q).cursor % size(T, route, 1)) + 1]
    BY <1>4, <1>10, <1>11 DEF p
  <2> HIDE DEF a
  <2>6. Advances(u, r.s, T, route, q, 1, x, a)
    BY <1>3, <2>2, <2>3, <2>4, <2>5 DEF Advances
  <2> QED BY <1>2, <1>13, <2>6, RingStep
<1>14. RingAt(u, T, route, q, ps)
  BY DEF T, q
<1>15. RingAt(r.s, T, route, q, recent(ps, a, Cardinality(T)))
  BY <1>2, <1>13, <1>14, RingTurn
<1> QED BY <1>8, <1>9, <1>15 DEF T, q, r, p

\* One more pick of the ring of several providers.
LEMMA MixedRing ==
  ASSUME NEW u, SchedOK(u), NEW route \in Routes, DOMAIN candidates(u, route) # {},
         u.strategy = "rr", Len(route) # 1, NEW ps,
         RingAt(u, DOMAIN candidates(u, route), route, top(u, route), ps)
  PROVE  LET r == pickMixedRoundRobin(u, route, top(u, route), eligible(u, {}))
             T == DOMAIN candidates(u, route)
         IN  /\ candidates(r.s, route) = candidates(u, route) /\ top(r.s, route) = top(u, route)
             /\ r.s.strategy = u.strategy
             /\ RingAt(r.s, T, route, top(u, route), recent(ps, r.picked, Cardinality(T)))
<1> DEFINE T == DOMAIN candidates(u, route)
           q == top(u, route)
           ok == eligible(u, {})
           mixed == pickMixedRoundRobin(u, route, q, ok)
<1>1. q \in Priorities /\ T = atPriority(u, route, q, ok) /\ T # {}
  BY CandidateSet
<1>2. Split(T, route) /\ RingAt(u, T, route, q, ps)
  BY CandidatesSplit
<1>3. ok \subseteq DOMAIN u.metas
  BY DEF eligible
<1>4. ASSUME NEW j \in DOMAIN route PROVE ToSet(readyAt(u, route[j], q)) = part(T, route[j])
  BY CandidateParts
<1>5. T \subseteq ok
  BY <1>1 DEF atPriority
<1> HIDE DEF T, q, ok
<1>60. PICK i \in DOMAIN route, slot \in Nat : Answers(u, route, q, ok, i, slot)
  <2>1. atPriority(u, route, q, ok) # {}
    BY <1>1
  <2> QED BY <1>1, <1>3, <2>1, MixedSlot
<1>6. /\ slot = u.cursor[route] % Cardinality(atPriority(u, route, q, ok))
      /\ slot < Cardinality(slotsOf(u, route, q, ok, i))
      /\ \A j \in 1..(i - 1) : slot >= Cardinality(slotsOf(u, route, q, ok, j))
      /\ ToSet(readyAt(u, route[i], q)) \cap ok # {}
      /\ mixed = [picked |-> pickAt(u, route[i], q, ok, "rr").picked,
                  s |-> [pickAt(u, route[i], q, ok, "rr").s EXCEPT !.cursor[route] = slot + 1]]
  BY <1>60 DEF Answers
<1> DEFINE p == route[i]
           S == ToSet(readyAt(u, p, q))
           r == pickAt(u, p, q, ok, "rr")
           v == [r.s EXCEPT !.cursor[route] = slot + 1]
           y == viewOf(u, p, q).cursor % Cardinality(S)
<1>7. S = part(T, p) /\ S \subseteq ok /\ S \cap ok # {}
  BY <1>4, <1>5, <1>6 DEF part
<1>8. /\ Moves(u, r.s, p, q) /\ r.picked = sorted(S)[y + 1] /\ viewOf(r.s, p, q).cursor = y + 1
  BY <1>1, <1>7, PickAtRoundRobin
<1>9. Keeps(u, r.s)
  BY <1>1, <1>3, <1>7, PickAtOK
<1>10. mixed.picked = r.picked /\ mixed.s = v
  BY <1>6
<1> HIDE DEF r, mixed
<1>11. /\ v.strategy = r.s.strategy /\ v.metas = r.s.metas /\ v.shards = r.s.shards
       /\ v.cursor = [r.s.cursor EXCEPT ![route] = slot + 1] /\ route \in DOMAIN r.s.cursor
  BY <1>9 DEF Keeps, SchedOK, IsSched
<1> HIDE DEF v
<1>12. v.cursor[route] = slot + 1
  BY <1>11
<1>13. \A x : \A z \in Priorities :
         viewOf(v, x, z) = viewOf(r.s, x, z) /\ readyAt(v, x, z) = readyAt(r.s, x, z)
  BY <1>11 DEF viewOf, readyAt
<1>14. /\ v.strategy = u.strategy /\ v.metas = u.metas
       /\ \A x : \A z \in Priorities : readyAt(v, x, z) = readyAt(u, x, z)
  BY <1>8, <1>11, <1>13 DEF Moves
<1>15. candidates(v, route) = candidates(u, route) /\ top(v, route) = q
  BY <1>14, SameCandidates DEF q
<1>16. ASSUME NEW j \in DOMAIN route
       PROVE  Cardinality(slotsOf(u, route, q, ok, j)) = start(T, route, j + 1)
  <2>1. (j + 1) - 1 = j /\ \A k \in 1..j : k \in DOMAIN route
    BY <1>2 DEF Split
  <2>2. slotsOf(u, route, q, ok, j) = {a \in ok : \E k \in 1..j : a \in part(T, route[k])}
    BY <1>4, <2>1 DEF slotsOf
  <2>3. slotsOf(u, route, q, ok, j) = ahead(T, route, j + 1)
    BY <1>5, <2>1, <2>2 DEF ahead, part
  <2> QED BY <2>3 DEF start
<1>17. start(T, route, i) <= slot /\ slot < start(T, route, i) + size(T, route, i)
  <2>1. start(T, route, i + 1) = start(T, route, i) + size(T, route, i)
    BY <1>2, Blocks
  <2>2. slot < start(T, route, i + 1)
    BY <1>6, <1>16
  <2>3. start(T, route, i) <= slot
    <3>1. CASE i = 1
      <4>1. start(T, route, 1) = 0
        BY <1>2, Blocks
      <4> QED BY <3>1, <4>1
    <3>2. CASE i # 1
      <4> DEFINE j == i - 1
      <4>1. j \in 1..(i - 1) /\ j \in DOMAIN route /\ j + 1 = i
        BY <1>2, <3>2 DEF Split
      <4> HIDE DEF j
      <4>2. slot >= start(T, route, i)
        BY <1>6, <1>16, <4>1
      <4>3. start(T, route, i) \in Nat
        BY <1>2, BlockIn
      <4> QED BY <4>2, <4>3
    <3> QED BY <3>1, <3>2
  <2> QED BY <2>1, <2>2, <2>3
<1>18. size(T, route, i) = Cardinality(S)
  BY <1>7 DEF size
<1> DEFINE a == r.picked
<1>19. ASSUME NEW f, NEW off, NEW x, Ring(T, route, f, off), Turning(u, T, route, q, off, x)
       PROVE  a \in T /\ f[a] = x /\ Turning(v, T, route, q, off, wrap(x + 1, Cardinality(T)))
  <2>1. x = slot
    BY <1>1, <1>6, <1>19 DEF Turning
  <2>2. viewOf(v, route[i], q).cursor = (viewOf(u, route[i], q).cursor % size(T, route, i)) + 1
    BY <1>1, <1>8, <1>13, <1>18
  <2>3. \A j \in DOMAIN route \ {i} : viewOf(v, route[j], q).cursor = viewOf(u, route[j], q).cursor
    <3>1. \A j \in DOMAIN route \ {i} : route[j] # p
      BY <1>2 DEF Split, IsInjective
    <3> QED BY <1>1, <1>8, <1>13, <3>1 DEF Moves
  <2>4. a = sorted(part(T, route[i]))[(viewOf(u, route[i], q).cursor % size(T, route, i)) + 1]
    BY <1>7, <1>8, <1>18
  <2> HIDE DEF a
  <2>5. Advances(u, v, T, route, q, i, x, a)
    BY <1>12, <1>17, <2>1, <2>2, <2>3, <2>4 DEF Advances
  <2> QED BY <1>2, <1>19, <2>5, RingStep
<1>20. RingAt(v, T, route, q, recent(ps, a, Cardinality(T)))
  BY <1>2, <1>19, RingTurn
<1> QED BY <1>10, <1>14, <1>15, <1>20 DEF T, q, ok, mixed

\* Weighted picks leave out weights of 0.
LEMMA WeightedEligible ==
  ASSUME NEW u, SchedOK(u), u.strategy = "weighted", NEW tried
  PROVE  LET ok == eligible(u, tried)
         IN  ok \subseteq DOMAIN u.metas /\ \A a \in ok : u.metas[a].weight > 0
  BY DEF eligible

\* One more weighted pick from one provider.
LEMMA SingleCycle ==
  ASSUME NEW u, SchedOK(u), NEW route \in Routes, DOMAIN candidates(u, route) # {},
         u.strategy = "weighted", Len(route) = 1, NEW ps,
         CycleAt(stateOf(u, route, top(u, route)), candidates(u, route), ps)
  PROVE  LET r == pickAt(u, route[1], top(u, route), eligible(u, {}), "weighted")
             w == candidates(u, route)
         IN  /\ candidates(r.s, route) = w /\ top(r.s, route) = top(u, route)
             /\ r.s.strategy = u.strategy
             /\ CycleAt(stateOf(r.s, route, top(u, route)), w, recent(ps, r.picked, round(w)))
<1> DEFINE w == candidates(u, route)
           T == DOMAIN w
           q == top(u, route)
           ok == eligible(u, {})
           p == route[1]
           st == viewOf(u, p, q)
           ids == ToSet(readyAt(u, p, q)) \cap ok
           sw == pickSmoothWeighted(st, ids, u.metas)
           r == pickAt(u, p, q, ok, "weighted")
<1>1. q \in Priorities /\ T # {}
  BY CandidateSet
<1>2. Vector(w) /\ w = weightVector(T, u.metas) /\ ids = T
  BY CandidateWeights, Zenon DEF readyAt
<1>3. ok \subseteq DOMAIN u.metas /\ \A a \in ok : u.metas[a].weight > 0
  BY WeightedEligible
<1>4. CycleAt(st, w, ps)
  BY DEF stateOf
<1> HIDE DEF w, q, ok, p, st
<1>5. ids # {}
  BY <1>1, <1>2
<1>6. /\ Moves(u, r.s, p, q) /\ r.picked = sw.picked
      /\ viewOf(r.s, p, q).weights = sw.state.weights
      /\ viewOf(r.s, p, q).current = sw.state.current
  BY <1>1, <1>3, <1>5, PickAtWeighted, ZenonT(40) DEF st
<1> HIDE DEF r
<1>7. /\ r.s.strategy = u.strategy /\ r.s.metas = u.metas
      /\ \A x : \A z \in Priorities : readyAt(r.s, x, z) = readyAt(u, x, z)
  BY <1>6 DEF Moves
<1>8. candidates(r.s, route) = w /\ top(r.s, route) = q
  BY <1>7, SameCandidates DEF w, q
<1>9. sw = pickSmoothWeighted(st, T, u.metas)
  BY <1>2
<1> HIDE DEF sw
<1>10. CycleAt(viewOf(r.s, p, q), w, recent(ps, sw.picked, round(w)))
  BY <1>2, <1>4, <1>6, <1>9, CycleTurn
<1>11. stateOf(r.s, route, q) = viewOf(r.s, p, q)
  BY DEF stateOf, p
<1>12. CycleAt(stateOf(r.s, route, q), w, recent(ps, r.picked, round(w)))
  BY <1>6, <1>10, <1>11
<1> QED BY <1>7, <1>8, <1>12 DEF w, q, ok, p, r

\* One more weighted pick from several.
LEMMA MixedCycle ==
  ASSUME NEW u, SchedOK(u), NEW route \in Routes, DOMAIN candidates(u, route) # {},
         u.strategy = "weighted", Len(route) # 1, NEW ps,
         CycleAt(stateOf(u, route, top(u, route)), candidates(u, route), ps)
  PROVE  LET r == pickMixedWeighted(u, route, top(u, route), eligible(u, {}))
             w == candidates(u, route)
         IN  /\ candidates(r.s, route) = w /\ top(r.s, route) = top(u, route)
             /\ r.s.strategy = u.strategy
             /\ CycleAt(stateOf(r.s, route, top(u, route)), w, recent(ps, r.picked, round(w)))
<1> DEFINE w == candidates(u, route)
           T == DOMAIN w
           q == top(u, route)
           ok == eligible(u, {})
           st == u.weighted[route]
           ids == atPriority(u, route, q, ok)
           sw == pickSmoothWeighted(st, ids, u.metas)
           r == pickMixedWeighted(u, route, q, ok)
<1>1. q \in Priorities /\ ids = T /\ T # {}
  BY CandidateSet
<1>2. Vector(w) /\ w = weightVector(T, u.metas)
  BY CandidateWeights, Zenon
<1>3. ok \subseteq DOMAIN u.metas /\ \A a \in ok : u.metas[a].weight > 0
  BY WeightedEligible
<1>4. CycleAt(st, w, ps)
  BY DEF stateOf
<1> HIDE DEF w, q, ok, st
<1>5. ids # {}
  BY <1>1
<1>6. /\ r.s.strategy = u.strategy /\ r.s.metas = u.metas /\ r.s.shards = u.shards
      /\ r.s.weighted[route] = sw.state /\ r.picked = sw.picked
  BY <1>1, <1>3, <1>5, MixedWeightedPick DEF st
<1> HIDE DEF r
<1>7. \A x : \A z \in Priorities : readyAt(r.s, x, z) = readyAt(u, x, z)
  BY <1>6 DEF readyAt
<1>8. candidates(r.s, route) = w /\ top(r.s, route) = q
  BY <1>6, <1>7, SameCandidates DEF w, q
<1>9. sw = pickSmoothWeighted(st, T, u.metas)
  BY <1>1
<1> HIDE DEF sw
<1>10. CycleAt(sw.state, w, recent(ps, sw.picked, round(w)))
  BY <1>2, <1>4, <1>9, CycleTurn
<1>11. stateOf(r.s, route, q) = sw.state
  BY <1>6 DEF stateOf
<1>12. CycleAt(stateOf(r.s, route, q), w, recent(ps, r.picked, round(w)))
  BY <1>6, <1>10, <1>11
<1> QED BY <1>6, <1>8, <1>12 DEF w, q, ok, r

\* What pickFrom makes of the shards it has prepared.
LEMMA PickFromCases ==
  ASSUME NEW s, NEW route, NEW tried
  PROVE  LET u == prepared(s, route)
             ok == eligible(u, tried)
             q == bestPriority(u, route, ok)
             r == pickFrom(s, route, tried)
         IN  IF \A x \in Priorities : atPriority(u, route, x, ok) = {} THEN r = [picked |-> 0, s |-> u]
             ELSE /\ Len(route) = 1 => r = pickAt(u, route[1], q, ok, u.strategy)
                  /\ Len(route) # 1 =>
                       /\ u.strategy = "rr" => r = pickMixedRoundRobin(u, route, q, ok)
                       /\ u.strategy = "weighted" => r = pickMixedWeighted(u, route, q, ok)
                       /\ u.strategy = "fill" => r = pickMixedFill(u, route, q, ok)
  BY DEF pickFrom

\* Whatever a pick does, the states stay on their cycles.
LEMMA GoodPick ==
  ASSUME NEW s, SchedOK(s), GoodSched(s), NEW route \in Routes, NEW tried, now \in 0..MaxTime
  PROVE  GoodSched(pickFrom(s, route, tried).s)
<1> DEFINE u == prepared(s, route)
           ok == eligible(u, tried)
           q == bestPriority(u, route, ok)
           r == pickFrom(s, route, tried)
<1>1. SchedOK(u)
  BY PreparedOK DEF Keeps
<1>2. GoodSched(u)
  <2>1. CarriesOn(s, u)
    BY PreparedCarriesOn
  <2> HIDE DEF u
  <2> QED BY <2>1, GoodCarried
<1>3. ok \subseteq DOMAIN u.metas
  BY DEF eligible
<1>4. route \in Seq(Providers) /\ u.strategy \in {"rr", "fill", "weighted"}
  BY <1>1, SchedulerAssumption, Zenon DEF SchedOK
<1>5. u.strategy = "weighted" => \A a \in ok : u.metas[a].weight > 0
  BY <1>1, WeightedEligible
<1>6. IF \A x \in Priorities : atPriority(u, route, x, ok) = {} THEN r = [picked |-> 0, s |-> u]
      ELSE /\ Len(route) = 1 => r = pickAt(u, route[1], q, ok, u.strategy)
           /\ Len(route) # 1 =>
                /\ u.strategy = "rr" => r = pickMixedRoundRobin(u, route, q, ok)
                /\ u.strategy = "weighted" => r = pickMixedWeighted(u, route, q, ok)
                /\ u.strategy = "fill" => r = pickMixedFill(u, route, q, ok)
  BY PickFromCases
<1>7. CASE \A x \in Priorities : atPriority(u, route, x, ok) = {}
  BY <1>2, <1>6, <1>7
<1>8. CASE ~\A x \in Priorities : atPriority(u, route, x, ok) = {}
  <2>1. PICK x \in Priorities : atPriority(u, route, x, ok) # {}
    BY <1>8
  <2>2. q \in Priorities /\ atPriority(u, route, q, ok) # {}
    <3> HIDE DEF u, ok
    <3> QED BY <2>1, BestPriority DEF Found
  <2> HIDE DEF u, ok, q, r
  <2>3. CASE Len(route) = 1
    <3>1. DOMAIN route = {1}
      BY <1>4, <2>3
    <3>2. ToSet(readyAt(u, route[1], q)) \cap ok # {}
      BY <2>2, <3>1 DEF atPriority
    <3>3. r = pickAt(u, route[1], q, ok, u.strategy)
      BY <1>6, <1>8, <2>3
    <3>4. CASE u.strategy = "rr"
      <4>1. r = pickAt(u, route[1], q, ok, "rr")
        BY <3>3, <3>4
      <4>2. GoodSched(pickAt(u, route[1], q, ok, "rr").s)
        BY <1>1, <1>2, <2>2, <3>2, PickAtRoundRobin
      <4> QED BY <4>1, <4>2 DEF r
    <3>5. CASE u.strategy = "weighted"
      <4>1. r = pickAt(u, route[1], q, ok, "weighted")
        BY <3>3, <3>5
      <4>2. \A a \in ok : u.metas[a].weight > 0
        BY <1>5, <3>5
      <4>3. GoodSched(pickAt(u, route[1], q, ok, "weighted").s)
        BY <1>1, <1>2, <1>3, <2>2, <3>2, <4>2, PickAtWeighted, Zenon
      <4> QED BY <4>1, <4>3 DEF r
    <3>6. CASE u.strategy = "fill"
      BY <1>2, <3>3, <3>6, FillPick DEF r
    <3> QED BY <1>4, <3>4, <3>5, <3>6
  <2>4. CASE Len(route) # 1 /\ u.strategy = "rr"
    <3>1. r = pickMixedRoundRobin(u, route, q, ok)
      BY <1>6, <1>8, <2>4
    <3>2. PICK i \in DOMAIN route, slot \in Nat : Answers(u, route, q, ok, i, slot)
      BY <1>1, <1>3, <2>2, MixedSlot
    <3> DEFINE t == pickAt(u, route[i], q, ok, "rr")
               v == [t.s EXCEPT !.cursor[route] = slot + 1]
    <3>3. ToSet(readyAt(u, route[i], q)) \cap ok # {} /\ r = [picked |-> t.picked, s |-> v]
      BY <3>1, <3>2 DEF Answers
    <3>4. GoodSched(t.s)
      BY <1>1, <1>2, <2>2, <3>3, PickAtRoundRobin
    <3>5. Keeps(u, t.s)
      BY <1>1, <1>3, <2>2, <3>3, PickAtOK
    <3> HIDE DEF t
    <3>6. v.shards = t.s.shards /\ v.weighted = t.s.weighted
      BY <3>5 DEF Keeps, SchedOK, IsSched
    <3> HIDE DEF v
    <3>7. GoodSched(v)
      BY <3>4, <3>6 DEF GoodSched
    <3>8. r.s = v
      BY <3>3
    <3> QED BY <3>7, <3>8 DEF r
  <2>5. CASE Len(route) # 1 /\ u.strategy = "weighted"
    <3>1. r = pickMixedWeighted(u, route, q, ok)
      BY <1>6, <1>8, <2>5
    <3> QED BY <1>1, <1>2, <1>3, <1>5, <2>2, <2>5, <3>1, MixedWeightedPick DEF r
  <2>6. CASE Len(route) # 1 /\ u.strategy = "fill"
    <3>1. r = pickMixedFill(u, route, q, ok)
      BY <1>6, <1>8, <2>6
    <3>2. r.s = u
      BY <3>1, FillPick DEF pickMixedFill
    <3> QED BY <1>2, <3>2 DEF r
  <2> QED BY <1>4, <2>3, <2>4, <2>5, <2>6
<1> QED BY <1>7, <1>8

\* How many picks make a round.
span(s, w) == IF s.strategy = "weighted" THEN round(w) ELSE Cardinality(DOMAIN w)

\* A pick of a request that has tried nothing is the next of the rotation.
LEMMA CourseStep ==
  ASSUME NEW s, NEW route \in Routes, SchedOK(prepared(s, route)),
         prepared(s, route).strategy # "fill",
         DOMAIN candidates(prepared(s, route), route) # {},
         NEW ps, OnCourse(prepared(s, route), route, ps)
  PROVE  LET u == prepared(s, route)
             w == candidates(u, route)
             r == pickFrom(s, route, {})
         IN  /\ candidates(r.s, route) = w /\ r.s.strategy = u.strategy
             /\ OnCourse(r.s, route, recent(ps, r.picked, span(u, w)))
<1> DEFINE u == prepared(s, route)
           w == candidates(u, route)
           ok == eligible(u, {})
           q == top(u, route)
           r == pickFrom(s, route, {})
<1>1. SchedOK(u) /\ u.strategy # "fill" /\ DOMAIN w # {} /\ OnCourse(u, route, ps)
  OBVIOUS
<1>2. q \in Priorities /\ atPriority(u, route, q, ok) # {}
  <2> HIDE DEF u
  <2> QED BY <1>1, CandidateSet
<1>3. u.strategy \in {"rr", "weighted"}
  BY <1>1, SchedulerAssumption, Zenon DEF SchedOK
<1>4. /\ Len(route) = 1 => r = pickAt(u, route[1], q, ok, u.strategy)
      /\ Len(route) # 1 =>
           /\ u.strategy = "rr" => r = pickMixedRoundRobin(u, route, q, ok)
           /\ u.strategy = "weighted" => r = pickMixedWeighted(u, route, q, ok)
  <2>1. ~\A x \in Priorities : atPriority(u, route, x, ok) = {}
    BY <1>2
  <2> QED BY <2>1, PickFromCases DEF top
<1> HIDE DEF u, r
<1>5. CASE u.strategy = "rr"
  <2>1. RingAt(u, DOMAIN w, route, q, ps)
    BY <1>1, <1>5 DEF OnCourse
  <2>2. /\ candidates(r.s, route) = w /\ top(r.s, route) = q /\ r.s.strategy = u.strategy
        /\ RingAt(r.s, DOMAIN w, route, q, recent(ps, r.picked, Cardinality(DOMAIN w)))
    <3>1. CASE Len(route) = 1
      BY <1>1, <1>4, <1>5, <2>1, <3>1, SingleRing
    <3>2. CASE Len(route) # 1
      BY <1>1, <1>4, <1>5, <2>1, <3>2, MixedRing
    <3> QED BY <3>1, <3>2
  <2> HIDE DEF w, q
  <2>3. OnCourse(r.s, route, recent(ps, r.picked, Cardinality(DOMAIN w)))
    BY <1>5, <2>2 DEF OnCourse
  <2>4. span(u, w) = Cardinality(DOMAIN w)
    BY <1>5 DEF span
  <2>5. candidates(r.s, route) = w /\ r.s.strategy = u.strategy
        /\ OnCourse(r.s, route, recent(ps, r.picked, span(u, w)))
    BY <2>2, <2>3, <2>4
  <2> QED BY <2>5 DEF u, w, r
<1>6. CASE u.strategy = "weighted"
  <2>1. CycleAt(stateOf(u, route, q), w, ps)
    BY <1>1, <1>6 DEF OnCourse
  <2>2. /\ candidates(r.s, route) = w /\ top(r.s, route) = q /\ r.s.strategy = u.strategy
        /\ CycleAt(stateOf(r.s, route, q), w, recent(ps, r.picked, round(w)))
    <3>1. CASE Len(route) = 1
      BY <1>1, <1>4, <1>6, <2>1, <3>1, SingleCycle
    <3>2. CASE Len(route) # 1
      BY <1>1, <1>4, <1>6, <2>1, <3>2, MixedCycle
    <3> QED BY <3>1, <3>2
  <2> HIDE DEF w, q
  <2>3. OnCourse(r.s, route, recent(ps, r.picked, round(w)))
    BY <1>6, <2>2 DEF OnCourse
  <2>4. span(u, w) = round(w)
    BY <1>6 DEF span
  <2>5. candidates(r.s, route) = w /\ r.s.strategy = u.strategy
        /\ OnCourse(r.s, route, recent(ps, r.picked, span(u, w)))
    BY <2>2, <2>3, <2>4
  <2> QED BY <2>5 DEF u, w, r
<1> QED BY <1>3, <1>5, <1>6

-----------------------------------------------------------------------------
(* The picks of the window *)

\* The picks since the candidates last changed are the last of a rotation that
\* goes on.
WindowInv ==
  window.picks # <<>> /\ sched.strategy # "fill" =>
    /\ window.route \in Routes /\ candidates(sched, window.route) = window.cands
    /\ DOMAIN window.cands # {} /\ OnCourse(sched, window.route, window.picks)

\* The invariant under the rotation: it is inductive given IInv.
RotationInv == GoodSched(sched) /\ WindowInv

\* A new window has no picks to answer for.
LEMMA NoWindowInv ==
  ASSUME window' = NoWindow
  PROVE  WindowInv'
  BY DEF WindowInv, NoWindow

\* A change of other credentials.
LEMMA WindowKept ==
  ASSUME SchedOK(sched), SchedOK(sched'), CarriesOn(sched, sched'), RotationInv,
         \/ window' = NoWindow
         \/ window' = window /\ candidates(sched', window.route) = window.cands
         \/ window' = window /\ candidates(sched', window.route) = candidates(sched, window.route)
  PROVE  RotationInv'
<1>1. GoodSched(sched')
  BY GoodCarried DEF RotationInv
<1>2. CASE window' = NoWindow
  BY <1>1, <1>2, NoWindowInv DEF RotationInv
<1>3. CASE window' # NoWindow
  <2> DEFINE route == window.route
             ps == window.picks
  <2>1. SUFFICES ASSUME ps # <<>>, sched.strategy # "fill"
                 PROVE  /\ route \in Routes /\ candidates(sched', route) = window.cands
                        /\ DOMAIN window.cands # {} /\ OnCourse(sched', route, ps)
    BY <1>1, <1>3 DEF RotationInv, WindowInv, CarriesOn
  <2>2. /\ route \in Routes /\ candidates(sched, route) = window.cands
        /\ DOMAIN window.cands # {} /\ OnCourse(sched, route, ps)
    BY <2>1 DEF RotationInv, WindowInv
  <2>3. candidates(sched', route) = candidates(sched, route)
    BY <1>3, <2>2
  <2>4. DOMAIN candidates(sched, route) # {}
    BY <2>2
  <2>5. OnCourse(sched', route, ps)
    BY <1>1, <2>2, <2>3, <2>4, CourseKept
  <2> QED BY <2>2, <2>3, <2>5
<1> QED BY <1>2, <1>3

\* A write to a shared object changes neither weights nor priorities.
LEMMA WriteKeeps ==
  ASSUME NEW s, SchedOK(s), NEW u, u.strategy = s.strategy, u.cursor = s.cursor,
         u.weighted = s.weighted, u.shards = s.shards, DOMAIN u.metas = DOMAIN s.metas,
         \A b \in DOMAIN s.metas : /\ u.metas[b].weight = s.metas[b].weight
                                   /\ u.metas[b].priority = s.metas[b].priority
  PROVE  CarriesOn(s, u) /\ \A route : candidates(u, route) = candidates(s, route)
<1>1. CarriesOn(s, u)
  BY WriteCarriesOn
<1>2. eligible(u, {}) = eligible(s, {})
  BY DEF eligible
<1> DEFINE ok == eligible(s, {})
<1>3. ok \subseteq DOMAIN s.metas
  BY DEF eligible
<1> HIDE DEF ok
<1>4. ASSUME NEW route PROVE candidates(u, route) = candidates(s, route)
  <2>1. \A q : atPriority(u, route, q, ok) = atPriority(s, route, q, ok)
    BY DEF atPriority, readyAt
  <2>2. bestPriority(u, route, ok) = bestPriority(s, route, ok)
    BY <2>1 DEF bestPriority
  <2> DEFINE T == IF \A q \in Priorities : atPriority(s, route, q, ok) = {} THEN {}
                  ELSE atPriority(s, route, bestPriority(s, route, ok), ok)
  <2>3. candidates(s, route) = [a \in T |-> s.metas[a].weight]
    BY DEF candidates, ok
  <2>4. candidates(u, route) = [a \in T |-> u.metas[a].weight]
    <3>1. eligible(u, {}) = ok
      BY <1>2 DEF ok
    <3> QED BY <2>1, <2>2, <3>1 DEF candidates
  <2>5. T \subseteq ok
    BY DEF atPriority
  <2> HIDE DEF T
  <2>6. \A a \in T : u.metas[a].weight = s.metas[a].weight
    BY <1>3, <2>5
  <2> QED BY <2>3, <2>4, <2>6
<1> QED BY <1>1, <1>4

\* MarkResult writes to an object the scheduler may hold.
LEMMA MutateRotation ==
  ASSUME SchedOK(sched), SchedOK(sched'), RotationInv, NEW a, NEW until, Mutate(a, until),
         window' = window
  PROVE  RotationInv'
<1> DEFINE u == [sched EXCEPT !.metas[a].until = until]
<1>1. CASE sched' = sched
  BY <1>1 DEF RotationInv, WindowInv
<1>2. CASE a \in DOMAIN sched.metas /\ sched' = u
  <2>1. sched.metas[a] \in Metas
    BY <1>2 DEF SchedOK, MapTo
  <2>2. /\ u.strategy = sched.strategy /\ u.cursor = sched.cursor
        /\ u.weighted = sched.weighted /\ u.shards = sched.shards
        /\ u.metas = [sched.metas EXCEPT ![a].until = until]
    BY DEF SchedOK, IsSched
  <2> HIDE DEF u
  <2>3. DOMAIN u.metas = DOMAIN sched.metas
    BY <2>2
  <2>4. ASSUME NEW b \in DOMAIN sched.metas
        PROVE  /\ u.metas[b].weight = sched.metas[b].weight
               /\ u.metas[b].priority = sched.metas[b].priority
    BY <2>1, <2>2 DEF Metas
  <2>5. CarriesOn(sched, u) /\ \A route : candidates(u, route) = candidates(sched, route)
    BY <2>2, <2>3, <2>4, WriteKeeps, Zenon
  <2>6. CarriesOn(sched, sched') /\ candidates(sched', window.route) = candidates(sched, window.route)
    BY <1>2, <2>5
  <2> QED BY <2>6, WindowKept
<1> QED BY <1>1, <1>2 DEF Mutate

\* The manager takes another object; the scheduler keeps the old one.
LEMMA CommitRotation ==
  ASSUME SchedOK(sched), SchedOK(sched'), RotationInv, NEW a, NEW p, Commit(a, p)
  PROVE  RotationInv'
<1> DEFINE u == [sched EXCEPT !.metas[a].live = FALSE]
<1>1. window' = window
  BY DEF Commit
<1>2. CASE sched' = sched
  BY <1>1, <1>2 DEF RotationInv, WindowInv
<1>3. CASE a \in DOMAIN sched.metas /\ sched' = u
  <2>1. sched.metas[a] \in Metas
    BY <1>3 DEF SchedOK, MapTo
  <2>2. /\ u.strategy = sched.strategy /\ u.cursor = sched.cursor
        /\ u.weighted = sched.weighted /\ u.shards = sched.shards
        /\ u.metas = [sched.metas EXCEPT ![a].live = FALSE]
    BY DEF SchedOK, IsSched
  <2> HIDE DEF u
  <2>3. DOMAIN u.metas = DOMAIN sched.metas
    BY <2>2
  <2>4. ASSUME NEW b \in DOMAIN sched.metas
        PROVE  /\ u.metas[b].weight = sched.metas[b].weight
               /\ u.metas[b].priority = sched.metas[b].priority
    BY <2>1, <2>2 DEF Metas
  <2>5. CarriesOn(sched, u) /\ \A route : candidates(u, route) = candidates(sched, route)
    BY <2>2, <2>3, <2>4, WriteKeeps, Zenon
  <2>6. CarriesOn(sched, sched') /\ candidates(sched', window.route) = candidates(sched, window.route)
    BY <1>3, <2>5
  <2> QED BY <1>1, <2>6, WindowKept
<1> QED BY <1>2, <1>3 DEF Commit

\* A publication restores the views it makes anew.
LEMMA PublishRotation ==
  ASSUME SchedOK(sched), SchedOK(sched'), RotationInv, NEW a, NEW c, NEW live, Publish(a, c, live)
  PROVE  RotationInv'
<1>1. sched' = upsertAuth(sched, a, c, live) /\ window' = windowAfter(sched')
  BY DEF Publish
<1>2. CarriesOn(sched, sched')
  BY <1>1, UpsertCarriesOn
<1>3. window' = NoWindow \/ (window' = window /\ candidates(sched', window.route) = window.cands)
  BY <1>1 DEF windowAfter
<1> QED BY <1>2, <1>3, WindowKept

\* So does a removal.
LEMMA RemoveRotation ==
  ASSUME SchedOK(sched), SchedOK(sched'), RotationInv, RemovePublish
  PROVE  RotationInv'
<1>1. sched' = removeAuth(sched, svc.auth) /\ window' = windowAfter(sched')
  BY DEF RemovePublish
<1>2. CarriesOn(sched, sched')
  BY <1>1, RemoveCarriesOn
<1>3. window' = NoWindow \/ (window' = window /\ candidates(sched', window.route) = window.cands)
  BY <1>1 DEF windowAfter
<1> QED BY <1>2, <1>3, WindowKept

\* Routes begin at the start.
LEMMA NewGood ==
  \A r \in Routes : Good(NewScheduler.weighted[r])
<1> TAKE r \in Routes
<1>1. NewScheduler.weighted[r].weights = <<>>
  BY DEF NewScheduler
<1> QED BY <1>1, EmptyGood

\* A rebuilt scheduler has no rotations under way.
LEMMA RebuildGood ==
  ASSUME NEW s, NEW snapshot
  PROVE  GoodSched(rebuild(s, snapshot))
<1> DEFINE u == rebuild(s, snapshot)
<1>1. u.shards = <<>> /\ u.weighted = NewScheduler.weighted
  BY DEF rebuild, NewScheduler
<1>2. DOMAIN u.shards = {}
  BY <1>1
<1> HIDE DEF u
<1>3. GoodSched(u)
  BY <1>1, <1>2, NewGood DEF GoodSched
<1> QED BY <1>3 DEF u

\* A change of the selector resets the rotations of the routes.
LEMMA SelectorGood ==
  ASSUME SchedOK(sched), GoodSched(sched), NEW st, SetSelector(st)
  PROVE  GoodSched(sched')
<1>1. sched'.shards = sched.shards /\ sched'.weighted = NewScheduler.weighted
  BY DEF SetSelector, SchedOK, IsSched
<1> QED BY <1>1, NewGood DEF GoodSched

\* What the window is after a pick that found one.
LEMMA WindowPicked ==
  ASSUME NEW s, NEW route, NEW a, s.strategy = sched.strategy
  PROVE  LET w == candidates(s, route)
             ps == IF window.route = route /\ window.cands = w THEN window.picks ELSE <<>>
         IN  windowPicked(s, route, {}, a)
               = [route |-> route, cands |-> w, picks |-> recent(ps, a, span(s, w))]
  BY DEF windowPicked, recent, span, period, round

\* A pick goes on with the rotation of its window, or starts one.
LEMMA PickRotation ==
  ASSUME SchedOK(sched), SchedOK(sched'), now \in 0..MaxTime, RotationInv,
         NEW route \in Routes, NEW tried, sched' = pickFrom(sched, route, tried).s,
         LET r == pickFrom(sched, route, tried)
         IN  window' = IF r.picked = 0 THEN windowAfter(r.s)
                       ELSE windowPicked(r.s, route, tried, r.picked)
  PROVE  RotationInv'
<1> DEFINE u == prepared(sched, route)
           r == pickFrom(sched, route, tried)
           ok == eligible(u, tried)
<1>1. GoodSched(sched')
  BY GoodPick DEF RotationInv
<1>2. Keeps(sched, u) /\ CarriesOn(sched, u)
  BY PreparedOK, PreparedCarriesOn
<1>3. SchedOK(u) /\ u.strategy = sched.strategy
  BY <1>2 DEF Keeps
<1>4. GoodSched(u)
  <2> HIDE DEF u
  <2> QED BY <1>2, GoodCarried DEF RotationInv
<1>5. sched' = r.s /\ window' = IF r.picked = 0 THEN windowAfter(r.s)
                                ELSE windowPicked(r.s, route, tried, r.picked)
  OBVIOUS
<1>6. CASE r.picked = 0
  <2>1. \A x \in Priorities : atPriority(u, route, x, ok) = {}
    <3>1. SUFFICES ASSUME ~\A x \in Priorities : atPriority(u, route, x, ok) = {} PROVE FALSE
      OBVIOUS
    <3>2. \E x : r.picked \in atPriority(u, route, x, ok)
      BY <3>1, PickFromOK
    <3>3. r.picked \in DOMAIN u.metas
      BY <3>2 DEF atPriority, eligible
    <3>4. r.picked \in Auths
      <4> HIDE DEF u, r
      <4> QED BY <1>3, <3>3 DEF SchedOK, MapTo
    <3> QED BY <1>6, <3>4, SchedulerAssumption DEF Auths
  <2>2. r.s = u
    <3>1. r = [picked |-> 0, s |-> u]
      BY <2>1, PickFromCases
    <3> QED BY <3>1
  <2> HIDE DEF u, r
  <2>3. CarriesOn(sched, sched')
    BY <1>2, <1>5, <2>2
  <2>4. window' = NoWindow \/ (window' = window /\ candidates(sched', window.route) = window.cands)
    BY <1>5, <1>6 DEF windowAfter
  <2> QED BY <2>3, <2>4, WindowKept
<1>7. CASE r.picked # 0 /\ tried # {}
  <2>1. window' = NoWindow
    BY <1>5, <1>7 DEF windowPicked
  <2> QED BY <1>1, <2>1, NoWindowInv DEF RotationInv
<1>8. CASE r.picked # 0 /\ tried = {}
  <2>1. r = pickFrom(sched, route, {}) /\ ok = eligible(u, {})
    BY <1>8
  <2>2. SUFFICES ASSUME sched'.strategy # "fill"
                 PROVE  /\ window'.route \in Routes
                        /\ candidates(sched', window'.route) = window'.cands
                        /\ DOMAIN window'.cands # {} /\ OnCourse(sched', window'.route, window'.picks)
    BY <1>1 DEF RotationInv, WindowInv
  <2> DEFINE w == candidates(u, route)
  <2>3. DOMAIN w # {}
    <3>1. ~\A x \in Priorities : atPriority(u, route, x, ok) = {}
      <4>1. SUFFICES ASSUME \A x \in Priorities : atPriority(u, route, x, ok) = {} PROVE FALSE
        OBVIOUS
      <4>2. r = [picked |-> 0, s |-> u]
        BY <4>1, PickFromCases
      <4> QED BY <1>8, <4>2
    <3>2. PICK x \in Priorities : atPriority(u, route, x, ok) # {}
      BY <3>1
    <3>3. atPriority(u, route, bestPriority(u, route, ok), ok) # {}
      <4> HIDE DEF u, ok
      <4> QED BY <3>2, BestPriority DEF Found
    <3>4. DOMAIN w = atPriority(u, route, bestPriority(u, route, ok), ok)
      BY <2>1, <3>1 DEF candidates
    <3> QED BY <3>3, <3>4
  <2>4. r.s.strategy = sched.strategy
    BY PickFromOK DEF Keeps
  <2>5. u.strategy # "fill"
    BY <1>3, <1>5, <2>2, <2>4
  <2>6. OnCourse(u, route, <<>>)
    <3> HIDE DEF u
    <3> QED BY <1>3, <1>4, <2>3, CourseStart
  <2>7. candidates(r.s, route) = w
    BY <1>3, <2>1, <2>3, <2>5, <2>6, CourseStep
  <2> DEFINE ps == IF window.route = route /\ window.cands = w THEN window.picks ELSE <<>>
  <2>8. OnCourse(u, route, ps)
    <3>1. CASE ps = <<>>
      BY <2>6, <3>1
    <3>2. CASE ps # <<>>
      <4>1. window.route = route /\ window.cands = w /\ ps = window.picks
        BY <3>2
      <4>2. candidates(sched, route) = w /\ OnCourse(sched, route, ps)
        BY <1>3, <2>5, <3>2, <4>1 DEF RotationInv, WindowInv
      <4> HIDE DEF u, ps
      <4>3. candidates(u, route) = candidates(sched, route) /\ DOMAIN candidates(sched, route) # {}
        BY <2>3, <4>2
      <4> QED BY <1>2, <1>3, <1>4, <4>2, <4>3, CourseKept
    <3> QED BY <3>1, <3>2
  <2>9. OnCourse(r.s, route, recent(ps, r.picked, span(u, w)))
    <3> HIDE DEF ps
    <3> QED BY <1>3, <2>1, <2>3, <2>5, <2>8, CourseStep
  <2>10. span(r.s, w) = span(u, w)
    BY <1>3, <2>4 DEF span
  <2>11. window' = windowPicked(r.s, route, {}, r.picked)
    BY <1>5, <1>8
  <2> HIDE DEF u, r
  <2>12. windowPicked(r.s, route, {}, r.picked)
           = [route |-> route, cands |-> w, picks |-> recent(ps, r.picked, span(r.s, w))]
    BY <2>4, <2>7, WindowPicked
  <2> HIDE DEF ps, w
  <2>13. window'.route = route /\ window'.cands = w
         /\ window'.picks = recent(ps, r.picked, span(u, w))
    BY <2>10, <2>11, <2>12
  <2> QED BY <1>5, <2>3, <2>7, <2>9, <2>13
<1> QED BY <1>6, <1>7, <1>8

\* The scheduler starts with no window.
LEMMA RotationInit ==
  ASSUME Init
  PROVE  RotationInv
<1>1. window = NoWindow /\ \E st : sched = rebuild([NewScheduler EXCEPT !.strategy = st], auths)
  BY Zenon DEF Init
<1>2. GoodSched(sched)
  BY <1>1, RebuildGood
<1> QED BY <1>1, <1>2 DEF RotationInv, WindowInv, NoWindow

\* Every step keeps the rotations going or ends the window.
LEMMA RotationStep ==
  ASSUME IInv, IInv', RotationInv, [Next]_vars
  PROVE  RotationInv'
<1>1. SchedOK(sched) /\ SchedOK(sched') /\ now \in 0..MaxTime /\ PickOK
  BY DEF IInv, TypeOK
<1>2. CASE UNCHANGED <<sched, window>>
  BY <1>2 DEF RotationInv, WindowInv
<1>3. CASE Service
  <2>1. ASSUME NEW a \in Changing, Unregister(a) PROVE RotationInv'
    BY <1>2, <2>1 DEF Unregister
  <2>2. ASSUME NEW a \in Changing, NEW p \in Profiles, Commit(a, p) PROVE RotationInv'
    BY <1>1, <2>2, CommitRotation
  <2>3. CASE CommitUpsert
    <3>1. Publish(svc.auth, auths[svc.auth], TRUE)
      BY <2>3, Zenon DEF CommitUpsert
    <3> QED BY <1>1, <3>1, PublishRotation, Zenon
  <2>4. CASE RegisterModels
    BY <1>2, <2>4 DEF RegisterModels
  <2>5. CASE ReconcileRegistryModelStates
    <3>1. CASE auths[svc.auth].until = Free
      BY <1>2, <2>5, <3>1 DEF ReconcileRegistryModelStates
    <3>2. CASE auths[svc.auth].until # Free
      <4>1. Mutate(svc.auth, Free) /\ window' = window
        BY <2>5, <3>2 DEF ReconcileRegistryModelStates
      <4> QED BY <1>1, <4>1, MutateRotation
    <3> QED BY <3>1, <3>2
  <2>6. CASE ReconcilePublish
    <3>1. Publish(svc.auth, svc.snapshot, FALSE)
      BY <2>6, Zenon DEF ReconcilePublish
    <3> QED BY <1>1, <3>1, PublishRotation, Zenon
  <2>7. CASE RefreshRead
    BY <1>2, <2>7 DEF RefreshRead
  <2>8. CASE RefreshPublish
    <3>1. Publish(svc.auth, svc.snapshot, FALSE)
      BY <2>8, Zenon DEF RefreshPublish
    <3> QED BY <1>1, <3>1, PublishRotation, Zenon
  <2>9. CASE RemoveAuth
    BY <1>2, <2>9 DEF RemoveAuth
  <2>10. CASE RemovePublish
    BY <1>1, <2>10, RemoveRotation
  <2> QED BY <1>3, <2>1, <2>2, <2>3, <2>4, <2>5, <2>6, <2>7, <2>8, <2>9, <2>10 DEF Service
<1>4. ASSUME NEW r \in Reporters, MarkResultPublish(r) PROVE RotationInv'
  <2>1. Publish(reports[r].auth, reports[r].snapshot, FALSE)
    BY <1>4, Zenon DEF MarkResultPublish
  <2> QED BY <1>1, <2>1, PublishRotation, Zenon
<1>5. ASSUME NEW r \in Reporters, NEW a, NEW until, MarkResult(r, a, until) PROVE RotationInv'
  <2>1. Mutate(a, until) /\ window' = window
    BY <1>5 DEF MarkResult
  <2> QED BY <1>1, <2>1, MutateRotation
<1>6. ASSUME NEW q \in Requests, Pick(q.route, q.tried) PROVE RotationInv'
  <2> DEFINE r == pickFrom(sched, q.route, q.tried)
  <2>1. q.route \in Routes
    BY DEF Routes
  <2>2. sched' = r.s
    BY <1>6 DEF Pick
  <2>3. window' = IF r.picked = 0 THEN windowAfter(r.s)
                  ELSE windowPicked(r.s, q.route, q.tried, r.picked)
    BY <1>6 DEF Pick
  <2> QED BY <1>1, <2>1, <2>2, <2>3, PickRotation
<1>7. CASE PickAgain
  <2> DEFINE r == pickFrom(sched, pick.route, pick.tried)
  <2>1. pick.route \in Routes
    BY <1>1, <1>7 DEF PickOK, PickAgain
  <2>2. sched' = r.s
    BY <1>7 DEF PickAgain
  <2>3. window' = IF r.picked = 0 THEN windowAfter(r.s)
                  ELSE windowPicked(r.s, pick.route, pick.tried, r.picked)
    BY <1>7 DEF PickAgain
  <2> QED BY <1>1, <2>1, <2>2, <2>3, PickRotation
<1>8. CASE PickRebuild
  <2>1. sched' = rebuild(sched, pick.snapshot) /\ window' = NoWindow
    BY <1>8 DEF PickRebuild
  <2> QED BY <2>1, RebuildGood, NoWindowInv DEF RotationInv
<1>9. CASE SyncRebuild
  <2>1. sched' = rebuild(sched, sync.snapshot) /\ window' = NoWindow
    BY <1>9 DEF SyncRebuild
  <2> QED BY <2>1, RebuildGood, NoWindowInv DEF RotationInv
<1>10. ASSUME NEW st \in Strategies, SetSelector(st) PROVE RotationInv'
  <2>1. window' = NoWindow
    BY <1>10 DEF SetSelector
  <2> QED BY <1>1, <1>10, <2>1, SelectorGood, NoWindowInv DEF RotationInv
<1>11. CASE PickSnapshot \/ SyncSnapshot \/ Tick \/ UNCHANGED vars
  BY <1>2, <1>11 DEF PickSnapshot, SyncSnapshot, Tick, vars
<1> QED BY <1>3, <1>4, <1>5, <1>6, <1>7, <1>8, <1>9, <1>10, <1>11 DEF Next

\* A full window holds a whole round.
LEMMA FullWindow ==
  ASSUME SchedOK(sched), RotationInv
  PROVE  RotationFair
<1> DEFINE route == window.route
           w == window.cands
           ps == window.picks
<1>1. SUFFICES ASSUME Len(ps) > 0, Len(ps) = period(w), sched.strategy # "fill", NEW a \in DOMAIN w
               PROVE  Cardinality({i \in DOMAIN ps : ps[i] = a})
                        = IF sched.strategy = "weighted" THEN w[a] ELSE 1
  BY DEF RotationFair
<1>2. ps # <<>>
  <2>1. Len(<<>>) = 0
    OBVIOUS
  <2> QED BY <1>1, <2>1
<1>3. /\ route \in Routes /\ candidates(sched, route) = w
      /\ DOMAIN w # {} /\ OnCourse(sched, route, ps)
  BY <1>1, <1>2 DEF RotationInv, WindowInv
<1>4. sched.strategy \in {"rr", "weighted"}
  BY <1>1, SchedulerAssumption, Zenon DEF SchedOK
<1>5. CASE sched.strategy = "rr"
  <2> DEFINE T == DOMAIN w
             n == Cardinality(T)
  <2>1. IsFiniteSet(T) /\ n \in Nat \ {0}
    BY <1>3, CandidateSet
  <2>2. Len(ps) = n
    BY <1>1, <1>5 DEF period
  <2>3. RingAt(sched, T, route, top(sched, route), ps)
    BY <1>3, <1>5 DEF OnCourse
  <2> HIDE DEF w, ps
  <2>4. PICK f, off, x : /\ Turning(sched, T, route, top(sched, route), off, x)
                         /\ Trail({<<b, f[b]>> : b \in T}, n, x, ps)
    BY <2>3, Zenon DEF RingAt
  <2>5. ps \in Seq(T) /\ x \in 0..(n - 1)
    BY <2>3, <2>4 DEF RingAt, Turning
  <2>6. a \in T
    BY <1>1
  <2> HIDE DEF T, n
  <2>7. n = Cardinality(T)
    BY DEF n
  <2>8. Cardinality({i \in DOMAIN ps : ps[i] = a}) = 1
    BY <2>1, <2>2, <2>4, <2>5, <2>6, <2>7, OnceEach, SMTT(30)
  <2> QED BY <1>5, <2>8
<1>6. CASE sched.strategy = "weighted"
  <2> DEFINE n == round(w)
             c == Cycle(w)
  <2>1. Vector(w)
    BY <1>3, <1>6, CandidateWeights, Zenon
  <2>2. Len(ps) = n
    BY <1>1, <1>6 DEF period, round
  <2>3. CycleAt(stateOf(sched, route, top(sched, route)), w, ps)
    BY <1>3, <1>6 DEF OnCourse
  <2> HIDE DEF w, ps
  <2>4. n \in Nat \ {0} /\ given(c, n, a) = w[a]
    BY <1>1, <2>1, CycleOK
  <2>5. PICK x \in 0..(n - 1) : Trail({<<c[z], z>> : z \in 0..(n - 1)}, n, x, ps)
    BY <2>3, Zenon DEF CycleAt
  <2>6. ps \in Seq(DOMAIN w)
    BY <2>3 DEF CycleAt
  <2> DEFINE R == {<<c[z], z>> : z \in 0..(n - 1)}
  <2>8. Trail(R, n, x, ps) /\ PlacesOf(R, c, n)
    BY <2>5 DEF PlacesOf
  <2> HIDE DEF n, c, R
  <2>7. times(ps, a) = given(c, n, a)
    BY <2>2, <2>4, <2>6, <2>8, RoundCount
  <2> QED BY <1>6, <2>4, <2>7 DEF times
<1> QED BY <1>4, <1>5, <1>6

\* RotationFair: n requests in a row meet each of n candidates once under round
\* robin, and each as often as its weight under the weighted strategy, for every
\* set of credentials, weights and routes, whatever is published meanwhile.
THEOREM RotationExact == Spec => []RotationFair
<1>1. Init => RotationInv
  BY RotationInit
<1>2. IInv /\ IInv' /\ RotationInv /\ [Next]_vars => RotationInv'
  BY RotationStep
<1>3. IInv /\ RotationInv => RotationFair
  BY FullWindow DEF IInv, TypeOK
<1>4. Spec => []IInv
  BY Inductive
<1> QED BY <1>1, <1>2, <1>3, <1>4, PTL DEF Spec
=============================================================================
