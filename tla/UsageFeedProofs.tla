-------------------------- MODULE UsageFeedProofs --------------------------
(***************************************************************************)
(* Machine-checked theorems about the way of a usage record, for any       *)
(* number of records, subscribers, toggles and failed pushes and any size  *)
(* of the buffers and batches: no record is lost without a reason, and no  *)
(* subscriber sees a gap.                                                  *)
(***************************************************************************)
EXTENDS UsageFeed, TLAPS, FiniteSetTheorems, SequenceTheorems

-----------------------------------------------------------------------------
(* Types *)

Ids == Nat \ {0}

Managers == [queue : Seq(Ids), closed : BOOLEAN, item : Nat,
             worker : {"none", "check", "wait", "handle", "publish", "enqueue", "exit"}]

Channels == [buf : Seq(Nat), closed : BOOLEAN]

Readers == [state : {"none", "on", "ended", "left"}, got : Seq(Nat), from : Nat]

Forwarders == [items : Seq(Ids), requeue : BOOLEAN]

TypeOK ==
  /\ home \in BOOLEAN
  /\ mgr \in Managers /\ signals \in Nat /\ next \in Nat
  /\ enabled \in [on : BOOLEAN, clearing : BOOLEAN]
  /\ items \in Seq(Ids) /\ log \in Seq(Ids)
  /\ subs \in SUBSET Subscribers
  /\ chan \in [Subscribers -> Channels]
  /\ seen \in [Subscribers -> Readers]
  /\ fwd \in Forwarders
  /\ polled \in SUBSET Ids /\ atHome \in SUBSET Ids
  /\ excused \in SUBSET Ids /\ handled \in SUBSET Ids
  /\ budget \in [toggles : Nat, errors : Nat]

-----------------------------------------------------------------------------
(* The inductive invariant *)

\* The worker holds a record, and the forwarder that requeues has one left.
HolderInv ==
  /\ mgr.worker \in {"handle", "publish", "enqueue"} => mgr.item \in Ids
  /\ fwd.requeue => fwd.items # <<>>

\* A buffer is never over its limit, and a subscriber that has not come yet
\* has nothing.
SubscriberOK(u) ==
  /\ Len(chan[u].buf) <= Buffer
  /\ seen[u].state = "none" => u \notin subs /\ chan[u].buf = <<>> /\ seen[u].got = <<>>

SubscriberInv == \A u \in Subscribers : SubscriberOK(u)

IInv == TypeOK /\ HolderInv /\ SubscriberInv /\ Conserved /\ SubscriberSeesNoGap
-----------------------------------------------------------------------------
(* What the elements of a sequence are *)

LEMMA ElementsAreIn ==
  ASSUME NEW S, NEW s \in Seq(S)
  PROVE  ToSet(s) = {s[i] : i \in 1..Len(s)} /\ ToSet(s) \subseteq S
  BY DEF ToSet

LEMMA ElementsOfAppend ==
  ASSUME NEW S, NEW s \in Seq(S), NEW e \in S
  PROVE  ToSet(Append(s, e)) = ToSet(s) \cup {e}
<1>1. Append(s, e) \in Seq(S) /\ Len(Append(s, e)) = Len(s) + 1 /\ Len(s) \in Nat
  BY AppendProperties
<1>2. ToSet(Append(s, e)) = {Append(s, e)[i] : i \in 1..(Len(s) + 1)}
  BY <1>1, ElementsAreIn
<1>3. \A i \in 1..Len(s) : Append(s, e)[i] = s[i]
  BY AppendProperties
<1>4. Append(s, e)[Len(s) + 1] = e
  BY AppendProperties
<1>5. 1..(Len(s) + 1) = (1..Len(s)) \cup {Len(s) + 1}
  BY <1>1
<1>6. {Append(s, e)[i] : i \in 1..(Len(s) + 1)} =
        {Append(s, e)[i] : i \in 1..Len(s)} \cup {Append(s, e)[Len(s) + 1]}
  BY <1>5, Zenon
<1>7. {Append(s, e)[i] : i \in 1..Len(s)} = {s[i] : i \in 1..Len(s)}
  BY <1>3, Zenon
<1> QED
  BY <1>2, <1>4, <1>6, <1>7, ElementsAreIn

LEMMA ElementsOfTail ==
  ASSUME NEW S, NEW s \in Seq(S), s # <<>>
  PROVE  ToSet(s) = ToSet(Tail(s)) \cup {Head(s)} /\ Tail(s) \in Seq(S) /\ Head(s) \in S
<1>1. Len(s) \in Nat \ {0}
  BY EmptySeq
<1>2. /\ Tail(s) \in Seq(S) /\ Head(s) \in S /\ Len(Tail(s)) = Len(s) - 1
      /\ \A i \in 1..Len(Tail(s)) : Tail(s)[i] = s[i + 1]
  BY HeadTailProperties
<1>3. Head(s) = s[1]
  BY <1>1
<1>4. ToSet(Tail(s)) = {s[i + 1] : i \in 1..(Len(s) - 1)}
  <2>1. ToSet(Tail(s)) = {Tail(s)[i] : i \in 1..Len(Tail(s))}
    BY <1>2, ElementsAreIn
  <2>2. {Tail(s)[i] : i \in 1..Len(Tail(s))} = {s[i + 1] : i \in 1..Len(Tail(s))}
    BY <1>2, Zenon
  <2> QED
    BY <1>2, <2>1, <2>2
<1>5. ASSUME NEW x \in ToSet(s) PROVE x \in ToSet(Tail(s)) \cup {Head(s)}
  <2>1. PICK i \in 1..Len(s) : x = s[i]
    BY <1>5, ElementsAreIn
  <2>2. CASE i = 1
    BY <2>1, <2>2, <1>3
  <2>3. CASE i # 1
    <3>1. i - 1 \in 1..(Len(s) - 1) /\ (i - 1) + 1 = i
      BY <1>1, <2>3
    <3> QED
      BY <1>4, <2>1, <3>1
  <2> QED
    BY <2>2, <2>3
<1>6. ASSUME NEW x \in ToSet(Tail(s)) \cup {Head(s)} PROVE x \in ToSet(s)
  BY <1>1, <1>3, <1>4, ElementsAreIn
<1> QED
  BY <1>2, <1>5, <1>6

LEMMA TailNotEmpty ==
  ASSUME NEW S, NEW s \in Seq(S), Len(s) > 1
  PROVE  Tail(s) # <<>>
<1> DEFINE n == Len(s)
           m == Len(Tail(s))
<1>1. s # <<>> /\ n \in Nat
  BY EmptySeq
<1>2. m = n - 1
  BY <1>1, HeadTailProperties
<1>3. n > 1
  OBVIOUS
<1>4. \A t : t = <<>> => Len(t) = 0
  BY EmptySeq, Zenon
<1>5. Tail(s) = <<>> => m = 0
  BY <1>4, Zenon
<1> HIDE DEF n, m
<1>6. m # 0
  BY <1>1, <1>2, <1>3
<1> QED
  BY <1>5, <1>6

\* A sequence cut in two keeps its elements.
LEMMA ElementsOfCut ==
  ASSUME NEW S, NEW s \in Seq(S), NEW k \in 0..Len(s)
  PROVE  /\ SubSeq(s, 1, k) \in Seq(S) /\ SubSeq(s, k + 1, Len(s)) \in Seq(S)
         /\ Len(SubSeq(s, k + 1, Len(s))) = Len(s) - k
         /\ ToSet(s) = ToSet(SubSeq(s, 1, k)) \cup ToSet(SubSeq(s, k + 1, Len(s)))
<1>1. Len(s) \in Nat /\ \A i \in 1..Len(s) : s[i] \in S
  BY LenProperties
<1> DEFINE a == SubSeq(s, 1, k)
           b == SubSeq(s, k + 1, Len(s))
<1>2. /\ a \in Seq(S) /\ Len(a) = k /\ \A i \in 1..k : a[i] = s[i]
  <2>1. /\ SubSeq(s, 1, k) \in Seq(S)
        /\ Len(SubSeq(s, 1, k)) = IF 1 <= k THEN k - 1 + 1 ELSE 0
        /\ \A i \in 1..(k - 1 + 1) : SubSeq(s, 1, k)[i] = s[1 + i - 1]
    BY <1>1, SubSeqProperties
  <2> QED
    BY <1>1, <2>1
<1>3. /\ b \in Seq(S) /\ Len(b) = Len(s) - k /\ \A i \in 1..(Len(s) - k) : b[i] = s[k + i]
  <2>1. k + 1 \in Int /\ Len(s) \in Int /\ \A i \in (k + 1)..Len(s) : s[i] \in S
    BY <1>1
  <2>2. /\ SubSeq(s, k + 1, Len(s)) \in Seq(S)
        /\ Len(SubSeq(s, k + 1, Len(s))) =
              IF k + 1 <= Len(s) THEN Len(s) - (k + 1) + 1 ELSE 0
        /\ \A i \in 1..(Len(s) - (k + 1) + 1) :
              SubSeq(s, k + 1, Len(s))[i] = s[(k + 1) + i - 1]
    BY <2>1, SubSeqProperties
  <2> QED
    BY <1>1, <2>2
<1> HIDE DEF a, b
<1>4. ToSet(a) = {a[i] : i \in 1..k} /\ ToSet(b) = {b[i] : i \in 1..(Len(s) - k)}
  BY <1>2, <1>3, ElementsAreIn
<1>5. ASSUME NEW x \in ToSet(s) PROVE x \in ToSet(a) \cup ToSet(b)
  <2>1. PICK i \in 1..Len(s) : x = s[i]
    BY ElementsAreIn
  <2>2. CASE i <= k
    BY <1>1, <1>2, <1>4, <2>1, <2>2
  <2>3. CASE ~(i <= k)
    <3>1. i - k \in 1..(Len(s) - k) /\ k + (i - k) = i
      BY <1>1, <2>3
    <3>2. b[i - k] = x
      BY <1>3, <2>1, <3>1
    <3> QED
      BY <1>4, <3>1, <3>2
  <2> QED
    BY <2>2, <2>3
<1>6. ASSUME NEW x \in ToSet(a) PROVE x \in ToSet(s)
  <2>1. PICK i \in 1..k : x = s[i]
    BY <1>2, <1>4
  <2>2. i \in 1..Len(s)
    BY <1>1
  <2> QED
    BY <2>1, <2>2, ElementsAreIn
<1>7. ASSUME NEW x \in ToSet(b) PROVE x \in ToSet(s)
  <2>1. PICK i \in 1..(Len(s) - k) : x = s[k + i]
    BY <1>3, <1>4
  <2>2. k + i \in 1..Len(s)
    BY <1>1
  <2> QED
    BY <2>1, <2>2, ElementsAreIn
<1>8. ToSet(s) = ToSet(a) \cup ToSet(b)
  BY <1>5, <1>6, <1>7
<1> QED
  BY <1>2, <1>3, <1>8 DEF a, b

\* pruneLocked keeps what it does not excuse.
LEMMA PrunedItems ==
  ASSUME items \in Seq(Ids), excused \in SUBSET Ids, NEW k \in 0..Len(items)
  PROVE  /\ pruned(k) \in Seq(Ids) /\ Len(pruned(k)) = Len(items) - k
         /\ prune(k) \in SUBSET Ids /\ excused \subseteq prune(k)
         /\ ToSet(items) \subseteq ToSet(pruned(k)) \cup prune(k)
<1>1. /\ SubSeq(items, 1, k) \in Seq(Ids) /\ pruned(k) \in Seq(Ids)
      /\ Len(pruned(k)) = Len(items) - k
      /\ ToSet(items) = ToSet(SubSeq(items, 1, k)) \cup ToSet(pruned(k))
  BY ElementsOfCut DEF pruned
<1>2. ToSet(SubSeq(items, 1, k)) \subseteq Ids
  BY <1>1, ElementsAreIn
<1> QED
  BY <1>1, <1>2 DEF prune

\* PopOldest splits what is left.
LEMMA PoppedItems ==
  ASSUME items \in Seq(Ids), excused \in SUBSET Ids, NEW k \in 0..Len(items), NEW n \in Nat,
         n <= Len(items) - k
  PROVE  /\ popped(k, n) \in Seq(Ids) /\ left(k, n) \in Seq(Ids)
         /\ ToSet(items) \subseteq ToSet(popped(k, n)) \cup ToSet(left(k, n)) \cup prune(k)
<1>1. /\ pruned(k) \in Seq(Ids) /\ Len(pruned(k)) = Len(items) - k
      /\ ToSet(items) \subseteq ToSet(pruned(k)) \cup prune(k)
  BY PrunedItems
<1>2. n \in 0..Len(pruned(k))
  BY <1>1
<1>3. /\ SubSeq(pruned(k), 1, n) \in Seq(Ids)
      /\ SubSeq(pruned(k), n + 1, Len(pruned(k))) \in Seq(Ids)
      /\ ToSet(pruned(k)) =
           ToSet(SubSeq(pruned(k), 1, n)) \cup ToSet(SubSeq(pruned(k), n + 1, Len(pruned(k))))
  BY <1>1, <1>2, ElementsOfCut
<1> QED
  BY <1>1, <1>3 DEF popped, left

-----------------------------------------------------------------------------
(* The records of a subscriber and the log *)

LEMMA RecordsFinite ==
  ASSUME NEW s, NEW i \in Nat
  PROVE  IsFiniteSet(recordsUpTo(s, i)) /\ Cardinality(recordsUpTo(s, i)) \in Nat
<1>1. IsFiniteSet(1..i)
  BY FS_Interval
<1>2. recordsUpTo(s, i) \in SUBSET (1..i)
  BY DEF recordsUpTo
<1> QED
  BY <1>1, <1>2, FS_Subset, FS_CardinalityType

\* A payload that comes later changes no place before it.
LEMMA PlaceOfAppend ==
  ASSUME NEW s \in Seq(Nat), NEW p \in Nat, NEW from \in Nat, NEW i \in 0..Len(s)
  PROVE  place(Append(s, p), from, i) = place(s, from, i) /\ place(s, from, i) \in Nat
<1>1. Len(s) \in Nat /\ i \in Nat /\ \A j \in 1..i : Append(s, p)[j] = s[j]
  BY AppendProperties
<1>2. recordsUpTo(Append(s, p), i) = recordsUpTo(s, i)
  BY <1>1 DEF recordsUpTo
<1> QED
  BY <1>1, <1>2, RecordsFinite DEF place

\* The place of a new payload: the next one for a record, none for a refresh.
LEMMA PlaceOfNew ==
  ASSUME NEW s \in Seq(Nat), NEW p \in Nat, NEW from \in Nat
  PROVE  place(Append(s, p), from, Len(s) + 1) =
           IF IsRecord(p) THEN place(s, from, Len(s)) + 1 ELSE place(s, from, Len(s))
<1>1. Len(s) \in Nat /\ \A j \in 1..Len(s) : Append(s, p)[j] = s[j]
  BY AppendProperties
<1>2. Append(s, p)[Len(s) + 1] = p
  BY AppendProperties
<1> DEFINE old == recordsUpTo(s, Len(s))
           new == recordsUpTo(Append(s, p), Len(s) + 1)
<1>3. IsFiniteSet(old) /\ Cardinality(old) \in Nat
  BY <1>1, RecordsFinite
<1>4. Len(s) + 1 \notin old
  BY <1>1 DEF recordsUpTo
<1>5. \A j \in 1..(Len(s) + 1) : j \in 1..Len(s) \/ j = Len(s) + 1
  BY <1>1
<1>6. 1..Len(s) \subseteq 1..(Len(s) + 1) /\ Len(s) + 1 \in 1..(Len(s) + 1)
  BY <1>1
<1>7. CASE IsRecord(p)
  <2>1. new = old \cup {Len(s) + 1}
    BY <1>1, <1>2, <1>5, <1>6, <1>7 DEF recordsUpTo
  <2>2. Cardinality(old \cup {Len(s) + 1}) = Cardinality(old) + 1
    BY <1>3, <1>4, FS_AddElement
  <2> HIDE DEF old, new
  <2>3. place(Append(s, p), from, Len(s) + 1) = from + Cardinality(new)
    BY DEF place, new
  <2>4. place(s, from, Len(s)) = from + Cardinality(old)
    BY DEF place, old
  <2> QED
    BY <1>3, <1>7, <2>1, <2>2, <2>3, <2>4
<1>8. CASE ~IsRecord(p)
  <2>1. new = old
    BY <1>1, <1>2, <1>5, <1>6, <1>8 DEF recordsUpTo
  <2> QED
    BY <2>1, <1>8 DEF place
<1> QED
  BY <1>7, <1>8

\* The log grows without the subscriber.
LEMMA FollowsLongerLog ==
  ASSUME NEW s \in Seq(Nat), NEW from \in Nat, NEW l \in Seq(Ids), NEW p \in Ids,
         follows(s, from, l)
  PROVE  follows(s, from, Append(l, p))
<1>1. Len(l) \in Nat /\ Len(Append(l, p)) = Len(l) + 1
  BY AppendProperties
<1>2. \A j \in 1..Len(l) : Append(l, p)[j] = l[j] /\ j \in 1..Len(Append(l, p))
  BY <1>1, AppendProperties
<1> QED
  BY <1>2 DEF follows

\* A record that the log and the subscriber get.
LEMMA FollowsRecord ==
  ASSUME NEW s \in Seq(Nat), NEW from \in Nat, NEW l \in Seq(Ids), NEW p \in Ids,
         follows(s, from, l), caughtUp(s, from, l)
  PROVE  follows(Append(s, p), from, Append(l, p)) /\ caughtUp(Append(s, p), from, Append(l, p))
<1>1. Len(s) \in Nat /\ Len(l) \in Nat /\ p \in Nat /\ IsRecord(p)
  BY DEF Ids, IsRecord, Refresh
<1>2. /\ Len(Append(s, p)) = Len(s) + 1 /\ Append(s, p)[Len(s) + 1] = p
      /\ \A j \in 1..Len(s) : Append(s, p)[j] = s[j]
  BY <1>1, AppendProperties
<1>3. Len(Append(l, p)) = Len(l) + 1 /\ Append(l, p)[Len(l) + 1] = p
  BY AppendProperties
<1>4. place(Append(s, p), from, Len(s) + 1) = Len(l) + 1
  BY <1>1, PlaceOfNew DEF caughtUp
<1>5. follows(s, from, Append(l, p))
  BY FollowsLongerLog
<1>6. ASSUME NEW i \in 1..Len(Append(s, p)), IsRecord(Append(s, p)[i])
      PROVE  /\ place(Append(s, p), from, i) \in 1..Len(Append(l, p))
             /\ Append(s, p)[i] = Append(l, p)[place(Append(s, p), from, i)]
  <2>1. CASE i = Len(s) + 1
    BY <1>1, <1>2, <1>3, <1>4, <2>1
  <2>2. CASE i # Len(s) + 1
    <3>1. i \in 1..Len(s) /\ i \in 0..Len(s)
      BY <1>1, <1>2, <2>2
    <3>2. place(Append(s, p), from, i) = place(s, from, i)
      BY <1>1, <3>1, PlaceOfAppend
    <3>3. Append(s, p)[i] = s[i]
      BY <1>2, <3>1
    <3> QED
      BY <1>5, <1>6, <3>1, <3>2, <3>3 DEF follows
  <2> QED
    BY <2>1, <2>2
<1>7. follows(Append(s, p), from, Append(l, p))
  BY <1>6 DEF follows
<1> QED
  BY <1>2, <1>3, <1>4, <1>7 DEF caughtUp

\* A payload that is not a record changes nothing.
LEMMA FollowsRefresh ==
  ASSUME NEW s \in Seq(Nat), NEW from \in Nat, NEW l \in Seq(Ids),
         follows(s, from, l)
  PROVE  /\ follows(Append(s, Refresh), from, l)
         /\ caughtUp(s, from, l) => caughtUp(Append(s, Refresh), from, l)
<1>1. Len(s) \in Nat /\ Refresh \in Nat /\ ~IsRecord(Refresh)
  BY DEF IsRecord, Refresh
<1>2. /\ Len(Append(s, Refresh)) = Len(s) + 1 /\ Append(s, Refresh)[Len(s) + 1] = Refresh
      /\ \A j \in 1..Len(s) : Append(s, Refresh)[j] = s[j]
  BY <1>1, AppendProperties
<1>3. place(Append(s, Refresh), from, Len(s) + 1) = place(s, from, Len(s))
  BY <1>1, PlaceOfNew
<1>4. ASSUME NEW i \in 1..Len(Append(s, Refresh)), IsRecord(Append(s, Refresh)[i])
      PROVE  /\ place(Append(s, Refresh), from, i) \in 1..Len(l)
             /\ Append(s, Refresh)[i] = l[place(Append(s, Refresh), from, i)]
  <2>1. i # Len(s) + 1
    BY <1>1, <1>2, <1>4
  <2>2. i \in 1..Len(s) /\ i \in 0..Len(s)
    BY <1>1, <1>2, <2>1
  <2>3. place(Append(s, Refresh), from, i) = place(s, from, i)
    BY <1>1, <2>2, PlaceOfAppend
  <2>4. Append(s, Refresh)[i] = s[i]
    BY <1>2, <2>2
  <2> QED
    BY <1>4, <2>2, <2>3, <2>4 DEF follows
<1>5. follows(Append(s, Refresh), from, l)
  BY <1>4 DEF follows
<1> QED
  BY <1>2, <1>3, <1>5 DEF caughtUp

\* What a subscriber has got, and what its buffer still holds.
LEMMA PayloadsOfAppend ==
  ASSUME NEW g \in Seq(Nat), NEW b \in Seq(Nat), NEW p \in Nat
  PROVE  g \o Append(b, p) = Append(g \o b, p) /\ g \o b \in Seq(Nat)
<1>1. Append(b, p) = b \o <<p>> /\ <<p>> \in Seq(Nat) /\ g \o b \in Seq(Nat)
  BY AppendIsConcat, ConcatProperties
<1>2. (g \o b) \o <<p>> = g \o (b \o <<p>>)
  BY <1>1, ConcatAssociative
<1>3. Append(g \o b, p) = (g \o b) \o <<p>>
  BY <1>1, AppendIsConcat
<1> QED
  BY <1>1, <1>2, <1>3

LEMMA PayloadsOfReceive ==
  ASSUME NEW g \in Seq(Nat), NEW b \in Seq(Nat), b # <<>>
  PROVE  Append(g, Head(b)) \o Tail(b) = g \o b
<1>1. Head(b) \in Nat /\ Tail(b) \in Seq(Nat) /\ <<Head(b)>> \in Seq(Nat)
  BY HeadTailProperties
<1>2. Append(g, Head(b)) = g \o <<Head(b)>>
  BY <1>1, AppendIsConcat
<1>3. (g \o <<Head(b)>>) \o Tail(b) = g \o (<<Head(b)>> \o Tail(b))
  BY <1>1, ConcatAssociative
<1>4. <<Head(b)>> \o Tail(b) = b
  <2>1. Len(b) \in Nat \ {0}
    BY EmptySeq
  <2>2. 1 \in 1..Len(b) /\ Len(b) \in 1..Len(b)
    BY <2>1
  <2>3. SubSeq(b, 1, Len(b)) = <<b[1]>> \o SubSeq(b, 2, Len(b))
    BY <2>2, SubSeqRecursiveFirst
  <2>4. SubSeq(b, 1, Len(b)) = b /\ Tail(b) = SubSeq(b, 2, Len(b)) /\ Head(b) = b[1]
    BY <2>1, SubSeqFull, TailIsSubSeq
  <2> QED
    BY <2>3, <2>4
<1> QED
  BY <1>2, <1>3, <1>4
-----------------------------------------------------------------------------
(* Where a record is *)

AtSubscriber(r) ==
  \E u \in Subscribers : r \in ToSet(seen[u].got) \/ r \in ToSet(chan[u].buf)

Placed(r) ==
  \/ r \in ToSet(mgr.queue) \/ r \in InFlight \/ r \in ToSet(items) \/ r \in ToSet(fwd.items)
  \/ r \in polled \/ r \in atHome \/ r \in excused \/ AtSubscriber(r)

AllPlaced == \A r \in 1..next : Placed(r)

LEMMA ConservedMeansPlaced == Conserved <=> AllPlaced
<1>1. ASSUME NEW r PROVE r \in Held \cup excused <=> Placed(r)
  <2> DEFINE theirs == UNION {ToSet(seen[u].got) \cup ToSet(chan[u].buf) : u \in Subscribers}
  <2>1. r \in theirs <=> AtSubscriber(r)
    BY DEF AtSubscriber
  <2>2. Held = ToSet(mgr.queue) \cup InFlight \cup ToSet(items) \cup ToSet(fwd.items)
                 \cup polled \cup atHome \cup theirs
    BY DEF Held
  <2> HIDE DEF theirs
  <2> QED
    BY <2>1, <2>2, Zenon DEF Placed
<1> QED
  BY <1>1, Zenon DEF Conserved, AllPlaced

\* What the payloads of one subscriber have to satisfy.
NoGapFor(u) ==
  seen[u].state \in {"on", "ended"} =>
    /\ follows(seen[u].got \o chan[u].buf, seen[u].from, log)
    /\ u \in subs => caughtUp(seen[u].got \o chan[u].buf, seen[u].from, log)

AllSeeNoGap == \A u \in Subscribers : NoGapFor(u)

LEMMA NoGapPerSubscriber == SubscriberSeesNoGap <=> AllSeeNoGap
  BY Zenon DEF SubscriberSeesNoGap, AllSeeNoGap, NoGapFor

\* The invariant, put together again.
LEMMA InvariantFromParts ==
  ASSUME TypeOK', HolderInv', \A u \in Subscribers : SubscriberOK(u)' /\ NoGapFor(u)',
         \A r \in 1..next' : Placed(r)'
  PROVE  IInv'
<1>1. Conserved' <=> AllPlaced'
  BY ConservedMeansPlaced, PTL
<1>2. SubscriberSeesNoGap' <=> AllSeeNoGap'
  BY NoGapPerSubscriber, PTL
<1>3. AllPlaced' /\ AllSeeNoGap' /\ SubscriberInv'
  BY DEF AllPlaced, AllSeeNoGap, SubscriberInv
<1> QED
  BY <1>1, <1>2, <1>3 DEF IInv

\* A step that leaves the subscribers alone.
LEMMA SubscribersAlone ==
  ASSUME IInv, UNCHANGED <<seen, chan, subs, log>>
  PROVE  /\ \A u \in Subscribers : SubscriberOK(u)' /\ NoGapFor(u)'
         /\ \A r : AtSubscriber(r) => AtSubscriber(r)'
<1>1. \A u \in Subscribers : SubscriberOK(u) /\ NoGapFor(u)
  BY NoGapPerSubscriber DEF IInv, SubscriberInv, AllSeeNoGap
<1>2. ASSUME NEW u \in Subscribers PROVE SubscriberOK(u)' /\ NoGapFor(u)'
  BY <1>1, Zenon DEF SubscriberOK, NoGapFor
<1>3. ASSUME NEW r, AtSubscriber(r) PROVE AtSubscriber(r)'
  BY <1>3, Zenon DEF AtSubscriber
<1> QED
  BY <1>2, <1>3

-----------------------------------------------------------------------------
(* The records of the model keep their types *)

Workers == {"none", "check", "wait", "handle", "publish", "enqueue", "exit"}

LEMMA WorkerField ==
  ASSUME NEW m \in Managers, NEW w \in Workers
  PROVE  /\ [m EXCEPT !.worker = w] \in Managers
         /\ [m EXCEPT !.worker = w].worker = w
         /\ [m EXCEPT !.worker = w].queue = m.queue
         /\ [m EXCEPT !.worker = w].item = m.item
  BY Zenon DEF Managers, Workers

LEMMA StartedType ==
  ASSUME NEW m \in Managers
  PROVE  /\ started(m) \in Managers /\ started(m).queue = m.queue /\ started(m).item = m.item
         /\ started(m).worker = IF m.worker = "none" THEN "check" ELSE m.worker
<1>1. "check" \in Workers
  BY DEF Workers
<1>2. CASE m.worker = "none"
  BY <1>1, <1>2, WorkerField DEF started
<1>3. CASE m.worker # "none"
  BY <1>3 DEF started
<1> QED
  BY <1>2, <1>3

\* Changes of the manager that keep what is in flight.
LEMMA ManagerStep ==
  ASSUME IInv, mgr' \in Managers, signals' \in Nat, next' \in Nat,
         UNCHANGED <<home, queueVars, readerVars, budget, excused, handled>>,
         HolderInv',
         \A r : r \in ToSet(mgr.queue) => r \in ToSet(mgr'.queue) \/ r \in InFlight',
         \A r \in InFlight : r \in InFlight',
         next' = next \/ (next' = next + 1 /\ next + 1 \in ToSet(mgr'.queue))
  PROVE  IInv'
<1>1. TypeOK'
  BY DEF IInv, TypeOK, queueVars, readerVars
<1>2. UNCHANGED <<seen, chan, subs, log, items, fwd, polled, atHome, excused>>
  BY DEF queueVars, readerVars
<1>3. /\ \A u \in Subscribers : SubscriberOK(u)' /\ NoGapFor(u)'
      /\ \A r : AtSubscriber(r) => AtSubscriber(r)'
  BY <1>2, SubscribersAlone
<1>4. ASSUME NEW r, Placed(r) PROVE Placed(r)'
  <2>1. /\ ToSet(items)' = ToSet(items) /\ ToSet(fwd.items)' = ToSet(fwd.items)
        /\ ToSet(mgr.queue)' = ToSet(mgr'.queue)
    BY <1>2
  <2> QED
    BY <1>2, <1>3, <1>4, <2>1, Zenon DEF Placed
<1>5. ASSUME NEW r \in 1..next' PROVE Placed(r)'
  <2>1. next \in Nat /\ \A q \in 1..next : Placed(q)
    BY ConservedMeansPlaced DEF IInv, TypeOK, AllPlaced
  <2>2. r \in 1..next \/ (r = next + 1 /\ r \in ToSet(mgr'.queue))
    BY <2>1
  <2>3. CASE r \in 1..next
    BY <2>1, <2>3, <1>4
  <2>4. CASE r \in ToSet(mgr'.queue)
    BY <2>4, Zenon DEF Placed
  <2> QED
    BY <2>2, <2>3, <2>4
<1> QED
  BY <1>1, <1>3, <1>5, InvariantFromParts

LEMMA StartStep ==
  ASSUME IInv, Start
  PROVE  IInv'
<1>1. /\ mgr \in Managers /\ mgr' = started(mgr) /\ mgr.worker = "none"
      /\ UNCHANGED <<home, signals, next, queueVars, readerVars, budget, excused, handled>>
      /\ signals \in Nat /\ next \in Nat
  BY DEF IInv, TypeOK, Start
<1>2. /\ mgr' \in Managers /\ mgr'.queue = mgr.queue /\ mgr'.worker = "check"
  BY <1>1, StartedType
<1>3. HolderInv' /\ InFlight = {}
  BY <1>1, <1>2 DEF IInv, HolderInv, InFlight, readerVars
<1> QED
  BY <1>1, <1>2, <1>3, ManagerStep

LEMMA PublishStep ==
  ASSUME IInv, Publish
  PROVE  IInv'
<1>1. /\ mgr \in Managers /\ signals \in Nat /\ next \in Nat
      /\ UNCHANGED <<home, queueVars, readerVars, budget, excused, handled>>
  BY DEF IInv, TypeOK, Publish
<1> DEFINE m == started(mgr)
<1>2. /\ m \in Managers /\ m.queue = mgr.queue /\ m.item = mgr.item
      /\ m.worker = IF mgr.worker = "none" THEN "check" ELSE mgr.worker
  BY <1>1, StartedType
<1>3. mgr.queue \in Seq(Ids) /\ next + 1 \in Ids
  BY <1>1 DEF Managers, Ids
<1>4. /\ Append(mgr.queue, next + 1) \in Seq(Ids)
      /\ ToSet(Append(mgr.queue, next + 1)) = ToSet(mgr.queue) \cup {next + 1}
  BY <1>3, AppendProperties, ElementsOfAppend
<1> DEFINE q == [m EXCEPT !.queue = Append(mgr.queue, next + 1)]
<1> HIDE DEF m
<1>5. /\ q \in Managers /\ q.queue = Append(mgr.queue, next + 1) /\ q.item = m.item
      /\ q.worker = m.worker
  BY <1>2, <1>4, Zenon DEF Managers
<1>6. \/ mgr' = m /\ next' = next /\ signals' = signals
      \/ mgr' = q /\ next' = next + 1 /\ signals' = signals + 1
  BY <1>2 DEF Publish, m
<1> HIDE DEF q
<1>7. mgr' \in Managers /\ mgr'.item = mgr.item /\ mgr'.worker = m.worker
  BY <1>2, <1>5, <1>6
<1>8. HolderInv'
  BY <1>1, <1>2, <1>7 DEF IInv, HolderInv, readerVars
<1>9. InFlight' = InFlight
  BY <1>2, <1>7 DEF InFlight
<1>10. /\ ToSet(mgr.queue) \subseteq ToSet(mgr'.queue)
       /\ next' = next \/ (next' = next + 1 /\ next + 1 \in ToSet(mgr'.queue))
  BY <1>2, <1>4, <1>5, <1>6
<1>11. signals' \in Nat /\ next' \in Nat
  BY <1>1, <1>6
<1> QED
  BY <1>1, <1>7, <1>8, <1>9, <1>10, <1>11, ManagerStep

LEMMA StopStep ==
  ASSUME IInv, Stop
  PROVE  IInv'
<1> DEFINE q == [mgr EXCEPT !.closed = TRUE]
<1>1. /\ mgr \in Managers /\ signals \in Nat /\ next \in Nat /\ mgr' = q
      /\ UNCHANGED <<home, next, queueVars, readerVars, budget, excused, handled>>
      /\ signals' \in Nat
  BY DEF IInv, TypeOK, Stop
<1>2. q \in Managers /\ q.queue = mgr.queue /\ q.item = mgr.item /\ q.worker = mgr.worker
  BY <1>1, Zenon DEF Managers
<1> HIDE DEF q
<1>3. HolderInv' /\ InFlight' = InFlight
  BY <1>1, <1>2 DEF IInv, HolderInv, InFlight, readerVars
<1> QED
  BY <1>1, <1>2, <1>3, ManagerStep

LEMMA SignalStep ==
  ASSUME IInv, Signal
  PROVE  IInv'
<1> DEFINE w == IF mgr.worker = "wait" THEN "check" ELSE mgr.worker
           q == [mgr EXCEPT !.worker = w]
<1>1. /\ mgr \in Managers /\ signals \in Nat /\ next \in Nat /\ mgr' = q
      /\ UNCHANGED <<home, next, queueVars, readerVars, budget, excused, handled>>
      /\ signals' \in Nat
  BY DEF IInv, TypeOK, Signal
<1>2. w \in Workers
  BY <1>1 DEF Managers, Workers
<1>3. q \in Managers /\ q.queue = mgr.queue /\ q.item = mgr.item /\ q.worker = w
  BY <1>1, <1>2, WorkerField
<1> HIDE DEF q
<1>4. HolderInv' /\ InFlight' = InFlight
  BY <1>1, <1>3 DEF IInv, HolderInv, InFlight, readerVars
<1> QED
  BY <1>1, <1>3, <1>4, ManagerStep

LEMMA WorkerCheckStep ==
  ASSUME IInv, WorkerCheck
  PROVE  IInv'
<1>1. /\ mgr \in Managers /\ signals \in Nat /\ next \in Nat /\ mgr.worker = "check"
      /\ UNCHANGED <<home, signals, next, queueVars, readerVars, budget, excused, handled>>
      /\ InFlight = {}
  BY DEF IInv, TypeOK, WorkerCheck, InFlight
<1>2. ASSUME NEW w \in {"exit", "wait"}, mgr' = [mgr EXCEPT !.worker = w]
      PROVE  IInv'
  <2>1. w \in Workers
    BY DEF Workers
  <2>2. mgr' \in Managers /\ mgr'.queue = mgr.queue /\ mgr'.worker = w
    BY <1>1, <1>2, <2>1, WorkerField
  <2>3. HolderInv'
    BY <1>1, <2>2 DEF IInv, HolderInv, readerVars
  <2> QED
    BY <1>1, <2>2, <2>3, ManagerStep
<1>3. CASE mgr.queue = <<>>
  BY <1>2, <1>3 DEF WorkerCheck, workerEnds
<1>4. CASE mgr.queue # <<>>
  <2> DEFINE q == [mgr EXCEPT !.worker = "handle", !.item = Head(mgr.queue),
                              !.queue = Tail(mgr.queue)]
  <2>1. mgr' = q
    BY <1>4 DEF WorkerCheck, workerEnds
  <2>2. mgr.queue \in Seq(Ids)
    BY <1>1 DEF Managers
  <2>3. /\ ToSet(mgr.queue) = ToSet(Tail(mgr.queue)) \cup {Head(mgr.queue)}
        /\ Tail(mgr.queue) \in Seq(Ids) /\ Head(mgr.queue) \in Ids
    BY <1>4, <2>2, ElementsOfTail
  <2>4. Head(mgr.queue) \in Nat
    BY <2>3 DEF Ids
  <2>5. /\ q \in Managers /\ q.worker = "handle" /\ q.item = Head(mgr.queue)
        /\ q.queue = Tail(mgr.queue)
    BY <1>1, <2>3, <2>4, Zenon DEF Managers
  <2> HIDE DEF q
  <2>6. HolderInv'
    BY <1>1, <2>1, <2>3, <2>5 DEF IInv, HolderInv, readerVars
  <2>7. InFlight' = {Head(mgr.queue)}
    BY <2>1, <2>5 DEF InFlight
  <2> QED
    BY <1>1, <2>1, <2>3, <2>5, <2>6, <2>7, ManagerStep
<1> QED
  BY <1>3, <1>4
-----------------------------------------------------------------------------
(* The backlog, the pollers and the forwarder *)

\* A step that leaves the subscribers alone and loses no record.
LEMMA BacklogStep ==
  ASSUME IInv, UNCHANGED <<home, signals, next, seen, chan, subs, log>>,
         mgr' \in Managers, enabled' \in [on : BOOLEAN, clearing : BOOLEAN],
         items' \in Seq(Ids), fwd' \in Forwarders, polled' \in SUBSET Ids,
         atHome' \in SUBSET Ids, excused' \in SUBSET Ids, handled' \in SUBSET Ids,
         budget' \in [toggles : Nat, errors : Nat], HolderInv',
         ToSet(mgr.queue) \subseteq ToSet(mgr'.queue),
         InFlight \cup ToSet(items) \cup ToSet(fwd.items) \cup polled \cup atHome \cup excused
           \subseteq InFlight' \cup ToSet(items') \cup ToSet(fwd'.items) \cup polled'
                       \cup atHome' \cup excused'
  PROVE  IInv'
<1>1. TypeOK'
  BY DEF IInv, TypeOK
<1>2. /\ \A u \in Subscribers : SubscriberOK(u)' /\ NoGapFor(u)'
      /\ \A r : AtSubscriber(r) => AtSubscriber(r)'
  BY SubscribersAlone
<1>3. ASSUME NEW r, Placed(r) PROVE Placed(r)'
  <2>1. AtSubscriber(r) => AtSubscriber(r)'
    BY <1>2
  <2>2. r \in ToSet(mgr.queue) => r \in ToSet(mgr'.queue)
    BY Zenon
  <2>3. \/ r \in InFlight \/ r \in ToSet(items) \/ r \in ToSet(fwd.items)
        \/ r \in polled \/ r \in atHome \/ r \in excused
        => \/ r \in InFlight' \/ r \in ToSet(items') \/ r \in ToSet(fwd'.items)
           \/ r \in polled' \/ r \in atHome' \/ r \in excused'
    BY Zenon
  <2> QED
    BY <1>3, <2>1, <2>2, <2>3, Zenon DEF Placed
<1>4. \A r \in 1..next' : Placed(r)'
  BY <1>3, ConservedMeansPlaced DEF IInv, AllPlaced
<1> QED
  BY <1>1, <1>2, <1>4, InvariantFromParts

LEMMA HandleUsageStep ==
  ASSUME IInv, HandleUsage
  PROVE  IInv'
<1> DEFINE w == IF enabled.on THEN "publish" ELSE "check"
<1>1. /\ mgr \in Managers /\ mgr.worker = "handle" /\ mgr' = [mgr EXCEPT !.worker = w]
      /\ handled' = handled \cup {mgr.item} /\ mgr.item \in Ids
      /\ excused' = (IF enabled.on THEN excused ELSE excused \cup {mgr.item})
      /\ UNCHANGED <<home, signals, next, seen, chan, subs, log, enabled, items, fwd, polled,
                     atHome, budget>>
  BY DEF IInv, TypeOK, HolderInv, HandleUsage, queueVars, readerVars
<1>2. w \in Workers
  BY DEF Workers
<1>3. /\ mgr' \in Managers /\ mgr'.queue = mgr.queue /\ mgr'.item = mgr.item
      /\ mgr'.worker = w
  BY <1>1, <1>2, WorkerField
<1>4. /\ enabled' \in [on : BOOLEAN, clearing : BOOLEAN] /\ items' \in Seq(Ids)
      /\ fwd' \in Forwarders /\ polled' \in SUBSET Ids /\ atHome' \in SUBSET Ids
      /\ excused' \in SUBSET Ids /\ handled' \in SUBSET Ids
      /\ budget' \in [toggles : Nat, errors : Nat]
  BY <1>1, Zenon DEF IInv, TypeOK
<1>5. HolderInv'
  BY <1>1, <1>3 DEF IInv, HolderInv
<1>6. InFlight = {mgr.item} /\ (mgr.item \in InFlight' \/ mgr.item \in excused')
  BY <1>1, <1>3 DEF InFlight
<1>7. excused \subseteq excused'
  BY <1>1
<1> HIDE DEF w
<1> QED
  BY <1>1, <1>3, <1>4, <1>5, <1>6, <1>7, BacklogStep

LEMMA EnqueueBacklogStep ==
  ASSUME IInv, NEW k \in 0..Len(items), EnqueueBacklog(k)
  PROVE  IInv'
<1>1. /\ mgr \in Managers /\ mgr.worker = "enqueue" /\ mgr' = [mgr EXCEPT !.worker = "check"]
      /\ items' = Append(pruned(k), mgr.item) /\ excused' = prune(k) /\ mgr.item \in Ids
      /\ UNCHANGED <<home, signals, next, seen, chan, subs, log, enabled, fwd, polled, atHome,
                     budget, handled>>
      /\ items \in Seq(Ids) /\ excused \in SUBSET Ids
  BY DEF IInv, TypeOK, HolderInv, EnqueueBacklog, readerVars
<1>2. "check" \in Workers
  BY DEF Workers
<1>3. mgr' \in Managers /\ mgr'.queue = mgr.queue /\ mgr'.worker = "check"
  BY <1>1, <1>2, WorkerField
<1>4. /\ pruned(k) \in Seq(Ids) /\ prune(k) \in SUBSET Ids /\ excused \subseteq prune(k)
      /\ ToSet(items) \subseteq ToSet(pruned(k)) \cup prune(k)
  BY <1>1, PrunedItems
<1>5. /\ Append(pruned(k), mgr.item) \in Seq(Ids)
      /\ ToSet(Append(pruned(k), mgr.item)) = ToSet(pruned(k)) \cup {mgr.item}
  BY <1>1, <1>4, AppendProperties, ElementsOfAppend
<1>6. /\ enabled' \in [on : BOOLEAN, clearing : BOOLEAN]
      /\ fwd' \in Forwarders /\ polled' \in SUBSET Ids /\ atHome' \in SUBSET Ids
      /\ handled' \in SUBSET Ids /\ budget' \in [toggles : Nat, errors : Nat]
  BY <1>1, Zenon DEF IInv, TypeOK
<1>7. HolderInv' /\ InFlight = {mgr.item}
  BY <1>1, <1>3 DEF IInv, HolderInv, InFlight
<1>8. /\ ToSet(items) \subseteq ToSet(items') \cup excused' /\ excused \subseteq excused'
      /\ mgr.item \in ToSet(items')
  BY <1>1, <1>4, <1>5
<1>9. items' \in Seq(Ids) /\ excused' \in SUBSET Ids
  BY <1>1, <1>4, <1>5
<1> QED
  BY <1>1, <1>3, <1>6, <1>7, <1>8, <1>9, BacklogStep

LEMMA SetEnabledStep ==
  ASSUME IInv, NEW v \in BOOLEAN, SetEnabled(v)
  PROVE  IInv'
<1>1. /\ mgr' = mgr /\ enabled' = [on |-> v, clearing |-> ~v]
      /\ budget' = [budget EXCEPT !.toggles = @ - 1] /\ budget.toggles > 0
      /\ UNCHANGED <<home, signals, next, seen, chan, subs, log, items, fwd, polled, atHome,
                     excused, handled>>
  BY DEF SetEnabled, managerVars, readerVars
<1>2. enabled' \in [on : BOOLEAN, clearing : BOOLEAN]
  <2>1. (~v) \in BOOLEAN
    OBVIOUS
  <2> QED
    BY <1>1, <2>1, Zenon
<1>3. budget' \in [toggles : Nat, errors : Nat]
  BY <1>1 DEF IInv, TypeOK
<1>4. /\ mgr' \in Managers /\ items' \in Seq(Ids)
      /\ fwd' \in Forwarders /\ polled' \in SUBSET Ids /\ atHome' \in SUBSET Ids
      /\ excused' \in SUBSET Ids /\ handled' \in SUBSET Ids
  BY <1>1, Zenon DEF IInv, TypeOK
<1>5. HolderInv' /\ InFlight' = InFlight
  BY <1>1 DEF IInv, HolderInv, InFlight
<1> QED
  BY <1>1, <1>2, <1>3, <1>4, <1>5, BacklogStep

LEMMA PollStep ==
  ASSUME IInv, NEW k \in 0..Len(items), NEW n \in 1..Batch, Poll(k, n), FeedAssumption
  PROVE  IInv'
<1>1. /\ mgr' = mgr /\ items' = left(k, n) /\ excused' = prune(k)
      /\ polled' = polled \cup ToSet(popped(k, n)) /\ n <= Len(items) - k
      /\ UNCHANGED <<home, signals, next, seen, chan, subs, log, enabled, fwd, atHome, budget,
                     handled>>
      /\ items \in Seq(Ids) /\ excused \in SUBSET Ids /\ polled \in SUBSET Ids
  BY DEF IInv, TypeOK, Poll, popOldest, managerVars
<1>2. n \in Nat
  BY DEF FeedAssumption
<1>3. /\ popped(k, n) \in Seq(Ids) /\ left(k, n) \in Seq(Ids)
      /\ ToSet(items) \subseteq ToSet(popped(k, n)) \cup ToSet(left(k, n)) \cup prune(k)
  BY <1>1, <1>2, PoppedItems
<1>4. prune(k) \in SUBSET Ids /\ excused \subseteq prune(k)
  BY <1>1, PrunedItems
<1>5. ToSet(popped(k, n)) \subseteq Ids
  BY <1>3, ElementsAreIn
<1>6. /\ mgr' \in Managers /\ enabled' \in [on : BOOLEAN, clearing : BOOLEAN]
      /\ fwd' \in Forwarders /\ atHome' \in SUBSET Ids /\ handled' \in SUBSET Ids
      /\ budget' \in [toggles : Nat, errors : Nat]
  BY <1>1, Zenon DEF IInv, TypeOK
<1>7. HolderInv' /\ InFlight' = InFlight
  BY <1>1 DEF IInv, HolderInv, InFlight
<1>8. /\ ToSet(items) \subseteq ToSet(items') \cup polled' \cup excused'
      /\ polled \subseteq polled' /\ excused \subseteq excused'
  BY <1>1, <1>3, <1>4
<1>9. items' \in Seq(Ids) /\ excused' \in SUBSET Ids /\ polled' \in SUBSET Ids
  BY <1>1, <1>3, <1>4, <1>5
<1> QED
  BY <1>1, <1>6, <1>7, <1>8, <1>9, BacklogStep

LEMMA ForwardPopStep ==
  ASSUME IInv, NEW k \in 0..Len(items), ForwardPop(k), FeedAssumption
  PROVE  IInv'
<1> DEFINE n == IF Len(items) - k < Batch THEN Len(items) - k ELSE Batch
<1>1. /\ mgr' = mgr /\ items' = left(k, n) /\ excused' = prune(k)
      /\ fwd' = [fwd EXCEPT !.items = popped(k, n)] /\ fwd = [items |-> <<>>, requeue |-> FALSE]
      /\ UNCHANGED <<home, signals, next, seen, chan, subs, log, enabled, polled, atHome, budget,
                     handled>>
      /\ items \in Seq(Ids) /\ excused \in SUBSET Ids /\ fwd \in Forwarders
  BY DEF IInv, TypeOK, ForwardPop, popOldest, managerVars
<1>2. n \in Nat /\ n <= Len(items) - k
  BY <1>1 DEF FeedAssumption
<1> HIDE DEF n
<1>3. /\ popped(k, n) \in Seq(Ids) /\ left(k, n) \in Seq(Ids)
      /\ ToSet(items) \subseteq ToSet(popped(k, n)) \cup ToSet(left(k, n)) \cup prune(k)
  BY <1>1, <1>2, PoppedItems
<1>4. prune(k) \in SUBSET Ids /\ excused \subseteq prune(k)
  BY <1>1, PrunedItems
<1>5. fwd' \in Forwarders /\ fwd'.items = popped(k, n) /\ fwd'.requeue = FALSE
  BY <1>1, <1>3, Zenon DEF Forwarders
<1>6. /\ mgr' \in Managers /\ enabled' \in [on : BOOLEAN, clearing : BOOLEAN]
      /\ polled' \in SUBSET Ids /\ atHome' \in SUBSET Ids /\ handled' \in SUBSET Ids
      /\ budget' \in [toggles : Nat, errors : Nat]
  BY <1>1, Zenon DEF IInv, TypeOK
<1>7. HolderInv' /\ InFlight' = InFlight
  BY <1>1, <1>5 DEF IInv, HolderInv, InFlight
<1>8. /\ ToSet(items) \subseteq ToSet(items') \cup ToSet(fwd'.items) \cup excused'
      /\ excused \subseteq excused'
  BY <1>1, <1>3, <1>4, <1>5
<1>9. ToSet(fwd.items) = {}
  BY <1>1 DEF ToSet
<1>10. items' \in Seq(Ids) /\ excused' \in SUBSET Ids
  BY <1>1, <1>3, <1>4
<1> QED
  BY <1>1, <1>5, <1>6, <1>7, <1>8, <1>9, <1>10, BacklogStep

LEMMA ForwardOkStep ==
  ASSUME IInv, ForwardOk
  PROVE  IInv'
<1>1. /\ mgr' = mgr /\ atHome' = atHome \cup {Head(fwd.items)} /\ fwd.items # <<>>
      /\ fwd' = [fwd EXCEPT !.items = Tail(@)] /\ ~fwd.requeue
      /\ UNCHANGED <<home, signals, next, seen, chan, subs, log, enabled, items, polled, budget,
                     excused, handled>>
      /\ fwd \in Forwarders /\ atHome \in SUBSET Ids
  BY DEF IInv, TypeOK, ForwardOk, managerVars, queueVars
<1>2. fwd.items \in Seq(Ids)
  BY <1>1 DEF Forwarders
<1>3. /\ ToSet(fwd.items) = ToSet(Tail(fwd.items)) \cup {Head(fwd.items)}
      /\ Tail(fwd.items) \in Seq(Ids) /\ Head(fwd.items) \in Ids
  BY <1>1, <1>2, ElementsOfTail
<1>4. /\ fwd' \in Forwarders /\ fwd'.items = Tail(fwd.items) /\ fwd'.requeue = fwd.requeue
  BY <1>1, <1>3, Zenon DEF Forwarders
<1>5. /\ mgr' \in Managers /\ enabled' \in [on : BOOLEAN, clearing : BOOLEAN]
      /\ polled' \in SUBSET Ids /\ excused' \in SUBSET Ids /\ handled' \in SUBSET Ids
      /\ budget' \in [toggles : Nat, errors : Nat] /\ items' \in Seq(Ids)
  BY <1>1, Zenon DEF IInv, TypeOK
<1>6. HolderInv' /\ InFlight' = InFlight
  BY <1>1, <1>4 DEF IInv, HolderInv, InFlight
<1>7. /\ ToSet(fwd.items) \subseteq ToSet(fwd'.items) \cup atHome' /\ atHome \subseteq atHome'
      /\ atHome' \in SUBSET Ids
  BY <1>1, <1>3, <1>4
<1> QED
  BY <1>1, <1>4, <1>5, <1>6, <1>7, BacklogStep

LEMMA ForwardErrorStep ==
  ASSUME IInv, NEW accepted \in BOOLEAN, ForwardError(accepted)
  PROVE  IInv'
<1> DEFINE b == fwd.items # <<>>
<1>1. /\ mgr' = mgr /\ fwd.items # <<>> /\ budget' = [budget EXCEPT !.errors = @ - 1]
      /\ budget.errors > 0
      /\ atHome' = (IF accepted THEN atHome \cup {Head(fwd.items)} ELSE atHome)
      /\ fwd' = [items |-> fwd.items, requeue |-> b]
      /\ UNCHANGED <<home, signals, next, seen, chan, subs, log, enabled, items, polled, excused,
                     handled>>
      /\ fwd \in Forwarders /\ atHome \in SUBSET Ids
  BY DEF IInv, TypeOK, ForwardError, afterError, managerVars, queueVars
<1>2. fwd.items \in Seq(Ids)
  BY <1>1 DEF Forwarders
<1>3. Head(fwd.items) \in Ids
  BY <1>1, <1>2, ElementsOfTail
<1>4. b \in BOOLEAN
  OBVIOUS
<1> HIDE DEF b
<1>5. fwd' \in Forwarders /\ fwd'.items = fwd.items
  BY <1>1, <1>2, <1>4, Zenon DEF Forwarders
<1>6. /\ mgr' \in Managers /\ enabled' \in [on : BOOLEAN, clearing : BOOLEAN]
      /\ polled' \in SUBSET Ids /\ excused' \in SUBSET Ids /\ handled' \in SUBSET Ids
      /\ items' \in Seq(Ids)
  BY <1>1, Zenon DEF IInv, TypeOK
<1>7. budget' \in [toggles : Nat, errors : Nat]
  BY <1>1 DEF IInv, TypeOK
<1>8. HolderInv' /\ InFlight' = InFlight
  BY <1>1, <1>5 DEF IInv, HolderInv, InFlight
<1>9. atHome \subseteq atHome' /\ atHome' \in SUBSET Ids
  BY <1>1, <1>3
<1> QED
  BY <1>1, <1>5, <1>6, <1>7, <1>8, <1>9, BacklogStep

LEMMA ForwardRequeueStep ==
  ASSUME IInv, NEW k \in 0..Len(items), ForwardRequeue(k)
  PROVE  IInv'
<1> DEFINE b == Len(fwd.items) > 1
<1>1. /\ mgr' = mgr /\ fwd.items # <<>> /\ fwd' = [items |-> Tail(fwd.items), requeue |-> b]
      /\ \/ items' = Append(pruned(k), Head(fwd.items)) /\ excused' = prune(k)
         \/ items' = items /\ excused' = excused \cup {Head(fwd.items)}
      /\ UNCHANGED <<home, signals, next, seen, chan, subs, log, enabled, polled, atHome, budget,
                     handled>>
      /\ items \in Seq(Ids) /\ excused \in SUBSET Ids /\ fwd \in Forwarders
  BY DEF IInv, TypeOK, HolderInv, ForwardRequeue, managerVars
<1>2. fwd.items \in Seq(Ids)
  BY <1>1 DEF Forwarders
<1>3. /\ ToSet(fwd.items) = ToSet(Tail(fwd.items)) \cup {Head(fwd.items)}
      /\ Tail(fwd.items) \in Seq(Ids) /\ Head(fwd.items) \in Ids
  BY <1>1, <1>2, ElementsOfTail
<1>4. b \in BOOLEAN
  OBVIOUS
<1>5. b => Tail(fwd.items) # <<>>
  BY <1>2, TailNotEmpty
<1> HIDE DEF b
<1>6. fwd' \in Forwarders /\ fwd'.items = Tail(fwd.items) /\ fwd'.requeue = b
  BY <1>1, <1>3, <1>4, Zenon DEF Forwarders
<1>7. /\ pruned(k) \in Seq(Ids) /\ prune(k) \in SUBSET Ids /\ excused \subseteq prune(k)
      /\ ToSet(items) \subseteq ToSet(pruned(k)) \cup prune(k)
  BY <1>1, PrunedItems
<1>8. /\ Append(pruned(k), Head(fwd.items)) \in Seq(Ids)
      /\ ToSet(Append(pruned(k), Head(fwd.items))) = ToSet(pruned(k)) \cup {Head(fwd.items)}
  BY <1>3, <1>7, AppendProperties, ElementsOfAppend
<1>9. /\ items' \in Seq(Ids) /\ excused' \in SUBSET Ids /\ excused \subseteq excused'
      /\ ToSet(items) \subseteq ToSet(items') \cup excused'
      /\ Head(fwd.items) \in ToSet(items') \cup excused'
  BY <1>1, <1>3, <1>7, <1>8
<1>10. /\ mgr' \in Managers /\ enabled' \in [on : BOOLEAN, clearing : BOOLEAN]
       /\ polled' \in SUBSET Ids /\ atHome' \in SUBSET Ids /\ handled' \in SUBSET Ids
       /\ budget' \in [toggles : Nat, errors : Nat]
  BY <1>1, Zenon DEF IInv, TypeOK
<1>11. HolderInv' /\ InFlight' = InFlight
  BY <1>1, <1>5, <1>6 DEF IInv, HolderInv, InFlight
<1>12. ToSet(fwd.items) \subseteq ToSet(fwd'.items) \cup ToSet(items') \cup excused'
  BY <1>3, <1>6, <1>9
<1> QED
  BY <1>1, <1>6, <1>9, <1>10, <1>11, <1>12, BacklogStep
-----------------------------------------------------------------------------
(* The subscribers *)

\* A step of the subscribers that loses no record.
LEMMA SubscriptionStep ==
  ASSUME IInv, UNCHANGED <<home, signals, next, items, fwd, polled, atHome, handled>>,
         mgr' \in Managers, enabled' \in [on : BOOLEAN, clearing : BOOLEAN],
         subs' \in SUBSET Subscribers, chan' \in [Subscribers -> Channels],
         seen' \in [Subscribers -> Readers], log' \in Seq(Ids), excused' \in SUBSET Ids,
         budget' \in [toggles : Nat, errors : Nat], HolderInv',
         \A u \in Subscribers : SubscriberOK(u)' /\ NoGapFor(u)',
         ToSet(mgr.queue) \subseteq ToSet(mgr'.queue),
         excused \subseteq excused',
         \A r \in InFlight : r \in InFlight' \/ AtSubscriber(r)' \/ r \in excused',
         \A r \in Ids : AtSubscriber(r) => AtSubscriber(r)' \/ r \in excused'
  PROVE  IInv'
<1>1. TypeOK'
  BY DEF IInv, TypeOK
<1>2. ASSUME NEW r \in Ids, Placed(r) PROVE Placed(r)'
  <2>1. /\ r \in InFlight => r \in InFlight' \/ AtSubscriber(r)' \/ r \in excused'
        /\ AtSubscriber(r) => AtSubscriber(r)' \/ r \in excused'
        /\ r \in ToSet(mgr.queue) => r \in ToSet(mgr'.queue)
    BY Zenon
  <2> QED
    BY <1>2, <2>1, Zenon DEF Placed
<1>3. next \in Nat /\ 1..next \subseteq Ids
  BY DEF IInv, TypeOK, Ids
<1>4. \A r \in 1..next' : Placed(r)'
  BY <1>2, <1>3, ConservedMeansPlaced DEF IInv, AllPlaced
<1> QED
  BY <1>1, <1>4, InvariantFromParts

LEMMA ChannelFields ==
  ASSUME NEW c \in Channels
  PROVE  /\ \A b \in Seq(Nat) : [c EXCEPT !.buf = b] \in Channels /\ [c EXCEPT !.buf = b].buf = b
         /\ \A v \in BOOLEAN : [c EXCEPT !.closed = v] \in Channels
                                /\ [c EXCEPT !.closed = v].buf = c.buf
  BY Zenon DEF Channels

\* What a subscriber has at one moment.
LEMMA SubscriberType ==
  ASSUME IInv, NEW u \in Subscribers
  PROVE  /\ chan[u] \in Channels /\ chan[u].buf \in Seq(Nat)
         /\ seen[u] \in Readers /\ seen[u].got \in Seq(Nat) /\ seen[u].from \in Nat
         /\ log \in Seq(Ids) /\ SubscriberOK(u) /\ NoGapFor(u)
<1>1. chan[u] \in Channels /\ seen[u] \in Readers /\ log \in Seq(Ids)
  BY DEF IInv, TypeOK
<1>2. chan[u].buf \in Seq(Nat)
  BY <1>1, Zenon DEF Channels
<1>3. seen[u].got \in Seq(Nat) /\ seen[u].from \in Nat
  BY <1>1 DEF Readers
<1>4. SubscriberOK(u) /\ NoGapFor(u)
  BY NoGapPerSubscriber DEF IInv, SubscriberInv, AllSeeNoGap
<1> QED
  BY <1>1, <1>2, <1>3, <1>4

\* publishToSubscribers: those with room get the payload, the others are cut
\* off.
LEMMA PublishedTo ==
  ASSUME FeedAssumption, IInv, NEW p \in Nat, publishToSubscribers(p)
  PROVE  /\ subs' \in SUBSET Subscribers /\ chan' \in [Subscribers -> Channels]
         /\ \A u \in Subscribers :
              /\ u \in subs' <=> u \in subs /\ Len(chan[u].buf) < Buffer
              /\ chan'[u].buf = IF u \in subs /\ Len(chan[u].buf) < Buffer
                                  THEN Append(chan[u].buf, p) ELSE chan[u].buf
<1> DEFINE published(u) == IF u \notin subs THEN chan[u]
                      ELSE IF Len(chan[u].buf) < Buffer
                             THEN [chan[u] EXCEPT !.buf = Append(chan[u].buf, p)]
                             ELSE [chan[u] EXCEPT !.closed = dropsFull(u)]
<1>1. chan' = [u \in Subscribers |-> published(u)] /\ subs' = {u \in subs : ~dropsFull(u)}
  BY DEF publishToSubscribers
<1>2. subs \in SUBSET Subscribers
  BY DEF IInv, TypeOK
<1>3. ASSUME NEW u \in Subscribers
      PROVE  /\ published(u) \in Channels
             /\ published(u).buf = IF u \in subs /\ Len(chan[u].buf) < Buffer
                                THEN Append(chan[u].buf, p) ELSE chan[u].buf
             /\ u \in subs' <=> u \in subs /\ Len(chan[u].buf) < Buffer
  <2>1. /\ chan[u] \in Channels /\ chan[u].buf \in Seq(Nat) /\ Len(chan[u].buf) <= Buffer
        /\ Len(chan[u].buf) \in Nat /\ Buffer \in Nat
    BY SubscriberType, LenProperties DEF SubscriberOK, FeedAssumption
  <2>2. dropsFull(u) \in BOOLEAN /\ (dropsFull(u) <=> ~(Len(chan[u].buf) < Buffer))
    BY <2>1 DEF dropsFull
  <2>3. Append(chan[u].buf, p) \in Seq(Nat)
    BY <2>1, AppendProperties
  <2>4. /\ [chan[u] EXCEPT !.buf = Append(chan[u].buf, p)] \in Channels
        /\ [chan[u] EXCEPT !.buf = Append(chan[u].buf, p)].buf = Append(chan[u].buf, p)
        /\ [chan[u] EXCEPT !.closed = dropsFull(u)] \in Channels
        /\ [chan[u] EXCEPT !.closed = dropsFull(u)].buf = chan[u].buf
    BY <2>1, <2>2, <2>3, ChannelFields
  <2>5. u \in subs' <=> u \in subs /\ Len(chan[u].buf) < Buffer
    BY <1>1, <2>2
  <2> QED
    BY <2>1, <2>4, <2>5
<1> HIDE DEF published
<1>4. chan' \in [Subscribers -> Channels] /\ \A u \in Subscribers : chan'[u] = published(u)
  BY <1>1, <1>3
<1> QED
  BY <1>1, <1>2, <1>3, <1>4

LEMMA BufferAfterAppend ==
  ASSUME FeedAssumption, NEW b \in Seq(Nat), NEW p \in Nat, Len(b) < Buffer
  PROVE  Len(Append(b, p)) <= Buffer /\ ToSet(b) \subseteq ToSet(Append(b, p))
         /\ p \in ToSet(Append(b, p))
<1>1. Len(Append(b, p)) = Len(b) + 1 /\ Len(b) \in Nat
  BY AppendProperties
<1>2. ToSet(Append(b, p)) = ToSet(b) \cup {p}
  BY ElementsOfAppend
<1> QED
  BY <1>1, <1>2 DEF FeedAssumption

\* A payload for all subscribers: a record, which the log gets too, or a
\* refresh.
LEMMA PublishedStep ==
  ASSUME FeedAssumption, IInv, NEW p \in Nat, publishToSubscribers(p), UNCHANGED seen,
         \/ p \in Ids /\ log' = Append(log, p)
         \/ p = Refresh /\ log' = log
  PROVE  /\ \A u \in Subscribers : SubscriberOK(u)' /\ NoGapFor(u)'
         /\ \A r : AtSubscriber(r) => AtSubscriber(r)'
         /\ (\E u \in subs : Len(chan[u].buf) < Buffer) => AtSubscriber(p)'
<1>1. ASSUME NEW u \in Subscribers
      PROVE  /\ SubscriberOK(u)' /\ NoGapFor(u)' /\ ToSet(chan[u].buf) \subseteq ToSet(chan'[u].buf)
             /\ u \in subs /\ Len(chan[u].buf) < Buffer => p \in ToSet(chan'[u].buf)
  <2>1. /\ chan[u].buf \in Seq(Nat) /\ seen[u].got \in Seq(Nat) /\ seen[u].from \in Nat
        /\ log \in Seq(Ids) /\ SubscriberOK(u) /\ NoGapFor(u)
    BY SubscriberType
  <2> DEFINE b == chan[u].buf
             g == seen[u].got
             f == seen[u].from
  <2>2. g \o b \in Seq(Nat) /\ g \o Append(b, p) = Append(g \o b, p)
    BY <2>1, PayloadsOfAppend
  <2>3. CASE u \in subs /\ Len(b) < Buffer
    <3>1. chan'[u].buf = Append(b, p) /\ u \in subs'
      BY <2>3, PublishedTo
    <3>2. Len(Append(b, p)) <= Buffer /\ ToSet(b) \subseteq ToSet(Append(b, p))
          /\ p \in ToSet(Append(b, p))
      BY <2>1, <2>3, BufferAfterAppend
    <3>3. SubscriberOK(u)'
      BY <2>1, <2>3, <3>1, <3>2 DEF SubscriberOK
    <3>4. ASSUME seen[u].state \in {"on", "ended"}
          PROVE  /\ follows(g \o Append(b, p), f, log')
                 /\ caughtUp(g \o Append(b, p), f, log')
      <4>1. follows(g \o b, f, log) /\ caughtUp(g \o b, f, log)
        BY <2>1, <2>3, <3>4 DEF NoGapFor
      <4>2. CASE p \in Ids /\ log' = Append(log, p)
        BY <2>1, <2>2, <4>1, <4>2, FollowsRecord
      <4>3. CASE p = Refresh /\ log' = log
        BY <2>1, <2>2, <4>1, <4>3, FollowsRefresh
      <4> QED
        BY <4>2, <4>3
    <3>5. NoGapFor(u)'
      BY <3>1, <3>4 DEF NoGapFor
    <3> QED
      BY <3>1, <3>2, <3>3, <3>5
  <2>4. CASE ~(u \in subs /\ Len(b) < Buffer)
    <3>1. chan'[u].buf = b /\ u \notin subs'
      BY <2>4, PublishedTo
    <3>2. SubscriberOK(u)'
      BY <2>1, <3>1 DEF SubscriberOK
    <3>3. ASSUME seen[u].state \in {"on", "ended"} PROVE follows(g \o b, f, log')
      <4>1. follows(g \o b, f, log)
        BY <2>1, <3>3 DEF NoGapFor
      <4> QED
        BY <2>1, <2>2, <4>1, FollowsLongerLog
    <3>4. NoGapFor(u)'
      BY <3>1, <3>3 DEF NoGapFor
    <3> QED
      BY <2>4, <3>1, <3>2, <3>4
  <2> QED
    BY <2>3, <2>4
<1>2. ASSUME NEW r, AtSubscriber(r) PROVE AtSubscriber(r)'
  BY <1>1, <1>2, Zenon DEF AtSubscriber
<1>3. ASSUME \E u \in subs : Len(chan[u].buf) < Buffer PROVE AtSubscriber(p)'
  <2>1. PICK u \in Subscribers : u \in subs /\ Len(chan[u].buf) < Buffer
    BY <1>3 DEF IInv, TypeOK
  <2>2. p \in ToSet(chan'[u].buf)
    BY <1>1, <2>1
  <2> QED
    BY <2>2, Zenon DEF AtSubscriber
<1> QED
  BY <1>1, <1>2, <1>3

LEMMA EnqueuePublishStep ==
  ASSUME FeedAssumption, IInv, EnqueuePublish
  PROVE  IInv'
<1>1. /\ mgr \in Managers /\ mgr.worker = "publish" /\ mgr.item \in Ids /\ mgr.item \in Nat
      /\ UNCHANGED <<home, signals, next, enabled, items, fwd, polled, atHome, seen, budget,
                     handled>>
      /\ enabled' \in [on : BOOLEAN, clearing : BOOLEAN] /\ excused \in SUBSET Ids
      /\ budget' \in [toggles : Nat, errors : Nat] /\ seen' \in [Subscribers -> Readers]
      /\ log \in Seq(Ids)
  BY DEF IInv, TypeOK, HolderInv, EnqueuePublish, readerVars, Ids
<1>2. "enqueue" \in Workers /\ "check" \in Workers /\ InFlight = {mgr.item}
  BY <1>1 DEF Workers, InFlight
<1>3. CASE subs = {}
  <2>1. mgr' = [mgr EXCEPT !.worker = "enqueue"] /\ UNCHANGED <<subs, chan, log, excused>>
    BY <1>3 DEF EnqueuePublish
  <2>2. /\ mgr' \in Managers /\ mgr'.queue = mgr.queue /\ mgr'.item = mgr.item
        /\ mgr'.worker = "enqueue"
    BY <1>1, <1>2, <2>1, WorkerField
  <2>3. HolderInv' /\ InFlight' = {mgr.item}
    BY <1>1, <2>2 DEF IInv, HolderInv, InFlight
  <2>4. /\ subs' \in SUBSET Subscribers /\ chan' \in [Subscribers -> Channels]
        /\ log' \in Seq(Ids) /\ excused' \in SUBSET Ids
    BY <2>1 DEF IInv, TypeOK
  <2>5. /\ \A u \in Subscribers : SubscriberOK(u)' /\ NoGapFor(u)'
        /\ \A r : AtSubscriber(r) => AtSubscriber(r)'
    BY <1>1, <2>1, SubscribersAlone
  <2> QED
    BY <1>1, <1>2, <2>1, <2>2, <2>3, <2>4, <2>5, SubscriptionStep
<1>4. CASE subs # {}
  <2>0. PICK p \in Ids : p = mgr.item
    BY <1>1
  <2>1. /\ publishToSubscribers(p) /\ mgr' = [mgr EXCEPT !.worker = "check"]
        /\ log' = Append(log, p)
        /\ excused' = IF fullSubscriber THEN excused \cup {p} ELSE excused
    BY <1>4, <2>0 DEF EnqueuePublish
  <2>2. /\ mgr' \in Managers /\ mgr'.queue = mgr.queue /\ mgr'.worker = "check"
    BY <1>1, <1>2, <2>1, WorkerField
  <2>3. HolderInv'
    BY <1>1, <2>2 DEF IInv, HolderInv
  <2>4. subs' \in SUBSET Subscribers /\ chan' \in [Subscribers -> Channels]
    BY <1>1, <2>0, <2>1, PublishedTo
  <2>5. log' \in Seq(Ids) /\ excused' \in SUBSET Ids /\ excused \subseteq excused'
    BY <1>1, <2>0, <2>1, AppendProperties
  <2>6. /\ \A u \in Subscribers : SubscriberOK(u)' /\ NoGapFor(u)'
        /\ \A r : AtSubscriber(r) => AtSubscriber(r)'
        /\ (\E u \in subs : Len(chan[u].buf) < Buffer) => AtSubscriber(p)'
    BY <1>1, <2>0, <2>1, PublishedStep
  <2>7. AtSubscriber(p)' \/ p \in excused'
    <3>1. CASE fullSubscriber
      BY <2>1, <3>1
    <3>2. CASE ~fullSubscriber
      <4>1. PICK u \in Subscribers : u \in subs
        BY <1>4 DEF IInv, TypeOK
      <4>2. Len(chan[u].buf) \in Nat /\ Len(chan[u].buf) <= Buffer /\ Buffer \in Nat
        BY SubscriberType, LenProperties DEF SubscriberOK, FeedAssumption
      <4>3. Len(chan[u].buf) < Buffer
        BY <3>2, <4>1, <4>2 DEF fullSubscriber
      <4> QED
        BY <2>6, <4>1, <4>3
    <3> QED
      BY <3>1, <3>2
  <2>8. \A r \in InFlight : AtSubscriber(r)' \/ r \in excused'
    BY <1>2, <2>0, <2>7
  <2> QED
    BY <1>1, <2>2, <2>3, <2>4, <2>5, <2>6, <2>8, SubscriptionStep
<1> QED
  BY <1>3, <1>4

LEMMA NotifyStep ==
  ASSUME FeedAssumption, IInv, NotifyUsageRefresh
  PROVE  IInv'
<1>1. /\ publishToSubscribers(Refresh) /\ budget' = [budget EXCEPT !.toggles = @ - 1]
      /\ budget.toggles > 0 /\ mgr' = mgr /\ Refresh \in Nat
      /\ UNCHANGED <<home, signals, next, enabled, items, log, fwd, polled, atHome, seen, excused,
                     handled>>
  BY DEF NotifyUsageRefresh, managerVars, readerVars, Refresh
<1>2. /\ mgr' \in Managers /\ enabled' \in [on : BOOLEAN, clearing : BOOLEAN]
      /\ seen' \in [Subscribers -> Readers] /\ log' \in Seq(Ids) /\ excused' \in SUBSET Ids
  BY <1>1, Zenon DEF IInv, TypeOK
<1>3. budget' \in [toggles : Nat, errors : Nat]
  BY <1>1 DEF IInv, TypeOK
<1>4. HolderInv' /\ InFlight' = InFlight
  BY <1>1 DEF IInv, HolderInv, InFlight
<1>5. subs' \in SUBSET Subscribers /\ chan' \in [Subscribers -> Channels]
  BY <1>1, PublishedTo
<1>6. /\ \A u \in Subscribers : SubscriberOK(u)' /\ NoGapFor(u)'
      /\ \A r : AtSubscriber(r) => AtSubscriber(r)'
  BY <1>1, PublishedStep
<1> QED
  BY <1>1, <1>2, <1>3, <1>4, <1>5, <1>6, SubscriptionStep

\* A subscriber that keeps what it has.
LEMMA SameSubscriber ==
  ASSUME NEW u \in Subscribers, SubscriberOK(u), NoGapFor(u), seen'[u] = seen[u],
         chan'[u].buf = chan[u].buf, u \in subs' => u \in subs, log' = log
  PROVE  SubscriberOK(u)' /\ NoGapFor(u)'
  BY Zenon DEF SubscriberOK, NoGapFor

LEMMA ClearStep ==
  ASSUME IInv, Clear
  PROVE  IInv'
<1>1. /\ mgr' = mgr /\ items' = <<>> /\ excused' = excused \cup ToSet(items) /\ subs' = {}
      /\ enabled' = [enabled EXCEPT !.clearing = FALSE]
      /\ chan' = [u \in Subscribers |-> [chan[u] EXCEPT !.closed = @ \/ u \in subs]]
      /\ UNCHANGED <<home, signals, next, log, fwd, polled, atHome, seen, budget, handled>>
      /\ items \in Seq(Ids) /\ excused \in SUBSET Ids
      /\ enabled \in [on : BOOLEAN, clearing : BOOLEAN]
  BY DEF IInv, TypeOK, Clear, managerVars, readerVars
<1>2. ASSUME NEW u \in Subscribers
      PROVE  chan'[u] \in Channels /\ chan'[u].buf = chan[u].buf
  <2> DEFINE v == chan[u].closed \/ u \in subs
  <2>1. v \in BOOLEAN /\ chan[u] \in Channels
    BY SubscriberType
  <2>2. chan'[u] = [chan[u] EXCEPT !.closed = v]
    BY <1>1
  <2> HIDE DEF v
  <2> QED
    BY <2>1, <2>2, ChannelFields
<1>3. chan' \in [Subscribers -> Channels]
  BY <1>1, <1>2
<1>4. ToSet(items) \subseteq Ids /\ items' \in Seq(Ids)
  BY <1>1, ElementsAreIn, EmptySeq
<1>5. enabled' \in [on : BOOLEAN, clearing : BOOLEAN]
  BY <1>1, Zenon
<1>6. HolderInv' /\ InFlight' = InFlight
  BY <1>1 DEF IInv, HolderInv, InFlight
<1>7. TypeOK'
  BY <1>1, <1>3, <1>4, <1>5 DEF IInv, TypeOK
<1>8. \A u \in Subscribers : SubscriberOK(u)' /\ NoGapFor(u)'
  BY <1>1, <1>2, SubscriberType, SameSubscriber
<1>9. ASSUME NEW r, Placed(r) PROVE Placed(r)'
  <2>1. AtSubscriber(r) => AtSubscriber(r)'
    BY <1>1, <1>2, Zenon DEF AtSubscriber
  <2>2. /\ mgr' = mgr /\ fwd' = fwd /\ polled' = polled /\ atHome' = atHome
        /\ (r \in ToSet(items) \/ r \in excused => r \in excused')
    BY <1>1
  <2>3. ToSet(mgr.queue)' = ToSet(mgr.queue) /\ ToSet(fwd.items)' = ToSet(fwd.items)
    BY <2>2, Zenon
  <2> QED
    BY <1>6, <1>9, <2>1, <2>2, <2>3, Zenon DEF Placed
<1>10. \A r \in 1..next' : Placed(r)'
  BY <1>1, <1>9, ConservedMeansPlaced DEF IInv, AllPlaced
<1> QED
  BY <1>6, <1>7, <1>8, <1>10, InvariantFromParts

\* A step of one subscriber: the others are left alone.
LEMMA OneSubscriberStep ==
  ASSUME IInv, NEW u \in Subscribers,
         UNCHANGED <<home, managerVars, enabled, items, log, fwd, polled, atHome, budget, handled>>,
         NEW c \in Channels, chan' = [chan EXCEPT ![u] = c],
         NEW q \in Readers, seen' = [seen EXCEPT ![u] = q],
         subs' \in SUBSET Subscribers, \A x \in Subscribers \ {u} : x \in subs' => x \in subs,
         excused' \in SUBSET Ids, excused \subseteq excused',
         SubscriberOK(u)', NoGapFor(u)',
         \A r \in Ids : r \in ToSet(seen[u].got) \/ r \in ToSet(chan[u].buf)
                       => r \in ToSet(q.got) \/ r \in ToSet(c.buf) \/ r \in excused'
  PROVE  IInv'
<1>1. /\ chan' \in [Subscribers -> Channels] /\ seen' \in [Subscribers -> Readers]
      /\ chan'[u] = c /\ seen'[u] = q
      /\ \A x \in Subscribers \ {u} : chan'[x] = chan[x] /\ seen'[x] = seen[x]
  BY DEF IInv, TypeOK
<1>2. ASSUME NEW x \in Subscribers PROVE SubscriberOK(x)' /\ NoGapFor(x)'
  <2>1. CASE x = u
    BY <2>1
  <2>2. CASE x # u
    BY <1>1, <2>2, SubscriberType, SameSubscriber
  <2> QED
    BY <2>1, <2>2
<1>3. ASSUME NEW r \in Ids, AtSubscriber(r) PROVE AtSubscriber(r)' \/ r \in excused'
  <2>1. PICK x \in Subscribers : r \in ToSet(seen[x].got) \/ r \in ToSet(chan[x].buf)
    BY <1>3, Zenon DEF AtSubscriber
  <2>2. r \in ToSet(seen'[x].got) \/ r \in ToSet(chan'[x].buf) \/ r \in excused'
    <3>1. CASE x = u
      BY <1>1, <2>1, <3>1
    <3>2. CASE x # u
      BY <1>1, <2>1, <3>2
    <3> QED
      BY <3>1, <3>2
  <2> QED
    BY <2>2, Zenon DEF AtSubscriber
<1>4. mgr' = mgr /\ signals' = signals /\ next' = next
  BY DEF managerVars
<1>5. HolderInv' /\ InFlight' = InFlight
  BY <1>4 DEF IInv, HolderInv, InFlight
<1>6. /\ mgr' \in Managers /\ enabled' \in [on : BOOLEAN, clearing : BOOLEAN]
      /\ log' \in Seq(Ids) /\ budget' \in [toggles : Nat, errors : Nat]
  BY <1>4, Zenon DEF IInv, TypeOK
<1> QED
  BY <1>1, <1>2, <1>3, <1>4, <1>5, <1>6, SubscriptionStep
LEMMA SubscribeStep ==
  ASSUME FeedAssumption, IInv, NEW u \in Subscribers, Subscribe(u)
  PROVE  IInv'
<1> DEFINE q == [seen[u] EXCEPT !.state = "on", !.from = Len(log)]
           c == [chan[u] EXCEPT !.buf = <<Refresh>>]
<1>1. /\ seen[u].state = "none" /\ seen' = [seen EXCEPT ![u] = q]
      /\ chan' = [chan EXCEPT ![u] = c] /\ subs' = subs \cup {u}
      /\ UNCHANGED <<home, managerVars, enabled, items, log, fwd, polled, atHome, budget, excused,
                     handled>>
      /\ subs \in SUBSET Subscribers /\ excused \in SUBSET Ids
      /\ chan \in [Subscribers -> Channels] /\ seen \in [Subscribers -> Readers]
  BY DEF Subscribe, IInv, TypeOK
<1>2. /\ chan[u] \in Channels /\ seen[u] \in Readers /\ log \in Seq(Ids) /\ Len(log) \in Nat
      /\ chan[u].buf = <<>> /\ seen[u].got = <<>>
  BY <1>1, SubscriberType, LenProperties DEF SubscriberOK
<1>3. q \in Readers /\ q.state = "on" /\ q.got = seen[u].got /\ q.from = Len(log)
  BY <1>2 DEF Readers
<1>4. <<Refresh>> \in Seq(Nat)
  BY DEF Refresh
<1>5. c \in Channels /\ c.buf = <<Refresh>>
  BY <1>2, <1>4, ChannelFields
<1> HIDE DEF q, c
<1>6. chan'[u] = c /\ seen'[u] = q
  BY <1>1
<1>7. SubscriberOK(u)'
  <2>1. Len(<<Refresh>>) <= Buffer
    BY DEF FeedAssumption
  <2> QED
    BY <1>3, <1>5, <1>6, <2>1 DEF SubscriberOK
<1>8. NoGapFor(u)'
  <2>1. <<>> \o <<Refresh>> = Append(<<>>, Refresh) /\ <<>> \in Seq(Nat) /\ Len(<<>>) = 0
    BY <1>4, ConcatEmptySeq, EmptySeq
  <2>2. follows(<<>>, Len(log), log) /\ caughtUp(<<>>, Len(log), log)
    <3>1. recordsUpTo(<<>>, 0) = {} /\ 1..0 = {}
      BY DEF recordsUpTo
    <3>2. Cardinality(recordsUpTo(<<>>, 0)) = 0
      BY <3>1, FS_EmptySet
    <3>3. place(<<>>, Len(log), 0) = Len(log)
      BY <1>2, <3>2 DEF place
    <3> QED
      BY <2>1, <3>1, <3>3 DEF follows, caughtUp
  <2>3. /\ follows(Append(<<>>, Refresh), Len(log), log)
        /\ caughtUp(Append(<<>>, Refresh), Len(log), log)
    BY <1>2, <2>1, <2>2, FollowsRefresh
  <2>4. /\ follows(seen'[u].got \o chan'[u].buf, seen'[u].from, log')
        /\ caughtUp(seen'[u].got \o chan'[u].buf, seen'[u].from, log')
    BY <1>1, <1>2, <1>3, <1>5, <1>6, <2>1, <2>3
  <2> QED
    BY <2>4 DEF NoGapFor
<1>9. ToSet(seen[u].got) = {} /\ ToSet(chan[u].buf) = {}
  BY <1>2 DEF ToSet
<1> QED
  BY <1>1, <1>3, <1>5, <1>7, <1>8, <1>9, OneSubscriberStep

LEMMA ReceiveStep ==
  ASSUME IInv, NEW u \in Subscribers, Receive(u)
  PROVE  IInv'
<1> DEFINE g == Append(seen[u].got, Head(chan[u].buf))
           q == [seen[u] EXCEPT !.got = g]
           c == [chan[u] EXCEPT !.buf = Tail(chan[u].buf)]
<1>1. /\ seen[u].state = "on" /\ chan[u].buf # <<>> /\ seen' = [seen EXCEPT ![u] = q]
      /\ chan' = [chan EXCEPT ![u] = c]
      /\ UNCHANGED <<home, managerVars, enabled, items, subs, log, fwd, polled, atHome, budget,
                     excused, handled>>
      /\ subs \in SUBSET Subscribers /\ excused \in SUBSET Ids
      /\ chan \in [Subscribers -> Channels] /\ seen \in [Subscribers -> Readers]
  BY DEF Receive, IInv, TypeOK
<1>2. /\ chan[u] \in Channels /\ chan[u].buf \in Seq(Nat) /\ seen[u] \in Readers
      /\ seen[u].got \in Seq(Nat) /\ SubscriberOK(u) /\ NoGapFor(u)
  BY SubscriberType
<1>3. /\ Head(chan[u].buf) \in Nat /\ Tail(chan[u].buf) \in Seq(Nat)
      /\ Len(Tail(chan[u].buf)) = Len(chan[u].buf) - 1 /\ Len(chan[u].buf) \in Nat
      /\ ToSet(chan[u].buf) = ToSet(Tail(chan[u].buf)) \cup {Head(chan[u].buf)}
  BY <1>1, <1>2, HeadTailProperties, LenProperties, ElementsOfTail
<1>4. g \in Seq(Nat) /\ ToSet(g) = ToSet(seen[u].got) \cup {Head(chan[u].buf)}
  BY <1>2, <1>3, AppendProperties, ElementsOfAppend
<1>5. g \o Tail(chan[u].buf) = seen[u].got \o chan[u].buf
  BY <1>1, <1>2, PayloadsOfReceive
<1> HIDE DEF g
<1>6. q \in Readers /\ q.state = "on" /\ q.got = g /\ q.from = seen[u].from
  BY <1>1, <1>2, <1>4 DEF Readers
<1>7. c \in Channels /\ c.buf = Tail(chan[u].buf)
  BY <1>2, <1>3, ChannelFields
<1> HIDE DEF q, c
<1>8. chan'[u] = c /\ seen'[u] = q
  BY <1>1
<1>9. SubscriberOK(u)'
  <2>1. Len(c.buf) <= Buffer
    BY <1>2, <1>3, <1>7, FeedAssumption DEF SubscriberOK, FeedAssumption
  <2> QED
    BY <1>6, <1>8, <2>1 DEF SubscriberOK
<1>10. NoGapFor(u)'
  <2>1. seen'[u].got \o chan'[u].buf = seen[u].got \o chan[u].buf /\ seen'[u].from = seen[u].from
    BY <1>5, <1>6, <1>7, <1>8
  <2>2. follows(seen[u].got \o chan[u].buf, seen[u].from, log)
        /\ (u \in subs => caughtUp(seen[u].got \o chan[u].buf, seen[u].from, log))
    BY <1>1, <1>2 DEF NoGapFor
  <2> QED
    BY <1>1, <2>1, <2>2 DEF NoGapFor
<1>11. \A r : r \in ToSet(seen[u].got) \/ r \in ToSet(chan[u].buf)
             => r \in ToSet(q.got) \/ r \in ToSet(c.buf)
  BY <1>3, <1>4, <1>6, <1>7
<1> QED
  BY <1>1, <1>6, <1>7, <1>9, <1>10, <1>11, OneSubscriberStep

LEMMA ReceiveEndStep ==
  ASSUME IInv, NEW u \in Subscribers, ReceiveEnd(u)
  PROVE  IInv'
<1> DEFINE q == [seen[u] EXCEPT !.state = "ended"]
<1>1. /\ seen[u].state = "on" /\ seen' = [seen EXCEPT ![u] = q]
      /\ UNCHANGED <<home, managerVars, enabled, items, subs, chan, log, fwd, polled, atHome,
                     budget, excused, handled>>
      /\ subs \in SUBSET Subscribers /\ excused \in SUBSET Ids
      /\ chan \in [Subscribers -> Channels] /\ seen \in [Subscribers -> Readers]
  BY DEF ReceiveEnd, IInv, TypeOK, queueVars
<1>2. chan[u] \in Channels /\ seen[u] \in Readers /\ SubscriberOK(u) /\ NoGapFor(u)
  BY SubscriberType
<1>3. q \in Readers /\ q.state = "ended" /\ q.got = seen[u].got /\ q.from = seen[u].from
  BY <1>2 DEF Readers
<1> HIDE DEF q
<1>4. chan' = [chan EXCEPT ![u] = chan[u]] /\ chan'[u] = chan[u] /\ seen'[u] = q
  BY <1>1
<1>5. SubscriberOK(u)'
  BY <1>1, <1>2, <1>3, <1>4 DEF SubscriberOK
<1>6. NoGapFor(u)'
  <2>1. follows(seen[u].got \o chan[u].buf, seen[u].from, log)
        /\ (u \in subs => caughtUp(seen[u].got \o chan[u].buf, seen[u].from, log))
    BY <1>1, <1>2 DEF NoGapFor
  <2> QED
    BY <1>1, <1>3, <1>4, <2>1 DEF NoGapFor
<1> QED
  BY <1>1, <1>2, <1>3, <1>4, <1>5, <1>6, OneSubscriberStep

LEMMA UnsubscribeStep ==
  ASSUME FeedAssumption, IInv, NEW u \in Subscribers, Unsubscribe(u)
  PROVE  IInv'
<1> DEFINE q == [seen[u] EXCEPT !.state = "left"]
           v == chan[u].closed \/ u \in subs
           c == [buf |-> <<>>, closed |-> v]
<1>1. /\ seen[u].state = "on" /\ seen' = [seen EXCEPT ![u] = q]
      /\ excused' = excused \cup (ToSet(chan[u].buf) \ {Refresh}) /\ subs' = subs \ {u}
      /\ chan' = [chan EXCEPT ![u] = c]
      /\ UNCHANGED <<home, managerVars, enabled, items, log, fwd, polled, atHome, budget, handled>>
      /\ subs \in SUBSET Subscribers /\ excused \in SUBSET Ids
      /\ chan \in [Subscribers -> Channels] /\ seen \in [Subscribers -> Readers]
  BY DEF Unsubscribe, IInv, TypeOK
<1>2. /\ chan[u] \in Channels /\ chan[u].buf \in Seq(Nat) /\ seen[u] \in Readers
  BY SubscriberType
<1>3. q \in Readers /\ q.state = "left" /\ q.got = seen[u].got
  BY <1>2 DEF Readers
<1>4. v \in BOOLEAN /\ <<>> \in Seq(Nat) /\ Len(<<>>) = 0
  BY EmptySeq
<1> HIDE DEF v, q
<1>5. c \in Channels /\ c.buf = <<>>
  BY <1>4, Zenon DEF Channels
<1> HIDE DEF c
<1>6. chan'[u] = c /\ seen'[u] = q
  BY <1>1
<1>7. SubscriberOK(u)' /\ NoGapFor(u)'
  BY <1>3, <1>4, <1>5, <1>6 DEF SubscriberOK, NoGapFor, FeedAssumption
<1>8. ToSet(chan[u].buf) \subseteq Nat
  BY <1>2, ElementsAreIn
<1>9. /\ excused' \in SUBSET Ids /\ excused \subseteq excused'
      /\ \A r \in Ids : r \in ToSet(chan[u].buf) => r \in excused'
  BY <1>1, <1>8 DEF Ids, Refresh
<1> QED
  BY <1>1, <1>3, <1>5, <1>7, <1>9, OneSubscriberStep

-----------------------------------------------------------------------------
(* The theorems *)

LEMMA InitInv ==
  ASSUME FeedAssumption, Init
  PROVE  IInv
<1>1. <<>> \in Seq(Ids) /\ <<>> \in Seq(Nat) /\ Len(<<>>) = 0 /\ 0 \in Nat
  BY EmptySeq
<1>2. mgr \in Managers /\ mgr.worker = "none"
  BY <1>1, Zenon DEF Init, Managers
<1>3. chan \in [Subscribers -> Channels] /\ \A u \in Subscribers : chan[u].buf = <<>>
  <2> DEFINE c == [buf |-> <<>>, closed |-> FALSE]
  <2>1. c \in Channels /\ c.buf = <<>>
    BY <1>1, Zenon DEF Channels
  <2>2. chan = [u \in Subscribers |-> c]
    BY DEF Init
  <2> HIDE DEF c
  <2> QED
    BY <2>1, <2>2
<1>4. /\ seen \in [Subscribers -> Readers]
      /\ \A u \in Subscribers : seen[u].state = "none" /\ seen[u].got = <<>>
  <2> DEFINE q == [state |-> "none", got |-> <<>>, from |-> 0]
  <2>1. q \in Readers /\ q.state = "none" /\ q.got = <<>>
    BY <1>1, Zenon DEF Readers
  <2>2. seen = [u \in Subscribers |-> q]
    BY DEF Init
  <2> HIDE DEF q
  <2> QED
    BY <2>1, <2>2
<1>5. fwd \in Forwarders /\ fwd.requeue = FALSE
  BY <1>1, Zenon DEF Init, Forwarders
<1>6. enabled \in [on : BOOLEAN, clearing : BOOLEAN] /\ home \in BOOLEAN
  BY Zenon DEF Init
<1>7. budget \in [toggles : Nat, errors : Nat]
  BY DEF Init, FeedAssumption
<1>8. TypeOK
  BY <1>1, <1>2, <1>3, <1>4, <1>5, <1>6, <1>7 DEF TypeOK, Init
<1>9. HolderInv
  BY <1>2, <1>5 DEF HolderInv
<1>10. SubscriberInv
  BY <1>1, <1>3, <1>4 DEF SubscriberInv, SubscriberOK, Init, FeedAssumption
<1>11. SubscriberSeesNoGap
  BY <1>4, NoGapPerSubscriber DEF AllSeeNoGap, NoGapFor
<1>12. Conserved
  BY DEF Conserved, Init
<1> QED
  BY <1>8, <1>9, <1>10, <1>11, <1>12 DEF IInv

LEMMA UnchangedInv ==
  ASSUME IInv, UNCHANGED vars
  PROVE  IInv'
<1>1. /\ mgr' = mgr /\ signals' = signals /\ next' = next
      /\ UNCHANGED <<home, queueVars, readerVars, budget, excused, handled>>
  BY DEF vars, managerVars
<1>2. mgr' \in Managers /\ signals' \in Nat /\ next' \in Nat
  BY <1>1 DEF IInv, TypeOK
<1>3. HolderInv' /\ InFlight' = InFlight
  BY <1>1 DEF IInv, HolderInv, InFlight, readerVars
<1> QED
  BY <1>1, <1>2, <1>3, ManagerStep

LEMMA NextInv ==
  ASSUME FeedAssumption, IInv, [Next]_vars
  PROVE  IInv'
<1>1. CASE UNCHANGED vars
  BY <1>1, UnchangedInv
<1>2. CASE Start \/ Publish \/ Stop \/ Signal
  BY <1>2, StartStep, PublishStep, StopStep, SignalStep
<1>3. CASE Worker
  BY <1>3, WorkerCheckStep, HandleUsageStep, EnqueuePublishStep, EnqueueBacklogStep DEF Worker
<1>4. CASE NotifyUsageRefresh
  BY <1>4, NotifyStep
<1>5. ASSUME NEW v \in BOOLEAN, SetEnabled(v) PROVE IInv'
  BY <1>5, SetEnabledStep
<1>6. CASE Clear
  BY <1>6, ClearStep
<1>7. ASSUME NEW k \in 0..Len(items), NEW n \in 1..Batch, Poll(k, n) PROVE IInv'
  BY <1>7, PollStep
<1>8. ASSUME NEW u \in Subscribers,
             Subscribe(u) \/ Receive(u) \/ ReceiveEnd(u) \/ Unsubscribe(u)
      PROVE  IInv'
  BY <1>8, SubscribeStep, ReceiveStep, ReceiveEndStep, UnsubscribeStep
<1>9. ASSUME NEW k \in 0..Len(items), ForwardPop(k) \/ ForwardRequeue(k) PROVE IInv'
  BY <1>9, ForwardPopStep, ForwardRequeueStep
<1>10. CASE ForwardOk
  BY <1>10, ForwardOkStep
<1>11. ASSUME NEW accepted \in BOOLEAN, ForwardError(accepted) PROVE IInv'
  BY <1>11, ForwardErrorStep
<1> QED
  BY <1>1, <1>2, <1>3, <1>4, <1>5, <1>6, <1>7, <1>8, <1>9, <1>10, <1>11 DEF Next

LEMMA Invariant == Spec => []IInv
<1>1. Init => IInv
  BY FeedAssumption, InitInv
<1>2. IInv /\ [Next]_vars => IInv'
  BY FeedAssumption, NextInv
<1> QED
  BY <1>1, <1>2, PTL DEF Spec

\* The queues, channels and buffers keep their types: only records, and no
\* refresh payload, are in the queue of Manager, in the backlog, in the batch
\* of the forwarder and in what pollers and Home get.
THEOREM TypeCorrect == Spec => []TypeOK
<1>1. IInv => TypeOK
  BY DEF IInv
<1> QED
  BY <1>1, Invariant, PTL

\* publishToSubscribers never puts more than usageSubscriberBuffer payloads
\* into the channel of a subscriber.
THEOREM BuffersBounded == Spec => [](\A u \in Subscribers : Len(chan[u].buf) <= Buffer)
<1>1. IInv => \A u \in Subscribers : Len(chan[u].buf) <= Buffer
  BY DEF IInv, SubscriberInv, SubscriberOK
<1> QED
  BY <1>1, Invariant, PTL

\* No record that Publish queued is lost between the worker, the backlog, the
\* subscribers, the pollers and the forwarder with its retries, for any
\* number of records and failures: it is somewhere, or was dropped for one of
\* the reasons that the code gives.
THEOREM RecordsConserved == Spec => []Conserved
<1>1. IInv => Conserved
  BY DEF IInv
<1> QED
  BY <1>1, Invariant, PTL

\* A subscriber of the RESP port sees the records published while it is
\* subscribed in order and without a gap, for any size of its buffer: when it
\* cannot keep up, its stream ends and never skips.
THEOREM NoSubscriberSkips == Spec => []SubscriberSeesNoGap
<1>1. IInv => SubscriberSeesNoGap
  BY DEF IInv
<1> QED
  BY <1>1, Invariant, PTL
=============================================================================
