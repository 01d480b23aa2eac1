--------------------------- MODULE WsRelayProofs ---------------------------
(***************************************************************************)
(* Machine-checked theorems about the websocket relay, for any number of   *)
(* sessions and calls, any capacity of the channels and any messages.      *)
(***************************************************************************)
EXTENDS WsRelay, FiniteSetTheorems, FunctionTheorems, TLAPS

-----------------------------------------------------------------------------
(* Types *)

\* What dispatch works on: nothing, or a message of a request.
Readings == [req : Requests, type : Types, step : {"send", "delete"}] \cup {Idle}

SessionRecords ==
  [handler : {"none", "upgraded", "placed", "run", "exit"},
   replaced : Sessions \cup {NoSession}, open : BOOLEAN, closed : BOOLEAN,
   pending : SUBSET Requests,
   cleaning : {"none", "sweep", "reset", "report", "done"},
   sweep : SUBSET Requests, holding : Requests \cup {NoRequest},
   reading : Readings]

RequestRecords ==
  [call : {"idle", "store", "load", "check", "write", "wait", "deliver", "done"},
   kind : {"nonstream", "stream"}, via : Sessions \cup {NoSession},
   buffer : Seq(Types), closed : BOOLEAN, watched : BOOLEAN,
   cancelled : BOOLEAN, streamMode : BOOLEAN, got : Nat,
   result : {"none", "ok", "error", "cancelled", "panicked"},
   asked : BOOLEAN, emitted : Nat, chunks : Nat, dropped : BOOLEAN]

TypeOK ==
  /\ current \in Sessions \cup {NoSession}
  /\ stop \in [step : {"idle", "cleanup", "done"}, took : Sessions \cup {NoSession}]
  /\ sess \in [Sessions -> SessionRecords]
  /\ req \in [Requests -> RequestRecords]
  /\ crashed \in BOOLEAN

-----------------------------------------------------------------------------
(* Buffers *)

Chunks(b) == {i \in DOMAIN b : b[i] = "chunk"}
NumChunks(b) == Cardinality(Chunks(b))
Holds(b, T) == \E i \in DOMAIN b : b[i] \in T

\* A buffer holds finitely many chunks.
LEMMA ChunksFinite ==
  ASSUME NEW b \in Seq(Types)
  PROVE  IsFiniteSet(Chunks(b)) /\ NumChunks(b) \in Nat
<1>1. Chunks(b) \in SUBSET (1 .. Len(b)) /\ Len(b) \in Nat
  BY DEF Chunks
<1>2. IsFiniteSet(1 .. Len(b))
  BY <1>1, FS_Interval
<1>3. IsFiniteSet(Chunks(b))
  BY <1>1, <1>2, FS_Subset
<1> QED BY <1>3, FS_CardinalityType DEF NumChunks

\* A message that is appended.
LEMMA ChunksAppend ==
  ASSUME NEW b \in Seq(Types), NEW type \in Types
  PROVE  /\ NumChunks(Append(b, type)) =
              NumChunks(b) + (IF type = "chunk" THEN 1 ELSE 0)
         /\ \A T : Holds(Append(b, type), T) <=> Holds(b, T) \/ type \in T
<1> DEFINE n == Len(b) + 1  c == Append(b, type)
<1>1. /\ Len(b) \in Nat /\ DOMAIN b = 1 .. Len(b) /\ DOMAIN c = 1 .. n
      /\ \A i \in 1 .. Len(b) : c[i] = b[i]
      /\ c[n] = type
  OBVIOUS
<1>2. DOMAIN c = DOMAIN b \cup {n} /\ n \notin DOMAIN b
  BY <1>1
<1> HIDE DEF c, n
<1>3. \A T : Holds(c, T) <=> Holds(b, T) \/ type \in T
  BY <1>1, <1>2 DEF Holds
<1>4. Chunks(c) = IF type = "chunk" THEN Chunks(b) \cup {n} ELSE Chunks(b)
  BY <1>1, <1>2 DEF Chunks
<1>5. n \notin Chunks(b) /\ IsFiniteSet(Chunks(b)) /\ NumChunks(b) \in Nat
  BY <1>2, ChunksFinite DEF Chunks
<1>6. type = "chunk" => NumChunks(c) = NumChunks(b) + 1
  BY <1>4, <1>5, FS_AddElement DEF NumChunks
<1>7. type # "chunk" => NumChunks(c) = NumChunks(b)
  BY <1>4, <1>5 DEF NumChunks
<1> QED BY <1>3, <1>5, <1>6, <1>7 DEF c

\* A message that is received.
LEMMA ChunksTail ==
  ASSUME NEW b \in Seq(Types), b # <<>>
  PROVE  /\ NumChunks(b) =
              NumChunks(Tail(b)) + (IF Head(b) = "chunk" THEN 1 ELSE 0)
         /\ \A T : Holds(b, T) <=> Holds(Tail(b), T) \/ Head(b) \in T
         /\ Tail(b) \in Seq(Types)
         /\ \A i \in DOMAIN Tail(b) : i + 1 \in DOMAIN b /\ Tail(b)[i] = b[i + 1]
<1> DEFINE c == Tail(b)
           n == Len(b)
<1>1. /\ n \in Nat /\ n > 0 /\ DOMAIN b = 1 .. n /\ c \in Seq(Types)
      /\ DOMAIN c = 1 .. (n - 1) /\ Head(b) = b[1]
      /\ \A i \in 1 .. (n - 1) : c[i] = b[i + 1]
  OBVIOUS
<1> HIDE DEF c, n
<1>2. \A i \in DOMAIN c : i \in Int /\ i + 1 \in DOMAIN b /\ i + 1 # 1 /\ c[i] = b[i + 1]
  BY <1>1
<1>3. \A i \in DOMAIN b : i # 1 => i \in Int /\ i - 1 \in DOMAIN c /\ c[i - 1] = b[i]
  <2> TAKE i \in DOMAIN b
  <2> HAVE i # 1
  <2>1. i \in 2 .. n
    BY <1>1
  <2>2. i - 1 \in 1 .. (n - 1) /\ (i - 1) + 1 = i
    BY <1>1, <2>1
  <2> QED BY <1>1, <2>1, <2>2
<1>4. \A T : Holds(b, T) <=> Holds(c, T) \/ Head(b) \in T
  <2> TAKE T
  <2>1. ASSUME Holds(b, T) PROVE Holds(c, T) \/ Head(b) \in T
    BY <1>1, <1>3, <2>1 DEF Holds
  <2>2. ASSUME Holds(c, T) PROVE Holds(b, T)
    BY <1>2, <2>2 DEF Holds
  <2>3. 1 \in DOMAIN b
    BY <1>1
  <2>4. ASSUME Head(b) \in T PROVE Holds(b, T)
    BY <1>1, <2>3, <2>4 DEF Holds
  <2> QED BY <2>1, <2>2, <2>4
<1>5. Cardinality(Chunks(b) \ {1}) = NumChunks(c) /\ IsFiniteSet(Chunks(b) \ {1})
  <2> DEFINE f == [i \in Chunks(c) |-> i + 1]
             D == Chunks(b) \ {1}
  <2>1. f \in [Chunks(c) -> D]
    BY <1>2 DEF Chunks
  <2>2. \A i, j \in Chunks(c) : f[i] = f[j] => i = j
    BY <1>2 DEF Chunks
  <2>3. \A k \in D : \E i \in Chunks(c) : f[i] = k
    <3> TAKE k \in D
    <3>1. k \in DOMAIN b /\ k # 1 /\ b[k] = "chunk"
      BY DEF Chunks
    <3>2. k - 1 \in Chunks(c) /\ (k - 1) + 1 = k
      BY <1>3, <3>1 DEF Chunks
    <3> QED BY <3>2
  <2> HIDE DEF f
  <2>4. f \in Bijection(Chunks(c), D)
    BY <2>1, <2>2, <2>3, Fun_IsBij
  <2>5. ExistsBijection(Chunks(c), D)
    BY <2>4 DEF ExistsBijection
  <2> QED BY <1>1, <2>5, ChunksFinite, FS_Bijection DEF NumChunks
<1>6. IsFiniteSet(Chunks(b)) /\ NumChunks(b) \in Nat /\ NumChunks(c) \in Nat
  BY <1>1, ChunksFinite
<1>7. 1 \in Chunks(b) <=> Head(b) = "chunk"
  BY <1>1 DEF Chunks
<1>8. NumChunks(b) = NumChunks(c) + (IF Head(b) = "chunk" THEN 1 ELSE 0)
  <2>1. Cardinality(Chunks(b) \ {1}) =
          IF 1 \in Chunks(b) THEN Cardinality(Chunks(b)) - 1 ELSE Cardinality(Chunks(b))
    BY <1>6, FS_RemoveElement
  <2>2. CASE 1 \in Chunks(b)
    BY <1>5, <1>6, <1>7, <2>1, <2>2 DEF NumChunks
  <2>3. CASE 1 \notin Chunks(b)
    BY <1>5, <1>6, <1>7, <2>1, <2>3 DEF NumChunks
  <2> QED BY <2>2, <2>3
<1> QED BY <1>1, <1>2, <1>4, <1>8 DEF c

\* A buffer without chunks.
LEMMA ChunksNone ==
  ASSUME NEW b \in Seq(Types), \A i \in DOMAIN b : b[i] # "chunk"
  PROVE  NumChunks(b) = 0
<1>1. Chunks(b) = {}
  BY DEF Chunks
<1> QED BY <1>1, FS_EmptySet DEF NumChunks

-----------------------------------------------------------------------------
(* The inductive invariant *)

\* A session is closed from the moment its cleanup begins, and a connection
\* that was not placed has replaced nothing; Stop has taken nothing before it
\* runs.
SessionInv ==
  /\ \A s \in Sessions :
       /\ sess[s].closed <=> sess[s].cleaning # "none"
       /\ sess[s].handler \in {"none", "upgraded"} => sess[s].replaced = NoSession
  /\ stop.step = "idle" => stop.took = NoSession

\* Reading(s, r): dispatch of session s works on a message for call r.
Reading(s, r) == sess[s].reading.step # "idle" /\ sess[s].reading.req = r
Sending(s, r) == sess[s].reading.step = "send" /\ sess[s].reading.req = r

\* The steps of a call up to the write of its request.
Early == {"idle", "store", "load", "check", "write"}

\* Where a call may be found: a step that names its session has one, and only
\* what was written to the connection is answered or watched.
PlaceOK(r) ==
  /\ req[r].call \notin {"idle", "done"} => req[r].via \in Sessions
  /\ req[r].asked \/ req[r].watched => req[r].via \in Sessions /\ req[r].call \notin Early
  /\ req[r].call # "done" => req[r].result = "none"
  /\ \A s \in Sessions : Reading(s, r) => req[r].via = s /\ req[r].call \notin Early

\* The table of pending requests under the sweep of cleanup.
TableOK(r) ==
  LET s == req[r].via IN
  /\ req[r].call \in {"load", "check"} /\ ~sess[s].closed => r \in sess[s].pending
  /\ req[r].call \in {"write", "wait", "deliver"} /\ ~req[r].closed =>
       /\ r \in sess[s].pending
       /\ sess[s].cleaning \in {"none", "sweep"}
       /\ sess[s].cleaning = "sweep" => r \in sess[s].sweep \/ sess[s].holding = r

Spoilt(r) == req[r].dropped \/ req[r].cancelled

\* The channel of a call: nothing but errors follows a terminal message, a
\* closed channel holds one, and the client answers no more after it, unless a
\* message was dropped or the caller left.
ChannelOK(r) ==
  /\ \A i, j \in DOMAIN req[r].buffer :
       i < j /\ req[r].buffer[i] \in Terminal => req[r].buffer[j] = "error"
  /\ req[r].call # "done" /\ req[r].closed /\ ~Spoilt(r) => Holds(req[r].buffer, Terminal)
  /\ Holds(req[r].buffer, {"resp", "end"}) =>
       ~req[r].asked /\ \A s \in Sessions : ~Sending(s, r)
  /\ Holds(req[r].buffer, Terminal) /\ ~req[r].closed =>
       ~req[r].asked /\ \A s \in Sessions : ~Sending(s, r)
  /\ \A s \in Sessions : Reading(s, r) =>
       /\ sess[s].reading.type \in Terminal => ~req[r].asked
       /\ sess[s].reading.step = "delete" /\ req[r].call # "done" /\ ~Spoilt(r) =>
            Holds(req[r].buffer, Terminal)
  /\ req[r].call \in Early =>
       \A i \in DOMAIN req[r].buffer : req[r].buffer[i] = "error" /\ req[r].closed

InFlight(r) == \E s \in Sessions : Sending(s, r) /\ sess[s].reading.type = "chunk"
Flight(r) == IF InFlight(r) THEN 1 ELSE 0

\* Every chunk the client sent is accounted for, unless the call is going to
\* end in an error.
ChunkOK(r) ==
  /\ req[r].call # "done" /\ ~Spoilt(r) /\ ~crashed =>
       \/ req[r].got + NumChunks(req[r].buffer) + Flight(r) = req[r].chunks
       \/ Holds(req[r].buffer, {"error"}) /\ ~Holds(req[r].buffer, {"resp", "end"})
  /\ req[r].result = "ok" /\ ~Spoilt(r) =>
       req[r].got = req[r].chunks /\ ~req[r].asked /\ ~InFlight(r)

PlaceInv == \A r \in Requests : PlaceOK(r)
TableInv == \A r \in Requests : TableOK(r)
ChannelInv == \A r \in Requests : ChannelOK(r)
ChunkInv == \A r \in Requests : ChunkOK(r)

IInv == TypeOK /\ SessionInv /\ SuccessorStaysReachable
        /\ PlaceInv /\ TableInv /\ ChannelInv /\ ChunkInv

-----------------------------------------------------------------------------
(* Type correctness *)

LEMMA TypeInit == Init => TypeOK
<1> SUFFICES ASSUME Init PROVE TypeOK
  OBVIOUS
<1>1. NewSession \in SessionRecords
  <2>1. Idle \in Readings /\ {} \in SUBSET Requests
    BY DEF Readings
  <2> QED BY <2>1, Zenon DEF NewSession, SessionRecords
<1>2. \A k \in {"nonstream", "stream"} : NewRequest(k) \in RequestRecords
  BY DEF NewRequest, RequestRecords
<1> QED
  BY <1>1, <1>2 DEF Init, TypeOK

\* A send on a channel keeps the call well typed.
LEMMA OfferType ==
  ASSUME NEW q \in RequestRecords, NEW type \in Types
  PROVE  offer(q, type) \in RequestRecords
<1>1. q.buffer \in Seq(Types)
  BY DEF RequestRecords
<1>2. Append(q.buffer, type) \in Seq(Types)
  BY <1>1
<1> QED BY <1>2 DEF offer, RequestRecords

LEMMA ReturnedType ==
  ASSUME NEW q \in RequestRecords,
         NEW how \in {"none", "ok", "error", "cancelled", "panicked"}
  PROVE  returned(q, how) \in RequestRecords
BY DEF returned, RequestRecords

LEMMA ReceivedType ==
  ASSUME NEW q \in RequestRecords, NEW type \in Types
  PROVE  received(q, type) \in RequestRecords
<1>1. CASE type = "error"
  BY <1>1, ReturnedType, Zenon DEF received
<1>2. CASE type \in {"resp", "end"}
  BY <1>2, ReturnedType DEF received
<1>3. CASE type \notin {"error", "resp", "end"}
  <2> DEFINE c == IF q.kind = "stream" THEN "deliver" ELSE "wait"
             g == IF type = "chunk" THEN q.got + 1 ELSE q.got
  <2>1. received(q, type) = [q EXCEPT !.call = c, !.streamMode = TRUE, !.got = g]
    BY <1>3, Zenon DEF received
  <2>2. c \in {"deliver", "wait"} /\ g \in Nat
    BY DEF RequestRecords
  <2> HIDE DEF c, g
  <2> QED BY <2>1, <2>2 DEF RequestRecords
<1> QED BY <1>1, <1>2, <1>3

\* A step that changes one session, or one call, is well typed when the new
\* record is.
LEMMA TypeUpdate ==
  ASSUME TypeOK
  PROVE  /\ \A s \in Sessions, x \in SessionRecords :
              [sess EXCEPT ![s] = x] \in [Sessions -> SessionRecords]
         /\ \A r \in Requests, x \in RequestRecords :
              [req EXCEPT ![r] = x] \in [Requests -> RequestRecords]
         /\ \A s \in Sessions : sess[s] \in SessionRecords
         /\ \A r \in Requests : req[r] \in RequestRecords
BY DEF TypeOK

\* The updates of a session that the steps make.
LEMMA SessionUpdates ==
  ASSUME NEW q \in SessionRecords
  PROVE  /\ [q EXCEPT !.handler = "upgraded", !.open = TRUE] \in SessionRecords
         /\ \A c \in Sessions \cup {NoSession} :
              [q EXCEPT !.handler = "placed", !.replaced = c] \in SessionRecords
         /\ [q EXCEPT !.closed = TRUE, !.cleaning = "sweep", !.sweep = q.pending]
              \in SessionRecords
         /\ \A h \in {"run", "exit"} : [q EXCEPT !.handler = h] \in SessionRecords
         /\ \A m \in Readings : [q EXCEPT !.reading = m] \in SessionRecords
         /\ \A r \in Requests :
              /\ [q EXCEPT !.reading = Idle, !.pending = @ \ {r}] \in SessionRecords
              /\ [q EXCEPT !.holding = r, !.sweep = @ \ {r}] \in SessionRecords
              /\ [q EXCEPT !.pending = @ \cup {r}] \in SessionRecords
              /\ [q EXCEPT !.pending = @ \ {r}] \in SessionRecords
         /\ [q EXCEPT !.holding = NoRequest] \in SessionRecords
         /\ [q EXCEPT !.pending = {}, !.cleaning = "reset"] \in SessionRecords
         /\ [q EXCEPT !.open = FALSE, !.cleaning = "report"] \in SessionRecords
         /\ [q EXCEPT !.cleaning = "done"] \in SessionRecords
<1>1. /\ q.pending \in SUBSET Requests /\ q.sweep \in SUBSET Requests
      /\ Idle \in Readings
  BY DEF SessionRecords, Readings
<1>2. [q EXCEPT !.handler = "upgraded", !.open = TRUE] \in SessionRecords
  BY Zenon DEF SessionRecords
<1>3. \A c \in Sessions \cup {NoSession} :
        [q EXCEPT !.handler = "placed", !.replaced = c] \in SessionRecords
  BY Zenon DEF SessionRecords
<1>4. [q EXCEPT !.closed = TRUE, !.cleaning = "sweep", !.sweep = q.pending]
              \in SessionRecords
  BY <1>1, Zenon DEF SessionRecords
<1>5. \A h \in {"run", "exit"} : [q EXCEPT !.handler = h] \in SessionRecords
  BY SMT DEF SessionRecords
<1>6. \A m \in Readings : [q EXCEPT !.reading = m] \in SessionRecords
  BY Zenon DEF SessionRecords
<1>7. ASSUME NEW r \in Requests
      PROVE  /\ [q EXCEPT !.reading = Idle, !.pending = @ \ {r}] \in SessionRecords
             /\ [q EXCEPT !.holding = r, !.sweep = @ \ {r}] \in SessionRecords
             /\ [q EXCEPT !.pending = @ \cup {r}] \in SessionRecords
             /\ [q EXCEPT !.pending = @ \ {r}] \in SessionRecords
  <2>1. /\ q.pending \ {r} \in SUBSET Requests /\ q.sweep \ {r} \in SUBSET Requests
        /\ q.pending \cup {r} \in SUBSET Requests
    BY <1>1
  <2>2. [q EXCEPT !.reading = Idle, !.pending = @ \ {r}] \in SessionRecords
    BY <1>1, <2>1, Zenon DEF SessionRecords
  <2>3. [q EXCEPT !.holding = r, !.sweep = @ \ {r}] \in SessionRecords
    BY <2>1, Zenon DEF SessionRecords
  <2>4. [q EXCEPT !.pending = @ \cup {r}] \in SessionRecords
    BY <2>1, Zenon DEF SessionRecords
  <2>5. [q EXCEPT !.pending = @ \ {r}] \in SessionRecords
    BY <2>1, Zenon DEF SessionRecords
  <2> QED BY <2>2, <2>3, <2>4, <2>5
<1>8. [q EXCEPT !.holding = NoRequest] \in SessionRecords
  BY Zenon DEF SessionRecords
<1>9. [q EXCEPT !.pending = {}, !.cleaning = "reset"] \in SessionRecords
  BY Zenon DEF SessionRecords
<1>10. [q EXCEPT !.open = FALSE, !.cleaning = "report"] \in SessionRecords
  BY Zenon DEF SessionRecords
<1>11. [q EXCEPT !.cleaning = "done"] \in SessionRecords
  BY Zenon DEF SessionRecords
<1> QED
  BY <1>2, <1>3, <1>4, <1>5, <1>6, <1>7, <1>8, <1>9, <1>10, <1>11, Zenon

CallSteps == {"store", "load", "check", "write", "wait", "deliver", "done"}

\* The updates of a call that the steps make.
LEMMA RequestUpdates ==
  ASSUME NEW q \in RequestRecords
  PROVE  /\ \A a \in BOOLEAN, c \in Nat :
              [q EXCEPT !.emitted = @ + 1, !.asked = a, !.chunks = c] \in RequestRecords
         /\ \A b \in BOOLEAN :
              /\ [q EXCEPT !.closed = b] \in RequestRecords
              /\ [q EXCEPT !.watched = FALSE, !.closed = b] \in RequestRecords
         /\ \A c \in CallSteps : [q EXCEPT !.call = c] \in RequestRecords
         /\ \A s \in Sessions : [q EXCEPT !.call = "store", !.via = s] \in RequestRecords
         /\ [q EXCEPT !.call = "wait", !.watched = TRUE, !.asked = TRUE] \in RequestRecords
         /\ [q EXCEPT !.cancelled = TRUE] \in RequestRecords
         /\ [q EXCEPT !.watched = FALSE] \in RequestRecords
         /\ q.buffer # <<>> => /\ [q EXCEPT !.buffer = Tail(@)] \in RequestRecords
                               /\ Head(q.buffer) \in Types
<1>1. q.emitted + 1 \in Nat
  BY DEF RequestRecords
<1>2. \A a \in BOOLEAN, c \in Nat :
        [q EXCEPT !.emitted = @ + 1, !.asked = a, !.chunks = c] \in RequestRecords
  BY <1>1, Zenon DEF RequestRecords
<1>3. \A b \in BOOLEAN : [q EXCEPT !.closed = b] \in RequestRecords
  BY Zenon DEF RequestRecords
<1>4. \A b \in BOOLEAN :
        [q EXCEPT !.watched = FALSE, !.closed = b] \in RequestRecords
  BY Zenon DEF RequestRecords
<1>5. \A c \in CallSteps : [q EXCEPT !.call = c] \in RequestRecords
  BY DEF RequestRecords, CallSteps
<1>6. \A s \in Sessions : [q EXCEPT !.call = "store", !.via = s] \in RequestRecords
  BY Zenon DEF RequestRecords
<1>7. [q EXCEPT !.call = "wait", !.watched = TRUE, !.asked = TRUE] \in RequestRecords
  BY Zenon DEF RequestRecords
<1>8. [q EXCEPT !.cancelled = TRUE] \in RequestRecords
  BY Zenon DEF RequestRecords
<1>9. [q EXCEPT !.watched = FALSE] \in RequestRecords
  BY Zenon DEF RequestRecords
<1>10. ASSUME q.buffer # <<>>
       PROVE  /\ [q EXCEPT !.buffer = Tail(@)] \in RequestRecords
              /\ Head(q.buffer) \in Types
  <2>1. q.buffer \in Seq(Types)
    BY DEF RequestRecords
  <2>2. Tail(q.buffer) \in Seq(Types) /\ Head(q.buffer) \in Types
    BY <1>10, <2>1
  <2>3. [q EXCEPT !.buffer = Tail(@)] \in RequestRecords
    BY <2>2, Zenon DEF RequestRecords
  <2> QED BY <2>2, <2>3
<1> QED
  BY <1>2, <1>3, <1>4, <1>5, <1>6, <1>7, <1>8, <1>9, <1>10, Zenon

\* A cleanup that begins keeps the types.
LEMMA CleanupType ==
  ASSUME TypeOK, NEW s \in Sessions, BeginCleanup(s)
  PROVE  TypeOK'
<1>1. sess' \in [Sessions -> SessionRecords]
  <2> DEFINE x == [sess[s] EXCEPT !.closed = TRUE, !.cleaning = "sweep",
                                  !.sweep = sess[s].pending]
  <2>1. x \in SessionRecords
    BY TypeUpdate, SessionUpdates, Zenon
  <2>2. sess' = [sess EXCEPT ![s] = x]
    BY Zenon DEF BeginCleanup
  <2> QED BY <2>1, <2>2, TypeUpdate
<1> QED BY <1>1 DEF BeginCleanup, TypeOK

\* A request that takes its entry back keeps the types.
LEMMA GiveUpType ==
  ASSUME TypeOK, NEW r \in Requests, req[r].via \in Sessions, GiveUp(r)
  PROVE  TypeOK'
<1>1. sess' \in [Sessions -> SessionRecords]
  BY TypeUpdate, SessionUpdates, Zenon DEF GiveUp
<1>2. req' \in [Requests -> RequestRecords]
  <2> DEFINE q == returned(req[r], "error")
             b == q.closed \/ r \in sess[req[r].via].pending
  <2>1. q \in RequestRecords /\ b \in BOOLEAN
    BY TypeUpdate, ReturnedType
  <2>2. [q EXCEPT !.closed = b] \in RequestRecords
    BY <2>1, RequestUpdates, Zenon
  <2>3. req' = [req EXCEPT ![r] = [q EXCEPT !.closed = b]]
    BY Zenon DEF GiveUp
  <2> QED BY <2>2, <2>3, TypeUpdate
<1> QED BY <1>1, <1>2 DEF GiveUp, TypeOK

\* The steps of a session keep the types.
LEMMA SessionType ==
  ASSUME TypeOK, NEW s \in Sessions, SessionStep(s)
  PROVE  TypeOK'
<1> DEFINE m == sess[s].reading
<1>0. /\ m \in Readings /\ m.type \in Types
      /\ m.step # "idle" => m.req \in Requests
  BY DEF TypeOK, SessionRecords, Readings, Idle, Types
<1>1. CASE Upgrade(s)
  BY <1>1, TypeUpdate, SessionUpdates, Zenon DEF TypeOK, Upgrade
<1>2. CASE Place(s)
  <2>1. [sess[s] EXCEPT !.handler = "placed", !.replaced = current] \in SessionRecords
    BY TypeUpdate, SessionUpdates, Zenon DEF TypeOK
  <2> QED BY <1>2, <2>1, TypeUpdate DEF TypeOK, Place
<1>3. CASE ReplacedCleanup(s)
  <2>1. sess[s].replaced \in Sessions
    BY <1>3 DEF ReplacedCleanup, TypeOK, SessionRecords
  <2> QED BY <1>3, <2>1, CleanupType DEF ReplacedCleanup
<1>4. CASE StartReader(s)
  BY <1>4, TypeUpdate, SessionUpdates, Zenon DEF TypeOK, StartReader
<1>5. CASE HeartbeatFails(s) \/ ReadFails(s)
  BY <1>5, CleanupType DEF HeartbeatFails, ReadFails
<1>6. CASE ReaderExit(s)
  BY <1>6, TypeUpdate, SessionUpdates, Zenon DEF TypeOK, ReaderExit
<1>7. CASE \E r \in Requests, type \in Types : Read(s, r, type)
  <2>1. PICK r \in Requests, type \in Types : Read(s, r, type)
    BY <1>7
  <2>2. req' \in [Requests -> RequestRecords]
    <3> DEFINE c == IF type = "chunk" THEN req[r].chunks + 1 ELSE req[r].chunks
               a == type \notin Terminal
    <3>1. c \in Nat /\ a \in BOOLEAN
      BY DEF TypeOK, RequestRecords
    <3>2. req' = [req EXCEPT ![r] = [req[r] EXCEPT !.emitted = @ + 1, !.asked = a,
                                                   !.chunks = c]]
      BY <2>1 DEF Read, TypeOK
    <3> HIDE DEF a, c
    <3> QED BY <3>1, <3>2, TypeUpdate, RequestUpdates, Zenon
  <2>3. sess' \in [Sessions -> SessionRecords]
    <3>1. [req |-> r, type |-> type, step |-> "send"] \in Readings
      BY DEF Readings
    <3> QED BY <2>1, <3>1, TypeUpdate, SessionUpdates, Zenon DEF TypeOK, Read
  <2> QED BY <2>1, <2>2, <2>3 DEF Read, TypeOK
<1>8. CASE DispatchSend(s)
  <2> DEFINE x == IF m.type \in Terminal THEN [m EXCEPT !.step = "delete"] ELSE Idle
  <2>1. m.req \in Requests
    BY <1>0, <1>8 DEF DispatchSend
  <2>2. sess' = [sess EXCEPT ![s] = [sess[s] EXCEPT !.reading = x]]
    BY <1>8 DEF DispatchSend, TypeOK
  <2>3. x \in Readings
    BY <1>0, <1>8 DEF DispatchSend, Readings, Idle
  <2> HIDE DEF x
  <2>4. sess' \in [Sessions -> SessionRecords]
    BY <2>2, <2>3, TypeUpdate, SessionUpdates, Zenon
  <2>5. req' \in [Requests -> RequestRecords]
    BY <1>0, <1>8, <2>1, OfferType, TypeUpdate DEF DispatchSend
  <2>6. crashed' \in BOOLEAN
    BY <1>8, <2>1 DEF DispatchSend, TypeOK, RequestRecords
  <2> QED BY <1>8, <2>4, <2>5, <2>6 DEF DispatchSend, TypeOK
<1>9. CASE DispatchDelete(s)
  <2>1. m.req \in Requests
    BY <1>0, <1>9 DEF DispatchDelete
  <2>2. sess' \in [Sessions -> SessionRecords]
    BY <1>9, <2>1, TypeUpdate, SessionUpdates, Zenon DEF DispatchDelete
  <2>3. req' \in [Requests -> RequestRecords]
    <3> DEFINE b == req[m.req].closed \/ m.req \in sess[s].pending
    <3>1. req' = [req EXCEPT ![m.req] = [req[m.req] EXCEPT !.closed = b]]
      BY <1>9 DEF DispatchDelete, TypeOK
    <3>2. b \in BOOLEAN
      OBVIOUS
    <3> HIDE DEF b
    <3> QED BY <2>1, <3>1, <3>2, TypeUpdate, RequestUpdates, Zenon
  <2> QED BY <1>9, <2>2, <2>3 DEF DispatchDelete, TypeOK
<1>10. CASE \E r \in Requests : SweepLoad(s, r)
  <2>1. PICK r \in Requests : SweepLoad(s, r)
    BY <1>10
  <2>2. [sess[s] EXCEPT !.holding = r, !.sweep = @ \ {r}] \in SessionRecords
    BY TypeUpdate, SessionUpdates, Zenon
  <2> QED BY <2>1, <2>2, TypeUpdate DEF TypeOK, SweepLoad
<1>11. CASE SweepClose(s)
  <2> DEFINE r == sess[s].holding
  <2>1. r \in Requests
    BY <1>11 DEF TypeOK, SweepClose, SessionRecords
  <2>2. sess' \in [Sessions -> SessionRecords]
    BY <1>11, TypeUpdate, SessionUpdates, Zenon DEF SweepClose
  <2>3. [offer(req[r], "error") EXCEPT !.closed = TRUE] \in RequestRecords
    BY <2>1, OfferType, TypeUpdate, RequestUpdates, Zenon DEF Types, Terminal
  <2>4. req' \in [Requests -> RequestRecords]
    BY <1>11, <2>1, <2>3, TypeUpdate DEF SweepClose
  <2>5. crashed' \in BOOLEAN
    BY <1>11, <2>1 DEF SweepClose, TypeOK, RequestRecords
  <2> QED BY <1>11, <2>2, <2>4, <2>5 DEF SweepClose, TypeOK
<1>12. CASE ResetPending(s) \/ CloseConn(s)
  <2>1. /\ [sess[s] EXCEPT !.pending = {}, !.cleaning = "reset"] \in SessionRecords
        /\ [sess[s] EXCEPT !.open = FALSE, !.cleaning = "report"] \in SessionRecords
    BY TypeUpdate, SessionUpdates, Zenon
  <2>2. CASE ResetPending(s)
    BY <2>1, <2>2, TypeUpdate DEF TypeOK, ResetPending
  <2>3. CASE CloseConn(s)
    BY <2>1, <2>3, TypeUpdate DEF TypeOK, CloseConn
  <2> QED BY <1>12, <2>2, <2>3
<1>13. CASE handleSessionClosed(s)
  BY <1>13, TypeUpdate, SessionUpdates, Zenon DEF TypeOK, handleSessionClosed
<1> QED
  BY <1>1, <1>2, <1>3, <1>4, <1>5, <1>6, <1>7, <1>8, <1>9, <1>10, <1>11, <1>12,
     <1>13 DEF SessionStep

\* The steps of a call keep the types.
LEMMA CallType ==
  ASSUME TypeOK, PlaceInv, NEW r \in Requests, CallStep(r)
  PROVE  TypeOK'
<1>0. /\ req[r] \in RequestRecords
      /\ req[r].call \notin {"idle", "done"} \/ req[r].watched => req[r].via \in Sessions
  BY TypeUpdate DEF PlaceInv, PlaceOK
<1>1. CASE Lookup(r)
  <2> DEFINE y == IF current = NoSession THEN returned(req[r], "error")
                  ELSE [req[r] EXCEPT !.call = "store", !.via = current]
  <2>1. y \in RequestRecords
    BY <1>0, ReturnedType, RequestUpdates, Zenon DEF TypeOK
  <2>2. req' = [req EXCEPT ![r] = y]
    BY <1>1 DEF Lookup
  <2> QED BY <1>1, <2>1, <2>2, TypeUpdate DEF Lookup, TypeOK
<1>2. CASE Store(r)
  <2>1. sess' \in [Sessions -> SessionRecords]
    BY <1>0, <1>2, TypeUpdate, SessionUpdates, Zenon DEF Store
  <2>2. req' \in [Requests -> RequestRecords]
    BY <1>0, <1>2, TypeUpdate, RequestUpdates, Zenon DEF Store, CallSteps
  <2> QED BY <1>2, <2>1, <2>2 DEF Store, TypeOK
<1>3. CASE Load(r)
  <2>1. /\ [req[r] EXCEPT !.call = "check"] \in RequestRecords
        /\ returned(req[r], "panicked") \in RequestRecords
    BY <1>0, ReturnedType, RequestUpdates, Zenon DEF CallSteps
  <2> QED BY <1>3, <2>1, TypeUpdate DEF Load, TypeOK
<1>4. CASE Check(r)
  BY <1>0, <1>4, TypeUpdate, RequestUpdates, Zenon DEF Check, CallSteps, TypeOK
<1>5. CASE CheckRefused(r)
  BY <1>0, <1>5, GiveUpType DEF CheckRefused
<1>6. CASE WriteOk(r)
  <2>1. [req[r] EXCEPT !.call = "wait", !.watched = TRUE, !.asked = TRUE]
           \in RequestRecords
    BY <1>0, RequestUpdates, Zenon
  <2> QED BY <1>6, <2>1, TypeUpdate DEF WriteOk, TypeOK
<1>7. CASE WriteFails(r)
  BY <1>0, <1>7, GiveUpType DEF WriteFails
<1>8. CASE Cancel(r)
  BY <1>0, <1>8, TypeUpdate, RequestUpdates, Zenon DEF Cancel, TypeOK
<1>9. CASE WatchCancel(r)
  <2> DEFINE b == req[r].closed \/ r \in sess[req[r].via].pending
  <2>1. req' = [req EXCEPT ![r] = [req[r] EXCEPT !.watched = FALSE, !.closed = b]]
    BY <1>9, Zenon DEF WatchCancel
  <2>2. b \in BOOLEAN
    OBVIOUS
  <2> HIDE DEF b
  <2>3. req' \in [Requests -> RequestRecords]
    BY <1>0, <2>1, <2>2, TypeUpdate, RequestUpdates, Zenon
  <2>4. req[r].via \in Sessions
    BY <1>0, <1>9 DEF WatchCancel
  <2>5. sess' \in [Sessions -> SessionRecords]
    BY <1>9, <2>4, TypeUpdate, SessionUpdates, Zenon DEF WatchCancel
  <2> QED BY <1>9, <2>3, <2>5 DEF WatchCancel, TypeOK
<1>10. CASE WatchClosed(r)
  BY <1>0, <1>10, TypeUpdate, RequestUpdates, Zenon DEF WatchClosed, TypeOK
<1>11. CASE Receive(r)
  <2> DEFINE q == [req[r] EXCEPT !.buffer = Tail(@)]
  <2>1. q \in RequestRecords /\ Head(req[r].buffer) \in Types
    BY <1>0, <1>11, RequestUpdates, Zenon DEF Receive
  <2>2. req' = [req EXCEPT ![r] = received(q, Head(req[r].buffer))]
    BY <1>11 DEF Receive
  <2>3. received(q, Head(req[r].buffer)) \in RequestRecords
    BY <2>1, ReceivedType
  <2> HIDE DEF q
  <2> QED BY <1>11, <2>2, <2>3, TypeUpdate DEF Receive, TypeOK
<1>12. CASE ReceiveClosed(r)
  <2> DEFINE how == IF req[r].kind = "nonstream" /\ req[r].streamMode
                    THEN "ok" ELSE "error"
  <2>1. req' = [req EXCEPT ![r] = returned(req[r], how)]
    BY <1>12 DEF ReceiveClosed
  <2>2. returned(req[r], how) \in RequestRecords
    BY <1>0, ReturnedType
  <2> HIDE DEF how
  <2> QED BY <1>12, <2>1, <2>2, TypeUpdate DEF ReceiveClosed, TypeOK
<1>13. CASE ReceiveCancelled(r)
  BY <1>0, <1>13, TypeUpdate, ReturnedType DEF ReceiveCancelled, TypeOK
<1>14. CASE Deliver(r)
  BY <1>0, <1>14, TypeUpdate, RequestUpdates, Zenon DEF Deliver, CallSteps, TypeOK
<1> QED
  BY <1>1, <1>2, <1>3, <1>4, <1>5, <1>6, <1>7, <1>8, <1>9, <1>10, <1>11, <1>12,
     <1>13, <1>14 DEF CallStep

LEMMA StopType ==
  ASSUME TypeOK, StopTake \/ StopCleanup \/ StopReturn
  PROVE  TypeOK'
<1>1. CASE StopTake
  BY <1>1 DEF TypeOK, StopTake
<1>2. CASE StopCleanup
  <2>1. stop.took \in Sessions
    BY <1>2 DEF StopCleanup, TypeOK
  <2> QED BY <1>2, <2>1, CleanupType DEF StopCleanup
<1>3. CASE StopReturn
  BY <1>3 DEF TypeOK, StopReturn
<1> QED BY <1>1, <1>2, <1>3

-----------------------------------------------------------------------------
(***************************************************************************)
(* The life of the sessions: SessionInv and SuccessorStaysReachable.       *)
(***************************************************************************)

\* The steps of requests leave the life of every session alone.
SameLives ==
  /\ UNCHANGED <<current, stop>>
  /\ \A t \in Sessions :
       /\ sess'[t].handler = sess[t].handler /\ sess'[t].replaced = sess[t].replaced
       /\ sess'[t].closed = sess[t].closed /\ sess'[t].cleaning = sess[t].cleaning

LivesInv == SessionInv /\ SuccessorStaysReachable

LEMMA SameLivesKept ==
  ASSUME LivesInv, SameLives
  PROVE  LivesInv'
BY DEF LivesInv, SessionInv, SuccessorStaysReachable, SameLives

LEMMA CallLives ==
  ASSUME TypeOK, NEW r \in Requests, CallStep(r)
  PROVE  SameLives
<1>1. CASE UNCHANGED <<current, stop, sess>>
  BY <1>1 DEF SameLives
<1>2. CASE Store(r)
  BY <1>2 DEF SameLives, TypeOK, SessionRecords, Store
<1>3. CASE GiveUp(r)
  BY <1>3 DEF SameLives, TypeOK, SessionRecords, GiveUp
<1>4. CASE WatchCancel(r)
  BY <1>4 DEF SameLives, TypeOK, SessionRecords, WatchCancel
<1> QED
  BY <1>1, <1>2, <1>3, <1>4 DEF CallStep, Lookup, Load, Check, CheckRefused, WriteOk,
     WriteFails, Cancel, WatchClosed, Receive, ReceiveClosed, ReceiveCancelled,
     Deliver

LEMMA DispatchLives ==
  ASSUME TypeOK, NEW s \in Sessions,
         \/ \E r \in Requests, type \in Types : Read(s, r, type)
         \/ DispatchSend(s) \/ DispatchDelete(s)
         \/ \E r \in Requests : SweepLoad(s, r)
         \/ SweepClose(s)
  PROVE  SameLives
<1>1. CASE \E r \in Requests, type \in Types : Read(s, r, type)
  <2>1. PICK r \in Requests, type \in Types : Read(s, r, type)
    BY <1>1
  <2> DEFINE m == [req |-> r, type |-> type, step |-> "send"]
  <2>2. /\ sess' = sess \/ sess' = [sess EXCEPT ![s].reading = m]
        /\ UNCHANGED <<current, stop>>
    BY <2>1, Zenon DEF Read
  <2> HIDE DEF m
  <2> QED BY <2>2 DEF SameLives, TypeOK, SessionRecords
<1>2. CASE DispatchSend(s)
  BY <1>2 DEF SameLives, TypeOK, SessionRecords, DispatchSend
<1>3. CASE DispatchDelete(s)
  BY <1>3 DEF SameLives, TypeOK, SessionRecords, DispatchDelete
<1>4. CASE \E r \in Requests : SweepLoad(s, r)
  <2>1. PICK r \in Requests : SweepLoad(s, r)
    BY <1>4
  <2> QED BY <2>1, Zenon DEF SameLives, TypeOK, SessionRecords, SweepLoad
<1>5. CASE SweepClose(s)
  BY <1>5 DEF SameLives, TypeOK, SessionRecords, SweepClose
<1> QED BY <1>1, <1>2, <1>3, <1>4, <1>5

LEMMA CleanupLives ==
  ASSUME TypeOK, LivesInv, NEW s \in Sessions, BeginCleanup(s)
  PROVE  LivesInv'
<1>1. \A t \in Sessions :
        /\ sess'[t].handler = sess[t].handler /\ sess'[t].replaced = sess[t].replaced
        /\ sess'[t].closed = IF t = s THEN TRUE ELSE sess[t].closed
        /\ sess'[t].cleaning = IF t = s THEN "sweep" ELSE sess[t].cleaning
  <2>1. /\ sess'[s].handler = sess[s].handler /\ sess'[s].replaced = sess[s].replaced
        /\ sess'[s].cleaning = "sweep"
    BY DEF BeginCleanup, TypeOK, SessionRecords
  <2>2. sess'[s].closed = TRUE
    BY Zenon DEF BeginCleanup, TypeOK, SessionRecords
  <2>3. \A t \in Sessions : t # s => sess'[t] = sess[t]
    BY DEF BeginCleanup, TypeOK
  <2> QED BY <2>1, <2>2, <2>3
<1>2. UNCHANGED <<current, stop>>
  BY DEF BeginCleanup
<1>3. SessionInv'
  <2>1. \A t \in Sessions : sess'[t].closed <=> sess'[t].cleaning # "none"
    BY <1>1 DEF LivesInv, SessionInv
  <2> QED BY <1>1, <1>2, <2>1 DEF LivesInv, SessionInv
<1>4. SuccessorStaysReachable'
  <2>1. \A t \in Sessions : ~sess'[t].closed => ~sess[t].closed
    BY <1>1
  <2>2. \A t \in Sessions :
          sess'[t].handler = sess[t].handler /\ sess'[t].replaced = sess[t].replaced
    BY <1>1
  <2> QED BY <1>2, <2>1, <2>2 DEF LivesInv, SuccessorStaysReachable
<1> QED BY <1>3, <1>4 DEF LivesInv

LEMMA SessionLives ==
  ASSUME TypeOK, LivesInv, NEW s \in Sessions, SessionStep(s)
  PROVE  LivesInv'
<1>1. CASE Upgrade(s)
  <2>1. \A t \in Sessions :
          /\ sess'[t].handler = IF t = s THEN "upgraded" ELSE sess[t].handler
          /\ sess'[t].replaced = sess[t].replaced
          /\ sess'[t].closed = sess[t].closed /\ sess'[t].cleaning = sess[t].cleaning
    BY <1>1 DEF Upgrade, TypeOK, SessionRecords
  <2>2. UNCHANGED <<current, stop>> /\ sess[s].handler = "none"
    BY <1>1 DEF Upgrade
  <2> QED BY <2>1, <2>2 DEF LivesInv, SessionInv, SuccessorStaysReachable
<1>2. CASE Place(s)
  <2>1. \A t \in Sessions :
          /\ sess'[t].handler = IF t = s THEN "placed" ELSE sess[t].handler
          /\ sess'[t].replaced = IF t = s THEN current ELSE sess[t].replaced
          /\ sess'[t].closed = sess[t].closed /\ sess'[t].cleaning = sess[t].cleaning
    BY <1>2 DEF Place, TypeOK, SessionRecords
  <2>2. current' = s /\ UNCHANGED stop /\ sess[s].handler = "upgraded"
    BY <1>2 DEF Place
  <2>3. SessionInv'
    BY <2>1, <2>2 DEF LivesInv, SessionInv
  <2>4. SuccessorStaysReachable'
    <3> SUFFICES ASSUME NEW t \in Sessions,
                        sess'[t].handler \in {"placed", "run"}, ~sess'[t].closed,
                        stop'.took # t, \A u \in Sessions : sess'[u].replaced # t
                 PROVE  t = s
      BY <2>2 DEF SuccessorStaysReachable
    <3>1. SUFFICES ASSUME t # s PROVE FALSE
      OBVIOUS
    <3>2. \A u \in Sessions : sess[u].replaced # t
      <4> TAKE u \in Sessions
      <4>1. CASE u = s
        BY <2>2, <4>1, RelayAssumption DEF LivesInv, SessionInv
      <4>2. CASE u # s
        BY <2>1, <4>2
      <4> QED BY <4>1, <4>2
    <3>3. current = t
      BY <2>1, <2>2, <3>1, <3>2 DEF LivesInv, SuccessorStaysReachable
    <3> QED BY <2>1, <3>3
  <2> QED BY <2>3, <2>4 DEF LivesInv
<1>3. CASE ReplacedCleanup(s)
  <2>1. sess[s].replaced \in Sessions
    BY <1>3 DEF ReplacedCleanup, TypeOK, SessionRecords
  <2> QED BY <1>3, <2>1, CleanupLives DEF ReplacedCleanup
<1>4. CASE StartReader(s)
  <2>1. \A t \in Sessions :
          /\ sess'[t].handler = IF t = s THEN "run" ELSE sess[t].handler
          /\ sess'[t].replaced = sess[t].replaced
          /\ sess'[t].closed = sess[t].closed /\ sess'[t].cleaning = sess[t].cleaning
    BY <1>4 DEF StartReader, TypeOK, SessionRecords
  <2>2. UNCHANGED <<current, stop>> /\ sess[s].handler = "placed"
    BY <1>4 DEF StartReader
  <2> QED BY <2>1, <2>2 DEF LivesInv, SessionInv, SuccessorStaysReachable
<1>5. CASE HeartbeatFails(s) \/ ReadFails(s)
  BY <1>5, CleanupLives DEF HeartbeatFails, ReadFails
<1>6. CASE ReaderExit(s)
  <2>1. \A t \in Sessions :
          /\ sess'[t].handler = IF t = s THEN "exit" ELSE sess[t].handler
          /\ sess'[t].replaced = sess[t].replaced
          /\ sess'[t].closed = sess[t].closed /\ sess'[t].cleaning = sess[t].cleaning
    BY <1>6 DEF ReaderExit, TypeOK, SessionRecords
  <2>2. UNCHANGED <<current, stop>>
    BY <1>6 DEF ReaderExit
  <2> QED BY <2>1, <2>2 DEF LivesInv, SessionInv, SuccessorStaysReachable
<1>7. CASE ResetPending(s) \/ CloseConn(s)
  <2>1. \A t \in Sessions :
          /\ sess'[t].handler = sess[t].handler /\ sess'[t].replaced = sess[t].replaced
          /\ sess'[t].closed = sess[t].closed
          /\ sess'[t].cleaning = "none" <=> sess[t].cleaning = "none"
    BY <1>7 DEF ResetPending, CloseConn, TypeOK, SessionRecords
  <2>2. UNCHANGED <<current, stop>>
    BY <1>7 DEF ResetPending, CloseConn
  <2> QED BY <2>1, <2>2 DEF LivesInv, SessionInv, SuccessorStaysReachable
<1>8. CASE handleSessionClosed(s)
  <2>1. \A t \in Sessions :
          /\ sess'[t].handler = sess[t].handler /\ sess'[t].replaced = sess[t].replaced
          /\ sess'[t].closed = sess[t].closed
          /\ sess'[t].cleaning = "none" <=> sess[t].cleaning = "none"
    BY <1>8 DEF handleSessionClosed, TypeOK, SessionRecords
  <2>2. /\ UNCHANGED stop /\ sess[s].closed
        /\ current' = IF current = s THEN NoSession ELSE current
    BY <1>8 DEF handleSessionClosed, deletesEntry, LivesInv, SessionInv
  <2> QED BY <2>1, <2>2 DEF LivesInv, SessionInv, SuccessorStaysReachable
<1> QED
  BY <1>1, <1>2, <1>3, <1>4, <1>5, <1>6, <1>7, <1>8, DispatchLives, SameLivesKept
     DEF SessionStep

LEMMA StopLives ==
  ASSUME TypeOK, LivesInv, StopTake \/ StopCleanup \/ StopReturn
  PROVE  LivesInv'
<1>1. CASE StopTake
  <2>1. /\ stop.took = NoSession /\ stop'.took = current /\ stop'.step = "cleanup"
        /\ sess' = sess
    BY <1>1 DEF StopTake, LivesInv, SessionInv
  <2> QED BY <2>1, RelayAssumption DEF LivesInv, SessionInv, SuccessorStaysReachable
<1>2. CASE StopCleanup
  <2>1. stop.took \in Sessions
    BY <1>2 DEF StopCleanup, TypeOK
  <2> QED BY <1>2, <2>1, CleanupLives DEF StopCleanup
<1>3. CASE StopReturn
  BY <1>3 DEF TypeOK, StopReturn, LivesInv, SessionInv, SuccessorStaysReachable
<1> QED BY <1>1, <1>2, <1>3

-----------------------------------------------------------------------------
(***************************************************************************)
(* Frames: what a step leaves alone for a call.                            *)
(***************************************************************************)

\* The call and the messages that dispatch has for it are the same.
SameCall(p) ==
  /\ req'[p] = req[p]
  /\ \A t \in Sessions : \/ sess'[t].reading = sess[t].reading
                         \/ ~Reading(t, p) /\ ~Reading(t, p)'

\* The tables say the same of the call.
SameTable(p) ==
  /\ req'[p] = req[p]
  /\ \A t \in Sessions :
       /\ p \in sess'[t].pending <=> p \in sess[t].pending
       /\ p \in sess'[t].sweep <=> p \in sess[t].sweep
       /\ sess'[t].holding = p <=> sess[t].holding = p
       /\ sess'[t].closed = sess[t].closed
       /\ sess[t].cleaning \in {"none", "sweep"} => sess'[t].cleaning = sess[t].cleaning

LEMMA SameCallKept ==
  ASSUME NEW p \in Requests, SameCall(p), ~crashed,
         PlaceOK(p), ChannelOK(p), ChunkOK(p)
  PROVE  PlaceOK(p)' /\ ChannelOK(p)' /\ ChunkOK(p)'
<1>1. \A t \in Sessions :
        /\ Reading(t, p)' <=> Reading(t, p)
        /\ Sending(t, p)' <=> Sending(t, p)
        /\ Reading(t, p) => sess'[t].reading = sess[t].reading
  BY DEF SameCall, Reading, Sending
<1>2. \A t \in Sessions : Sending(t, p) => Reading(t, p)
  BY DEF Reading, Sending
<1>3. InFlight(p)' <=> InFlight(p)
  BY <1>1, <1>2 DEF InFlight
<1>4. req'[p] = req[p]
  BY DEF SameCall
<1>5. PlaceOK(p)'
  BY <1>1, <1>4 DEF PlaceOK
<1>6. ChannelOK(p)'
  BY <1>1, <1>4 DEF ChannelOK, Spoilt
<1>7. ChunkOK(p)'
  BY <1>3, <1>4 DEF ChunkOK, Spoilt, Flight
<1> QED BY <1>5, <1>6, <1>7

LEMMA SameTableKept ==
  ASSUME NEW p \in Requests, SameTable(p), PlaceOK(p), TableOK(p)
  PROVE  TableOK(p)'
<1> DEFINE s == req[p].via
<1>1. CASE s \in Sessions
  BY <1>1 DEF SameTable, TableOK
<1>2. CASE s \notin Sessions
  <2>1. req'[p].call \in {"idle", "done"}
    BY <1>2 DEF PlaceOK, SameTable
  <2> QED BY <2>1 DEF TableOK
<1> QED BY <1>1, <1>2

\* The invariant of the calls.
CallInv == PlaceInv /\ TableInv /\ ChannelInv /\ ChunkInv

\* A step that changes at most the call r.
LEMMA OneCall ==
  ASSUME NEW r, CallInv, ~crashed,
         \A p \in Requests : p # r => SameCall(p) /\ SameTable(p),
         r \in Requests =>
           PlaceOK(r)' /\ TableOK(r)' /\ ChannelOK(r)' /\ ChunkOK(r)'
  PROVE  CallInv'
<1>1. ASSUME NEW p \in Requests, p # r
      PROVE  PlaceOK(p)' /\ TableOK(p)' /\ ChannelOK(p)' /\ ChunkOK(p)'
  BY <1>1, SameCallKept, SameTableKept
     DEF CallInv, PlaceInv, TableInv, ChannelInv, ChunkInv
<1> QED BY <1>1 DEF CallInv, PlaceInv, TableInv, ChannelInv, ChunkInv

\* A step that changes no call and no message in the hands of dispatch.
LEMMA NoCall ==
  ASSUME CallInv, ~crashed, \A p \in Requests : SameCall(p) /\ TableOK(p)'
  PROVE  CallInv'
BY SameCallKept DEF CallInv, PlaceInv, TableInv, ChannelInv, ChunkInv

-----------------------------------------------------------------------------
(***************************************************************************)
(* The steps of sessions that touch no call.                               *)
(***************************************************************************)

\* A cleanup begins with every pending call in its sweep.
LEMMA CleanupCalls ==
  ASSUME TypeOK, SessionInv, CallInv, ~crashed, NEW s \in Sessions, BeginCleanup(s)
  PROVE  CallInv'
<1>1. /\ sess'[s].cleaning = "sweep" /\ sess'[s].pending = sess[s].pending
      /\ sess'[s].sweep = sess[s].pending /\ sess'[s].reading = sess[s].reading
  BY DEF BeginCleanup, TypeOK, SessionRecords
<1>2. sess'[s].closed
  BY Zenon DEF BeginCleanup, TypeOK, SessionRecords
<1>3. req' = req /\ \A t \in Sessions : t # s => sess'[t] = sess[t]
  BY DEF BeginCleanup, TypeOK
<1>4. ASSUME NEW p \in Requests
      PROVE  SameCall(p) /\ TableOK(p)'
  <2>1. SameCall(p)
    BY <1>1, <1>3 DEF SameCall, Reading
  <2>2. PlaceOK(p) /\ TableOK(p)
    BY DEF CallInv, PlaceInv, TableInv
  <2>3. CASE req[p].via = s
    BY <1>1, <1>2, <1>3, <2>1, <2>2, <2>3 DEF TableOK
  <2>4. CASE req[p].via # s
    BY <1>3, <2>1, <2>2, <2>4 DEF TableOK, PlaceOK
  <2> QED BY <2>1, <2>3, <2>4
<1> QED BY <1>4, NoCall

\* The life of a session, seen from the calls.
LEMMA LifeCalls ==
  ASSUME TypeOK, CallInv, ~crashed, NEW s \in Sessions,
         \/ Upgrade(s) \/ Place(s) \/ StartReader(s) \/ ReaderExit(s)
         \/ CloseConn(s) \/ handleSessionClosed(s)
  PROVE  CallInv'
<1>1. /\ sess'[s].pending = sess[s].pending /\ sess'[s].sweep = sess[s].sweep
      /\ sess'[s].holding = sess[s].holding /\ sess'[s].closed = sess[s].closed
      /\ sess'[s].reading = sess[s].reading
      /\ sess[s].cleaning \in {"none", "sweep"} => sess'[s].cleaning = sess[s].cleaning
  <2>1. CASE Upgrade(s)
    BY <2>1 DEF Upgrade, TypeOK, SessionRecords
  <2>2. CASE Place(s)
    BY <2>2 DEF Place, TypeOK, SessionRecords
  <2>3. CASE StartReader(s)
    BY <2>3 DEF StartReader, TypeOK, SessionRecords
  <2>4. CASE ReaderExit(s)
    BY <2>4 DEF ReaderExit, TypeOK, SessionRecords
  <2>5. CASE CloseConn(s)
    BY <2>5 DEF CloseConn, TypeOK, SessionRecords
  <2>6. CASE handleSessionClosed(s)
    BY <2>6 DEF handleSessionClosed, TypeOK, SessionRecords
  <2> QED BY <2>1, <2>2, <2>3, <2>4, <2>5, <2>6
<1>2. req' = req /\ \A t \in Sessions : t # s => sess'[t] = sess[t]
  BY DEF Upgrade, Place, StartReader, ReaderExit, CloseConn, handleSessionClosed, TypeOK
<1>3. ASSUME NEW p \in Requests
      PROVE  SameCall(p) /\ TableOK(p)'
  <2>1. SameCall(p)
    BY <1>1, <1>2 DEF SameCall, Reading
  <2>2. SameTable(p)
    BY <1>1, <1>2 DEF SameTable
  <2> QED BY <2>1, <2>2, SameTableKept DEF CallInv, PlaceInv, TableInv
<1> QED BY <1>3, NoCall

\* Range loads an entry, or is over: what it left behind is closed.
LEMMA SweepCalls ==
  ASSUME TypeOK, SessionInv, CallInv, ~crashed, NEW s \in Sessions,
         (\E r \in Requests : SweepLoad(s, r)) \/ ResetPending(s)
  PROVE  CallInv'
<1>1. CASE \E r \in Requests : SweepLoad(s, r)
  <2>1. PICK r \in Requests : SweepLoad(s, r)
    BY <1>1
  <2>2. /\ sess'[s].pending = sess[s].pending /\ sess'[s].sweep = sess[s].sweep \ {r}
        /\ sess'[s].holding = r /\ sess'[s].closed = sess[s].closed
        /\ sess'[s].reading = sess[s].reading /\ sess'[s].cleaning = sess[s].cleaning
        /\ sess[s].holding = NoRequest
    BY <2>1, Zenon DEF SweepLoad, TypeOK, SessionRecords
  <2>3. req' = req /\ \A t \in Sessions : t # s => sess'[t] = sess[t]
    BY <2>1, Zenon DEF SweepLoad, TypeOK
  <2>4. ASSUME NEW p \in Requests
        PROVE  SameCall(p) /\ TableOK(p)'
    <3>1. SameCall(p)
      BY <2>2, <2>3 DEF SameCall, Reading
    <3>2. PlaceOK(p) /\ TableOK(p)
      BY DEF CallInv, PlaceInv, TableInv
    <3>3. CASE req[p].via = s
      BY <2>2, <2>3, <3>1, <3>2, <3>3, RelayAssumption DEF TableOK
    <3>4. CASE req[p].via # s
      BY <2>3, <3>1, <3>2, <3>4 DEF TableOK, PlaceOK
    <3> QED BY <3>1, <3>3, <3>4
  <2> QED BY <2>4, NoCall
<1>2. CASE ResetPending(s)
  <2>1. /\ sess'[s].closed = sess[s].closed /\ sess'[s].reading = sess[s].reading
        /\ sess[s].holding = NoRequest /\ sess[s].cleaning = "sweep"
        /\ sess[s].sweep \cap sess[s].pending = {}
    BY <1>2 DEF ResetPending, TypeOK, SessionRecords
  <2>2. req' = req /\ \A t \in Sessions : t # s => sess'[t] = sess[t]
    BY <1>2 DEF ResetPending, TypeOK
  <2>3. sess[s].closed
    BY <2>1 DEF SessionInv
  <2>4. ASSUME NEW p \in Requests
        PROVE  SameCall(p) /\ TableOK(p)'
    <3>1. SameCall(p)
      BY <2>1, <2>2 DEF SameCall, Reading
    <3>2. PlaceOK(p) /\ TableOK(p)
      BY DEF CallInv, PlaceInv, TableInv
    <3>3. CASE req[p].via = s
      BY <2>1, <2>2, <2>3, <3>1, <3>2, <3>3, RelayAssumption DEF TableOK
    <3>4. CASE req[p].via # s
      BY <2>2, <3>1, <3>2, <3>4 DEF TableOK, PlaceOK
    <3> QED BY <3>1, <3>3, <3>4
  <2> QED BY <2>4, NoCall
<1> QED BY <1>1, <1>2

LEMMA StopCalls ==
  ASSUME TypeOK, SessionInv, CallInv, ~crashed, StopTake \/ StopCleanup \/ StopReturn
  PROVE  CallInv'
<1>1. CASE StopTake \/ StopReturn
  <2>1. sess' = sess /\ req' = req
    BY <1>1 DEF StopTake, StopReturn
  <2>2. ASSUME NEW p \in Requests
        PROVE  SameCall(p) /\ SameTable(p)
    BY <2>1 DEF SameCall, SameTable, Reading
  <2> QED BY <2>2, NoCall, SameTableKept DEF CallInv, PlaceInv, TableInv
<1>2. CASE StopCleanup
  <2>1. stop.took \in Sessions
    BY <1>2 DEF StopCleanup, TypeOK
  <2> QED BY <1>2, <2>1, CleanupCalls DEF StopCleanup
<1> QED BY <1>1, <1>2

-----------------------------------------------------------------------------
(***************************************************************************)
(* The steps of a call.                                                    *)
(***************************************************************************)

\* A step of call r touches its record and its entry in the table.
Touches(r) ==
  /\ \A p \in Requests : p # r => req'[p] = req[p]
  /\ \A t \in Sessions :
       /\ sess'[t].reading = sess[t].reading /\ sess'[t].sweep = sess[t].sweep
       /\ sess'[t].holding = sess[t].holding /\ sess'[t].closed = sess[t].closed
       /\ sess'[t].cleaning = sess[t].cleaning
       /\ \A p \in Requests : p # r => (p \in sess'[t].pending <=> p \in sess[t].pending)

LEMMA TouchesOthers ==
  ASSUME NEW r, Touches(r), NEW p \in Requests, p # r
  PROVE  SameCall(p) /\ SameTable(p)
BY DEF Touches, SameCall, SameTable

LEMMA TouchesReading ==
  ASSUME NEW r \in Requests, Touches(r)
  PROVE  /\ \A t \in Sessions : /\ Reading(t, r)' <=> Reading(t, r)
                                /\ Sending(t, r)' <=> Sending(t, r)
         /\ InFlight(r)' <=> InFlight(r)
<1>1. \A t \in Sessions : /\ Reading(t, r)' <=> Reading(t, r)
                          /\ Sending(t, r)' <=> Sending(t, r)
  BY DEF Touches, Reading, Sending
<1> QED BY <1>1 DEF InFlight, Touches

\* A call that goes on with the same channel: it comes no nearer to success,
\* and a channel that gets closed is that of a call that ended or was cancelled.
Advances(q, z) ==
  /\ z.buffer = q.buffer /\ z.asked = q.asked /\ z.got = q.got
  /\ z.chunks = q.chunks /\ z.dropped = q.dropped
  /\ q.cancelled => z.cancelled
  /\ q.closed => z.closed
  /\ z.closed /\ ~q.closed => z.call = "done" \/ z.cancelled
  /\ z.call # "done" => q.call # "done"
  /\ z.call \in Early => q.call \in Early
  /\ z.result = "ok" => q.result = "ok"

LEMMA AdvancesKept ==
  ASSUME NEW r \in Requests, Touches(r), Advances(req[r], req'[r]),
         ~crashed, ChannelOK(r), ChunkOK(r)
  PROVE  ChannelOK(r)' /\ ChunkOK(r)'
<1> DEFINE q == req[r]
           z == req'[r]
<1>1. /\ z.buffer = q.buffer /\ z.asked = q.asked /\ z.got = q.got
      /\ z.chunks = q.chunks
      /\ q.closed => z.closed
      /\ z.call # "done" => q.call # "done"
      /\ z.call \in Early => q.call \in Early
      /\ z.result = "ok" => q.result = "ok"
      /\ Spoilt(r) => Spoilt(r)'
      /\ z.call # "done" /\ z.closed /\ ~Spoilt(r)' => q.closed
  BY DEF Advances, Spoilt
<1>2. \A t \in Sessions : /\ Reading(t, r)' <=> Reading(t, r)
                          /\ Sending(t, r)' <=> Sending(t, r)
                          /\ sess'[t].reading = sess[t].reading
  BY TouchesReading DEF Touches
<1>3. InFlight(r)' <=> InFlight(r)
  BY TouchesReading
<1>4. ChannelOK(r)'
  BY <1>1, <1>2 DEF ChannelOK
<1>5. ChunkOK(r)'
  BY <1>1, <1>3 DEF ChunkOK, Flight
<1> QED BY <1>4, <1>5

\* What is left to show of a step that advances a call.
LEMMA AdvanceCall ==
  ASSUME CallInv, ~crashed, NEW r \in Requests, Touches(r),
         Advances(req[r], req'[r]), PlaceOK(r)', TableOK(r)'
  PROVE  CallInv'
<1>1. ChannelOK(r)' /\ ChunkOK(r)'
  BY AdvancesKept DEF CallInv, ChannelInv, ChunkInv
<1> QED BY <1>1, TouchesOthers, OneCall

\* A step that only replaces the record of call r.
LEMMA TouchesCall ==
  ASSUME TypeOK, NEW r \in Requests, NEW y, req' = [req EXCEPT ![r] = y], sess' = sess
  PROVE  Touches(r) /\ req'[r] = y
BY DEF TypeOK, Touches

\* A step that also changes the entry of r in the table of its session.
LEMMA TouchesEntry ==
  ASSUME TypeOK, NEW r \in Requests, req[r].via \in Sessions,
         NEW y, req' = [req EXCEPT ![r] = y],
         \/ sess' = [sess EXCEPT ![req[r].via].pending = @ \cup {r}]
         \/ sess' = [sess EXCEPT ![req[r].via].pending = @ \ {r}]
  PROVE  Touches(r) /\ req'[r] = y
<1> DEFINE s == req[r].via
<1>1. /\ sess'[s].reading = sess[s].reading /\ sess'[s].sweep = sess[s].sweep
      /\ sess'[s].holding = sess[s].holding /\ sess'[s].closed = sess[s].closed
      /\ sess'[s].cleaning = sess[s].cleaning
      /\ \/ sess'[s].pending = sess[s].pending \cup {r}
         \/ sess'[s].pending = sess[s].pending \ {r}
  BY DEF TypeOK, SessionRecords
<1>2. \A t \in Sessions : t # s => sess'[t] = sess[t]
  BY DEF TypeOK
<1>3. req'[r] = y /\ \A p \in Requests : p # r => req'[p] = req[p]
  BY DEF TypeOK
<1> HIDE DEF s
<1> QED BY <1>1, <1>2, <1>3 DEF Touches

\* What returned does to a call.
LEMMA ReturnedFields ==
  ASSUME NEW q \in RequestRecords, NEW how
  PROVE  /\ returned(q, how).call = "done" /\ returned(q, how).result = how
         /\ returned(q, how).via = q.via /\ returned(q, how).buffer = q.buffer
         /\ returned(q, how).closed = q.closed /\ returned(q, how).watched = q.watched
         /\ returned(q, how).cancelled = q.cancelled /\ returned(q, how).got = q.got
         /\ returned(q, how).asked = q.asked /\ returned(q, how).chunks = q.chunks
         /\ returned(q, how).dropped = q.dropped
BY DEF returned, RequestRecords

LEMMA LookupKept ==
  ASSUME TypeOK, CallInv, ~crashed, NEW r \in Requests, Lookup(r)
  PROVE  CallInv'
<1> DEFINE z == req'[r]
<1>1. /\ PlaceOK(r) /\ req[r] \in RequestRecords /\ req[r].call = "idle"
  BY DEF CallInv, PlaceInv, TypeOK, Lookup
<1>2. CASE current = NoSession
  <2>1. req' = [req EXCEPT ![r] = returned(req[r], "error")] /\ sess' = sess
    BY <1>2 DEF Lookup
  <2>2. Touches(r) /\ z = returned(req[r], "error")
    BY <2>1, TouchesCall
  <2>3. Advances(req[r], z)
    BY <1>1, <2>2, ReturnedFields DEF Advances, Early
  <2>4. PlaceOK(r)'
    BY <1>1, <2>2, ReturnedFields, TouchesReading DEF PlaceOK, Early
  <2>5. TableOK(r)'
    BY <1>1, <2>2, ReturnedFields DEF TableOK
  <2> QED BY <2>2, <2>3, <2>4, <2>5, AdvanceCall
<1>3. CASE current # NoSession
  <2> DEFINE y == [req[r] EXCEPT !.call = "store", !.via = current]
  <2>1. req' = [req EXCEPT ![r] = y] /\ sess' = sess
    BY <1>3 DEF Lookup
  <2>2. Touches(r) /\ z = y
    BY <2>1, TouchesCall
  <2>3. /\ y.call = "store" /\ y.via = current /\ y.buffer = req[r].buffer
        /\ y.closed = req[r].closed /\ y.watched = req[r].watched
        /\ y.cancelled = req[r].cancelled /\ y.got = req[r].got
        /\ y.asked = req[r].asked /\ y.chunks = req[r].chunks
        /\ y.dropped = req[r].dropped /\ y.result = req[r].result
    BY <1>1 DEF RequestRecords
  <2>4. current \in Sessions
    BY <1>3 DEF TypeOK
  <2> HIDE DEF y
  <2>5. Advances(req[r], z)
    BY <1>1, <2>2, <2>3 DEF Advances, Early
  <2>6. PlaceOK(r)'
    BY <1>1, <2>2, <2>3, <2>4, TouchesReading DEF PlaceOK, Early
  <2>7. TableOK(r)'
    BY <2>2, <2>3 DEF TableOK
  <2> QED BY <2>2, <2>5, <2>6, <2>7, AdvanceCall
<1> QED BY <1>2, <1>3

\* A call that only changes its step.
SetCall(q, c) == [q EXCEPT !.call = c]

LEMMA SetCallFields ==
  ASSUME NEW q \in RequestRecords, NEW c
  PROVE  /\ SetCall(q, c).call = c /\ SetCall(q, c).result = q.result
         /\ SetCall(q, c).via = q.via /\ SetCall(q, c).buffer = q.buffer
         /\ SetCall(q, c).closed = q.closed /\ SetCall(q, c).watched = q.watched
         /\ SetCall(q, c).cancelled = q.cancelled /\ SetCall(q, c).got = q.got
         /\ SetCall(q, c).asked = q.asked /\ SetCall(q, c).chunks = q.chunks
         /\ SetCall(q, c).dropped = q.dropped
BY DEF SetCall, RequestRecords

\* The entry of a call is stored before anything can be sent for it.
LEMMA StoreKept ==
  ASSUME TypeOK, CallInv, ~crashed, NEW r \in Requests, Store(r)
  PROVE  CallInv'
<1> DEFINE z == req'[r]
           s == req[r].via
<1>1. /\ PlaceOK(r) /\ req[r] \in RequestRecords /\ req[r].call = "store"
  BY DEF CallInv, PlaceInv, TypeOK, Store
<1>2. s \in Sessions
  BY <1>1 DEF PlaceOK
<1>3. req' = [req EXCEPT ![r] = SetCall(req[r], "load")]
  BY DEF Store, SetCall
<1>4. sess' = [sess EXCEPT ![req[r].via].pending = @ \cup {r}]
  BY DEF Store
<1>5. Touches(r) /\ z = SetCall(req[r], "load")
  BY <1>2, <1>3, <1>4, TouchesEntry
<1>6. r \in sess'[s].pending
  BY <1>2, <1>4 DEF TypeOK, SessionRecords
<1>7. Advances(req[r], z)
  BY <1>1, <1>5, SetCallFields DEF Advances, Early
<1>8. PlaceOK(r)'
  BY <1>1, <1>5, SetCallFields, TouchesReading DEF PlaceOK, Early
<1>9. TableOK(r)'
  BY <1>1, <1>5, <1>6, SetCallFields DEF TableOK
<1> QED BY <1>5, <1>7, <1>8, <1>9, AdvanceCall

\* The steps of a call that is on its way, or delivers an event.
LEMMA SetCallKept ==
  ASSUME TypeOK, SessionInv, CallInv, ~crashed, NEW r \in Requests,
         \/ Load(r) /\ r \in sess[req[r].via].pending
         \/ Check(r) \/ Deliver(r)
  PROVE  CallInv'
<1> DEFINE z == req'[r]
           s == req[r].via
<1>1. PlaceOK(r) /\ TableOK(r) /\ req[r] \in RequestRecords
  BY DEF CallInv, PlaceInv, TableInv, TypeOK
<1>2. PICK d : /\ req' = [req EXCEPT ![r] = SetCall(req[r], d)] /\ sess' = sess
               /\ \/ d = "check" /\ req[r].call = "load" /\ r \in sess[s].pending
                  \/ d = "write" /\ req[r].call = "check" /\ ~sess[s].closed
                  \/ d = "wait" /\ req[r].call = "deliver"
  <2>1. CASE Load(r) /\ r \in sess[s].pending
    BY <2>1 DEF Load, SetCall
  <2>2. CASE Check(r)
    BY <2>2 DEF Check, SetCall, refuses
  <2>3. CASE Deliver(r)
    BY <2>3 DEF Deliver, SetCall
  <2> QED BY <2>1, <2>2, <2>3
<1>3. Touches(r) /\ z = SetCall(req[r], d)
  BY <1>2, TouchesCall
<1>4. Advances(req[r], z)
  BY <1>1, <1>2, <1>3, SetCallFields DEF Advances, Early
<1>5. PlaceOK(r)'
  BY <1>1, <1>2, <1>3, SetCallFields, TouchesReading DEF PlaceOK, Early
<1>6. s \in Sessions /\ (sess[s].closed <=> sess[s].cleaning # "none")
  BY <1>1, <1>2 DEF PlaceOK, SessionInv
<1>7. TableOK(r)'
  BY <1>1, <1>2, <1>3, <1>6, SetCallFields DEF TableOK
<1> QED BY <1>3, <1>4, <1>5, <1>7, AdvanceCall

\* A call that ends without success: the panic of Load, the cancelled caller.
LEMMA FailKept ==
  ASSUME TypeOK, CallInv, ~crashed, NEW r \in Requests,
         NEW how \in {"panicked", "cancelled", "error"},
         req[r].call # "done", sess' = sess,
         req' = [req EXCEPT ![r] = returned(req[r], how)]
  PROVE  CallInv'
<1>1. PlaceOK(r) /\ req[r] \in RequestRecords
  BY DEF CallInv, PlaceInv, TypeOK
<1>2. Touches(r) /\ req'[r] = returned(req[r], how)
  BY TouchesCall
<1>3. Advances(req[r], req'[r])
  BY <1>1, <1>2, ReturnedFields DEF Advances, Early
<1>4. PlaceOK(r)'
  BY <1>1, <1>2, ReturnedFields, TouchesReading DEF PlaceOK, Early
<1>5. TableOK(r)'
  BY <1>1, <1>2, ReturnedFields DEF TableOK
<1> QED BY <1>2, <1>3, <1>4, <1>5, AdvanceCall

\* A request that takes its entry back.
LEMMA GiveUpKept ==
  ASSUME TypeOK, CallInv, ~crashed, NEW r \in Requests,
         req[r].call \in {"check", "write"}, GiveUp(r)
  PROVE  CallInv'
<1> DEFINE q == returned(req[r], "error")
           b == q.closed \/ r \in sess[req[r].via].pending
           y == [q EXCEPT !.closed = b]
<1>1. PlaceOK(r) /\ req[r] \in RequestRecords /\ req[r].via \in Sessions
  BY DEF CallInv, PlaceInv, TypeOK, PlaceOK
<1>2. q \in RequestRecords /\ b \in BOOLEAN
  BY <1>1, ReturnedType
<1>3. /\ y.call = q.call /\ y.result = q.result
      /\ y.via = q.via /\ y.buffer = q.buffer
      /\ y.watched = q.watched
      /\ y.cancelled = q.cancelled /\ y.got = q.got
      /\ y.asked = q.asked /\ y.chunks = q.chunks
      /\ y.dropped = q.dropped
  BY <1>2 DEF RequestRecords
<1>4. q.closed => y.closed
  BY <1>2, Zenon DEF RequestRecords
<1>5. req' = [req EXCEPT ![r] = y]
  BY DEF GiveUp
<1>6. sess' = [sess EXCEPT ![req[r].via].pending = @ \ {r}]
  BY DEF GiveUp
<1> HIDE DEF y, b
<1>7. Touches(r) /\ req'[r] = y
  BY <1>1, <1>5, <1>6, TouchesEntry
<1>8. Advances(req[r], req'[r])
  BY <1>1, <1>3, <1>4, <1>7, ReturnedFields DEF Advances, Early
<1>9. PlaceOK(r)'
  BY <1>1, <1>3, <1>7, ReturnedFields, TouchesReading DEF PlaceOK, Early
<1>10. TableOK(r)'
  BY <1>1, <1>3, <1>7, ReturnedFields DEF TableOK
<1> QED BY <1>7, <1>8, <1>9, <1>10, AdvanceCall

\* The caller cancels its context, or the goroutine of request ends because the
\* session closed.
LEMMA ContextKept ==
  ASSUME TypeOK, CallInv, ~crashed, NEW r \in Requests, Cancel(r) \/ WatchClosed(r)
  PROVE  CallInv'
<1> DEFINE z == req'[r]
           q == req[r]
<1>1. PlaceOK(r) /\ TableOK(r) /\ q \in RequestRecords
  BY DEF CallInv, PlaceInv, TableInv, TypeOK
<1>2. /\ sess' = sess
      /\ \/ req' = [req EXCEPT ![r] = [q EXCEPT !.cancelled = TRUE]]
         \/ req' = [req EXCEPT ![r] = [q EXCEPT !.watched = FALSE]]
  BY DEF Cancel, WatchClosed
<1>3. /\ Touches(r)
      /\ z = [q EXCEPT !.cancelled = TRUE] \/ z = [q EXCEPT !.watched = FALSE]
  BY <1>2, TouchesCall
<1>4. /\ z.call = q.call /\ z.via = q.via /\ z.buffer = q.buffer
      /\ z.got = q.got /\ z.closed = q.closed
      /\ z.asked = q.asked /\ z.chunks = q.chunks
      /\ z.dropped = q.dropped /\ z.result = q.result
  BY <1>1, <1>3 DEF RequestRecords
<1>5. (q.cancelled => z.cancelled) /\ (z.watched => q.watched)
  BY <1>1, <1>3, Zenon DEF RequestRecords
<1>6. Advances(q, z)
  BY <1>4, <1>5 DEF Advances
<1>7. PlaceOK(r)'
  BY <1>1, <1>3, <1>4, <1>5, TouchesReading DEF PlaceOK
<1>8. TableOK(r)'
  BY <1>1, <1>2, <1>4 DEF TableOK
<1> QED BY <1>3, <1>6, <1>7, <1>8, AdvanceCall

\* The goroutine of request sees the context done and deletes the entry.
LEMMA WatchCancelKept ==
  ASSUME TypeOK, CallInv, ~crashed, NEW r \in Requests, WatchCancel(r)
  PROVE  CallInv'
<1> DEFINE z == req'[r]
           q == req[r]
           b == q.closed \/ r \in sess[req[r].via].pending
           y == [q EXCEPT !.watched = FALSE, !.closed = b]
<1>1. PlaceOK(r) /\ TableOK(r) /\ q \in RequestRecords /\ q.cancelled /\ q.watched
  BY DEF CallInv, PlaceInv, TableInv, TypeOK, WatchCancel
<1>2. q.via \in Sessions /\ q.call \notin Early
  BY <1>1 DEF PlaceOK
<1>3. /\ req' = [req EXCEPT ![r] = y]
      /\ sess' = [sess EXCEPT ![req[r].via].pending = @ \ {r}]
  BY DEF WatchCancel
<1>4. /\ y.call = q.call /\ y.via = q.via /\ y.buffer = q.buffer
      /\ y.got = q.got /\ y.cancelled = q.cancelled
      /\ y.asked = q.asked /\ y.chunks = q.chunks
      /\ y.dropped = q.dropped /\ y.result = q.result
  BY <1>1 DEF RequestRecords
<1>5. (y.closed <=> b) /\ ~y.watched
  <2>1. y.closed = b /\ y.watched = FALSE
    BY <1>1, Zenon DEF RequestRecords
  <2>2. b \in BOOLEAN
    OBVIOUS
  <2> HIDE DEF b, y
  <2> QED BY <2>1, <2>2
<1> HIDE DEF y
<1>6. Touches(r) /\ z = y
  BY <1>2, <1>3, TouchesEntry
<1>7. Advances(q, z)
  BY <1>1, <1>2, <1>4, <1>5, <1>6 DEF Advances
<1>8. PlaceOK(r)'
  BY <1>1, <1>2, <1>4, <1>5, <1>6, TouchesReading DEF PlaceOK
<1>9. TableOK(r)'
  <2>1. q.call \in {"wait", "deliver"} => b
    BY <1>1 DEF TableOK
  <2>2. q.call \in {"wait", "deliver"} \/ q.call = "done"
    BY <1>1, <1>2 DEF RequestRecords, Early
  <2> QED BY <1>4, <1>5, <1>6, <2>1, <2>2 DEF TableOK
<1> QED BY <1>6, <1>7, <1>8, <1>9, AdvanceCall

\* The request is written: before, nothing but the error of a sweep can be in
\* its channel.
LEMMA WriteOkKept ==
  ASSUME TypeOK, CallInv, ~crashed, NEW r \in Requests, WriteOk(r)
  PROVE  CallInv'
<1> DEFINE z == req'[r]
           q == req[r]
           y == [q EXCEPT !.call = "wait", !.watched = TRUE, !.asked = TRUE]
<1>1. /\ PlaceOK(r) /\ TableOK(r) /\ ChannelOK(r) /\ ChunkOK(r)
      /\ q \in RequestRecords /\ q.call = "write"
  BY DEF CallInv, PlaceInv, TableInv, ChannelInv, ChunkInv, TypeOK, WriteOk
<1>2. req' = [req EXCEPT ![r] = y] /\ sess' = sess
  BY DEF WriteOk
<1>3. Touches(r) /\ z = y
  BY <1>2, TouchesCall
<1>4. /\ y.call = "wait" /\ y.via = q.via /\ y.buffer = q.buffer
      /\ y.got = q.got /\ y.cancelled = q.cancelled
      /\ y.closed = q.closed /\ y.chunks = q.chunks
      /\ y.dropped = q.dropped /\ y.result = q.result
  BY <1>1 DEF RequestRecords
<1> HIDE DEF y
<1>5. q.via \in Sessions /\ q.result = "none" /\ \A t \in Sessions : ~Reading(t, r)
  BY <1>1 DEF PlaceOK, Early
<1>6. \A i \in DOMAIN q.buffer : q.buffer[i] = "error" /\ q.closed
  BY <1>1 DEF ChannelOK, Early
<1>7. PlaceOK(r)'
  BY <1>3, <1>4, <1>5, TouchesReading DEF PlaceOK, Early
<1>8. TableOK(r)'
  BY <1>1, <1>2, <1>3, <1>4 DEF TableOK
<1>9. /\ ~Holds(q.buffer, {"resp", "end"})
      /\ Holds(q.buffer, Terminal) => q.closed
  BY <1>6 DEF Holds
<1>10. ChannelOK(r)'
  <2>1. Spoilt(r)' = Spoilt(r)
    BY <1>3, <1>4 DEF Spoilt
  <2>2. \A t \in Sessions : ~Reading(t, r)'
    BY <1>3, <1>5, TouchesReading
  <2> QED BY <1>1, <1>3, <1>4, <1>9, <2>1, <2>2 DEF ChannelOK, Early
<1>11. ChunkOK(r)'
  BY <1>1, <1>3, <1>4, <1>5, TouchesReading DEF ChunkOK, Flight, Spoilt
<1> QED BY <1>3, <1>7, <1>8, <1>10, <1>11, TouchesOthers, OneCall

\* What received makes of a call.
LEMMA ReceivedFields ==
  ASSUME NEW q \in RequestRecords, NEW type \in Types
  PROVE  LET z == received(q, type) IN
         /\ z.via = q.via /\ z.buffer = q.buffer /\ z.closed = q.closed
         /\ z.watched = q.watched /\ z.cancelled = q.cancelled /\ z.asked = q.asked
         /\ z.chunks = q.chunks /\ z.dropped = q.dropped
         /\ type = "error" => z.call = "done" /\ z.result = "error" /\ z.got = q.got
         /\ type \in {"resp", "end"} =>
              z.call = "done" /\ z.result = "ok" /\ z.got = q.got
         /\ type \notin Terminal =>
              /\ z.call \in {"wait", "deliver"} /\ z.result = q.result
              /\ z.got = IF type = "chunk" THEN q.got + 1 ELSE q.got
<1>1. CASE type = "error"
  <2>1. received(q, type) = returned(q, "error")
    BY <1>1, Zenon DEF received
  <2> QED BY <1>1, <2>1, ReturnedFields DEF Terminal
<1>2. CASE type \in {"resp", "end"}
  <2>1. received(q, type) = returned(q, "ok")
    BY <1>2 DEF received
  <2> QED BY <1>2, <2>1, ReturnedFields DEF Terminal
<1>3. CASE type \notin {"error", "resp", "end"}
  <2> DEFINE c == IF q.kind = "stream" THEN "deliver" ELSE "wait"
             g == IF type = "chunk" THEN q.got + 1 ELSE q.got
  <2>1. received(q, type) = [q EXCEPT !.call = c, !.streamMode = TRUE, !.got = g]
    BY <1>3, Zenon DEF received
  <2>2. c \in {"deliver", "wait"}
    OBVIOUS
  <2> HIDE DEF c
  <2> QED BY <1>3, <2>1, <2>2 DEF RequestRecords
<1> QED BY <1>1, <1>2, <1>3

\* A message is received.  Success comes with the terminal message, after which
\* nothing but errors can be in the channel: all chunks have arrived.
LEMMA ReceiveKept ==
  ASSUME TypeOK, CallInv, ~crashed, NEW r \in Requests, Receive(r)
  PROVE  CallInv'
<1> DEFINE z == req'[r]
           q == req[r]
           h == Head(q.buffer)
           rest == Tail(q.buffer)
           p == [q EXCEPT !.buffer = rest]
<1>1. /\ PlaceOK(r) /\ TableOK(r) /\ ChannelOK(r) /\ ChunkOK(r)
      /\ q \in RequestRecords /\ q.call = "wait" /\ q.buffer # <<>>
  BY DEF CallInv, PlaceInv, TableInv, ChannelInv, ChunkInv, TypeOK, Receive
<1>2. q.buffer \in Seq(Types) /\ q.got \in Nat /\ q.chunks \in Nat
  BY <1>1 DEF RequestRecords
<1>3. p \in RequestRecords /\ h \in Types
  BY <1>1, RequestUpdates, Zenon
<1>4. req' = [req EXCEPT ![r] = received(p, h)] /\ sess' = sess
  BY DEF Receive
<1>5. Touches(r) /\ z = received(p, h)
  BY <1>4, TouchesCall
<1>6. /\ p.call = "wait" /\ p.via = q.via /\ p.buffer = rest
      /\ p.got = q.got /\ p.cancelled = q.cancelled
      /\ p.closed = q.closed /\ p.chunks = q.chunks /\ p.asked = q.asked
      /\ p.dropped = q.dropped /\ p.result = q.result /\ p.watched = q.watched
  BY <1>1 DEF RequestRecords
<1> HIDE DEF p
<1>7. /\ z.via = q.via /\ z.buffer = rest /\ z.closed = q.closed
      /\ z.watched = q.watched /\ z.cancelled = q.cancelled /\ z.asked = q.asked
      /\ z.chunks = q.chunks /\ z.dropped = q.dropped
      /\ h = "error" => z.call = "done" /\ z.result = "error"
      /\ h \in {"resp", "end"} => z.call = "done" /\ z.result = "ok" /\ z.got = q.got
      /\ h \notin Terminal =>
              /\ z.call \in {"wait", "deliver"} /\ z.result = q.result
              /\ z.got = IF h = "chunk" THEN q.got + 1 ELSE q.got
  BY <1>3, <1>5, <1>6, ReceivedFields
<1>8. h \in Terminal <=> h = "error" \/ h \in {"resp", "end"}
  BY DEF Terminal
<1>9. /\ NumChunks(q.buffer) = NumChunks(rest) + (IF h = "chunk" THEN 1 ELSE 0)
      /\ \A T : Holds(q.buffer, T) <=> Holds(rest, T) \/ h \in T
      /\ \A i \in DOMAIN rest : i + 1 \in DOMAIN q.buffer /\ rest[i] = q.buffer[i + 1]
      /\ rest \in Seq(Types)
  BY <1>1, <1>2, ChunksTail
<1>10. /\ Spoilt(r)' = Spoilt(r) /\ (InFlight(r)' <=> InFlight(r))
       /\ \A t \in Sessions : /\ Reading(t, r)' <=> Reading(t, r)
                              /\ Sending(t, r)' <=> Sending(t, r)
                              /\ sess'[t].reading = sess[t].reading
  BY <1>4, <1>5, <1>7, TouchesReading DEF Spoilt
<1>11. 1 \in DOMAIN q.buffer /\ h = q.buffer[1] /\ DOMAIN rest \subseteq Nat \ {0}
  BY <1>1, <1>2, <1>9
<1> HIDE DEF h, rest
<1>12. PlaceOK(r)'
  BY <1>1, <1>5, <1>7, <1>8, <1>10 DEF PlaceOK, Early
<1>13. TableOK(r)'
  BY <1>1, <1>4, <1>7, <1>8 DEF TableOK
<1>14. ChannelOK(r)'
  <2>1. \A i, j \in DOMAIN rest : i < j /\ rest[i] \in Terminal => rest[j] = "error"
    BY <1>1, <1>9, <1>11 DEF ChannelOK
  <2>2. z.call # "done" => h \notin Terminal
    BY <1>7, <1>8
  <2>3. z.call \notin Early
    BY <1>7, <1>8 DEF Early
  <2> QED BY <1>1, <1>7, <1>9, <1>10, <2>1, <2>2, <2>3 DEF ChannelOK
<1>15. ChunkOK(r)'
  <2>1. CASE h \notin Terminal
    <3>1. /\ Holds(rest, {"error"}) <=> Holds(q.buffer, {"error"})
          /\ Holds(rest, {"resp", "end"}) <=> Holds(q.buffer, {"resp", "end"})
      BY <1>8, <1>9, <2>1
    <3>2. z.got \in Nat /\ NumChunks(rest) \in Nat /\ NumChunks(q.buffer) \in Nat
      BY <1>2, <1>7, <1>9, <2>1, ChunksFinite
    <3>3. z.got + NumChunks(rest) = q.got + NumChunks(q.buffer)
      <4>1. NumChunks(q.buffer) = NumChunks(rest) + (IF h = "chunk" THEN 1 ELSE 0)
        BY <1>9
      <4>2. z.got = IF h = "chunk" THEN q.got + 1 ELSE q.got
        BY <1>7, <2>1
      <4> QED BY <1>2, <3>2, <4>1, <4>2
    <3>4. z.result = "none"
      BY <1>1, <1>7, <2>1 DEF PlaceOK
    <3> QED BY <1>1, <1>2, <1>7, <1>10, <3>1, <3>2, <3>3, <3>4 DEF ChunkOK, Flight
  <2>2. CASE h = "error"
    BY <1>7, <2>2 DEF ChunkOK
  <2>3. CASE h \in {"resp", "end"}
    <3>1. Holds(q.buffer, {"resp", "end"})
      BY <1>9, <2>3
    <3>2. ~q.asked /\ \A t \in Sessions : ~Sending(t, r)
      BY <1>1, <3>1 DEF ChannelOK
    <3>3. ~InFlight(r)
      BY <3>2 DEF InFlight
    <3>4. \A i \in DOMAIN rest : rest[i] = "error"
      <4> TAKE i \in DOMAIN rest
      <4>1. i + 1 \in DOMAIN q.buffer /\ 1 < i + 1 /\ rest[i] = q.buffer[i + 1]
        BY <1>9, <1>11
      <4>2. q.buffer[1] \in Terminal
        BY <1>8, <1>11, <2>3
      <4>3. q.buffer[i + 1] = "error"
        BY <1>1, <1>11, <4>1, <4>2 DEF ChannelOK
      <4> QED BY <4>1, <4>3
    <3>5. NumChunks(q.buffer) = 0
      <4>1. NumChunks(rest) = 0
        BY <1>9, <3>4, ChunksNone
      <4> QED BY <1>9, <2>3, <4>1
    <3>6. ~Spoilt(r) => q.got = q.chunks
      BY <1>1, <1>2, <3>1, <3>3, <3>5 DEF ChunkOK, Flight
    <3> QED BY <1>7, <1>10, <2>3, <3>2, <3>3, <3>6 DEF ChunkOK
  <2> QED BY <1>8, <2>1, <2>2, <2>3
<1> QED BY <1>5, <1>12, <1>13, <1>14, <1>15, TouchesOthers, OneCall

\* The channel is closed and empty: a message was dropped or the caller left.
LEMMA ReceiveClosedKept ==
  ASSUME TypeOK, CallInv, ~crashed, NEW r \in Requests, ReceiveClosed(r)
  PROVE  CallInv'
<1> DEFINE q == req[r]
           z == req'[r]
<1>1. /\ PlaceOK(r) /\ ChannelOK(r) /\ ChunkOK(r) /\ q \in RequestRecords
      /\ q.call = "wait" /\ q.buffer = <<>> /\ q.closed
  BY DEF CallInv, PlaceInv, ChannelInv, ChunkInv, TypeOK, ReceiveClosed
<1>2. PICK how : /\ req' = [req EXCEPT ![r] = returned(q, how)] /\ sess' = sess
                 /\ how \in {"ok", "error"}
  BY DEF ReceiveClosed
<1>3. Touches(r) /\ z = returned(q, how)
  BY <1>2, TouchesCall
<1>4. Spoilt(r)
  BY <1>1 DEF ChannelOK, Holds
<1>5. Spoilt(r)' = Spoilt(r)
  BY <1>1, <1>3, ReturnedFields DEF Spoilt
<1>6. PlaceOK(r)'
  BY <1>1, <1>3, ReturnedFields, TouchesReading DEF PlaceOK, Early
<1>7. TableOK(r)'
  BY <1>1, <1>3, ReturnedFields DEF TableOK
<1>8. ChannelOK(r)'
  BY <1>1, <1>3, <1>5, ReturnedFields, TouchesReading DEF ChannelOK, Early, Touches
<1>9. ChunkOK(r)'
  BY <1>1, <1>3, <1>4, <1>5, ReturnedFields DEF ChunkOK
<1> QED BY <1>3, <1>6, <1>7, <1>8, <1>9, TouchesOthers, OneCall

LEMMA CallKept ==
  ASSUME TypeOK, SessionInv, CallInv, ~crashed, NEW r \in Requests, CallStep(r)
  PROVE  CallInv'
<1>1. CASE Load(r) /\ r \notin sess[req[r].via].pending
  BY <1>1, FailKept DEF Load
<1>2. CASE ReceiveCancelled(r)
  BY <1>2, FailKept DEF ReceiveCancelled
<1>3. CASE CheckRefused(r) \/ WriteFails(r)
  BY <1>3, GiveUpKept DEF CheckRefused, WriteFails
<1> QED
  BY <1>1, <1>2, <1>3, LookupKept, StoreKept, SetCallKept, ContextKept,
     WatchCancelKept, WriteOkKept, ReceiveKept, ReceiveClosedKept DEF CallStep

-----------------------------------------------------------------------------
(***************************************************************************)
(* The steps of dispatch and the callback of the sweep.                    *)
(***************************************************************************)

\* Dispatch changes what it reads and, for its own call, the table.
Dispatches(s, r) ==
  /\ \A p \in Requests : p # r => req'[p] = req[p]
  /\ \A t \in Sessions :
       /\ t # s => sess'[t].reading = sess[t].reading
       /\ sess'[t].sweep = sess[t].sweep
       /\ sess'[t].closed = sess[t].closed /\ sess'[t].cleaning = sess[t].cleaning
       /\ \A p \in Requests : p # r => /\ p \in sess'[t].pending <=> p \in sess[t].pending
                                       /\ sess'[t].holding = p <=> sess[t].holding = p

LEMMA DispatchesOthers ==
  ASSUME NEW s \in Sessions, NEW r \in Requests, Dispatches(s, r),
         \/ sess'[s].reading = sess[s].reading
         \/ /\ sess[s].reading.step = "idle" \/ sess[s].reading.req = r
            /\ sess'[s].reading.step = "idle" \/ sess'[s].reading.req = r,
         NEW p \in Requests, p # r
  PROVE  SameCall(p) /\ SameTable(p)
<1>1. SameTable(p)
  BY DEF Dispatches, SameTable
<1>2. SameCall(p)
  BY DEF Dispatches, SameCall, Reading
<1> QED BY <1>1, <1>2

\* The message of the client that dispatch looks up.  When the entry is gone the
\* message is lost, but then an error is already in the channel.
LEMMA ReadKept ==
  ASSUME TypeOK, CallInv, ~crashed, NEW s \in Sessions, NEW r \in Requests,
         NEW type \in Types, Read(s, r, type)
  PROVE  CallInv'
<1> DEFINE q == req[r]
           z == req'[r]
           m == [req |-> r, type |-> type, step |-> "send"]
           a == type \notin Terminal
           c == IF type = "chunk" THEN q.chunks + 1 ELSE q.chunks
           y == [q EXCEPT !.emitted = @ + 1, !.asked = a, !.chunks = c]
<1>1. /\ PlaceOK(r) /\ TableOK(r) /\ ChannelOK(r) /\ ChunkOK(r)
      /\ q \in RequestRecords /\ q.asked /\ q.via = s /\ sess[s].reading = Idle
  BY DEF CallInv, PlaceInv, TableInv, ChannelInv, ChunkInv, TypeOK, Read
<1>2. q.buffer \in Seq(Types) /\ q.got \in Nat /\ q.chunks \in Nat
  BY <1>1 DEF RequestRecords
<1>3. req' = [req EXCEPT ![r] = y]
  BY DEF Read
<1>4. z = y /\ \A p \in Requests : p # r => req'[p] = req[p]
  BY <1>3 DEF TypeOK
<1>5. /\ y.call = q.call /\ y.via = q.via /\ y.buffer = q.buffer
      /\ y.got = q.got /\ y.cancelled = q.cancelled /\ y.watched = q.watched
      /\ y.closed = q.closed /\ y.chunks = c
      /\ y.dropped = q.dropped /\ y.result = q.result
  BY <1>1 DEF RequestRecords
<1>6. y.asked <=> a
  <2>1. y.asked = a
    BY <1>1, Zenon DEF RequestRecords
  <2>2. a \in BOOLEAN
    OBVIOUS
  <2> HIDE DEF a, y
  <2> QED BY <2>1, <2>2
<1> HIDE DEF y
<1>7. /\ r \in sess[s].pending => sess' = [sess EXCEPT ![s].reading = m]
      /\ r \notin sess[s].pending => sess' = sess
  BY DEF Read
<1>8. /\ sess'[s].reading = IF r \in sess[s].pending THEN m ELSE Idle
      /\ sess'[s].sweep = sess[s].sweep /\ sess'[s].holding = sess[s].holding
      /\ sess'[s].closed = sess[s].closed /\ sess'[s].cleaning = sess[s].cleaning
      /\ sess'[s].pending = sess[s].pending
  <2> HIDE DEF m
  <2> QED BY <1>1, <1>7 DEF TypeOK, SessionRecords
<1>9. \A t \in Sessions : t # s => sess'[t] = sess[t]
  BY <1>7 DEF TypeOK
<1>10. Dispatches(s, r)
  BY <1>4, <1>8, <1>9 DEF Dispatches
<1>11. Idle.step = "idle" /\ m.req = r /\ m.type = type /\ m.step = "send"
  BY DEF Idle
<1> HIDE DEF m
<1>12. \A p \in Requests : p # r => SameCall(p) /\ SameTable(p)
  BY <1>1, <1>8, <1>10, <1>11, DispatchesOthers
<1>13. Spoilt(r)' = Spoilt(r)
  BY <1>4, <1>5 DEF Spoilt
<1>14. \A t \in Sessions : ~Reading(t, r) /\ ~Sending(t, r)
  BY <1>1, <1>11 DEF PlaceOK, Reading, Sending
<1>15. \A t \in Sessions : Reading(t, r)' \/ Sending(t, r)' =>
         t = s /\ sess'[s].reading = m /\ r \in sess[s].pending
  BY <1>8, <1>9, <1>11, <1>14 DEF Reading, Sending
<1>16. PlaceOK(r)'
  BY <1>1, <1>4, <1>5, <1>15 DEF PlaceOK
<1>17. TableOK(r)'
  BY <1>1, <1>4, <1>5, <1>8, <1>10 DEF TableOK
<1>18. ChannelOK(r)'
  <2>1. /\ ~Holds(q.buffer, {"resp", "end"})
        /\ ~(Holds(q.buffer, Terminal) /\ ~q.closed)
    BY <1>1 DEF ChannelOK
  <2>2. q.call \notin Early
    BY <1>1 DEF PlaceOK
  <2>3. \A t \in Sessions : Reading(t, r)' =>
          /\ sess'[t].reading.type \in Terminal => ~z.asked
          /\ sess'[t].reading.step # "delete"
    BY <1>4, <1>6, <1>11, <1>15
  <2> QED BY <1>1, <1>4, <1>5, <1>13, <2>1, <2>2, <2>3 DEF ChannelOK
<1>19. ChunkOK(r)'
  <2>1. ~InFlight(r)
    BY <1>14 DEF InFlight
  <2>2. q.result = "ok" => Spoilt(r)
    BY <1>1 DEF ChunkOK
  <2>3. ASSUME r \in sess[s].pending
        PROVE  InFlight(r)' <=> type = "chunk"
    <3>1. Sending(s, r)' /\ sess'[s].reading = m
      BY <1>8, <1>11, <2>3 DEF Sending
    <3> QED BY <1>11, <1>15, <3>1 DEF InFlight
  <2>4. ASSUME r \notin sess[s].pending, q.call # "done", ~Spoilt(r)
        PROVE  Holds(q.buffer, {"error"}) /\ ~Holds(q.buffer, {"resp", "end"})
    <3>1. q.call \in {"wait", "deliver"}
      BY <1>1, <2>4 DEF PlaceOK, Early, RequestRecords
    <3>2. q.closed
      BY <1>1, <2>4, <3>1 DEF TableOK
    <3>3. Holds(q.buffer, Terminal) /\ ~Holds(q.buffer, {"resp", "end"})
      BY <1>1, <2>4, <3>2 DEF ChannelOK
    <3> QED BY <3>3 DEF Holds, Terminal
  <2>5. NumChunks(q.buffer) \in Nat
    BY <1>2, ChunksFinite
  <2>6. r \in sess[s].pending =>
          (q.got + NumChunks(q.buffer) + Flight(r) = q.chunks =>
             q.got + NumChunks(q.buffer) + Flight(r)' = c)
    BY <1>2, <2>1, <2>3, <2>5 DEF Flight
  <2> HIDE DEF c
  <2>7. z.result = "ok" => Spoilt(r)'
    BY <1>4, <1>5, <1>13, <2>2
  <2>8. z.call # "done" /\ ~Spoilt(r)' =>
          \/ z.got + NumChunks(z.buffer) + Flight(r)' = z.chunks
          \/ Holds(z.buffer, {"error"}) /\ ~Holds(z.buffer, {"resp", "end"})
    <3>1. CASE r \in sess[s].pending
      BY <1>1, <1>4, <1>5, <1>13, <2>6, <3>1 DEF ChunkOK
    <3>2. CASE r \notin sess[s].pending
      BY <1>4, <1>5, <1>13, <2>4, <3>2
    <3> QED BY <3>1, <3>2
  <2> QED BY <2>7, <2>8 DEF ChunkOK
<1> QED BY <1>12, <1>16, <1>17, <1>18, <1>19, OneCall

\* What a send does to a call.
LEMMA OfferFields ==
  ASSUME NEW q \in RequestRecords, NEW type
  PROVE  LET z == offer(q, type) IN
         /\ z.call = q.call /\ z.via = q.via /\ z.got = q.got
         /\ z.cancelled = q.cancelled /\ z.watched = q.watched
         /\ z.closed = q.closed /\ z.chunks = q.chunks /\ z.asked = q.asked
         /\ z.result = q.result
         /\ \/ z.buffer = Append(q.buffer, type) /\ z.dropped = q.dropped
            \/ z.buffer = q.buffer /\ z.dropped
<1>1. CASE Len(q.buffer) = Capacity
  <2>1. offer(q, type) = [q EXCEPT !.dropped = TRUE]
    BY <1>1 DEF offer
  <2>2. offer(q, type).dropped
    BY <2>1, Zenon DEF RequestRecords
  <2> QED BY <2>1, <2>2 DEF RequestRecords
<1>2. CASE Len(q.buffer) # Capacity
  <2>1. offer(q, type) = [q EXCEPT !.buffer = Append(@, type)]
    BY <1>2 DEF offer
  <2> QED BY <2>1 DEF RequestRecords
<1> QED BY <1>1, <1>2

\* A message appended to a buffer that ends in nothing but errors, or an error.
LEMMA AppendOrder ==
  ASSUME NEW b \in Seq(Types), NEW type \in Types,
         \A i, j \in DOMAIN b : i < j /\ b[i] \in Terminal => b[j] = "error",
         Holds(b, Terminal) => type = "error"
  PROVE  \A i, j \in DOMAIN Append(b, type) :
           i < j /\ Append(b, type)[i] \in Terminal => Append(b, type)[j] = "error"
<1> DEFINE c == Append(b, type)
<1>1. /\ Len(b) \in Nat /\ DOMAIN b = 1 .. Len(b) /\ DOMAIN c = 1 .. (Len(b) + 1)
      /\ \A i \in 1 .. Len(b) : c[i] = b[i]
      /\ c[Len(b) + 1] = type
  OBVIOUS
<1> HIDE DEF c
<1>2. SUFFICES ASSUME NEW i \in DOMAIN c, NEW j \in DOMAIN c, i < j, c[i] \in Terminal
               PROVE  c[j] = "error"
  BY DEF c
<1>3. i \in 1 .. Len(b) /\ b[i] \in Terminal
  BY <1>1, <1>2
<1>4. CASE j = Len(b) + 1
  BY <1>1, <1>3, <1>4 DEF Holds
<1>5. CASE j # Len(b) + 1
  <2>1. j \in DOMAIN b /\ c[j] = b[j]
    BY <1>1, <1>5
  <2> QED BY <1>1, <1>2, <1>3, <2>1
<1> QED BY <1>4, <1>5

\* Dispatch sends.  A closed channel takes the process down; a full one drops
\* the message; otherwise no terminal message can be before it.
LEMMA SendKept ==
  ASSUME TypeOK, CallInv, ~crashed, NEW s \in Sessions, DispatchSend(s),
         NEW r \in Requests, sess[s].reading.req = r
  PROVE  CallInv'
<1> DEFINE m == sess[s].reading
           q == req[r]
           z == req'[r]
           x == IF m.type \in Terminal THEN [m EXCEPT !.step = "delete"] ELSE Idle
<1>1. /\ m.req = r /\ m.type \in Types /\ m.step = "send"
      /\ m \in [req : Requests, type : Types, step : {"send", "delete"}]
  BY DEF DispatchSend, TypeOK, SessionRecords, Readings, Idle
<1>2. /\ PlaceOK(r) /\ TableOK(r) /\ ChannelOK(r) /\ ChunkOK(r)
      /\ q \in RequestRecords
  BY <1>1 DEF CallInv, PlaceInv, TableInv, ChannelInv, ChunkInv, TypeOK
<1>3. q.buffer \in Seq(Types) /\ q.got \in Nat /\ q.chunks \in Nat
  BY <1>2 DEF RequestRecords
<1>4. sess' = [sess EXCEPT ![s].reading = x] /\ crashed' = q.closed
  BY <1>1 DEF DispatchSend
<1>5. /\ x.step # "send" /\ (x.step # "idle" => x.step = "delete" /\ x.req = r)
      /\ m.type \in Terminal => x.step = "delete" /\ x.type = m.type
      /\ x.step = "delete" => m.type \in Terminal
      /\ x.step = "idle" \/ x.req = r
  BY <1>1 DEF Idle
<1>6. /\ z = IF q.closed THEN q ELSE offer(q, m.type)
      /\ \A p \in Requests : p # r => req'[p] = req[p]
  BY <1>1 DEF DispatchSend, TypeOK
<1> HIDE DEF x
<1>7. /\ sess'[s].reading = x
      /\ sess'[s].sweep = sess[s].sweep /\ sess'[s].holding = sess[s].holding
      /\ sess'[s].closed = sess[s].closed /\ sess'[s].cleaning = sess[s].cleaning
      /\ sess'[s].pending = sess[s].pending
  BY <1>4 DEF TypeOK, SessionRecords
<1>8. \A t \in Sessions : t # s => sess'[t] = sess[t]
  BY <1>4 DEF TypeOK
<1>9. Dispatches(s, r)
  BY <1>6, <1>7, <1>8 DEF Dispatches
<1>10. \A p \in Requests : p # r => SameCall(p) /\ SameTable(p)
  BY <1>1, <1>5, <1>7, <1>9, DispatchesOthers
<1>11. Reading(s, r) /\ Sending(s, r) /\ q.via = s /\ q.call \notin Early
  BY <1>1, <1>2 DEF PlaceOK, Reading, Sending
<1>12. \A t \in Sessions : /\ ~Sending(t, r)'
                           /\ Reading(t, r)' => t = s /\ m.type \in Terminal
  BY <1>2, <1>5, <1>7, <1>8, <1>11 DEF PlaceOK, Reading, Sending
<1>13. ~InFlight(r)'
  BY <1>12 DEF InFlight
<1>14. CASE q.closed
  <2>1. z = q /\ crashed'
    BY <1>4, <1>6, <1>14
  <2>2. Spoilt(r)' = Spoilt(r)
    BY <2>1 DEF Spoilt
  <2>3. PlaceOK(r)'
    BY <1>2, <1>11, <1>12, <2>1 DEF PlaceOK
  <2>4. TableOK(r)'
    BY <1>2, <1>7, <1>9, <1>11, <1>14, <2>1 DEF TableOK, Early
  <2>5. m.type \in Terminal => ~q.asked
    BY <1>2, <1>11 DEF ChannelOK
  <2>6. ChannelOK(r)'
    <3>1. \A t \in Sessions : Reading(t, r)' => ~z.asked
      BY <1>12, <2>1, <2>5
    <3> QED BY <1>2, <1>11, <1>12, <1>14, <2>1, <2>2, <3>1 DEF ChannelOK
  <2>7. ChunkOK(r)'
    BY <1>2, <1>13, <2>1, <2>2 DEF ChunkOK
  <2> QED BY <1>1, <1>10, <2>3, <2>4, <2>6, <2>7, OneCall
<1>15. CASE ~q.closed
  <2>1. z = offer(q, m.type)
    BY <1>6, <1>15
  <2>2. /\ z.call = q.call /\ z.via = q.via /\ z.got = q.got
        /\ z.cancelled = q.cancelled /\ z.watched = q.watched
        /\ z.closed = q.closed /\ z.chunks = q.chunks /\ z.asked = q.asked
        /\ z.result = q.result
        /\ \/ z.buffer = Append(q.buffer, m.type) /\ z.dropped = q.dropped
           \/ z.buffer = q.buffer /\ z.dropped
    BY <1>2, <2>1, OfferFields
  <2>3. PlaceOK(r)'
    BY <1>2, <1>11, <1>12, <2>2 DEF PlaceOK
  <2>4. TableOK(r)'
    BY <1>2, <1>7, <1>11, <2>2 DEF TableOK, Early
  <2>5. m.type \in Terminal => ~q.asked
    BY <1>2, <1>11 DEF ChannelOK
  <2>6. ~Holds(q.buffer, Terminal) /\ ~Holds(q.buffer, {"resp", "end"})
    BY <1>2, <1>11, <1>15 DEF ChannelOK
  <2>7. \A t \in Sessions : Reading(t, r)' => ~z.asked
    BY <1>12, <2>2, <2>5
  <2>8. CASE z.buffer = q.buffer /\ z.dropped
    <3>1. Spoilt(r)'
      BY <2>8 DEF Spoilt
    <3>2. ChannelOK(r)'
      BY <1>2, <1>11, <1>12, <2>2, <2>6, <2>7, <2>8, <3>1 DEF ChannelOK
    <3>3. ChunkOK(r)'
      BY <3>1 DEF ChunkOK
    <3> QED BY <1>1, <1>10, <2>3, <2>4, <3>2, <3>3, OneCall
  <2>9. CASE z.buffer = Append(q.buffer, m.type) /\ z.dropped = q.dropped
    <3>1. Spoilt(r)' = Spoilt(r)
      BY <2>2, <2>9 DEF Spoilt
    <3>2. /\ NumChunks(z.buffer) =
               NumChunks(q.buffer) + (IF m.type = "chunk" THEN 1 ELSE 0)
          /\ \A T : Holds(z.buffer, T) <=> Holds(q.buffer, T) \/ m.type \in T
          /\ NumChunks(q.buffer) \in Nat
      BY <1>1, <1>3, <2>9, ChunksAppend, ChunksFinite
    <3>3. \A i, j \in DOMAIN z.buffer :
            i < j /\ z.buffer[i] \in Terminal => z.buffer[j] = "error"
      <4>1. \A i, j \in DOMAIN q.buffer :
              i < j /\ q.buffer[i] \in Terminal => q.buffer[j] = "error"
        BY <1>2 DEF ChannelOK
      <4>2. Holds(q.buffer, Terminal) => m.type = "error"
        BY <2>6
      <4>3. q.buffer \in Seq(Types) /\ m.type \in Types
        BY <1>1, <1>3
      <4> HIDE DEF q, m
      <4>4. \A i, j \in DOMAIN Append(q.buffer, m.type) :
              i < j /\ Append(q.buffer, m.type)[i] \in Terminal
                => Append(q.buffer, m.type)[j] = "error"
        BY <4>1, <4>2, <4>3, AppendOrder
      <4> QED BY <2>9, <4>4
    <3>4. Holds(z.buffer, Terminal) <=> m.type \in Terminal
      BY <2>6, <3>2
    <3>5. Holds(z.buffer, {"resp", "end"}) => m.type \in Terminal
      BY <2>6, <3>2 DEF Terminal
    <3>6. ChannelOK(r)'
      <4>1. \A t \in Sessions : Reading(t, r)' => Holds(z.buffer, Terminal)
        BY <1>12, <3>4
      <4>2. ~z.closed /\ z.call \notin Early
        BY <1>11, <1>15, <2>2
      <4>3. Holds(z.buffer, Terminal) \/ Holds(z.buffer, {"resp", "end"}) => ~z.asked
        BY <2>2, <2>5, <3>4, <3>5
      <4> QED BY <1>12, <2>7, <3>3, <4>1, <4>2, <4>3 DEF ChannelOK
    <3>7. ChunkOK(r)'
      <4>1. ~Holds(q.buffer, {"error"})
        BY <2>6 DEF Holds, Terminal
      <4>2. InFlight(r) <=> m.type = "chunk"
        BY <1>2, <1>11 DEF InFlight, Sending, Reading, PlaceOK
      <4>3. q.got + NumChunks(q.buffer) + Flight(r) =
              q.got + NumChunks(z.buffer) + Flight(r)'
        BY <1>3, <1>13, <3>2, <4>2 DEF Flight
      <4> QED BY <1>2, <1>13, <2>2, <3>1, <4>1, <4>3 DEF ChunkOK
    <3> QED BY <1>1, <1>10, <2>3, <2>4, <3>6, <3>7, OneCall
  <2> QED BY <2>2, <2>8, <2>9
<1> QED BY <1>14, <1>15

\* Dispatch deletes the entry and closes the channel: the terminal message is
\* in it.
LEMMA DeleteKept ==
  ASSUME TypeOK, CallInv, ~crashed, NEW s \in Sessions, DispatchDelete(s),
         NEW r \in Requests, sess[s].reading.req = r
  PROVE  CallInv'
<1> DEFINE q == req[r]
           z == req'[r]
           b == q.closed \/ r \in sess[s].pending
           y == [q EXCEPT !.closed = b]
<1>1. /\ PlaceOK(r) /\ TableOK(r) /\ ChannelOK(r) /\ ChunkOK(r)
      /\ q \in RequestRecords /\ sess[s].reading.step = "delete"
  BY DEF CallInv, PlaceInv, TableInv, ChannelInv, ChunkInv, TypeOK, DispatchDelete
<1>2. /\ req' = [req EXCEPT ![r] = y]
      /\ sess' = [sess EXCEPT ![s] = [sess[s] EXCEPT !.reading = Idle,
                                                     !.pending = @ \ {r}]]
  BY DEF DispatchDelete, TypeOK
<1>3. z = y /\ \A p \in Requests : p # r => req'[p] = req[p]
  BY <1>2 DEF TypeOK
<1>4. /\ y.call = q.call /\ y.via = q.via /\ y.buffer = q.buffer
      /\ y.got = q.got /\ y.cancelled = q.cancelled /\ y.watched = q.watched
      /\ y.asked = q.asked /\ y.chunks = q.chunks
      /\ y.dropped = q.dropped /\ y.result = q.result
  BY <1>1 DEF RequestRecords
<1>5. y.closed <=> b
  <2>1. y.closed = b
    BY <1>1, Zenon DEF RequestRecords
  <2>2. b \in BOOLEAN
    OBVIOUS
  <2> HIDE DEF b, y
  <2> QED BY <2>1, <2>2
<1> HIDE DEF y
<1>6. /\ sess'[s].reading = Idle
      /\ sess'[s].sweep = sess[s].sweep /\ sess'[s].holding = sess[s].holding
      /\ sess'[s].closed = sess[s].closed /\ sess'[s].cleaning = sess[s].cleaning
      /\ sess'[s].pending = sess[s].pending \ {r}
  BY <1>2 DEF TypeOK, SessionRecords
<1>7. \A t \in Sessions : t # s => sess'[t] = sess[t]
  BY <1>2 DEF TypeOK
<1>8. Dispatches(s, r)
  BY <1>3, <1>6, <1>7 DEF Dispatches
<1>9. Idle.step = "idle"
  BY DEF Idle
<1>10. \A p \in Requests : p # r => SameCall(p) /\ SameTable(p)
  BY <1>6, <1>8, <1>9, DispatchesOthers
<1>11. Reading(s, r) /\ q.via = s /\ q.call \notin Early
  BY <1>1 DEF PlaceOK, Reading
<1>12. \A t \in Sessions : ~Reading(t, r)' /\ ~Sending(t, r)' /\ ~Sending(t, r)
  BY <1>1, <1>6, <1>7, <1>9, <1>11 DEF PlaceOK, Reading, Sending
<1>13. ~InFlight(r)' /\ ~InFlight(r)
  BY <1>12 DEF InFlight
<1>14. Spoilt(r)' = Spoilt(r)
  BY <1>3, <1>4 DEF Spoilt
<1>15. PlaceOK(r)'
  BY <1>1, <1>3, <1>4, <1>12 DEF PlaceOK
<1>16. TableOK(r)'
  <2>1. q.call \in {"write", "wait", "deliver"} => b
    BY <1>1, <1>11 DEF TableOK
  <2> QED BY <1>3, <1>4, <1>5, <1>11, <2>1 DEF TableOK, Early
<1>17. ChannelOK(r)'
  <2>1. q.call # "done" /\ ~Spoilt(r) => Holds(q.buffer, Terminal)
    BY <1>1, <1>11 DEF ChannelOK
  <2> QED BY <1>1, <1>3, <1>4, <1>5, <1>11, <1>12, <1>14, <2>1 DEF ChannelOK
<1>18. ChunkOK(r)'
  BY <1>1, <1>3, <1>4, <1>13, <1>14 DEF ChunkOK, Flight
<1> QED BY <1>10, <1>15, <1>16, <1>17, <1>18, OneCall

\* The callback of the sweep: the error message, then close.
LEMMA SweepCloseKept ==
  ASSUME TypeOK, CallInv, ~crashed, NEW s \in Sessions, SweepClose(s),
         NEW r \in Requests, sess[s].holding = r
  PROVE  CallInv'
<1> DEFINE q == req[r]
           z == req'[r]
           o == offer(q, "error")
           y == [o EXCEPT !.closed = TRUE]
<1>1. /\ PlaceOK(r) /\ TableOK(r) /\ ChannelOK(r) /\ ChunkOK(r)
      /\ q \in RequestRecords
  BY DEF CallInv, PlaceInv, TableInv, ChannelInv, ChunkInv, TypeOK
<1>2. q.buffer \in Seq(Types) /\ "error" \in Types /\ "error" \in Terminal
  BY <1>1 DEF RequestRecords, Types, Terminal
<1>3. /\ z = IF q.closed THEN q ELSE y
      /\ \A p \in Requests : p # r => req'[p] = req[p]
      /\ sess' = [sess EXCEPT ![s].holding = NoRequest]
  BY DEF SweepClose, TypeOK
<1>4. o \in RequestRecords
  BY <1>1, <1>2, OfferType
<1>5. /\ y.call = o.call /\ y.via = o.via /\ y.buffer = o.buffer
      /\ y.got = o.got /\ y.cancelled = o.cancelled /\ y.watched = o.watched
      /\ y.asked = o.asked /\ y.chunks = o.chunks
      /\ y.dropped = o.dropped /\ y.result = o.result
  BY <1>4 DEF RequestRecords
<1>6. y.closed
  BY <1>4, Zenon DEF RequestRecords
<1> HIDE DEF y
<1>7. /\ o.call = q.call /\ o.via = q.via /\ o.got = q.got
      /\ o.cancelled = q.cancelled /\ o.watched = q.watched
      /\ o.chunks = q.chunks /\ o.asked = q.asked /\ o.result = q.result
      /\ \/ o.buffer = Append(q.buffer, "error") /\ o.dropped = q.dropped
         \/ o.buffer = q.buffer /\ o.dropped
  BY <1>1, OfferFields
<1> HIDE DEF o
<1>8. /\ sess'[s].reading = sess[s].reading
      /\ sess'[s].sweep = sess[s].sweep /\ sess'[s].holding = NoRequest
      /\ sess'[s].closed = sess[s].closed /\ sess'[s].cleaning = sess[s].cleaning
      /\ sess'[s].pending = sess[s].pending
  BY <1>3 DEF TypeOK, SessionRecords
<1>9. \A t \in Sessions : t # s => sess'[t] = sess[t]
  BY <1>3 DEF TypeOK
<1>10. Dispatches(s, r)
  BY <1>3, <1>8, <1>9, RelayAssumption DEF Dispatches
<1>11. \A p \in Requests : p # r => SameCall(p) /\ SameTable(p)
  BY <1>8, <1>10, DispatchesOthers
<1>12. \A t \in Sessions : sess'[t].reading = sess[t].reading
  BY <1>8, <1>9
<1>13. /\ \A t \in Sessions : /\ Reading(t, r)' <=> Reading(t, r)
                              /\ Sending(t, r)' <=> Sending(t, r)
       /\ InFlight(r)' <=> InFlight(r)
  BY <1>12 DEF Reading, Sending, InFlight
<1>14. z.closed
  BY <1>3, <1>6
<1>15. TableOK(r)'
  <2>1. z.call = q.call /\ z.via = q.via
    BY <1>3, <1>5, <1>7
  <2>2. q.call \in {"load", "check"} => q.via \in Sessions
    BY <1>1 DEF PlaceOK
  <2>3. \A t \in Sessions : /\ sess'[t].closed = sess[t].closed
                            /\ sess'[t].pending = sess[t].pending
    BY <1>8, <1>9
  <2> QED BY <1>1, <1>14, <2>1, <2>2, <2>3 DEF TableOK
<1>16. PlaceOK(r)'
  BY <1>1, <1>3, <1>5, <1>7, <1>13 DEF PlaceOK
<1>17. ChannelOK(r)' /\ ChunkOK(r)'
  <2>1. CASE z = q
    <3>1. Spoilt(r)' = Spoilt(r)
      BY <2>1 DEF Spoilt
    <3>2. ChannelOK(r)'
      BY <1>1, <1>12, <1>13, <2>1, <3>1 DEF ChannelOK
    <3>3. ChunkOK(r)'
      BY <1>1, <1>13, <2>1, <3>1 DEF ChunkOK, Flight
    <3> QED BY <3>2, <3>3
  <2>2. CASE z = y /\ o.buffer = q.buffer /\ o.dropped
    <3>1. Spoilt(r)' /\ z.buffer = q.buffer /\ z.call = q.call /\ z.asked = q.asked
      BY <1>5, <1>7, <2>2 DEF Spoilt
    <3>2. ChannelOK(r)'
      BY <1>1, <1>12, <1>13, <1>14, <3>1 DEF ChannelOK
    <3>3. ChunkOK(r)'
      BY <3>1 DEF ChunkOK
    <3> QED BY <3>2, <3>3
  <2>3. CASE z = y /\ o.buffer = Append(q.buffer, "error") /\ o.dropped = q.dropped
    <3>1. /\ Spoilt(r)' = Spoilt(r) /\ z.buffer = Append(q.buffer, "error")
          /\ z.call = q.call /\ z.asked = q.asked /\ z.got = q.got
          /\ z.chunks = q.chunks /\ z.result = q.result
      BY <1>5, <1>7, <2>3 DEF Spoilt
    <3>2. /\ NumChunks(z.buffer) = NumChunks(q.buffer)
          /\ \A T : Holds(z.buffer, T) <=> Holds(q.buffer, T) \/ "error" \in T
      <4>1. NumChunks(q.buffer) \in Nat
        BY <1>2, ChunksFinite
      <4> QED BY <1>2, <3>1, <4>1, ChunksAppend
    <3>3. \A i, j \in DOMAIN z.buffer :
            i < j /\ z.buffer[i] \in Terminal => z.buffer[j] = "error"
      <4>1. \A i, j \in DOMAIN q.buffer :
              i < j /\ q.buffer[i] \in Terminal => q.buffer[j] = "error"
        BY <1>1 DEF ChannelOK
      <4> HIDE DEF q
      <4>2. \A i, j \in DOMAIN Append(q.buffer, "error") :
              i < j /\ Append(q.buffer, "error")[i] \in Terminal
                => Append(q.buffer, "error")[j] = "error"
        BY <1>2, <4>1, AppendOrder
      <4> QED BY <3>1, <4>2
    <3>4. /\ Holds(z.buffer, Terminal) /\ Holds(z.buffer, {"error"})
          /\ Holds(z.buffer, {"resp", "end"}) <=> Holds(q.buffer, {"resp", "end"})
      BY <1>2, <3>2
    <3>5. q.call \in Early =>
            \A i \in DOMAIN z.buffer : z.buffer[i] = "error" /\ z.closed
      <4>1. \A i \in DOMAIN z.buffer :
              z.buffer[i] = "error" \/ (i \in DOMAIN q.buffer /\ z.buffer[i] = q.buffer[i])
        BY <1>2, <3>1
      <4> QED BY <1>1, <1>14, <4>1 DEF ChannelOK
    <3>6. ChannelOK(r)'
      BY <1>1, <1>12, <1>13, <1>14, <3>1, <3>3, <3>4, <3>5 DEF ChannelOK
    <3>7. ChunkOK(r)'
      BY <1>1, <1>13, <3>1, <3>2, <3>4 DEF ChunkOK, Flight
    <3> QED BY <3>6, <3>7
  <2> QED BY <1>3, <1>7, <2>1, <2>2, <2>3
<1> QED BY <1>11, <1>15, <1>16, <1>17, OneCall

LEMMA SessionKept ==
  ASSUME TypeOK, SessionInv, CallInv, ~crashed, NEW s \in Sessions, SessionStep(s)
  PROVE  CallInv'
<1>1. CASE ReplacedCleanup(s)
  <2>1. sess[s].replaced \in Sessions
    BY <1>1 DEF ReplacedCleanup, TypeOK, SessionRecords
  <2> QED BY <1>1, <2>1, CleanupCalls DEF ReplacedCleanup
<1>2. CASE HeartbeatFails(s) \/ ReadFails(s)
  BY <1>2, CleanupCalls DEF HeartbeatFails, ReadFails
<1>3. CASE DispatchSend(s) \/ DispatchDelete(s)
  <2>1. sess[s].reading.req \in Requests
    BY <1>3 DEF DispatchSend, DispatchDelete, TypeOK, SessionRecords, Readings, Idle
  <2> QED BY <1>3, <2>1, SendKept, DeleteKept
<1>4. CASE SweepClose(s)
  <2>1. sess[s].holding \in Requests
    BY <1>4 DEF SweepClose, TypeOK, SessionRecords
  <2> QED BY <1>4, <2>1, SweepCloseKept
<1> QED
  BY <1>1, <1>2, <1>3, <1>4, LifeCalls, SweepCalls, ReadKept DEF SessionStep

-----------------------------------------------------------------------------
(***************************************************************************)
(* The theorems.                                                           *)
(***************************************************************************)

LEMMA InitInv == Init => IInv
<1> SUFFICES ASSUME Init PROVE IInv
  OBVIOUS
<1>1. /\ \A s \in Sessions : sess[s] = NewSession
      /\ \A r \in Requests : \E k \in {"nonstream", "stream"} : req[r] = NewRequest(k)
      /\ stop = [step |-> "idle", took |-> NoSession]
  BY DEF Init
<1>2. LivesInv
  BY <1>1 DEF LivesInv, SessionInv, SuccessorStaysReachable, NewSession
<1>3. ASSUME NEW r \in Requests
      PROVE  PlaceOK(r) /\ TableOK(r) /\ ChannelOK(r) /\ ChunkOK(r)
  <2>1. /\ req[r].call = "idle" /\ req[r].result = "none" /\ ~req[r].asked
        /\ ~req[r].watched /\ req[r].buffer = <<>> /\ ~req[r].closed
        /\ req[r].got = 0 /\ req[r].chunks = 0
    <3>1. PICK k \in {"nonstream", "stream"} : req[r] = NewRequest(k)
      BY <1>1
    <3> QED BY <3>1 DEF NewRequest
  <2>2. \A s \in Sessions : ~Reading(s, r) /\ ~Sending(s, r)
    <3>1. NewSession.reading = Idle /\ Idle.step = "idle"
      BY DEF NewSession, Idle
    <3> QED BY <1>1, <3>1, Zenon DEF Reading, Sending
  <2>3. ~InFlight(r)
    BY <2>2 DEF InFlight
  <2>4. NumChunks(req[r].buffer) = 0
    <3>1. <<>> \in Seq(Types) /\ \A i \in DOMAIN <<>> : <<>>[i] # "chunk"
      OBVIOUS
    <3> QED BY <2>1, <3>1, ChunksNone
  <2>5. \A T : ~Holds(<<>>, T)
    BY DEF Holds
  <2>6. PlaceOK(r) /\ TableOK(r)
    <3>1. PlaceOK(r)
      BY <2>1, <2>2 DEF PlaceOK
    <3>2. TableOK(r)
      BY <2>1 DEF TableOK
    <3> QED BY <3>1, <3>2
  <2>7. ChannelOK(r)
    BY <2>1, <2>2, <2>5 DEF ChannelOK
  <2>8. ChunkOK(r)
    <3>1. Flight(r) = 0
      BY <2>3 DEF Flight
    <3>2. req[r].got + NumChunks(req[r].buffer) + Flight(r) = req[r].chunks
      BY <2>1, <2>4, <3>1
    <3> QED BY <2>1, <3>2 DEF ChunkOK
  <2> QED BY <2>6, <2>7, <2>8
<1> QED
  BY <1>2, <1>3, TypeInit
     DEF IInv, LivesInv, PlaceInv, TableInv, ChannelInv, ChunkInv

LEMMA NextInv == IInv /\ [Next]_vars => IInv'
<1> SUFFICES ASSUME IInv, [Next]_vars PROVE IInv'
  OBVIOUS
<1>1. TypeOK /\ LivesInv /\ SessionInv /\ CallInv /\ PlaceInv
  BY DEF IInv, LivesInv, CallInv
<1>2. CASE UNCHANGED vars
  BY <1>2 DEF vars, IInv, TypeOK, SessionInv, SuccessorStaysReachable, PlaceInv,
     TableInv, ChannelInv, ChunkInv, PlaceOK, TableOK, ChannelOK, ChunkOK, Reading,
     Sending, InFlight, Flight, Spoilt
<1>3. CASE Next
  <2>1. ~crashed
    BY <1>3 DEF Next
  <2>2. CASE \E s \in Sessions : SessionStep(s)
    BY <1>1, <2>1, <2>2, SessionType, SessionLives, SessionKept
       DEF IInv, LivesInv, CallInv
  <2>3. CASE \E r \in Requests : CallStep(r)
    BY <1>1, <2>1, <2>3, CallType, CallLives, SameLivesKept, CallKept
       DEF IInv, LivesInv, CallInv
  <2>4. CASE StopTake \/ StopCleanup \/ StopReturn
    BY <1>1, <2>1, <2>4, StopType, StopLives, StopCalls
       DEF IInv, LivesInv, CallInv
  <2> QED BY <1>3, <2>2, <2>3, <2>4 DEF Next
<1> QED BY <1>2, <1>3

LEMMA Inductive == Spec => []IInv
<1> QED BY InitInv, NextInv, PTL DEF Spec

\* The state of the relay is well typed: in particular dispatch never works on
\* a message of no request and the table never holds anything but requests.
THEOREM TypeCorrect == Spec => []TypeOK
<1>1. IInv => TypeOK
  BY DEF IInv
<1> QED BY <1>1, Inductive, PTL

\* The session in the map is the latest one placed, however late an earlier one
\* dies (the test of handleSessionClosed), for any number of connections.
THEOREM SuccessorReachable == Spec => []SuccessorStaysReachable
<1>1. IInv => SuccessorStaysReachable
  BY DEF IInv
<1> QED BY <1>1, Inductive, PTL

\* No call waits on an open channel of a session that is past its sweep: the
\* test of send and the order of cleanup leave no gap for an entry to slip in.
THEOREM CallersReturn == Spec => []NoCallerStranded
<1>1. IInv => NoCallerStranded
  BY DEF IInv, TableInv, TableOK, NoCallerStranded
<1> QED BY <1>1, Inductive, PTL

\* An answer that is reported complete is complete, unless a full channel
\* dropped a message or the caller itself cancelled, whatever the capacity of
\* the channels and the length of the answers.
THEOREM AnswersComplete == Spec => []TruncatedOnlyWhenFull
<1>1. IInv => TruncatedOnlyWhenFull
  <2> SUFFICES ASSUME IInv, NEW r \in Requests, req[r].result = "ok",
                      req[r].got < req[r].chunks
               PROVE  Spoilt(r)
    BY DEF TruncatedOnlyWhenFull, Spoilt
  <2>1. ChunkOK(r) /\ req[r].got \in Nat
    BY DEF IInv, ChunkInv, TypeOK, RequestRecords
  <2> QED BY <2>1 DEF ChunkOK
<1> QED BY <1>1, Inductive, PTL
=============================================================================
