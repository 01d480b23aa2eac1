----------------------------- MODULE UsageFeed -----------------------------
(***************************************************************************)
(* The way of a usage record: usage.Manager queues what executors publish  *)
(* and one worker hands it to the plugins; the plugin of redisqueue gives  *)
(* it to the subscribers of the RESP port or, when there are none, to a    *)
(* backlog that pollers pop; in Home mode a forwarder pops the backlog and *)
(* pushes it to Home.                                                      *)
(*                                                                         *)
(* Records are numbered in the order in which Publish queues them.  Time   *)
(* is left out: pruneLocked drops any prefix of the backlog.               *)
(***************************************************************************)
EXTENDS Naturals, Sequences, FiniteSets, SequencesExt

CONSTANTS
  MaxRecords,  \* bound: calls of Publish
  Subscribers, \* SUBSCRIBE commands
  Buffer,      \* usageSubscriberBuffer (256 in the code)
  Batch,       \* items per PopOldest of the forwarder (64 in the code)
  MaxToggles,  \* bound: calls of SetEnabled after the start
  MaxErrors    \* bound: failed pushes to Home

ASSUME FeedAssumption ==
  /\ MaxRecords \in Nat /\ Buffer \in Nat \ {0} /\ Batch \in Nat \ {0}
  /\ MaxToggles \in Nat /\ MaxErrors \in Nat

VARIABLES
  home,     \* whether Home mode is on: no subscribers then, but a forwarder
  mgr,      \* usage.Manager: queue, closed, its worker and what it holds
  signals,  \* calls of Signal and Broadcast still to be made
  next,     \* records published so far
  enabled,  \* redisqueue.enabled, and SetEnabled(false) on its way to clear
  items,    \* the backlog global.items
  subs,     \* global.subscribers
  chan,     \* the channels of subscribers: buffered payloads, closed
  fwd,      \* the forwarder: the items it popped and whether it requeues
  polled,   \* records that LPOP or the management API returned
  atHome,   \* records Home has accepted
  budget,   \* toggles and errors left
  log,      \* history: records given to subscribers, in order
  seen,     \* history: what each subscriber received, and where log was
  excused,  \* history: records dropped for a reason: see Conserved
  handled   \* history: records the plugins were called for

managerVars == <<mgr, signals, next>>
queueVars == <<enabled, items, subs, chan, log>>
readerVars == <<fwd, polled, atHome, seen>>
vars == <<home, managerVars, queueVars, readerVars, budget, excused, handled>>

Records == 1..MaxRecords
Refresh == 0                 \* the payloads support_refresh and refresh
IsRecord(p) == p # Refresh

Init ==
  /\ home \in BOOLEAN
  /\ mgr = [queue |-> <<>>, closed |-> FALSE, worker |-> "none", item |-> 0]
  /\ signals = 0
  /\ next = 0
  /\ enabled = [on |-> TRUE, clearing |-> FALSE]
  /\ items = <<>>
  /\ subs = {}
  /\ chan = [u \in Subscribers |-> [buf |-> <<>>, closed |-> FALSE]]
  /\ fwd = [items |-> <<>>, requeue |-> FALSE]
  /\ polled = {} /\ atHome = {}
  /\ budget = [toggles |-> MaxToggles, errors |-> MaxErrors]
  /\ log = <<>>
  /\ seen = [u \in Subscribers |-> [state |-> "none", got |-> <<>>, from |-> 0]]
  /\ excused = {}
  /\ handled = {}

-----------------------------------------------------------------------------
(* usage.Manager *)

started(m) == IF m.worker = "none" THEN [m EXCEPT !.worker = "check"] ELSE m

Start ==
  /\ mgr.worker = "none"
  /\ mgr' = started(mgr)
  /\ UNCHANGED <<home, signals, next, queueVars, readerVars, budget, excused, handled>>

\* Publish starts the worker if need be, queues the record under the mutex
\* and signals outside it; after Stop the record is refused.
Publish ==
  /\ next < MaxRecords
  /\ IF mgr.closed
       THEN mgr' = started(mgr) /\ UNCHANGED <<signals, next>>
       ELSE /\ mgr' = [started(mgr) EXCEPT !.queue = Append(@, next + 1)]
            /\ signals' = signals + 1
            /\ next' = next + 1
  /\ UNCHANGED <<home, queueVars, readerVars, budget, excused, handled>>

Stop ==
  /\ ~mgr.closed
  /\ mgr' = [mgr EXCEPT !.closed = TRUE]
  /\ signals' = signals + 1
  /\ UNCHANGED <<home, next, queueVars, readerVars, budget, excused, handled>>

\* cond.Signal or cond.Broadcast: there is one waiter at most.
Signal ==
  /\ signals > 0
  /\ signals' = signals - 1
  /\ mgr' = [mgr EXCEPT !.worker = IF @ = "wait" THEN "check" ELSE @]
  /\ UNCHANGED <<home, next, queueVars, readerVars, budget, excused, handled>>

\* Faulty variant: the worker leaves as soon as the manager is closed.
workerEndsNow(m) == m.closed

\* The worker returns when the manager is closed and its queue is drained.
workerEnds(m) == m.closed /\ m.queue = <<>>

\* The critical section of run.
WorkerCheck ==
  /\ mgr.worker = "check"
  /\ mgr' = CASE workerEnds(mgr) -> [mgr EXCEPT !.worker = "exit"]
              [] ~workerEnds(mgr) /\ mgr.queue = <<>> ->
                   [mgr EXCEPT !.worker = "wait"]
              [] OTHER -> [mgr EXCEPT !.worker = "handle",
                                      !.item = Head(mgr.queue),
                                      !.queue = Tail(@)]
  /\ UNCHANGED <<home, signals, next, queueVars, readerVars, budget, excused, handled>>

\* dispatch calls HandleUsage, which builds the payload if the queue is on.
HandleUsage ==
  /\ mgr.worker = "handle"
  /\ mgr' = [mgr EXCEPT !.worker = IF enabled.on THEN "publish" ELSE "check"]
  /\ handled' = handled \cup {mgr.item}
  /\ excused' = IF enabled.on THEN excused ELSE excused \cup {mgr.item}
  /\ UNCHANGED <<home, signals, next, queueVars, readerVars, budget>>

-----------------------------------------------------------------------------
(* redisqueue *)

\* Faulty variant: a full subscriber misses the payload and stays subscribed.
dropsFullNever(u) == FALSE

\* A subscriber whose buffer is full when a payload comes is dropped.
dropsFull(u) == Len(chan[u].buf) = Buffer

\* publishToSubscribers: one critical section over all subscribers.
publishToSubscribers(p) ==
  /\ subs' = {u \in subs : ~dropsFull(u)}
  /\ chan' = [u \in Subscribers |->
                IF u \notin subs THEN chan[u]
                ELSE IF Len(chan[u].buf) < Buffer
                       THEN [chan[u] EXCEPT !.buf = Append(@, p)]
                       ELSE [chan[u] EXCEPT !.closed = dropsFull(u)]]

fullSubscriber == \E u \in subs : Len(chan[u].buf) = Buffer

\* Enqueue, first half: the subscribers get the record.
EnqueuePublish ==
  /\ mgr.worker = "publish"
  /\ IF subs = {}
       THEN /\ mgr' = [mgr EXCEPT !.worker = "enqueue"]
            /\ UNCHANGED <<subs, chan, log, excused>>
       ELSE /\ publishToSubscribers(mgr.item)
            /\ mgr' = [mgr EXCEPT !.worker = "check"]
            /\ log' = Append(log, mgr.item)
            /\ excused' = IF fullSubscriber THEN excused \cup {mgr.item} ELSE excused
  /\ UNCHANGED <<home, signals, next, enabled, items, readerVars, budget, handled>>

\* pruneLocked drops the k oldest items, which are past the retention time.
pruned(k) == SubSeq(items, k + 1, Len(items))
prune(k) == excused \cup ToSet(SubSeq(items, 1, k))

\* Enqueue, second half: with no subscriber the record joins the backlog,
\* whoever subscribed or cleared the queue meanwhile.
EnqueueBacklog(k) ==
  /\ mgr.worker = "enqueue"
  /\ items' = Append(pruned(k), mgr.item)
  /\ excused' = prune(k)
  /\ mgr' = [mgr EXCEPT !.worker = "check"]
  /\ UNCHANGED <<home, signals, next, enabled, subs, chan, log, readerVars, budget, handled>>

\* NotifyUsageRefresh.
NotifyUsageRefresh ==
  /\ budget.toggles > 0
  /\ budget' = [budget EXCEPT !.toggles = @ - 1]
  /\ publishToSubscribers(Refresh)
  /\ UNCHANGED <<home, managerVars, enabled, items, log, readerVars, excused, handled>>

\* SetEnabled: the flag is stored first, the queue is cleared afterwards.
SetEnabled(v) ==
  /\ ~enabled.clearing
  /\ budget.toggles > 0
  /\ budget' = [budget EXCEPT !.toggles = @ - 1]
  /\ enabled' = [on |-> v, clearing |-> ~v]
  /\ UNCHANGED <<home, managerVars, items, subs, chan, log, readerVars, excused, handled>>

\* clear: items go, and every subscriber's channel is closed.
Clear ==
  /\ enabled.clearing
  /\ enabled' = [enabled EXCEPT !.clearing = FALSE]
  /\ items' = <<>>
  /\ excused' = excused \cup ToSet(items)
  /\ subs' = {}
  /\ chan' = [u \in Subscribers |->
                [chan[u] EXCEPT !.closed = @ \/ u \in subs]]
  /\ UNCHANGED <<home, managerVars, log, readerVars, budget, handled>>

popped(k, n) == SubSeq(pruned(k), 1, n)
left(k, n) == SubSeq(pruned(k), n + 1, Len(items) - k)

\* PopOldest(n) after pruning k items.
popOldest(k, n) ==
  /\ enabled.on
  /\ items' = left(k, n)
  /\ excused' = prune(k)

\* LPOP of the RESP port, or the management API.
Poll(k, n) ==
  /\ n <= Len(items) - k
  /\ popOldest(k, n)
  /\ polled' = polled \cup ToSet(popped(k, n))
  /\ UNCHANGED <<home, managerVars, enabled, subs, chan, log, fwd, atHome, seen, budget, handled>>

-----------------------------------------------------------------------------
(* A subscription of the RESP port *)

\* The channel starts with a support_refresh payload in its buffer.
Subscribe(u) ==
  /\ ~home /\ seen[u].state = "none"
  /\ seen' = [seen EXCEPT ![u] = [@ EXCEPT !.state = "on", !.from = Len(log)]]
  /\ chan' = [chan EXCEPT ![u].buf = <<Refresh>>]
  /\ subs' = subs \cup {u}
  /\ UNCHANGED <<home, managerVars, enabled, items, log, fwd, polled, atHome, budget, excused, handled>>

\* streamRedisSubscription writes the next message ...
Receive(u) ==
  /\ seen[u].state = "on" /\ chan[u].buf # <<>>
  /\ seen' = [seen EXCEPT ![u].got = Append(@, Head(chan[u].buf))]
  /\ chan' = [chan EXCEPT ![u].buf = Tail(@)]
  /\ UNCHANGED <<home, managerVars, enabled, items, subs, log, fwd, polled, atHome, budget, excused, handled>>

\* ... and ends when the channel is closed and drained ...
ReceiveEnd(u) ==
  /\ seen[u].state = "on" /\ chan[u].closed /\ chan[u].buf = <<>>
  /\ seen' = [seen EXCEPT ![u].state = "ended"]
  /\ UNCHANGED <<home, managerVars, queueVars, fwd, polled, atHome, budget, excused, handled>>

\* ... or when the client unsubscribes, quits or is gone: what its buffer
\* still holds goes nowhere.
Unsubscribe(u) ==
  /\ seen[u].state = "on"
  /\ seen' = [seen EXCEPT ![u].state = "left"]
  /\ excused' = excused \cup (ToSet(chan[u].buf) \ {Refresh})
  /\ subs' = subs \ {u}
  /\ chan' = [chan EXCEPT ![u] = [buf |-> <<>>, closed |-> @.closed \/ u \in subs]]
  /\ UNCHANGED <<home, managerVars, enabled, items, log, fwd, polled, atHome, budget, handled>>

-----------------------------------------------------------------------------
(* The forwarder of Home mode *)

ForwardPop(k) ==
  /\ home
  /\ fwd = [items |-> <<>>, requeue |-> FALSE]
  /\ LET n == IF Len(items) - k < Batch THEN Len(items) - k ELSE Batch
     IN /\ n > 0
        /\ popOldest(k, n)
        /\ fwd' = [fwd EXCEPT !.items = popped(k, n)]
  /\ UNCHANGED <<home, managerVars, enabled, subs, chan, log, polled, atHome, seen, budget, handled>>

ForwardOk ==
  /\ fwd.items # <<>> /\ ~fwd.requeue
  /\ atHome' = atHome \cup {Head(fwd.items)}
  /\ fwd' = [fwd EXCEPT !.items = Tail(@)]
  /\ UNCHANGED <<home, managerVars, queueVars, polled, seen, budget, excused, handled>>

\* Faulty variant: the item whose push failed is skipped.
afterErrorSkips(s) == Tail(s)

\* The items to queue again after the push of the first one failed.
afterError(s) == s

\* The push fails; Home may have the record all the same.
ForwardError(accepted) ==
  /\ fwd.items # <<>> /\ ~fwd.requeue
  /\ budget.errors > 0
  /\ budget' = [budget EXCEPT !.errors = @ - 1]
  /\ atHome' = IF accepted THEN atHome \cup {Head(fwd.items)} ELSE atHome
  /\ LET rest == afterError(fwd.items)
     IN fwd' = [items |-> rest, requeue |-> rest # <<>>]
  /\ UNCHANGED <<home, managerVars, queueVars, polled, seen, excused, handled>>

\* Enqueue of one of them: in Home mode there are no subscribers.
ForwardRequeue(k) ==
  /\ fwd.requeue
  /\ IF enabled.on
       THEN /\ items' = Append(pruned(k), Head(fwd.items))
            /\ excused' = prune(k)
       ELSE /\ UNCHANGED items
            /\ excused' = excused \cup {Head(fwd.items)}
  /\ fwd' = [items |-> Tail(fwd.items), requeue |-> Len(fwd.items) > 1]
  /\ UNCHANGED <<home, managerVars, enabled, subs, chan, log, polled, atHome, seen, budget, handled>>

-----------------------------------------------------------------------------
Worker == WorkerCheck \/ HandleUsage \/ EnqueuePublish
          \/ \E k \in 0..Len(items) : EnqueueBacklog(k)

Next ==
  \/ Start \/ Publish \/ Stop \/ Signal
  \/ Worker
  \/ NotifyUsageRefresh
  \/ \E v \in BOOLEAN : SetEnabled(v)
  \/ Clear
  \/ \E k \in 0..Len(items), n \in 1..Batch : Poll(k, n)
  \/ \E u \in Subscribers :
       Subscribe(u) \/ Receive(u) \/ ReceiveEnd(u) \/ Unsubscribe(u)
  \/ \E k \in 0..Len(items) : ForwardPop(k) \/ ForwardRequeue(k)
  \/ ForwardOk
  \/ \E accepted \in BOOLEAN : ForwardError(accepted)

Spec == Init /\ [][Next]_vars

\* Goroutines inside a call keep running; nobody has to publish, subscribe,
\* poll or stop.
Fairness == WF_vars(Worker) /\ WF_vars(Signal)

FairSpec == Spec /\ Fairness

-----------------------------------------------------------------------------
(* Properties *)

InFlight ==
  IF mgr.worker \in {"handle", "publish", "enqueue"} THEN {mgr.item} ELSE {}

Held ==
  ToSet(mgr.queue) \cup InFlight \cup ToSet(items) \cup ToSet(fwd.items)
    \cup polled \cup atHome
    \cup UNION {ToSet(seen[u].got) \cup ToSet(chan[u].buf) : u \in Subscribers}

\* No record gets lost on its way through the worker, the backlog, the
\* subscribers and the forwarder with its retries.  The only ones that end
\* nowhere met a queue that was off or being cleared, outlived the retention
\* time, found a subscriber's buffer full, or sat in the buffer of a
\* subscriber that left.
Conserved == \A r \in 1..next : r \in Held \cup excused

\* The place in the log of the i-th payload of a subscriber that came when
\* the log had from records.
recordsUpTo(s, i) == {j \in 1..i : IsRecord(s[j])}
place(s, from, i) == from + Cardinality(recordsUpTo(s, i))

\* The records among the payloads s are those of the log l, without a gap ...
follows(s, from, l) ==
  \A i \in 1..Len(s) : IsRecord(s[i]) =>
    place(s, from, i) \in 1..Len(l) /\ s[i] = l[place(s, from, i)]

\* ... and up to its end.
caughtUp(s, from, l) == place(s, from, Len(s)) = Len(l)

\* A subscriber sees every record that publishToSubscribers hands out while it
\* is subscribed, in order and without a gap, up to the end of its channel: one
\* that cannot keep up is cut off and never skips.
SubscriberSeesNoGap ==
  \A u \in Subscribers :
    LET payloads == seen[u].got \o chan[u].buf
    IN seen[u].state \in {"on", "ended"} =>
         /\ follows(payloads, seen[u].from, log)
         /\ u \in subs => caughtUp(payloads, seen[u].from, log)

\* Every record that Publish queued reaches the plugins, also when Stop comes
\* first: "Stop stops the dispatcher and drains the queue".
QueuedRecordsAreHandled == \A r \in Records : (next >= r) ~> (r \in handled)
=============================================================================
