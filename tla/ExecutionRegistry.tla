------------------------- MODULE ExecutionRegistry -------------------------
(***************************************************************************)
(* sdk/cliproxy/executionregistry: the registry that owns every execution  *)
(* dispatched by Home during one subscriber lifetime.                      *)
(*                                                                         *)
(* A dispatch is a token (PendingDispatch) that is either ended or         *)
(* installed as a Scope; a scope may bind one resource; ending it closes   *)
(* the resource, counts the release, tells the release sink and only then  *)
(* leaves the registry.  Drain and Close stop new work and sweep the bound *)
(* resources while owners, closers and waiters run concurrently.           *)
(*                                                                         *)
(* Granularity.  Registry.state is an atomic that Drain and Close write    *)
(* WITHOUT holding Registry.mu, so the operations that test it and then    *)
(* write under mu are two steps: "...Lock" acquires mu and loads state,    *)
(* "...Commit" does the writes and releases mu.  Every other critical      *)
(* section is one step that needs mu to be free.  A refused call changes   *)
(* no state and has no action, except the refused Install, which ends the  *)
(* token.                                                                  *)
(***************************************************************************)
EXTENDS Naturals, FiniteSets

CONSTANTS
    MaxDispatches,   \* bound on next: dispatches begun in this lifetime
    MaxBarrier,      \* bound on the barrier revisions Home announces
    MaxFreezes,      \* bound on snapshotRevision
    Groups,          \* ReleaseGroup values: (credential, model) pairs
    Unaccounted,     \* the spec of a scope with Accounted = false
    Sinks, NoSink,   \* release sinks, and a nil sink
    Drainers,        \* goroutines that call Drain
    Closers,         \* goroutines that call Close
    Waiters          \* goroutines that call WaitPending

ASSUME BoundsAssumption ==
    /\ MaxDispatches \in Nat
    /\ MaxBarrier \in Nat
    /\ MaxFreezes \in Nat

ASSUME NamesAssumption ==
    /\ Unaccounted \notin Groups
    /\ NoSink \notin Sinks
    /\ Drainers \cap Waiters = {}

VARIABLES
    state,                   \* Registry.state
    mu, muId,                \* holder of Registry.mu, and the token it works on
    next,                    \* Registry.next: the last dispatch id handed out
    pending,                 \* keys of Registry.pending
    scopes,                  \* keys of Registry.scopes
    spec,                    \* ScopeSpec of an installed scope: its group or Unaccounted
    resource,                \* closeFn and closeDone of a scope (see Resources)
    endPc,                   \* progress of the goroutine inside Scope.ended.Do
    call,                    \* the sink and sequence that goroutine got from markReleasedLocked
    releaseSequences,        \* Registry.releaseSequences
    releaseSink,             \* Registry.releaseSink
    replay,                  \* calls SetReleaseSink has still to make
    delivered,               \* highest sequence each sink has been called with
    drainPc, sweep,          \* Drain: progress, and scopes still to sweep
    closePc, toClose, closeAt, \* Close: progress, scopes still to close, the one awaited
    closeStarted, closeDone, \* Registry.closeStarted, and whether its closeDone is closed
    waitPc,                  \* WaitPending: progress
    signaled,                \* whether the changed channel a waiter captured is closed
    observedBarrier, pendingBarrierSequence, publishedBarrier,
    snapshotRevision,
    frozen,                  \* the executions of the last FreezeInFlight
    barrierNext              \* history: next when each barrier was observed

lockVars    == <<mu, muId>>
tokenVars   == <<next, pending>>
scopeVars   == <<scopes, spec, resource, endPc, call>>
sinkVars    == <<releaseSequences, releaseSink, replay, delivered>>
drainVars   == <<drainPc, sweep>>
closeVars   == <<closePc, toClose, closeAt, closeStarted, closeDone>>
waitVars    == <<waitPc, signaled>>
barrierVars == <<observedBarrier, pendingBarrierSequence, publishedBarrier,
                 snapshotRevision, frozen, barrierNext>>
vars == <<state, lockVars, tokenVars, scopeVars, sinkVars, drainVars,
          closeVars, waitVars, barrierVars>>

threadVars  == <<drainVars, closeVars, waitVars>>

\* What the operations on one group of variables leave alone.
notLock    == <<state, tokenVars, scopeVars, sinkVars, threadVars, barrierVars>>
notToken   == <<state, sinkVars, drainVars, closeVars, barrierVars>>
notScope   == <<state, lockVars, tokenVars, sinkVars, threadVars, barrierVars>>
notSink    == <<state, lockVars, tokenVars, scopeVars, threadVars, barrierVars>>
notDrain   == <<lockVars, tokenVars, scopeVars, sinkVars, closeVars, waitVars, barrierVars>>
notClose   == <<lockVars, tokenVars, scopeVars, sinkVars, drainVars, waitVars, barrierVars>>
notWait    == <<state, lockVars, tokenVars, scopeVars, sinkVars, drainVars, closeVars, barrierVars>>
notBarrier == <<state, lockVars, tokenVars, scopeVars, sinkVars, threadVars>>

Ids      == 1..MaxDispatches
Barriers == 0..MaxBarrier
Threads  == Drainers \cup Waiters

States == {"Accepting", "Draining", "Closed"}

\* closeFn = nil, closeDone = nil | closeFn set | closeDone open, the goroutine
\* of startBoundResourceClose runs closeFn | closeDone closed.
Resources == {"none", "bound", "closing", "closed"}

\* "none": no scope object yet; "idle": installed and active; then the steps
\* of EndWithRelease in their order.
EndPcs == {"none", "idle", "close", "wait", "mark", "sink", "remove", "done"}

\* Faulty variant: a scope that ended can be ended again.
ActiveAgain(i) == endPc[i] \in {"idle", "done"}

Installed(i) == endPc[i] # "none"
Active(i)    == endPc[i] = "idle"
Accounted(i) == Installed(i) /\ spec[i] # Unaccounted
Marked(i)    == endPc[i] \in {"sink", "remove", "done"}

Init ==
    /\ state = "Accepting"
    /\ mu = "free" /\ muId = 0
    /\ next = 0
    /\ pending = {}
    /\ scopes = {}
    /\ spec = [i \in Ids |-> Unaccounted]
    /\ resource = [i \in Ids |-> "none"]
    /\ endPc = [i \in Ids |-> "none"]
    /\ call = [i \in Ids |-> [sink |-> NoSink, seq |-> 0]]
    /\ releaseSequences = [g \in Groups |-> 0]
    /\ releaseSink = NoSink
    /\ replay = {}
    /\ delivered = [k \in Sinks \X Groups |-> 0]
    /\ drainPc = [t \in Drainers |-> "idle"]
    /\ sweep = [t \in Drainers |-> {}]
    /\ closePc = [t \in Closers |-> "idle"]
    /\ toClose = [t \in Closers |-> {}]
    /\ closeAt = [t \in Closers |-> 0]
    /\ closeStarted = FALSE /\ closeDone = FALSE
    /\ waitPc = [t \in Waiters |-> "idle"]
    /\ signaled = [t \in Threads |-> FALSE]
    /\ observedBarrier = 0 /\ pendingBarrierSequence = 0 /\ publishedBarrier = 0
    /\ snapshotRevision = 0
    /\ frozen = {}
    /\ barrierNext = [b \in Barriers |-> 0]

-----------------------------------------------------------------------------
(* Helpers *)

\* Faulty variant: the state is not tested.
AcceptingIgnored == TRUE

Accepting == state = "Accepting"

\* Faulty variant: the changed channel is not closed.
signalNobody == UNCHANGED signaled

\* close(r.changed): every goroutine that captured the channel wakes up.
signalLocked == signaled' = [t \in Threads |-> TRUE]

\* startBoundResourceClose on a scope: a bound closeFn is taken and run by a
\* goroutine of its own; a scope with none, or already closing, is left alone.
startBoundResourceClose(i) ==
    resource' = [resource EXCEPT ![i] = IF @ = "bound" THEN "closing" ELSE @]

\* Faulty variant: a close that is already running is not waited for.
hasCloseDoneOfOwn(i) == resource[i] = "bound"

\* Whether startBoundResourceClose returns a channel to wait on.
hasCloseDone(i) == resource[i] # "none"

\* Faulty variant: the last call wins, in whatever order calls arrive.
deliverLast(s, g, n) == delivered' = [delivered EXCEPT ![<<s, g>>] = n]

\* A sink keeps the highest cumulative sequence it was called with.
deliver(s, g, n) ==
    delivered' = [delivered EXCEPT ![<<s, g>>] = IF n > @ THEN n ELSE @]

-----------------------------------------------------------------------------
(* Dispatch tokens *)

\* The load before Lock only answers earlier what the load under mu answers.
BeginDispatchLock ==
    /\ mu = "free"
    /\ Accepting
    /\ next < MaxDispatches
    /\ mu' = "begin"
    /\ UNCHANGED <<notLock, muId>>

BeginDispatchCommit ==
    /\ mu = "begin"
    /\ next' = next + 1
    /\ pending' = pending \cup {next + 1}
    /\ mu' = "free"
    /\ UNCHANGED <<notToken, muId, scopeVars, waitVars>>

\* PendingDispatch.End; its sync.Once makes a second call a no-op, and a token
\* is in pending exactly until its Once is used.
PendingEnd(i) ==
    /\ mu = "free"
    /\ i \in pending
    /\ pending' = pending \ {i}
    /\ signalLocked
    /\ UNCHANGED <<notToken, lockVars, next, scopeVars, waitPc>>

InstallLock(i) ==
    /\ mu = "free"
    /\ i \in pending
    /\ Accepting
    /\ mu' = "install" /\ muId' = i
    /\ UNCHANGED notLock

InstallCommit ==
    /\ mu = "install"
    /\ pending' = pending \ {muId}
    /\ scopes' = scopes \cup {muId}
    /\ endPc' = [endPc EXCEPT ![muId] = "idle"]
    /\ \E sp \in Groups \cup {Unaccounted} : spec' = [spec EXCEPT ![muId] = sp]
    /\ signalLocked
    /\ mu' = "free" /\ muId' = 0
    /\ UNCHANGED <<notToken, next, resource, call, waitPc>>

\* Install on a registry that stopped accepting: the token is used up.
InstallRefused(i) ==
    /\ mu = "free"
    /\ i \in pending
    /\ ~Accepting
    /\ pending' = pending \ {i}
    /\ signalLocked
    /\ UNCHANGED <<notToken, lockVars, next, scopeVars, waitPc>>

-----------------------------------------------------------------------------
(* Scopes *)

BindLock(i) ==
    /\ mu = "free"
    /\ Accepting
    /\ Active(i)
    /\ resource[i] = "none"
    /\ mu' = "bind" /\ muId' = i
    /\ UNCHANGED notLock

BindCommit ==
    /\ mu = "bind"
    /\ resource' = [resource EXCEPT ![muId] = "bound"]
    /\ mu' = "free" /\ muId' = 0
    /\ UNCHANGED <<notToken, tokenVars, scopes, spec, endPc, call, waitVars>>

\* The goroutine of startBoundResourceClose: closeFn returned, closeDone closed.
ResourceClosed(i) ==
    /\ resource[i] = "closing"
    /\ resource' = [resource EXCEPT ![i] = "closed"]
    /\ UNCHANGED <<notScope, scopes, spec, endPc, call>>

\* EndWithRelease, first critical section: active = false.  Later callers of
\* End block on the Once and change nothing.
EndStart(i) ==
    /\ mu = "free"
    /\ Active(i)
    /\ endPc' = [endPc EXCEPT ![i] = "close"]
    /\ UNCHANGED <<notScope, scopes, spec, resource, call>>

\* waitForBoundResourceClose: start the close, ...
EndClose(i) ==
    /\ endPc[i] = "close"
    /\ startBoundResourceClose(i)
    /\ endPc' = [endPc EXCEPT ![i] = IF hasCloseDone(i) THEN "wait" ELSE "mark"]
    /\ UNCHANGED <<notScope, scopes, spec, call>>

\* ... and <-closeDone.
EndWait(i) ==
    /\ endPc[i] = "wait"
    /\ resource[i] = "closed"
    /\ endPc' = [endPc EXCEPT ![i] = "mark"]
    /\ UNCHANGED <<notScope, scopes, spec, resource, call>>

\* Faulty variant: the sink is given the sequence of the next release.
markReleasedAhead(i) ==
    LET n == releaseSequences[spec[i]] + 1 IN
    /\ releaseSequences' = [releaseSequences EXCEPT ![spec[i]] = n]
    /\ call' = [call EXCEPT ![i] = [sink |-> releaseSink, seq |-> n + 1]]

\* markReleasedLocked on an accounted scope: count the release and read the
\* sink it is to be told to.
markReleasedLocked(i) ==
    LET n == releaseSequences[spec[i]] + 1 IN
    /\ releaseSequences' = [releaseSequences EXCEPT ![spec[i]] = n]
    /\ call' = [call EXCEPT ![i] = [sink |-> releaseSink, seq |-> n]]

\* The critical section after the wait; an unaccounted scope gets no sink.
EndMark(i) ==
    /\ mu = "free"
    /\ endPc[i] = "mark"
    /\ IF spec[i] = Unaccounted THEN UNCHANGED <<releaseSequences, call>>
                                ELSE markReleasedLocked(i)
    /\ endPc' = [endPc EXCEPT ![i] = "sink"]
    /\ UNCHANGED <<state, lockVars, tokenVars, scopes, spec, resource,
                   releaseSink, replay, delivered, threadVars, barrierVars>>

\* The sink is called without mu, so calls of two scopes may swap.
EndSink(i) ==
    /\ endPc[i] = "sink"
    /\ IF call[i].sink = NoSink
       THEN UNCHANGED delivered
       ELSE deliver(call[i].sink, spec[i], call[i].seq)
    /\ endPc' = [endPc EXCEPT ![i] = "remove"]
    /\ UNCHANGED <<state, lockVars, tokenVars, scopes, spec, resource, call,
                   releaseSequences, releaseSink, replay, threadVars, barrierVars>>

EndRemove(i) ==
    /\ mu = "free"
    /\ endPc[i] = "remove"
    /\ scopes' = scopes \ {i}
    /\ endPc' = [endPc EXCEPT ![i] = "done"]
    /\ signalLocked
    /\ UNCHANGED <<notToken, lockVars, tokenVars, spec, resource, call, waitPc>>

-----------------------------------------------------------------------------
(* SetReleaseSink: install the sink and copy the sequences under mu, then   *)
(* call the sink for every group already released.  One goroutine (the      *)
(* Home subscriber) sets sinks, so a replay ends before the next call.      *)

\* Faulty variant: known groups are not replayed to the new sink.
replayNothing(s) == {}

\* The calls a new sink gets: the sequence of every group released so far.
replayTo(s) ==
    {[group |-> g, seq |-> releaseSequences[g]] :
        g \in {h \in Groups : s # NoSink /\ releaseSequences[h] > 0}}

SetReleaseSink(s) ==
    /\ mu = "free"
    /\ replay = {}
    /\ releaseSink' = s
    /\ replay' = replayTo(s)
    /\ UNCHANGED <<notSink, releaseSequences, delivered>>

ReplaySink(r) ==
    /\ r \in replay
    /\ replay' = replay \ {r}
    /\ deliver(releaseSink, r.group, r.seq)
    /\ UNCHANGED <<notSink, releaseSequences, releaseSink>>

-----------------------------------------------------------------------------
(* Drain *)

\* The compare-and-swap, or the load that finds another Drain in progress.
DrainEnter(t) ==
    /\ drainPc[t] = "idle"
    /\ IF state = "Closed"
       THEN /\ drainPc' = [drainPc EXCEPT ![t] = "refused"]
            /\ UNCHANGED state
       ELSE /\ drainPc' = [drainPc EXCEPT ![t] = "snapshot"]
            /\ state' = "Draining"
    /\ UNCHANGED <<notDrain, sweep>>

DrainSnapshot(t) ==
    /\ drainPc[t] = "snapshot"
    /\ mu = "free"
    /\ sweep' = [sweep EXCEPT ![t] = scopes]
    /\ drainPc' = [drainPc EXCEPT ![t] = "sweep"]
    /\ UNCHANGED <<notDrain, state>>

DrainSweep(t, i) ==
    /\ drainPc[t] = "sweep"
    /\ i \in sweep[t]
    /\ startBoundResourceClose(i)
    /\ sweep' = [sweep EXCEPT ![t] = @ \ {i}]
    /\ UNCHANGED <<state, lockVars, tokenVars, scopes, spec, endPc, call,
                   sinkVars, drainPc, closeVars, waitVars, barrierVars>>

DrainSwept(t) ==
    /\ drainPc[t] = "sweep"
    /\ sweep[t] = {}
    /\ drainPc' = [drainPc EXCEPT ![t] = "check"]
    /\ UNCHANGED <<notDrain, state, sweep>>

\* The wait loop: test under mu, and capture r.changed before unlocking.
DrainCheck(t) ==
    /\ drainPc[t] = "check"
    /\ mu = "free"
    /\ IF pending = {} /\ scopes = {}
       THEN /\ state' = "Closed"
            /\ drainPc' = [drainPc EXCEPT ![t] = "done"]
            /\ UNCHANGED signaled
       ELSE /\ drainPc' = [drainPc EXCEPT ![t] = "wait"]
            /\ signaled' = [signaled EXCEPT ![t] = FALSE]
            /\ UNCHANGED state
    /\ UNCHANGED <<lockVars, tokenVars, scopeVars, sinkVars, sweep, closeVars,
                   waitPc, barrierVars>>

DrainWake(t) ==
    /\ drainPc[t] = "wait"
    /\ signaled[t]
    /\ drainPc' = [drainPc EXCEPT ![t] = "check"]
    /\ UNCHANGED <<notDrain, state, sweep>>

DrainTimeout(t) ==
    /\ drainPc[t] = "wait"
    /\ drainPc' = [drainPc EXCEPT ![t] = "expired"]
    /\ UNCHANGED <<notDrain, state, sweep>>

-----------------------------------------------------------------------------
(* Close *)

CloseEnter(t) ==
    /\ closePc[t] = "idle"
    /\ \/ /\ closeStarted
          /\ closePc' = [closePc EXCEPT ![t] = "join"]
          /\ UNCHANGED closeStarted
       \/ /\ ~closeStarted /\ state = "Closed"
          /\ closePc' = [closePc EXCEPT ![t] = "done"]
          /\ UNCHANGED closeStarted
       \/ /\ ~closeStarted /\ state # "Closed"
          /\ closePc' = [closePc EXCEPT ![t] = "swap"]
          /\ closeStarted' = TRUE
    /\ UNCHANGED <<notClose, state, toClose, closeAt, closeDone>>

\* The compare-and-swap loop ends with state = Closed whatever it was.
CloseSwap(t) ==
    /\ closePc[t] = "swap"
    /\ state' = "Closed"
    /\ closePc' = [closePc EXCEPT ![t] = "snapshot"]
    /\ UNCHANGED <<notClose, toClose, closeAt, closeStarted, closeDone>>

CloseSnapshot(t) ==
    /\ closePc[t] = "snapshot"
    /\ mu = "free"
    /\ toClose' = [toClose EXCEPT ![t] = scopes]
    /\ closePc' = [closePc EXCEPT ![t] = "sweep"]
    /\ UNCHANGED <<notClose, state, closeAt, closeStarted, closeDone>>

\* waitForBoundResourceClose on one scope of the snapshot: start its close ...
CloseSweep(t, i) ==
    /\ closePc[t] = "sweep"
    /\ i \in toClose[t]
    /\ toClose' = [toClose EXCEPT ![t] = @ \ {i}]
    /\ startBoundResourceClose(i)
    /\ IF hasCloseDone(i)
       THEN /\ closePc' = [closePc EXCEPT ![t] = "await"]
            /\ closeAt' = [closeAt EXCEPT ![t] = i]
       ELSE UNCHANGED <<closePc, closeAt>>
    /\ UNCHANGED <<state, lockVars, tokenVars, scopes, spec, endPc, call, sinkVars,
                   drainVars, closeStarted, closeDone, waitVars, barrierVars>>

\* ... and <-closeDone before the next one.
CloseAwait(t) ==
    /\ closePc[t] = "await"
    /\ resource[closeAt[t]] = "closed"
    /\ closePc' = [closePc EXCEPT ![t] = "sweep"]
    /\ closeAt' = [closeAt EXCEPT ![t] = 0]
    /\ UNCHANGED <<notClose, state, toClose, closeStarted, closeDone>>

\* Faulty variant: closeDone is never closed.
CloseFinishSilent(t) ==
    /\ closePc[t] = "sweep"
    /\ toClose[t] = {}
    /\ closePc' = [closePc EXCEPT ![t] = "done"]
    /\ UNCHANGED <<notClose, state, toClose, closeAt, closeStarted, closeDone>>

CloseFinish(t) ==
    /\ closePc[t] = "sweep"
    /\ toClose[t] = {}
    /\ closeDone' = TRUE
    /\ closePc' = [closePc EXCEPT ![t] = "done"]
    /\ UNCHANGED <<notClose, state, toClose, closeAt, closeStarted>>

CloseJoined(t) ==
    /\ closePc[t] = "join"
    /\ closeDone
    /\ closePc' = [closePc EXCEPT ![t] = "done"]
    /\ UNCHANGED <<notClose, state, toClose, closeAt, closeStarted, closeDone>>

-----------------------------------------------------------------------------
(* WaitPending *)

WaitPendingCheck(t) ==
    /\ waitPc[t] \in {"idle", "check"}
    /\ mu = "free"
    /\ IF pending = {}
       THEN /\ waitPc' = [waitPc EXCEPT ![t] = "done"]
            /\ UNCHANGED signaled
       ELSE /\ waitPc' = [waitPc EXCEPT ![t] = "wait"]
            /\ signaled' = [signaled EXCEPT ![t] = FALSE]
    /\ UNCHANGED notWait

WaitPendingWake(t) ==
    /\ waitPc[t] = "wait"
    /\ signaled[t]
    /\ waitPc' = [waitPc EXCEPT ![t] = "check"]
    /\ UNCHANGED <<notWait, signaled>>

WaitPendingTimeout(t) ==
    /\ waitPc[t] = "wait"
    /\ waitPc' = [waitPc EXCEPT ![t] = "expired"]
    /\ UNCHANGED <<notWait, signaled>>

-----------------------------------------------------------------------------
(* Observation *)

ObserveBarrier(b) ==
    /\ mu = "free"
    /\ b > observedBarrier
    /\ observedBarrier' = b
    /\ pendingBarrierSequence' = next
    /\ barrierNext' = [barrierNext EXCEPT ![b] = next]
    /\ UNCHANGED <<notBarrier, publishedBarrier, snapshotRevision, frozen>>

\* Faulty variant: off by one, the newest token before the barrier is let through.
BarrierBlockedLate == \E i \in pending : i < pendingBarrierSequence

\* A pending token that began no later than the barrier blocks it.
BarrierBlocked == \E i \in pending : i <= pendingBarrierSequence

FreezeInFlight ==
    /\ mu = "free"
    /\ snapshotRevision < MaxFreezes
    /\ publishedBarrier' = IF observedBarrier > publishedBarrier /\ ~BarrierBlocked
                           THEN observedBarrier ELSE publishedBarrier
    /\ snapshotRevision' = snapshotRevision + 1
    /\ frozen' = scopes
    /\ UNCHANGED <<notBarrier, observedBarrier, pendingBarrierSequence, barrierNext>>

-----------------------------------------------------------------------------
Token ==
    \/ BeginDispatchLock
    \/ BeginDispatchCommit
    \/ InstallCommit
    \/ \E i \in Ids : PendingEnd(i) \/ InstallLock(i) \/ InstallRefused(i)

ScopeStep(i) ==
    \/ BindLock(i)
    \/ ResourceClosed(i)
    \/ EndStart(i)
    \/ EndClose(i)
    \/ EndWait(i)
    \/ EndMark(i)
    \/ EndSink(i)
    \/ EndRemove(i)

Scope == BindCommit \/ \E i \in Ids : ScopeStep(i)

Sink ==
    \/ \E s \in Sinks \cup {NoSink} : SetReleaseSink(s)
    \/ \E r \in replay : ReplaySink(r)

Drain(t) ==
    \/ DrainEnter(t)
    \/ DrainSnapshot(t)
    \/ \E i \in Ids : DrainSweep(t, i)
    \/ DrainSwept(t)
    \/ DrainCheck(t)
    \/ DrainWake(t)
    \/ DrainTimeout(t)

Close(t) ==
    \/ CloseEnter(t)
    \/ CloseSwap(t)
    \/ CloseSnapshot(t)
    \/ \E i \in Ids : CloseSweep(t, i)
    \/ CloseAwait(t)
    \/ CloseFinish(t)
    \/ CloseJoined(t)

WaitPending(t) ==
    \/ WaitPendingCheck(t)
    \/ WaitPendingWake(t)
    \/ WaitPendingTimeout(t)

Observe ==
    \/ \E b \in Barriers : ObserveBarrier(b)
    \/ FreezeInFlight

Next ==
    \/ Token
    \/ Scope
    \/ Sink
    \/ \E t \in Drainers : Drain(t)
    \/ \E t \in Closers : Close(t)
    \/ \E t \in Waiters : WaitPending(t)
    \/ Observe

Spec == Init /\ [][Next]_vars
-----------------------------------------------------------------------------
(* Fairness.  A goroutine inside a registry call keeps running, a closeFn   *)
(* returns, a dispatch gets Home's answer or an error.  The owner of a      *)
(* scope has to end it only once the registry stopped accepting and a bound *)
(* resource was closed under it, which is how a drained request notices.    *)

ResolveToken(i) == PendingEnd(i) \/ InstallLock(i) \/ InstallRefused(i)

OwnerEnds(i) ==
    /\ state # "Accepting"
    /\ resource[i] # "bound"
    /\ EndStart(i)

EndContinues(i) == EndClose(i) \/ EndWait(i) \/ EndMark(i) \/ EndSink(i) \/ EndRemove(i)

DrainContinues(t) ==
    \/ DrainSnapshot(t)
    \/ \E i \in Ids : DrainSweep(t, i)
    \/ DrainSwept(t)
    \/ DrainCheck(t)
    \/ DrainWake(t)

CloseContinues(t) == closePc[t] # "idle" /\ Close(t)

WaitContinues(t) == waitPc[t] # "idle" /\ (WaitPendingCheck(t) \/ WaitPendingWake(t))

Fairness ==
    /\ WF_vars(BeginDispatchCommit)
    /\ WF_vars(InstallCommit)
    /\ WF_vars(BindCommit)
    /\ \A i \in Ids : /\ WF_vars(ResolveToken(i))
                      /\ WF_vars(ResourceClosed(i))
                      /\ WF_vars(OwnerEnds(i))
                      /\ WF_vars(EndContinues(i))
    /\ \A t \in Drainers : WF_vars(DrainContinues(t))
    /\ \A t \in Closers : WF_vars(CloseContinues(t))
    /\ \A t \in Waiters : WF_vars(WaitContinues(t))

FairSpec == Spec /\ Fairness

-----------------------------------------------------------------------------
(* Properties *)

DrainPcs == {"idle", "refused", "snapshot", "sweep", "check", "wait", "done", "expired"}
ClosePcs == {"idle", "swap", "snapshot", "sweep", "await", "join", "done"}
WaitPcs  == {"idle", "check", "wait", "done", "expired"}
Calls    == [sink : Sinks \cup {NoSink}, seq : Nat]
Replays  == [group : Groups, seq : Nat]

TypeToken ==
    /\ state \in States
    /\ mu \in {"free", "begin", "install", "bind"}
    /\ muId \in 0..MaxDispatches
    /\ mu \in {"install", "bind"} => muId \in Ids
    /\ next \in 0..MaxDispatches
    /\ mu = "begin" => next < MaxDispatches
    /\ pending \subseteq Ids

TypeScope ==
    /\ scopes \subseteq Ids
    /\ spec \in [Ids -> Groups \cup {Unaccounted}]
    /\ resource \in [Ids -> Resources]
    /\ endPc \in [Ids -> EndPcs]
    /\ call \in [Ids -> Calls]

TypeSink ==
    /\ releaseSequences \in [Groups -> Nat]
    /\ releaseSink \in Sinks \cup {NoSink}
    /\ replay \subseteq Replays
    /\ releaseSink = NoSink => replay = {}
    /\ delivered \in [Sinks \X Groups -> Nat]

TypeThreads ==
    /\ drainPc \in [Drainers -> DrainPcs]
    /\ sweep \in [Drainers -> SUBSET Ids]
    /\ closePc \in [Closers -> ClosePcs]
    /\ toClose \in [Closers -> SUBSET Ids]
    /\ closeAt \in [Closers -> 0..MaxDispatches]
    /\ \A t \in Closers : closePc[t] = "await" => closeAt[t] \in Ids
    /\ waitPc \in [Waiters -> WaitPcs]

TypeFlags ==
    /\ closeStarted \in BOOLEAN
    /\ closeDone \in BOOLEAN
    /\ signaled \in [Threads -> BOOLEAN]

TypeBarrier ==
    /\ observedBarrier \in Barriers
    /\ pendingBarrierSequence \in 0..MaxDispatches
    /\ publishedBarrier \in Barriers
    /\ snapshotRevision \in 0..MaxFreezes
    /\ frozen \subseteq Ids
    /\ barrierNext \in [Barriers -> 0..MaxDispatches]

\* Type invariant: every field of Registry, PendingDispatch and Scope, and
\* every goroutine's position, stays within the values the code gives it; a
\* replay is never directed at a nil sink.
TypeOK ==
    TypeToken /\ TypeScope /\ TypeSink /\ TypeThreads /\ TypeFlags /\ TypeBarrier

\* Once Drain has swept its snapshot, no scope keeps a resource that nobody is
\* closing, although Bind runs concurrently and state changes without mu.
SweepLeavesNothingBound ==
    \A t \in Drainers :
        drainPc[t] \in {"check", "wait", "done", "expired"} =>
            \A i \in Ids : resource[i] # "bound"

\* When a call of Close returns, by whichever of its three ways, every bound
\* resource has been closed and none can be bound any more.
CloseReturnsAllClosed ==
    \A t \in Closers :
        closePc[t] = "done" =>
            /\ state = "Closed"
            /\ \A i \in Ids : resource[i] \notin {"bound", "closing"}

\* A Drain that returned nil left the registry empty for good: no token begun
\* or installed by a goroutine that saw it accepting appears afterwards.
DrainedStaysEmpty ==
    \A t \in Drainers :
        drainPc[t] = "done" =>
            /\ state = "Closed"
            /\ pending = {} /\ scopes = {}
            /\ mu = "free"

\* What ties the life of a scope to the registry's maps.
ScopeLife ==
    \A i \in Ids :
        /\ i \in scopes <=> endPc[i] \notin {"none", "done"}
        /\ i \in pending => endPc[i] = "none"
        /\ i \in pending \/ endPc[i] # "none" => i <= next
        /\ endPc[i] = "none" => resource[i] = "none"
        /\ endPc[i] \in {"mark", "sink", "remove", "done"} =>
               resource[i] \in {"none", "closed"}

\* What the holder of mu saw when it took the lock still holds.
LockHolder ==
    /\ mu = "install" => muId \in pending
    /\ mu = "bind" => endPc[muId] = "idle" /\ resource[muId] = "none"

\* Past its snapshot a Drain runs with mu not held by a Begin, Install or
\* Bind, and whatever is still bound is on its list.
DrainProgress ==
    \A t \in Drainers :
        /\ drainPc[t] \notin {"idle", "refused"} => state # "Accepting"
        /\ drainPc[t] \in {"sweep", "check", "wait", "done", "expired"} => mu = "free"
        /\ drainPc[t] = "sweep" => \A i \in Ids : resource[i] = "bound" => i \in sweep[t]
        /\ drainPc[t] \in {"check", "wait", "done", "expired"} =>
               \A i \in Ids : resource[i] # "bound"
        /\ drainPc[t] = "done" => state = "Closed" /\ pending = {} /\ scopes = {}

\* The same for Close, which also waits; and a registry closed by nobody's
\* Close was closed by a Drain that found it empty.
AllClosed == state = "Closed" /\ mu = "free" /\ \A i \in Ids : resource[i] \in {"none", "closed"}

CloseProgress ==
    /\ \A t \in Closers :
        /\ closePc[t] \in {"swap", "snapshot", "sweep", "await", "join"} => closeStarted
        /\ closePc[t] \in {"snapshot", "sweep", "await"} => state = "Closed"
        /\ closePc[t] \in {"sweep", "await"} =>
               /\ mu = "free"
               /\ \A i \in Ids : resource[i] \in {"bound", "closing"} =>
                      i \in toClose[t] \/ (closePc[t] = "await" /\ i = closeAt[t])
        /\ closePc[t] = "done" => AllClosed
    /\ closeDone => AllClosed
    /\ (state = "Closed" /\ ~closeStarted) => mu = "free" /\ pending = {} /\ scopes = {}

\* The inductive invariant behind the three shutdown properties: what Drain
\* and Close found under mu stays true while everybody else keeps running.
ShutdownInv == ScopeLife /\ LockHolder /\ DrainProgress /\ CloseProgress

\* releaseSequences counts each accounted scope whose End got past
\* markReleasedLocked exactly once, and no other.
ReleasedExactlyOnce ==
    \A g \in Groups :
        releaseSequences[g] =
            Cardinality({i \in Ids : Accounted(i) /\ spec[i] = g /\ Marked(i)})

\* A scope leaves Registry.scopes only after its release reached the sink it
\* was marked with; so a Drain that returned nil left no release on its way
\* and the Flush that follows it sees them all.
ReleaseReachesSinkBeforeRemoval ==
    \A i \in Ids \ scopes :
        Accounted(i) /\ call[i].sink # NoSink =>
            delivered[<<call[i].sink, spec[i]>>] >= call[i].seq

\* Replacing the sink loses no release: the current sink has been called with
\* the latest sequence of each group, or an End or the replay still has that
\* call to make.
NoReleaseLost ==
    \A g \in Groups :
        (releaseSink # NoSink /\ releaseSequences[g] > 0) =>
            \/ delivered[<<releaseSink, g>>] = releaseSequences[g]
            \/ \E i \in Ids : /\ endPc[i] = "sink" /\ spec[i] = g
                              /\ call[i] = [sink |-> releaseSink, seq |-> releaseSequences[g]]
            \/ [group |-> g, seq |-> releaseSequences[g]] \in replay

\* A sink is never told a sequence that has not been released (Home would free
\* a slot that is still in use).
NoOverRelease ==
    \A s \in Sinks, g \in Groups : delivered[<<s, g>>] <= releaseSequences[g]

\* Sequences on their way: an End or a replay only carries sequences that
\* were released, and only the End of an accounted, marked scope has a sink.
SequencesInFlight ==
    /\ \A i \in Ids : call[i].sink # NoSink =>
           /\ Marked(i) /\ spec[i] \in Groups
           /\ call[i].seq <= releaseSequences[spec[i]]
    /\ \A r \in replay : r.seq <= releaseSequences[r.group]
    /\ \A i \in Ids : (endPc[i] \in {"remove", "done"} /\ call[i].sink # NoSink) =>
           delivered[<<call[i].sink, spec[i]>>] >= call[i].seq

\* The inductive invariant behind the release properties.
ReleaseInv == SequencesInFlight /\ NoOverRelease /\ NoReleaseLost

\* The snapshot that publishes a barrier lists every execution dispatched
\* before Home announced it that has not been released since: no token that
\* was pending when the barrier was observed can turn up later.
BarrierSnapshotComplete ==
    \A i \in Ids :
        i <= barrierNext[publishedBarrier] =>
            /\ i \notin pending
            /\ endPc[i] \notin {"none", "done"} => i \in frozen

\* A Drain that entered returns, without needing its timeout: no wake-up of
\* the changed channel is lost and every swept owner ends.
DrainReturns ==
    \A t \in Drainers : drainPc[t] = "snapshot" ~> drainPc[t] \in {"done", "expired"}

\* Every call of Close returns, also the ones that join another caller's.
CloseReturns ==
    \A t \in Closers : closePc[t] \in {"swap", "join"} ~> closePc[t] = "done"
=============================================================================
