--------------------------- MODULE ReleaseFlusher ---------------------------
(***************************************************************************)
(* internal/home/concurrency_release.go: the flusher that reports finished *)
(* executions to Home as cumulative release sequences, one per group.      *)
(*                                                                         *)
(* MarkDirty (the registry's release sink) may be called by any number of  *)
(* goroutines and in any order.  Run, one goroutine per Home lifetime,     *)
(* sends the latest sequence of every dirty group and retries with a       *)
(* backoff; the flusher outlives the lifetime, so sequences and tickets    *)
(* carry over to the next Run and sender.  Home, the transport and time    *)
(* are external: a frame may be lost, accepted, or accepted although the   *)
(* sender sees an error, and an armed timer may fire at any moment.        *)
(***************************************************************************)
EXTENDS Naturals

CONSTANTS
    Groups,    \* ReleaseGroup values
    MaxSeq,    \* bound on the release sequences of a group
    MaxRuns,   \* bound on the Home lifetimes, each with a Run of its own
    Timings    \* the (flushInterval, maxBackoff) pairs a configuration may give

ASSUME FlusherAssumption ==
    /\ MaxSeq \in Nat
    /\ MaxRuns \in Nat
    /\ Timings \subseteq [flushInterval : Nat, maxBackoff : Nat]
    /\ Timings # {}

VARIABLES
    latest, acked,   \* releaseState.Latest and Acked of each group
    waiters,         \* tickets whose done channel is open: (group, sequence) pairs
    done,            \* tickets whose done channel was closed
    toSignal,        \* MarkDirty calls between their critical section and signal()
    wake, force,     \* the two channels of capacity one: full or not
    timing,          \* what timings() returns
    runs, runPc,     \* lifetimes started, and where the current Run is
    cancelled,       \* its context is done
    timer,           \* "now": due at once; "delay": armed with delay
    delay, backingOff,
    flight,          \* flush: groups of pending still to send
    flightSeq,       \* flush: the sequences copied when it began
    sending,         \* flush: the groups (at most one) whose frame Home has accepted
    failed,          \* flush: some send returned an error
    forced,          \* flush runs with the context of Flush
    flushPc,         \* Flush: progress
    flushTarget,     \* history: latest when Flush was called
    home             \* Home's cumulative sequence of each group

markVars   == <<latest, acked, waiters, done>>
loopVars   == <<timer, delay, backingOff>>
runVars    == <<runs, cancelled>>
flightVars == <<flight, flightSeq, sending, failed, forced>>
flushVars  == <<flushPc, flushTarget>>
chanVars   == <<wake, force, toSignal>>
vars == <<markVars, loopVars, runVars, runPc, flightVars, flushVars, chanVars,
          timing, home>>

Seqs == 1..MaxSeq

Init ==
    /\ latest = [g \in Groups |-> 0]
    /\ acked = [g \in Groups |-> 0]
    /\ waiters = {} /\ done = {}
    /\ toSignal = {}
    /\ wake = FALSE /\ force = FALSE
    /\ timing \in Timings
    /\ runs = 0 /\ runPc = "stopped" /\ cancelled = FALSE
    /\ timer = "delay" /\ delay = 0 /\ backingOff = FALSE
    /\ flight = {} /\ flightSeq = [g \in Groups |-> 0] /\ sending = {}
    /\ failed = FALSE /\ forced = FALSE
    /\ flushPc = "idle" /\ flushTarget = [g \in Groups |-> 0]
    /\ home = [g \in Groups |-> 0]

-----------------------------------------------------------------------------
(* MarkDirty and the setters *)

MarkLatest(g, n) == latest' = [latest EXCEPT ![g] = IF n > @ THEN n ELSE @]

\* Faulty variant: a sequence that was acknowledged before gets a waiter too.
alreadyAckedNever(g, n) == FALSE

alreadyAcked(g, n) == n <= acked[g]

\* The critical section of MarkDirty: its ticket is complete at once when the
\* sequence was acknowledged, and waits otherwise.
MarkDirty(g, n) ==
    /\ IF alreadyAcked(g, n)
       THEN done' = done \cup {<<g, n>>} /\ UNCHANGED <<latest, waiters>>
       ELSE /\ waiters' = waiters \cup {<<g, n>>}
            /\ MarkLatest(g, n)
            /\ UNCHANGED done
    /\ toSignal' = toSignal \cup {<<g, n>>}
    /\ UNCHANGED <<acked, loopVars, runVars, runPc, flightVars, flushVars, wake,
                   force, timing, home>>

\* Faulty variant: the non-blocking send finds no room.
SignalDropped(x) ==
    /\ x \in toSignal
    /\ toSignal' = toSignal \ {x}
    /\ UNCHANGED <<markVars, loopVars, runVars, runPc, flightVars, flushVars, wake,
                   force, timing, home>>

\* signal: a non-blocking send on a channel of capacity one.
Signal(x) ==
    /\ x \in toSignal
    /\ toSignal' = toSignal \ {x}
    /\ wake' = TRUE
    /\ UNCHANGED <<markVars, loopVars, runVars, runPc, flightVars, flushVars,
                   force, timing, home>>

\* A new Home lifetime: SetConfigProvider and SetSender, which signal, and only
\* then go Run.
RunStart ==
    /\ runPc = "stopped"
    /\ runs < MaxRuns
    /\ flushPc = "idle"
    /\ runs' = runs + 1
    /\ \E t \in Timings : timing' = t /\ delay' = t.flushInterval
    /\ wake' = TRUE
    /\ runPc' = "select" /\ cancelled' = FALSE
    /\ timer' = "now" /\ backingOff' = FALSE
    /\ UNCHANGED <<markVars, flightVars, flushVars, force, toSignal, home>>

\* The limiter configuration behind the provider changes; nobody is signalled.
ConfigChange ==
    /\ \E t \in Timings : timing' = t
    /\ UNCHANGED <<markVars, loopVars, runVars, runPc, flightVars, flushVars,
                   chanVars, home>>

-----------------------------------------------------------------------------
(* Run: the select loop *)

\* releaseCancel: the lifetime is to be retried, or Flush returned.
RunCancel ==
    /\ runPc # "stopped"
    /\ ~cancelled
    /\ flushPc \in {"idle", "ok", "timeout"}
    /\ flushPc = "idle" => runs < MaxRuns
    /\ cancelled' = TRUE
    /\ UNCHANGED <<markVars, loopVars, runs, runPc, flightVars, flushVars,
                   chanVars, timing, home>>

RunReturn ==
    /\ runPc = "select"
    /\ cancelled
    /\ runPc' = "stopped"
    /\ UNCHANGED <<markVars, loopVars, runVars, flightVars, flushVars, chanVars,
                   timing, home>>

\* Faulty variant: the wake-up cuts a backoff short.
afterWakeAlways == "now"

\* A wake-up makes the timer due unless the loop is backing off.
afterWake == IF backingOff THEN timer ELSE "now"

RunWake ==
    /\ runPc = "select"
    /\ wake
    /\ wake' = FALSE
    /\ timer' = afterWake
    /\ UNCHANGED <<markVars, delay, backingOff, runVars, runPc, flightVars,
                   flushVars, force, toSignal, timing, home>>

\* Faulty variant: a group that is one sequence behind is not pending.
pendingGroupsLate == {g \in Groups : latest[g] > acked[g] + 1}

pendingGroups == {g \in Groups : latest[g] > acked[g]}

\* flush: snapshot the dirty groups under mu.  RunStart sets the sender before
\* the loop runs, so send is never nil here.
FlushSnapshot ==
    /\ flight' = pendingGroups
    /\ flightSeq' = latest
    /\ sending' = {} /\ failed' = FALSE
    /\ runPc' = "flush"

\* The timer channel delivers.
RunTimer ==
    /\ runPc = "select"
    /\ FlushSnapshot
    /\ forced' = FALSE
    /\ UNCHANGED <<markVars, loopVars, runVars, flushVars, chanVars, timing, home>>

\* A force request: the timer is drained and armed again after the flush.
RunForce ==
    /\ runPc = "select"
    /\ force
    /\ force' = FALSE
    /\ FlushSnapshot
    /\ forced' = TRUE
    /\ timer' = "now"
    /\ UNCHANGED <<markVars, delay, backingOff, runVars, flushVars, wake,
                   toSignal, timing, home>>

\* The context of a flush is done: Flush gave up, or the lifetime ended.
flightExpired == IF forced THEN flushPc = "timeout" ELSE cancelled

\* External: Home takes a cumulative sequence; a stale one changes nothing.
HomeAccept(g) ==
    /\ runPc = "flush"
    /\ sending = {}
    /\ g \in flight
    /\ ~flightExpired
    /\ home' = [home EXCEPT ![g] = IF flightSeq[g] > @ THEN flightSeq[g] ELSE @]
    /\ sending' = {g}
    /\ UNCHANGED <<markVars, loopVars, runVars, runPc, flight, flightSeq, failed,
                   forced, flushVars, chanVars, timing>>

\* send returns an error, whether Home accepted the frame or never saw it.
SendError(g) ==
    /\ runPc = "flush"
    /\ g \in flight
    /\ sending \subseteq {g}
    /\ flight' = flight \ {g}
    /\ sending' = {}
    /\ failed' = TRUE
    /\ UNCHANGED <<markVars, loopVars, runVars, runPc, flightSeq, forced,
                   flushVars, chanVars, timing, home>>

\* Faulty variant: the group's current latest sequence is acknowledged.
ackSequenceLatest(g) == latest[g]

\* The sequence a successful send acknowledges: the one that was sent.
ackSequence(g) == flightSeq[g]

completes(w, g, n) == w[1] = g /\ w[2] <= n

\* send returned nil: the critical section that acknowledges the sequence and
\* completes the waiters it covers.
Ack(g) ==
    LET n == ackSequence(g) IN
    /\ runPc = "flush"
    /\ g \in sending
    /\ IF n > acked[g]
       THEN /\ acked' = [acked EXCEPT ![g] = n]
            /\ done' = done \cup {w \in waiters : completes(w, g, n)}
            /\ waiters' = {w \in waiters : ~completes(w, g, n)}
       ELSE UNCHANGED <<acked, done, waiters>>
    /\ flight' = flight \ {g}
    /\ sending' = {}
    /\ UNCHANGED <<latest, loopVars, runVars, runPc, flightSeq, failed, forced,
                   flushVars, chanVars, timing, home>>

\* timings: maxBackoff is never below flushInterval.
backoffLimit ==
    IF timing.maxBackoff < timing.flushInterval
    THEN timing.flushInterval ELSE timing.maxBackoff

\* Faulty variant: no floor at the current flush interval.
nextDelayUnclamped(d, fail) ==
    IF ~fail THEN timing.flushInterval
    ELSE IF 2 * d > backoffLimit THEN backoffLimit ELSE 2 * d

nextDelay(d, fail) ==
    IF ~fail \/ 2 * d < timing.flushInterval THEN timing.flushInterval
    ELSE IF 2 * d > backoffLimit THEN backoffLimit ELSE 2 * d

\* flush returns: the timer is armed with the next delay.
FlushReturn ==
    /\ runPc = "flush"
    /\ flight = {}
    /\ delay' = nextDelay(delay, failed)
    /\ backingOff' = failed
    /\ timer' = "delay"
    /\ runPc' = "select"
    /\ UNCHANGED <<markVars, runVars, flightVars, flushVars, chanVars,
                   timing, home>>

-----------------------------------------------------------------------------
(* Flush: called once, when the subscriber stops for good *)

FlushCall ==
    /\ flushPc = "idle"
    /\ runs > 0 /\ runPc # "stopped" /\ ~cancelled
    /\ flushPc' = "wait"
    /\ flushTarget' = latest
    /\ force' = TRUE
    /\ UNCHANGED <<markVars, loopVars, runVars, runPc, flightVars, wake, toSignal,
                   timing, home>>

\* Faulty variant: idle looks at the flight instead of the groups.
idleFlight == flight = {}

idle == \A g \in Groups : latest[g] <= acked[g]

FlushIdle ==
    /\ flushPc = "wait"
    /\ idle
    /\ flushPc' = "ok"
    /\ UNCHANGED <<markVars, loopVars, runVars, runPc, flightVars, flushTarget,
                   chanVars, timing, home>>

FlushTimeout ==
    /\ flushPc = "wait"
    /\ flushPc' = "timeout"
    /\ UNCHANGED <<markVars, loopVars, runVars, runPc, flightVars, flushTarget,
                   chanVars, timing, home>>

-----------------------------------------------------------------------------
RunLoop ==
    \/ RunReturn \/ RunWake \/ RunTimer \/ RunForce \/ FlushReturn
    \/ \E g \in Groups : HomeAccept(g) \/ SendError(g) \/ Ack(g)

Next ==
    \/ \E g \in Groups, n \in Seqs : MarkDirty(g, n)
    \/ \E x \in toSignal : Signal(x)
    \/ RunStart \/ ConfigChange \/ RunCancel
    \/ RunLoop
    \/ FlushCall \/ FlushIdle \/ FlushTimeout

Spec == Init /\ [][Next]_vars

\* What the code's scheduling guarantees: goroutines inside a call go on, an
\* armed timer fires, select is fair among its ready cases, a cancelled
\* lifetime is followed by the next, every send returns, and a group that is
\* sent again and again is accepted and answered now and then.
Fairness ==
    /\ WF_vars(\E x \in toSignal : Signal(x))
    /\ WF_vars(RunStart)
    /\ WF_vars(RunTimer) /\ SF_vars(RunReturn) /\ SF_vars(RunForce)
    /\ WF_vars(FlushReturn)
    /\ WF_vars(\E g \in Groups : HomeAccept(g) \/ SendError(g) \/ Ack(g))
    /\ \A g \in Groups : SF_vars(HomeAccept(g)) /\ SF_vars(Ack(g))

FairSpec == Spec /\ Fairness

-----------------------------------------------------------------------------
(* Properties *)

Tickets == Groups \X Seqs

TypeOK ==
    /\ latest \in [Groups -> 0..MaxSeq]
    /\ acked \in [Groups -> 0..MaxSeq]
    /\ waiters \subseteq Tickets /\ done \subseteq Tickets
    /\ toSignal \subseteq Tickets
    /\ wake \in BOOLEAN /\ force \in BOOLEAN
    /\ timing \in Timings
    /\ runs \in 0..MaxRuns
    /\ runPc \in {"stopped", "select", "flush"}
    /\ cancelled \in BOOLEAN
    /\ timer \in {"now", "delay"} /\ delay \in Nat /\ backingOff \in BOOLEAN
    /\ flight \subseteq Groups /\ sending \subseteq flight
    /\ flightSeq \in [Groups -> 0..MaxSeq]
    /\ failed \in BOOLEAN /\ forced \in BOOLEAN
    /\ flushPc \in {"idle", "wait", "ok", "timeout"}
    /\ flushTarget \in [Groups -> 0..MaxSeq]
    /\ home \in [Groups -> 0..MaxSeq]

\* A completed ticket means Home holds at least its sequence: whoever waited on
\* ReleaseTicket may dispatch to the credential again.
TicketMeansAccepted == \A t \in done : home[t[1]] >= t[2]

\* No ticket is stranded: one that is not complete waits for a sequence that
\* is not acknowledged yet and that some flush will send or exceed.
NoTicketStranded ==
    \A t \in waiters : acked[t[1]] < t[2] /\ t[2] <= latest[t[1]]

\* The flusher never believes more than Home accepted, and Home never accepts
\* more than was marked, whatever frames were lost, retried or doubly sent.
AckedWithinHome == \A g \in Groups : acked[g] <= home[g] /\ home[g] <= latest[g]

\* The loop never sleeps out its interval over a release it has not tried to
\* send: unless it is backing off, the timer is due or a wake-up is on its way.
NoSleepOnDirty ==
    \A g \in Groups :
        runPc = "select" /\ ~backingOff /\ latest[g] > acked[g]
        => \/ wake
           \/ timer = "now"
           \/ \E n \in Seqs : n > acked[g] /\ <<g, n>> \in toSignal

\* A wake-up does not defeat the backoff after a failed flush.
BackoffHolds == runPc = "select" /\ backingOff => timer = "delay"

\* Flush returned nil: Home has every release marked before the call.
FlushOkMeansAccepted ==
    flushPc = "ok" => \A g \in Groups : home[g] >= flushTarget[g]

\* A delay the loop arms lies within the timings in force at that moment,
\* although the delay it grew from may belong to an older configuration.
DelayWithinTimings ==
    [][FlushReturn => timing.flushInterval <= delay' /\ delay' <= backoffLimit]_vars

\* Every ticket completes in the end, across lost frames, backoff and changes
\* of lifetime, unless the subscriber stops for good.
TicketEventuallyCompletes ==
    \A t \in Tickets :
        t \in waiters ~> t \in done \/ flushPc \in {"ok", "timeout"}

-----------------------------------------------------------------------------
(* The inductive strengthening behind the invariants above *)

\* Completed tickets are those whose sequence was acknowledged.
DoneAcked == \A t \in done : t[2] <= acked[t[1]]

\* During a flush the copied sequences lie between what is acknowledged and
\* what is marked, and Home holds the frame being acknowledged.
FlightBetween ==
    runPc = "flush" =>
        /\ \A g \in Groups : acked[g] <= flightSeq[g] /\ flightSeq[g] <= latest[g]
        /\ \A g \in sending : home[g] >= flightSeq[g]

\* A group that left the flight without an error is acknowledged.
FlightSettled ==
    runPc = "flush" /\ ~failed =>
        \A g \in Groups \ flight : acked[g] >= flightSeq[g]

\* What was marked after the copy has its wake-up stored or on its way.
LateMarkSignals ==
    runPc = "flush" =>
        \A g \in Groups : latest[g] > flightSeq[g]
            => wake \/ \E n \in Seqs : n > flightSeq[g] /\ <<g, n>> \in toSignal

\* Together these are inductive: each of the invariants above that a step of
\* the flush could break is restored by what the flush carries.
FlusherInv ==
    /\ AckedWithinHome /\ NoTicketStranded /\ DoneAcked
    /\ FlightBetween /\ FlightSettled /\ LateMarkSignals
    /\ NoSleepOnDirty /\ BackoffHolds /\ FlushOkMeansAccepted
    /\ \A g \in Groups : flushTarget[g] <= latest[g]
=============================================================================
