---------------------------- MODULE HomeLifetime ----------------------------
(***************************************************************************)
(* sdk/cliproxy/service_home.go with the parts of internal/home/client.go  *)
(* and sdk/cliproxy/auth/conductor_home.go it drives: the lifetimes of the *)
(* connection to Home, and the executions that are dispatched in them.     *)
(*                                                                         *)
(* The supervisor runs one lifetime after the other, each with a client of *)
(* its own.  A lifetime that was lost is followed by a takeover: the next  *)
(* client asks Home to keep what it counted, and executions go on under    *)
(* the same registry and flusher.  When the count is no longer known to be *)
(* right (a grant whose reply was lost, a takeover that Home refuses, the  *)
(* legacy protocol) all executions are drained, and a fresh membership     *)
(* starts with a new registry and flusher.                                 *)
(*                                                                         *)
(* Home is external: it counts grants and cumulative releases of the       *)
(* current membership, and may forget a node that has no subscription.     *)
(* Registry and flusher are the summaries of ExecutionRegistry and         *)
(* ReleaseFlusher for one release group; the lifecycle revision is         *)
(* positive, so every subscription is a membership.                        *)
(***************************************************************************)
EXTENDS Integers, FiniteSets

CONSTANTS
    Dispatches,   \* requests that ask Home for a credential, each until it ran once
    MaxFaults,    \* bound on lost messages, expired waits and forgetting
    Protocols     \* whether Home may have the legacy subscription protocol

ASSUME HomeAssumption ==
    /\ IsFiniteSet(Dispatches)
    /\ MaxFaults \in Nat
    /\ Protocols \subseteq BOOLEAN

\* A lifetime ends by a fault, by a fence that a fault caused, or once because
\* Home is legacy, so there are never more of them.
Lives == 1..(MaxFaults + 2)

\* The registry a life starts with, and the one the last of them may leave.
Registries == 1..(MaxFaults + 3)

VARIABLES
    supPc,      \* runHomeSubscriber: progress
    life,       \* the current client
    reg,        \* the current registry and its flusher
    errRun,     \* why RunConfigSubscriberLifetime returned; the last one stays
    stop,       \* homeCtx is done
    exit,       \* how runHomeSubscriber ended: "clean" when drained and flushed
    lifePc,     \* RunConfigSubscriberLifetime: progress
    recovery,   \* Client.recoveryState, which NewLifetime hands on
    legacy,     \* Client.legacyMembership, which NewLifetime hands on
    fenced,     \* Client.dispatchFenced of each client
    ambiguous,  \* Client.ambiguousDispatch of each client
    workerPc,   \* the config worker (and in-flight publisher) of the lifetime
    bundle,     \* Manager.homeDispatchBundle: [client, registry], or NoBundle
    relPc,      \* the flusher's Run of the lifetime
    relSeq,     \* the sequence in the frame it is sending
    latest, acked,    \* the flusher of each registry
    sink,             \* registries whose release sink is set
    accepting,        \* registries in StateAccepting
    released,         \* release sequence of each registry
    dPc, dBundle,     \* each dispatch: progress, and the bundle it loaded
    dSeq,             \* the sequence its End is to tell the sink, 0 for no sink
    homeLegacy,       \* Home: its protocol is the legacy one
    member, grants, homeSeq,   \* Home: membership, grants and releases counted in it
    faults

supVars    == <<supPc, life, reg, errRun, stop, exit>>
clientVars == <<recovery, legacy>>
fenceVars  == <<fenced, ambiguous>>
flushVars  == <<latest, acked>>
regVars    == <<sink, accepting, released>>
dispVars   == <<dPc, dBundle, dSeq>>
homeVars   == <<member, grants, homeSeq, homeLegacy>>
vars == <<supVars, lifePc, clientVars, fenceVars, workerPc, bundle, relPc, relSeq,
          flushVars, regVars, dispVars, homeVars, faults>>

NoBundle == [client |-> 0, registry |-> 0]

Init ==
    /\ supPc = "start" /\ life = 0 /\ reg = 1
    /\ errRun = "none" /\ stop = FALSE /\ exit = "none"
    /\ lifePc = "over" /\ recovery = "stable" /\ legacy = FALSE
    /\ fenced = {} /\ ambiguous = {}
    /\ workerPc = "exit" /\ bundle = NoBundle
    /\ relPc = "off" /\ relSeq = 0
    /\ latest = [r \in Registries |-> 0] /\ acked = [r \in Registries |-> 0]
    /\ sink = {1} /\ accepting = {1} /\ released = [r \in Registries |-> 0]
    /\ dPc = [d \in Dispatches |-> "idle"]
    /\ dBundle = [d \in Dispatches |-> NoBundle]
    /\ dSeq = [d \in Dispatches |-> 0]
    /\ homeLegacy \in Protocols
    /\ member = FALSE /\ grants = 0 /\ homeSeq = 0
    /\ faults = 0

Fault == faults < MaxFaults /\ faults' = faults + 1

HeartbeatOK(l) == l = life /\ lifePc = "receive" /\ l \notin fenced

\* The dispatches Registry.pending and Registry.scopes of r hold.
Pending(r) == {d \in Dispatches : dBundle[d].registry = r
                  /\ dPc[d] \in {"begun", "granted", "ambiguous", "aborted"}}
Scopes(r)  == {d \in Dispatches : dBundle[d].registry = r
                  /\ dPc[d] \in {"installed", "running", "ending"}}

-----------------------------------------------------------------------------
(* RunConfigSubscriberLifetime *)

markedEligible ==
    CASE recovery = "stable"    -> "eligible"
      [] recovery = "switching" -> "switchingEligible"
      [] OTHER                  -> recovery

\* switchToNodeLocked: a failover to another node of the Home cluster.
switched(state) ==
    CASE state = "stable"   -> "switching"
      [] state = "eligible" -> "switchingEligible"
      [] OTHER              -> state

\* The lifetime returns; the failure may make the client switch nodes.
LifetimeEnds(why, state) ==
    /\ lifePc' = "over" /\ supPc' = "ended" /\ errRun' = why
    /\ recovery' \in {state, switched(state)}
    /\ UNCHANGED <<life, reg, stop, exit, legacy, fenceVars, workerPc, bundle,
                   relPc, relSeq, flushVars, regVars, dispVars>>

\* No connection, no configuration, or one that cannot be applied.
ConnectFails ==
    /\ lifePc = "connect"
    /\ Fault
    /\ LifetimeEnds("lost", recovery)
    /\ UNCHANGED homeVars

Subscribe ==
    /\ lifePc = "connect"
    /\ lifePc' = "ack"
    /\ UNCHANGED <<supVars, clientVars, fenceVars, workerPc, bundle, relPc, relSeq,
                   flushVars, regVars, dispVars, homeVars, faults>>

\* subscriptionParameters: whether the SUBSCRIBE asks for a takeover.
takeover == ~legacy /\ recovery \in {"eligible", "switchingEligible"}

\* Home commits the membership: it keeps the one taken over, and otherwise
\* starts to count from nothing.
HomeCommits ==
    /\ lifePc = "ack"
    /\ homeLegacy => legacy
    /\ takeover => member
    /\ lifePc' = "committed"
    /\ member' = TRUE
    /\ IF takeover THEN UNCHANGED <<grants, homeSeq>> ELSE grants' = 0 /\ homeSeq' = 0
    /\ UNCHANGED <<supVars, clientVars, fenceVars, workerPc, bundle, relPc, relSeq,
                   flushVars, regVars, dispVars, homeLegacy, faults>>

\* Home answers with an error: too many arguments, or nothing to take over.
HomeRefuses ==
    /\ lifePc = "ack"
    /\ \/ homeLegacy /\ ~legacy /\ LifetimeEnds("legacy", recovery)
       \/ (homeLegacy => legacy) /\ takeover /\ ~member
          /\ LifetimeEnds("unavailable", recovery)
    /\ UNCHANGED <<homeVars, faults>>

AckLost ==
    /\ lifePc \in {"ack", "committed"}
    /\ Fault
    /\ LifetimeEnds("lost", recovery)
    /\ UNCHANGED homeVars

Ack ==
    /\ lifePc = "committed"
    /\ lifePc' = "probe"
    /\ recovery' = markedEligible
    /\ UNCHANGED <<supVars, legacy, fenceVars, workerPc, bundle, relPc, relSeq,
                   flushVars, regVars, dispVars, homeVars, faults>>

\* rebuildCommandPoolAndProbe, then heartbeatOK and onReady.
ProbeOk ==
    /\ lifePc = "probe"
    /\ lifePc' = "receive"
    /\ recovery' = "stable"
    /\ UNCHANGED <<supVars, legacy, fenceVars, workerPc, bundle, relPc, relSeq,
                   flushVars, regVars, dispVars, homeVars, faults>>

ProbeFails ==
    /\ lifePc = "probe"
    /\ Fault
    /\ LifetimeEnds("lost", recovery)
    /\ UNCHANGED homeVars

\* A receive error: heartbeats stop, or a fence closed the subscription.
SubscriptionLost ==
    /\ lifePc = "receive"
    /\ IF life \in fenced THEN UNCHANGED faults ELSE Fault
    /\ LifetimeEnds("lost", IF HeartbeatOK(life) THEN markedEligible ELSE recovery)
    /\ UNCHANGED homeVars

\* homeCtx ends the lifetime wherever it waits; no state is marked.
LifetimeCancelled ==
    /\ lifePc # "over"
    /\ stop
    /\ LifetimeEnds(IF lifePc = "receive" THEN "cancelled" ELSE "unjoined", recovery)
    /\ recovery' = recovery
    /\ UNCHANGED <<homeVars, faults>>

-----------------------------------------------------------------------------
(* The config worker of the lifetime *)

\* homeLifetimeActive: neither homeCtx nor lifetimeCtx is done.
homeLifetimeActive == ~stop /\ supPc = "run"

\* Ready: the first configuration is staged and committed.
WorkerCommit ==
    /\ workerPc = "wait"
    /\ lifePc = "receive"
    /\ homeLifetimeActive
    /\ workerPc' = "finalize"
    /\ UNCHANGED <<supVars, lifePc, clientVars, fenceVars, bundle, relPc, relSeq,
                   flushVars, regVars, dispVars, homeVars, faults>>

\* finalizeHomePluginWorkUntilDone, whose last step publishes the bundle.
WorkerPublish ==
    /\ workerPc = "finalize"
    /\ homeLifetimeActive
    /\ workerPc' = "published"
    /\ bundle' = [client |-> life, registry |-> reg]
    /\ UNCHANGED <<supVars, lifePc, clientVars, fenceVars, relPc, relSeq, flushVars,
                   regVars, dispVars, homeVars, faults>>

\* A configuration that was being finalized may leave the goroutine of
\* closeHomeClientOnCancellation behind.
WorkerExit ==
    /\ workerPc \in {"wait", "finalize", "published"}
    /\ ~homeLifetimeActive
    /\ \/ workerPc' = "exit"
       \/ workerPc # "wait" /\ workerPc' = "closing"
    /\ UNCHANGED <<supVars, lifePc, clientVars, fenceVars, bundle, relPc, relSeq,
                   flushVars, regVars, dispVars, homeVars, faults>>

\* That goroutine closes the client, which a shutdown may still need.
closeHomeClientOnCancellation ==
    /\ workerPc = "closing"
    /\ fenced' = fenced \cup {life}
    /\ workerPc' = "exit"
    /\ UNCHANGED <<supVars, lifePc, clientVars, ambiguous, bundle, relPc, relSeq,
                   flushVars, regVars, dispVars, homeVars, faults>>

-----------------------------------------------------------------------------
(* pickHomeDispatchSelection *)

Move(d, pc) == dPc' = [dPc EXCEPT ![d] = pc]

LoadBundle(d) ==
    /\ dPc[d] = "idle"
    /\ bundle # NoBundle
    /\ HeartbeatOK(bundle.client)
    /\ Move(d, "loaded")
    /\ dBundle' = [dBundle EXCEPT ![d] = bundle]
    /\ UNCHANGED <<supVars, lifePc, clientVars, fenceVars, workerPc, bundle, relPc,
                   relSeq, flushVars, regVars, dSeq, homeVars, faults>>

\* The request fails and a later one takes its place.
Retry(d) ==
    /\ Move(d, "idle")
    /\ dBundle' = [dBundle EXCEPT ![d] = NoBundle]
    /\ UNCHANGED <<supVars, lifePc, clientVars, fenceVars, workerPc, bundle, relPc,
                   relSeq, flushVars, regVars, dSeq, homeVars, faults>>

BeginDispatch(d) ==
    /\ dPc[d] = "loaded"
    /\ dBundle[d].registry \in accepting
    /\ Move(d, "begun")
    /\ UNCHANGED <<supVars, lifePc, clientVars, fenceVars, workerPc, bundle, relPc,
                   relSeq, flushVars, regVars, dBundle, dSeq, homeVars, faults>>

\* The registry no longer accepts.
BeginRefused(d) ==
    /\ dPc[d] = "loaded"
    /\ dBundle[d].registry \notin accepting
    /\ Retry(d)

\* rPopAuth finds the fence, or Home answers that it has nothing to give;
\* pending.End.
DispatchRefused(d) ==
    /\ dPc[d] = "begun"
    /\ Retry(d)

mayPop(d) == dBundle[d].client \notin fenced

\* The command passes the fence and Home counts the execution.
HomeGrants(d) ==
    /\ dPc[d] = "begun"
    /\ mayPop(d)
    /\ member
    /\ Move(d, "granted")
    /\ grants' = grants + 1
    /\ UNCHANGED <<supVars, lifePc, clientVars, fenceVars, workerPc, bundle, relPc,
                   relSeq, flushVars, regVars, dBundle, dSeq, member, homeSeq, homeLegacy,
                   faults>>

\* The command or its reply is lost, the reply is malformed, or a fence closed
\* the connection: an ambiguous outcome.
ReplyLost(d) ==
    /\ \/ dPc[d] = "granted"
       \/ dPc[d] = "begun" /\ mayPop(d)
    /\ IF dBundle[d].client \in fenced THEN UNCHANGED faults ELSE Fault
    /\ Move(d, "ambiguous")
    /\ UNCHANGED <<supVars, lifePc, clientVars, fenceVars, workerPc, bundle, relPc,
                   relSeq, flushVars, regVars, dBundle, dSeq, homeVars>>

AbortAmbiguousDispatch(c) ==
    /\ ambiguous' = ambiguous \cup {c}
    /\ fenced' = fenced \cup {c}

\* The client is fenced before pending.End lets the supervisor go on.
Abort(d) ==
    /\ dPc[d] \in {"ambiguous", "uninstalled"}
    /\ AbortAmbiguousDispatch(dBundle[d].client)
    /\ Move(d, IF dPc[d] = "ambiguous" THEN "aborted" ELSE "done")
    /\ UNCHANGED <<supVars, lifePc, clientVars, workerPc, bundle, relPc, relSeq,
                   flushVars, regVars, dBundle, dSeq, homeVars, faults>>

EndPending(d) ==
    /\ dPc[d] = "aborted"
    /\ Move(d, "done")
    /\ UNCHANGED <<supVars, lifePc, clientVars, fenceVars, workerPc, bundle, relPc,
                   relSeq, flushVars, regVars, dBundle, dSeq, homeVars, faults>>

\* The reply arrives.  A registry that no longer accepts drops the token before
\* the client is fenced.
Install(d) ==
    /\ dPc[d] = "granted"
    /\ Move(d, IF dBundle[d].registry \in accepting THEN "installed" ELSE "uninstalled")
    /\ UNCHANGED <<supVars, lifePc, clientVars, fenceVars, workerPc, bundle, relPc,
                   relSeq, flushVars, regVars, dBundle, dSeq, homeVars, faults>>

\* The rest of the reply is valid, or the scope is ended at once.
Validate(d) ==
    /\ dPc[d] = "installed"
    /\ Move(d, "running")
    /\ UNCHANGED <<supVars, lifePc, clientVars, fenceVars, workerPc, bundle, relPc,
                   relSeq, flushVars, regVars, dBundle, dSeq, homeVars, faults>>

\* The reply contradicts itself: the client is fenced and the scope ended.
ReplyContradicts(d) ==
    /\ dPc[d] = "installed"
    /\ Fault
    /\ AbortAmbiguousDispatch(dBundle[d].client)
    /\ Move(d, "running")
    /\ UNCHANGED <<supVars, lifePc, clientVars, workerPc, bundle, relPc, relSeq,
                   flushVars, regVars, dBundle, dSeq, homeVars>>

\* Scope.End: the release is counted, then told to the sink, and only then
\* does the scope leave the registry.
EndScope(d) ==
    LET r == dBundle[d].registry IN
    /\ dPc[d] = "running"
    /\ Move(d, "ending")
    /\ released' = [released EXCEPT ![r] = @ + 1]
    /\ dSeq' = [dSeq EXCEPT ![d] = IF r \in sink THEN released[r] + 1 ELSE 0]
    /\ UNCHANGED <<supVars, lifePc, clientVars, fenceVars, workerPc, bundle, relPc,
                   relSeq, flushVars, sink, accepting, dBundle, homeVars, faults>>

\* MarkDirty of the flusher that belongs to the registry.
TellSink(d) ==
    LET r == dBundle[d].registry IN
    /\ dPc[d] = "ending"
    /\ Move(d, "done")
    /\ latest' = [latest EXCEPT ![r] = IF dSeq[d] > @ THEN dSeq[d] ELSE @]
    /\ UNCHANGED <<supVars, lifePc, clientVars, fenceVars, workerPc, bundle, relPc,
                   relSeq, acked, regVars, dBundle, dSeq, homeVars, faults>>

-----------------------------------------------------------------------------
(* The flusher's Run and PushConcurrencyRelease *)

\* concurrencyReleaseClient: no frame leaves a fenced client, or one that has
\* not joined Home again.
maySend == life \notin fenced /\ recovery = "stable"

releaseCancelled == supPc \in {"releaseStop", "stopClose"}

SendRelease ==
    /\ relPc = "select"
    /\ ~releaseCancelled
    /\ latest[reg] > acked[reg]
    /\ maySend
    /\ relPc' = "send" /\ relSeq' = latest[reg]
    /\ UNCHANGED <<supVars, lifePc, clientVars, fenceVars, workerPc, bundle,
                   flushVars, regVars, dispVars, homeVars, faults>>

HomeReleases == homeSeq' = IF relSeq > homeSeq THEN relSeq ELSE homeSeq

ReleaseAccepted ==
    /\ relPc = "send"
    /\ member
    /\ HomeReleases
    /\ acked' = [acked EXCEPT ![reg] = relSeq]
    /\ relPc' = "select" /\ relSeq' = 0
    /\ UNCHANGED <<supVars, lifePc, clientVars, fenceVars, workerPc, bundle, latest,
                   regVars, dispVars, member, grants, homeLegacy, faults>>

\* The sender sees an error; Home may have accepted the frame all the same.
ReleaseFails ==
    /\ relPc = "send"
    /\ IF life \in fenced \/ releaseCancelled \/ ~member
       THEN UNCHANGED faults ELSE Fault
    /\ \/ member /\ HomeReleases
       \/ UNCHANGED homeSeq
    /\ relPc' = "select" /\ relSeq' = 0
    /\ UNCHANGED <<supVars, lifePc, clientVars, fenceVars, workerPc, bundle,
                   flushVars, regVars, dispVars, member, grants, homeLegacy>>

ReleaseStops ==
    /\ relPc = "select"
    /\ releaseCancelled
    /\ relPc' = "off"
    /\ UNCHANGED <<supVars, lifePc, clientVars, fenceVars, workerPc, bundle, relSeq,
                   flushVars, regVars, dispVars, homeVars, faults>>

-----------------------------------------------------------------------------
(* runHomeSubscriber *)

\* New or NewLifetime, and the goroutines of the lifetime.
StartLifetime ==
    /\ supPc = "start"
    /\ ~stop
    /\ life + 1 \in Lives
    /\ life' = life + 1
    /\ supPc' = "run" /\ errRun' = "none"
    /\ lifePc' = "connect" /\ workerPc' = "wait" /\ relPc' = "select"
    /\ UNCHANGED <<reg, stop, exit, clientVars, fenceVars, bundle, relSeq, flushVars,
                   regVars, dispVars, homeVars, faults>>

\* The lifetime's goroutines are waited for and its bundle is withdrawn.
Detach ==
    /\ supPc = "ended"
    /\ workerPc \in {"exit", "closing"}
    /\ bundle' = IF bundle.client = life THEN NoBundle ELSE bundle
    /\ IF stop
       THEN supPc' = "stopDrain" /\ accepting' = accepting \ {reg}
       ELSE supPc' = "releaseStop" /\ UNCHANGED accepting
    /\ UNCHANGED <<life, reg, errRun, stop, exit, lifePc, clientVars, fenceVars,
                   workerPc, relPc, relSeq, flushVars, sink, released, dispVars,
                   homeVars, faults>>

\* releaseCancel, its wait, and client.Close.
CloseClient ==
    /\ supPc = "releaseStop"
    /\ relPc = "off"
    /\ fenced' = fenced \cup {life}
    /\ supPc' = "settle"
    /\ UNCHANGED <<life, reg, errRun, stop, exit, lifePc, clientVars, ambiguous,
                   workerPc, bundle, relPc, relSeq, flushVars, regVars, dispVars,
                   homeVars, faults>>

\* Faulty variant: the ambiguous outcome of a dispatch is not looked at.
unsafeIgnoresAmbiguous == errRun \in {"unavailable", "legacy"} \/ legacy

unsafe == life \in ambiguous \/ errRun \in {"unavailable", "legacy"} \/ legacy

\* WaitPending returns.  Executions go on over a replacement that is safe; over
\* any other one they are drained, and their releases no longer reported.
Settle ==
    /\ supPc = "settle"
    /\ Pending(reg) = {}
    /\ legacy' = (legacy \/ errRun = "legacy")
    /\ IF unsafe
       THEN /\ supPc' = "drain"
            /\ sink' = sink \ {reg} /\ accepting' = accepting \ {reg}
       ELSE supPc' = "start" /\ UNCHANGED <<sink, accepting>>
    /\ UNCHANGED <<life, reg, errRun, stop, exit, lifePc, recovery, fenceVars,
                   workerPc, bundle, relPc, relSeq, flushVars, released, dispVars,
                   homeVars, faults>>

\* Faulty variant: takeover stays on after a drain.
SuppressTakeoverNot == recovery' = recovery

SuppressTakeover ==
    recovery' = CASE recovery = "eligible"          -> "stable"
                  [] recovery = "switchingEligible" -> "switching"
                  [] OTHER                          -> recovery

\* Faulty variant: only the dispatches without an answer are waited for.
drainedPending(r) == Pending(r) = {}

drained(r) == Pending(r) \cup Scopes(r) = {}

\* Drain returns: new registry, new flusher, new sink, fresh membership.
Replace ==
    /\ supPc = "drain"
    /\ drained(reg)
    /\ SuppressTakeover
    /\ reg' = reg + 1
    /\ sink' = sink \cup {reg + 1} /\ accepting' = accepting \cup {reg + 1}
    /\ supPc' = "start"
    /\ UNCHANGED <<life, errRun, stop, exit, lifePc, legacy, fenceVars, workerPc,
                   bundle, relPc, relSeq, flushVars, released, dispVars, homeVars,
                   faults>>

\* A wait of the replacement expires: cancelServiceRun.
SettleExpires ==
    /\ supPc \in {"settle", "drain"}
    /\ Fault
    /\ supPc' = "deferred" /\ exit' = "gaveUp" /\ stop' = TRUE
    /\ UNCHANGED <<life, reg, errRun, lifePc, clientVars, fenceVars, workerPc,
                   bundle, relPc, relSeq, flushVars, regVars, dispVars, homeVars>>

\* homeCtx is done between two lifetimes.
LeaveLoop ==
    /\ supPc = "start"
    /\ stop
    /\ supPc' = "deferred" /\ exit' = "gaveUp"
    /\ UNCHANGED <<life, reg, errRun, stop, lifePc, clientVars, fenceVars, workerPc,
                   bundle, relPc, relSeq, flushVars, regVars, dispVars, homeVars,
                   faults>>

StopDrained ==
    /\ supPc = "stopDrain"
    /\ drained(reg)
    /\ supPc' = "stopFlush"
    /\ UNCHANGED <<life, reg, errRun, stop, exit, lifePc, clientVars, fenceVars,
                   workerPc, bundle, relPc, relSeq, flushVars, regVars, dispVars,
                   homeVars, faults>>

\* Flush returns when every release has been acknowledged.
StopFlushed ==
    /\ supPc = "stopFlush"
    /\ acked[reg] >= latest[reg]
    /\ supPc' = "stopClose" /\ exit' = "clean"
    /\ UNCHANGED <<life, reg, errRun, stop, lifePc, clientVars, fenceVars, workerPc,
                   bundle, relPc, relSeq, flushVars, regVars, dispVars, homeVars,
                   faults>>

\* The drain bound expires, for certain when releases cannot be sent.
StopExpires ==
    /\ supPc \in {"stopDrain", "stopFlush"}
    /\ IF supPc = "stopFlush" /\ ~(maySend /\ member) THEN UNCHANGED faults ELSE Fault
    /\ supPc' = "stopClose" /\ exit' = "gaveUp"
    /\ UNCHANGED <<life, reg, errRun, stop, lifePc, clientVars, fenceVars, workerPc,
                   bundle, relPc, relSeq, flushVars, regVars, dispVars, homeVars>>

StopClose ==
    /\ supPc = "stopClose"
    /\ relPc = "off"
    /\ fenced' = fenced \cup {life}
    /\ supPc' = "deferred"
    /\ UNCHANGED <<life, reg, errRun, stop, exit, lifePc, clientVars, ambiguous,
                   workerPc, bundle, relPc, relSeq, flushVars, regVars, dispVars,
                   homeVars, faults>>

\* The deferred SetReleaseSink(nil) and Drain.
Deferred ==
    /\ supPc = "deferred"
    /\ sink' = sink \ {reg} /\ accepting' = accepting \ {reg}
    /\ supPc' = "done"
    /\ UNCHANGED <<life, reg, errRun, stop, exit, lifePc, clientVars, fenceVars,
                   workerPc, bundle, relPc, relSeq, flushVars, released, dispVars,
                   homeVars, faults>>

-----------------------------------------------------------------------------
(* The environment *)

\* Shutdown cancels the supervisor.
Stop ==
    /\ ~stop
    /\ stop' = TRUE
    /\ UNCHANGED <<supPc, life, reg, errRun, exit, lifePc, clientVars, fenceVars,
                   workerPc, bundle, relPc, relSeq, flushVars, regVars, dispVars,
                   homeVars, faults>>

\* Home waits for a lost node longer than the node waits for a lost Home.
HomeForgets ==
    /\ lifePc \in {"connect", "ack", "over"}
    /\ member
    /\ Fault
    /\ member' = FALSE /\ grants' = 0 /\ homeSeq' = 0
    /\ UNCHANGED <<supVars, lifePc, clientVars, fenceVars, workerPc, bundle, relPc,
                   relSeq, flushVars, regVars, dispVars, homeLegacy>>

DispatchStep(d) ==
    \/ BeginDispatch(d) \/ BeginRefused(d) \/ Abort(d) \/ EndPending(d)
    \/ DispatchRefused(d) \/ HomeGrants(d)
    \/ Install(d) \/ Validate(d) \/ EndScope(d) \/ TellSink(d)

LifetimeStep ==
    \/ Subscribe \/ HomeCommits \/ HomeRefuses \/ Ack \/ ProbeOk
    \/ life \in fenced /\ SubscriptionLost
    \/ LifetimeCancelled

ReleaseStep == SendRelease \/ ReleaseAccepted \/ ReleaseStops
               \/ ((~member \/ releaseCancelled) /\ ReleaseFails)

SupervisorStep ==
    \/ StartLifetime \/ Detach \/ CloseClient \/ Settle \/ Replace \/ LeaveLoop
    \/ StopDrained \/ StopFlushed \/ StopClose \/ Deferred
    \/ supPc = "stopFlush" /\ ~(maySend /\ member) /\ StopExpires

WorkerStep ==
    WorkerCommit \/ WorkerPublish \/ WorkerExit \/ closeHomeClientOnCancellation

Next ==
    \/ LifetimeStep \/ ConnectFails \/ AckLost \/ ProbeFails \/ SubscriptionLost
    \/ WorkerStep
    \/ \E d \in Dispatches :
          DispatchStep(d) \/ LoadBundle(d) \/ ReplyLost(d) \/ ReplyContradicts(d)
    \/ ReleaseStep \/ ReleaseFails
    \/ SupervisorStep \/ SettleExpires \/ StopExpires
    \/ Stop \/ HomeForgets

\* Goroutines run, Home answers what is not lost, and executions come to an
\* end: Drain closes what they are bound to.
Fairness ==
    /\ WF_vars(LifetimeStep) /\ WF_vars(WorkerStep)
    /\ WF_vars(ReleaseStep) /\ WF_vars(SupervisorStep)
    /\ \A d \in Dispatches : WF_vars(DispatchStep(d))

Spec == Init /\ [][Next]_vars /\ Fairness

-----------------------------------------------------------------------------
Executing == {d \in Dispatches : dPc[d] \in {"installed", "running"}}

Held == grants - homeSeq

\* Home never counts fewer executions than run on a node that is a member,
\* over every order of losses, takeovers and drains.
Accounting == INSTANCE HomeAccounting
    WITH held <- Held, running <- Cardinality(Executing),
         online <- lifePc = "receive"

Accounted == Accounting!Spec

\* Home does not go on counting what is over: lost replies, lost releases and
\* lost lifetimes included, its count becomes the executions that run, at the
\* latest when a lifetime that had joined is shut down.  Only a service that
\* stops without being able to report leaves the rest to Home.
Unreported ==
    supPc = "done" /\ (exit = "gaveUp" \/ errRun # "cancelled" \/ life \in ambiguous)

LeasesReturned == <>[](Held = Cardinality(Executing) \/ Unreported)

\* Whatever is lost, and whoever waits for whom, requests can be dispatched
\* again, or the service has come to its end.
ServesAgain ==
    []<>(supPc = "done" \/ (bundle.client = life /\ HeartbeatOK(life)))

=============================================================================
