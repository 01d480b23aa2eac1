------------------------- MODULE HomeLifetimeProofs -------------------------
(***************************************************************************)
(* HomeLifetime implements HomeAccounting, for any number of dispatches    *)
(* and any bound on the faults: Home never counts fewer executions than    *)
(* run on a node that is a member.                                         *)
(*                                                                         *)
(* What has to be known is when Home's counters mean the executions of the *)
(* present registry.  They do (Counted) while the node is a member and has *)
(* joined Home with this registry; they do not after Home has forgotten    *)
(* the node or a registry was replaced.  CountInv says that they do        *)
(* whenever this registry was used, or could be taken over, and            *)
(* TakeoverInv that a lifetime which does not ask for a takeover has a     *)
(* registry that was never used, so that Home may begin at nothing.        *)
(***************************************************************************)
EXTENDS HomeLifetime, FiniteSetTheorems, TLAPS

USE HomeAssumption
USE DEF supVars, clientVars, fenceVars, flushVars, regVars, dispVars, homeVars, vars

SupPcs == {"start", "run", "ended", "releaseStop", "settle", "drain", "stopDrain",
           "stopFlush", "stopClose", "deferred", "done"}
LifePcs == {"over", "connect", "ack", "committed", "probe", "receive"}
RecoveryStates == {"stable", "eligible", "switching", "switchingEligible"}
DispatchPcs == {"idle", "loaded", "begun", "granted", "ambiguous", "aborted",
                "uninstalled", "installed", "running", "ending", "done"}
Bundles == [client : 0..(MaxFaults + 2), registry : 0..(MaxFaults + 3)]

TypeOK ==
  /\ supPc \in SupPcs
  /\ life \in 0..(MaxFaults + 2)
  /\ reg \in Registries
  /\ errRun \in {"none", "lost", "legacy", "unavailable", "cancelled", "unjoined"}
  /\ stop \in BOOLEAN
  /\ exit \in {"none", "clean", "gaveUp"}
  /\ lifePc \in LifePcs
  /\ recovery \in RecoveryStates
  /\ legacy \in BOOLEAN
  /\ fenced \subseteq Lives
  /\ ambiguous \subseteq Lives
  /\ workerPc \in {"exit", "wait", "finalize", "published", "closing"}
  /\ bundle \in Bundles
  /\ relPc \in {"off", "select", "send"}
  /\ relSeq \in Nat
  /\ latest \in [Registries -> Nat]
  /\ acked \in [Registries -> Nat]
  /\ sink \subseteq Registries
  /\ accepting \subseteq Registries
  /\ released \in [Registries -> Nat]
  /\ dPc \in [Dispatches -> DispatchPcs]
  /\ dBundle \in [Dispatches -> Bundles]
  /\ dSeq \in [Dispatches -> Nat]
  /\ homeLegacy \in BOOLEAN
  /\ member \in BOOLEAN
  /\ grants \in Nat
  /\ homeSeq \in Nat
  /\ faults \in Nat

\* The lifetime has a membership at Home; the client's recovery state asks for
\* a takeover.
Joined == {"committed", "probe", "receive"}
Eligible == {"eligible", "switchingEligible"}

-----------------------------------------------------------------------------
(* The inductive invariant *)

\* The supervisor and the goroutines it waits for: a lifetime runs only while
\* the supervisor waits for it, and Run of the flusher is off between two.
SupervisorInv ==
  /\ lifePc # "over" <=> supPc = "run"
  /\ supPc \in {"start", "settle", "drain"} => relPc = "off"
  /\ supPc \notin {"start", "deferred", "done"} => reg <= life
  /\ reg <= life + 1
  /\ lifePc \in Joined => member

\* Every client but the current one is fenced.  The one of a lifetime that runs
\* is only when a dispatch with an ambiguous outcome fenced it, or the worker's
\* goroutine closed it on the shutdown.
FenceInv ==
  /\ fenced \subseteq 1..life
  /\ 1..life \ {life} \subseteq fenced
  /\ supPc \in {"start", "settle", "drain"} => life = 0 \/ life \in fenced
  /\ supPc = "run" /\ life \in fenced => life \in ambiguous \/ stop
  /\ supPc = "run" /\ workerPc = "closing" => stop
  /\ workerPc # "exit" => life # 0

\* Only the current registry accepts, later ones are blank, and no frame carries
\* more than the registry released.
RegistryInv ==
  /\ accepting \subseteq {reg}
  /\ supPc = "drain" => accepting = {}
  /\ \A r \in Registries : r > reg => released[r] = 0 /\ latest[r] = 0
  /\ latest[reg] <= released[reg]
  /\ relPc = "send" => 0 < relSeq /\ relSeq <= released[reg]

\* A bundle belongs to a client that was started; a dispatch that Home may have
\* counted is one of the current registry, since a replacement waits for it.
OfLife(b) == b.client \in 1..life

DispatchOK(d) ==
  /\ dPc[d] # "idle" => OfLife(dBundle[d])
  /\ dPc[d] \in {"begun", "granted", "ambiguous", "aborted",
                 "installed", "running", "ending"} => dBundle[d].registry = reg
  /\ dPc[d] = "ending" => 0 < released[reg] /\ dSeq[d] <= released[reg]

DispatchInv ==
  /\ bundle # NoBundle => OfLife(bundle)
  /\ \A d \in Dispatches : DispatchOK(d)

\* The grants whose reply has arrived, or may arrive still.
Granted == {d \in Dispatches : dPc[d] \in {"granted", "installed", "running"}}

\* Nothing was granted to the current registry, or all of it was lost.
Unused ==
  /\ Granted = {}
  /\ released[reg] = 0

\* The current client may be used by a dispatch: it was, or is, in its receive
\* loop, and is not fenced.
Reached ==
  /\ life \notin fenced
  /\ \/ lifePc = "receive"
     \/ workerPc \in {"finalize", "published"}
     \/ bundle.client = life /\ bundle # NoBundle
     \/ \E d \in Dispatches : dPc[d] # "idle" /\ dBundle[d].client = life

\* Home's counters are those of the current registry: its grants cover what was
\* released and what is granted, and its releases are ones that happened.
Counted ==
  /\ released[reg] + Cardinality(Granted) <= grants
  /\ homeSeq <= released[reg]

\* What makes the counters matter: the client would ask to take them over, has
\* joined, can be used, or was.
InUse == recovery \in Eligible \/ lifePc \in Joined \/ Reached \/ ~Unused

CountInv == member /\ InUse => Counted

\* A registry that was used is taken over, or the supervisor is on a way that
\* drains it.
TakeoverInv ==
  \/ Unused /\ ~Reached
  \/ takeover
  \/ lifePc = "receive"
  \/ supPc \in {"ended", "releaseStop", "settle"} /\ unsafe
  \/ supPc = "ended" /\ stop
  \/ supPc \in {"drain", "stopDrain", "stopFlush", "stopClose", "deferred", "done"}

IInv ==
  /\ TypeOK /\ SupervisorInv /\ FenceInv /\ RegistryInv /\ DispatchInv
  /\ CountInv /\ TakeoverInv

-----------------------------------------------------------------------------
(***************************************************************************)
(* Every way a lifetime returns is one step: what it keeps, and what it    *)
(* marks when it had joined Home.                                          *)
(***************************************************************************)

Reasons == {"none", "lost", "legacy", "unavailable", "cancelled", "unjoined"}

LifetimeOver ==
  /\ lifePc # "over" /\ lifePc' = "over" /\ supPc' = "ended"
  /\ errRun' \in Reasons
  /\ recovery' \in RecoveryStates
  /\ lifePc # "receive" => (recovery' \in Eligible <=> recovery \in Eligible)
  /\ lifePc = "receive" => stop \/ life \in fenced \/ recovery' \in Eligible
  /\ faults' \in Nat
  /\ UNCHANGED <<life, reg, stop, exit, legacy, fenceVars, workerPc, bundle,
                 relPc, relSeq, flushVars, regVars, dispVars, homeVars>>

LEMMA Returning ==
  ASSUME TypeOK,
         \/ ConnectFails \/ HomeRefuses \/ AckLost \/ ProbeFails
         \/ SubscriptionLost \/ LifetimeCancelled
  PROVE  LifetimeOver
<1>1. \A state \in RecoveryStates :
        /\ switched(state) \in RecoveryStates
        /\ switched(state) \in Eligible <=> state \in Eligible
  BY DEF switched, RecoveryStates, Eligible
<1>2. recovery \in RecoveryStates /\ faults \in Nat
  BY DEF TypeOK
<1>3. markedEligible \in RecoveryStates /\ markedEligible \in Eligible
  BY <1>2 DEF markedEligible, RecoveryStates, Eligible
<1>4. faults' = faults \/ Fault => faults' \in Nat
  BY <1>2 DEF Fault
<1>5. CASE ConnectFails
  BY <1>1, <1>2, <1>4, <1>5 DEF ConnectFails, LifetimeEnds, LifetimeOver, Reasons
<1>6. CASE HomeRefuses
  BY <1>1, <1>2, <1>6 DEF HomeRefuses, LifetimeEnds, LifetimeOver, Reasons
<1>7. CASE AckLost
  BY <1>1, <1>2, <1>4, <1>7 DEF AckLost, LifetimeEnds, LifetimeOver, Reasons
<1>8. CASE ProbeFails
  BY <1>1, <1>2, <1>4, <1>8 DEF ProbeFails, LifetimeEnds, LifetimeOver, Reasons
<1>9. CASE SubscriptionLost
  BY <1>1, <1>2, <1>3, <1>4, <1>9
     DEF SubscriptionLost, HeartbeatOK, LifetimeEnds, LifetimeOver, Reasons
<1>10. CASE LifetimeCancelled
  BY <1>1, <1>2, <1>10 DEF LifetimeCancelled, LifetimeEnds, LifetimeOver, Reasons
<1> QED BY <1>5, <1>6, <1>7, <1>8, <1>9, <1>10

\* The steps of the dispatch d.
Dispatching(d) ==
  \/ LoadBundle(d) \/ BeginDispatch(d) \/ BeginRefused(d) \/ DispatchRefused(d)
  \/ HomeGrants(d) \/ ReplyLost(d) \/ Abort(d) \/ EndPending(d) \/ Install(d)
  \/ Validate(d) \/ ReplyContradicts(d) \/ EndScope(d) \/ TellSink(d)

Joining == Subscribe \/ HomeCommits \/ Ack \/ ProbeOk

Working == WorkerCommit \/ WorkerPublish \/ WorkerExit \/ closeHomeClientOnCancellation

Flushing == SendRelease \/ ReleaseAccepted \/ ReleaseFails \/ ReleaseStops

Supervising ==
  \/ StartLifetime \/ Detach \/ CloseClient \/ Settle \/ Replace \/ SettleExpires
  \/ LeaveLoop \/ StopDrained \/ StopFlushed \/ StopExpires \/ StopClose \/ Deferred

LEMMA StepCases ==
  ASSUME TypeOK, [Next]_vars
  PROVE  \/ LifetimeOver \/ Joining \/ Working \/ Flushing \/ Supervising
         \/ \E d \in Dispatches : Dispatching(d)
         \/ Stop \/ HomeForgets
         \/ UNCHANGED vars
<1>1. CASE Next
  <2>1. LifetimeStep => LifetimeOver \/ Joining
    BY Returning DEF LifetimeStep, Joining
  <2>2. ConnectFails \/ AckLost \/ ProbeFails \/ SubscriptionLost => LifetimeOver
    BY Returning
  <2>3. ReleaseStep => Flushing
    BY DEF ReleaseStep, Flushing
  <2>4. SupervisorStep => Supervising
    BY DEF SupervisorStep, Supervising
  <2>5. \A d \in Dispatches : DispatchStep(d) => Dispatching(d)
    BY DEF DispatchStep, Dispatching
  <2> QED BY <1>1, <2>1, <2>2, <2>3, <2>4, <2>5
          DEF Next, WorkerStep, Working, Flushing, Supervising, Dispatching
<1> QED BY <1>1

-----------------------------------------------------------------------------
(* Types *)

LEMMA NoBundleType == NoBundle \in Bundles
  BY DEF NoBundle, Bundles

LEMMA TypeInit == Init => TypeOK
<1> SUFFICES ASSUME Init PROVE TypeOK
  OBVIOUS
<1>1. NoBundle \in Bundles /\ 1 \in Registries
  BY NoBundleType DEF Registries
<1>2. /\ bundle \in Bundles
      /\ dPc \in [Dispatches -> DispatchPcs]
      /\ dBundle \in [Dispatches -> Bundles]
      /\ dSeq \in [Dispatches -> Nat]
  BY <1>1 DEF Init, DispatchPcs
<1>3. /\ latest \in [Registries -> Nat]
      /\ acked \in [Registries -> Nat]
      /\ released \in [Registries -> Nat]
  BY DEF Init
<1>4. stop \in BOOLEAN /\ legacy \in BOOLEAN /\ homeLegacy \in BOOLEAN /\ member \in BOOLEAN
  BY Zenon DEF Init
<1>5. /\ supPc \in SupPcs /\ lifePc \in LifePcs /\ recovery \in RecoveryStates
      /\ life \in 0..(MaxFaults + 2) /\ reg \in Registries
      /\ sink \subseteq Registries /\ accepting \subseteq Registries
  BY <1>1 DEF Init, SupPcs, LifePcs, RecoveryStates
<1> QED BY <1>2, <1>3, <1>4, <1>5 DEF Init, TypeOK

LEMMA TypeNext ==
  ASSUME TypeOK, SupervisorInv, FenceInv, DispatchInv, [Next]_vars
  PROVE  TypeOK'
<1> USE DEF TypeOK
<1>1. CASE LifetimeOver
  BY <1>1 DEF LifetimeOver, Reasons, LifePcs, SupPcs
<1>2. CASE Joining
  <2>1. markedEligible \in RecoveryStates
    BY DEF markedEligible, RecoveryStates
  <2>2. CASE HomeCommits
    <3>1. /\ member' = TRUE
          /\ grants' = grants \/ grants' = 0
          /\ homeSeq' = homeSeq \/ homeSeq' = 0
      BY <2>2 DEF HomeCommits
    <3>2. member' \in BOOLEAN /\ grants' \in Nat /\ homeSeq' \in Nat
      BY <3>1
    <3> QED BY <2>2, <3>2 DEF HomeCommits, LifePcs
  <2> QED BY <1>2, <2>1, <2>2 DEF Joining, Subscribe, Ack, ProbeOk, LifePcs, RecoveryStates
<1>3. CASE Working
  <2>1. [client |-> life, registry |-> reg] \in Bundles
    BY DEF Bundles, Registries
  <2>2. CASE closeHomeClientOnCancellation
    <3>1. life \in Lives
      BY <2>2 DEF closeHomeClientOnCancellation, FenceInv, Lives
    <3> QED BY <2>2, <3>1 DEF closeHomeClientOnCancellation
  <2> QED BY <1>3, <2>1, <2>2 DEF Working, WorkerCommit, WorkerPublish, WorkerExit
<1>4. CASE Flushing
  BY <1>4 DEF Flushing, SendRelease, ReleaseAccepted, ReleaseFails, ReleaseStops,
              HomeReleases, Fault
<1>5. CASE Supervising
  <2>1. CASE StartLifetime
    BY <2>1 DEF StartLifetime, Lives, SupPcs, LifePcs
  <2>2. CASE Detach
    BY <2>2, NoBundleType DEF Detach, SupPcs
  <2>3. CASE CloseClient \/ StopClose
    <3>1. life \in Lives
      BY <2>3 DEF CloseClient, StopClose, SupervisorInv, Registries, Lives
    <3>2. fenced' \subseteq Lives /\ supPc' \in SupPcs
      BY <2>3, <3>1 DEF CloseClient, StopClose, SupPcs
    <3> QED BY <2>3, <3>2 DEF CloseClient, StopClose
  <2>4. CASE Settle
    BY <2>4 DEF Settle, SupPcs
  <2>5. CASE Replace
    <3>1. recovery' \in RecoveryStates
      BY <2>5 DEF Replace, SuppressTakeover, RecoveryStates
    <3>2. reg + 1 \in Registries
      BY <2>5 DEF Replace, SupervisorInv, Registries
    <3> QED BY <2>5, <3>1, <3>2 DEF Replace, SupPcs
  <2>6. CASE LeaveLoop \/ StopDrained \/ StopFlushed \/ StopExpires \/ Deferred
    BY <2>6 DEF LeaveLoop, StopDrained, StopFlushed, StopExpires, Deferred, Fault, SupPcs
  <2>7. CASE SettleExpires
    <3>1. stop' \in BOOLEAN
      BY <2>7 DEF SettleExpires
    <3> QED BY <2>7, <3>1 DEF SettleExpires, Fault, SupPcs
  <2> QED BY <1>5, <2>1, <2>2, <2>3, <2>4, <2>5, <2>6, <2>7 DEF Supervising
<1>6. ASSUME NEW d \in Dispatches, Dispatching(d) PROVE TypeOK'
  <2>1. dPc[d] # "idle" => dBundle[d].client \in Lives /\ dBundle[d].registry \in 0..(MaxFaults + 3)
    BY DEF DispatchInv, DispatchOK, OfLife, Lives, Bundles
  <2>2. dPc[d] \in {"running", "ending"} => dBundle[d].registry \in Registries
    BY DEF DispatchInv, DispatchOK
  <2>3. CASE LoadBundle(d)
    BY <2>3 DEF LoadBundle, Move, DispatchPcs
  <2>4. CASE BeginRefused(d) \/ DispatchRefused(d)
    BY <2>4, NoBundleType DEF BeginRefused, DispatchRefused, Retry, Move, DispatchPcs
  <2>5. CASE BeginDispatch(d) \/ EndPending(d) \/ Install(d) \/ Validate(d)
    BY <2>5 DEF BeginDispatch, EndPending, Install, Validate, Move, DispatchPcs
  <2>6. CASE HomeGrants(d)
    BY <2>6 DEF HomeGrants, Move, DispatchPcs
  <2>7. CASE ReplyLost(d)
    BY <2>7 DEF ReplyLost, Fault, Move, DispatchPcs
  <2>8. CASE Abort(d) \/ ReplyContradicts(d)
    BY <2>1, <2>8 DEF Abort, ReplyContradicts, AbortAmbiguousDispatch, Fault, Move, DispatchPcs
  <2>9. CASE EndScope(d)
    <3>1. released' \in [Registries -> Nat] /\ dSeq' \in [Dispatches -> Nat]
      BY <2>2, <2>9 DEF EndScope
    <3> QED BY <2>9, <3>1 DEF EndScope, Move, DispatchPcs
  <2>10. CASE TellSink(d)
    <3>1. latest' \in [Registries -> Nat]
      BY <2>2, <2>10 DEF TellSink
    <3> QED BY <2>10, <3>1 DEF TellSink, Move, DispatchPcs
  <2> QED BY <1>6, <2>3, <2>4, <2>5, <2>6, <2>7, <2>8, <2>9, <2>10 DEF Dispatching
<1>7. CASE Stop
  BY <1>7 DEF Stop
<1>9. CASE HomeForgets
  <2>1. faults' \in Nat
    BY <1>9 DEF HomeForgets, Fault
  <2>2. member' = FALSE /\ grants' = 0 /\ homeSeq' = 0
    BY <1>9 DEF HomeForgets
  <2>3. member' \in BOOLEAN /\ grants' \in Nat /\ homeSeq' \in Nat
    BY <2>2
  <2> QED BY <1>9, <2>1, <2>3 DEF HomeForgets
<1>8. CASE UNCHANGED vars
  BY <1>8
<1> QED BY StepCases, <1>1, <1>2, <1>3, <1>4, <1>5, <1>6, <1>7, <1>8, <1>9

-----------------------------------------------------------------------------
(* Control: supervisor, fences, registries and dispatches *)

LEMMA DispatchFrame ==
  ASSUME NEW d \in Dispatches, Dispatching(d)
  PROVE  UNCHANGED <<supVars, lifePc, clientVars, workerPc, bundle, relPc, relSeq, acked,
                     sink, accepting, member, homeSeq, homeLegacy>>
  BY DEF Dispatching, LoadBundle, BeginDispatch, BeginRefused, DispatchRefused, Retry,
         HomeGrants, ReplyLost, Abort, EndPending, Install, Validate, ReplyContradicts,
         EndScope, TellSink

LEMMA FlushFrame ==
  ASSUME Flushing
  PROVE  UNCHANGED <<supVars, lifePc, clientVars, fenceVars, workerPc, bundle, latest,
                     regVars, dispVars, member, grants, homeLegacy>>
  BY DEF Flushing, SendRelease, ReleaseAccepted, ReleaseFails, ReleaseStops

LEMMA WorkFrame ==
  ASSUME Working
  PROVE  /\ UNCHANGED <<supVars, lifePc, clientVars, ambiguous, relPc, relSeq, flushVars,
                        regVars, dispVars, homeVars>>
         /\ fenced \subseteq fenced'
  BY DEF Working, WorkerCommit, WorkerPublish, WorkerExit, closeHomeClientOnCancellation

LEMMA SuperviseFrame ==
  ASSUME Supervising
  PROVE  UNCHANGED <<relSeq, flushVars, released, dispVars, homeVars>>
  BY DEF Supervising, StartLifetime, Detach, CloseClient, Settle, Replace, SettleExpires,
         LeaveLoop, StopDrained, StopFlushed, StopExpires, StopClose, Deferred

LEMMA SupervisorNext ==
  ASSUME TypeOK, SupervisorInv, [Next]_vars
  PROVE  SupervisorInv'
<1> USE DEF SupervisorInv
<1>1. CASE LifetimeOver
  BY <1>1 DEF LifetimeOver, Joined
<1>2. CASE Joining
  BY <1>2 DEF Joining, Subscribe, HomeCommits, Ack, ProbeOk, Joined
<1>3. CASE Working
  BY <1>3, WorkFrame
<1>4. CASE Flushing
  BY <1>4, FlushFrame DEF Flushing, SendRelease, ReleaseAccepted, ReleaseFails, ReleaseStops
<1>5. CASE Supervising
  <2>1. life \in Nat /\ reg \in Nat
    BY DEF TypeOK, Registries
  <2>2. CASE StartLifetime
    BY <2>1, <2>2 DEF StartLifetime, Joined
  <2>3. CASE Detach \/ CloseClient \/ Settle
    BY <2>1, <2>3 DEF Detach, CloseClient, Settle, Joined
  <2>4. CASE Replace
    BY <2>1, <2>4 DEF Replace, Joined
  <2>5. CASE SettleExpires \/ LeaveLoop \/ StopDrained \/ StopFlushed
    BY <2>1, <2>5 DEF SettleExpires, LeaveLoop, StopDrained, StopFlushed, Joined
  <2>6. CASE StopExpires \/ StopClose \/ Deferred
    BY <2>1, <2>6 DEF StopExpires, StopClose, Deferred, Joined
  <2> QED BY <1>5, <2>2, <2>3, <2>4, <2>5, <2>6 DEF Supervising
<1>6. ASSUME NEW d \in Dispatches, Dispatching(d) PROVE SupervisorInv'
  BY <1>6, DispatchFrame
<1>7. CASE Stop \/ HomeForgets
  BY <1>7 DEF Stop, HomeForgets, Joined
<1>8. CASE UNCHANGED vars
  BY <1>8
<1> QED BY StepCases, <1>1, <1>2, <1>3, <1>4, <1>5, <1>6, <1>7, <1>8

LEMMA FenceNext ==
  ASSUME TypeOK, SupervisorInv, FenceInv, DispatchInv, [Next]_vars
  PROVE  FenceInv'
<1> USE DEF FenceInv
<1>1. CASE LifetimeOver
  BY <1>1 DEF LifetimeOver, SupervisorInv
<1>2. CASE Joining
  BY <1>2 DEF Joining, Subscribe, HomeCommits, Ack, ProbeOk
<1>3. CASE Working
  <2>1. CASE closeHomeClientOnCancellation
    <3>1. life \in 1..life
      BY <2>1 DEF closeHomeClientOnCancellation, TypeOK
    <3> QED BY <2>1, <3>1 DEF closeHomeClientOnCancellation
  <2>2. CASE WorkerCommit \/ WorkerPublish \/ WorkerExit
    BY <2>2 DEF WorkerCommit, WorkerPublish, WorkerExit, homeLifetimeActive
  <2> QED BY <1>3, <2>1, <2>2 DEF Working
<1>4. CASE Flushing
  BY <1>4, FlushFrame
<1>5. CASE Supervising
  <2>1. life \in Nat
    BY DEF TypeOK
  <2>2. CASE StartLifetime
    BY <2>1, <2>2 DEF StartLifetime
  <2>3. CASE CloseClient \/ StopClose
    <3>1. life \in 1..life
      BY <2>1, <2>3 DEF CloseClient, StopClose, SupervisorInv, TypeOK, Registries
    <3> QED BY <2>3, <3>1 DEF CloseClient, StopClose
  <2>4. CASE Detach \/ Settle \/ Replace \/ SettleExpires \/ LeaveLoop
    BY <2>4 DEF Detach, Settle, Replace, SettleExpires, LeaveLoop
  <2>5. CASE StopDrained \/ StopFlushed \/ StopExpires \/ Deferred
    BY <2>5 DEF StopDrained, StopFlushed, StopExpires, Deferred
  <2> QED BY <1>5, <2>2, <2>3, <2>4, <2>5 DEF Supervising
<1>6. ASSUME NEW d \in Dispatches, Dispatching(d) PROVE FenceInv'
  <2>1. Abort(d) \/ ReplyContradicts(d) \/ UNCHANGED fenceVars
    BY <1>6 DEF Dispatching, LoadBundle, BeginDispatch, BeginRefused, DispatchRefused, Retry,
                HomeGrants, ReplyLost, EndPending, Install, Validate, EndScope, TellSink
  <2>2. dPc[d] # "idle" => dBundle[d].client \in 1..life
    BY DEF DispatchInv, DispatchOK, OfLife
  <2>3. CASE Abort(d) \/ ReplyContradicts(d)
    <3>1. dPc[d] # "idle" /\ AbortAmbiguousDispatch(dBundle[d].client)
      BY <2>3 DEF Abort, ReplyContradicts
    <3> QED BY <1>6, <2>2, <3>1, DispatchFrame DEF AbortAmbiguousDispatch
  <2> QED BY <1>6, <2>1, <2>3, DispatchFrame
<1>7. CASE Stop \/ HomeForgets
  BY <1>7 DEF Stop, HomeForgets
<1>8. CASE UNCHANGED vars
  BY <1>8
<1> QED BY StepCases, <1>1, <1>2, <1>3, <1>4, <1>5, <1>6, <1>7, <1>8

LEMMA RegistryNext ==
  ASSUME TypeOK, SupervisorInv, RegistryInv, DispatchInv, [Next]_vars
  PROVE  RegistryInv'
<1> USE DEF RegistryInv
<1>0. /\ reg \in Registries /\ Registries \subseteq Nat /\ reg \in Nat /\ relSeq \in Nat
      /\ latest \in [Registries -> Nat] /\ released \in [Registries -> Nat]
      /\ acked \in [Registries -> Nat]
      /\ latest[reg] \in Nat /\ released[reg] \in Nat /\ acked[reg] \in Nat
  <2>1. /\ reg \in Registries /\ relSeq \in Nat
        /\ latest \in [Registries -> Nat] /\ released \in [Registries -> Nat]
        /\ acked \in [Registries -> Nat]
    BY DEF TypeOK
  <2>2. Registries \subseteq Nat
    BY DEF Registries
  <2> QED BY <2>1, <2>2
<1>1. CASE LifetimeOver
  BY <1>1 DEF LifetimeOver
<1>2. CASE Joining
  BY <1>2 DEF Joining, Subscribe, HomeCommits, Ack, ProbeOk
<1>3. CASE Working
  BY <1>3, WorkFrame
<1>4. CASE Flushing
  <2>1. \/ relPc' # "send"
        \/ relSeq' = latest[reg] /\ latest[reg] > acked[reg]
    BY <1>4 DEF Flushing, SendRelease, ReleaseAccepted, ReleaseFails, ReleaseStops
  <2>2. UNCHANGED <<supPc, reg, accepting, released, latest>>
    BY <1>4, FlushFrame
  <2>3. relPc' = "send" => 0 < relSeq' /\ relSeq' <= released[reg]
    BY <1>0, <2>1
  <2> QED BY <2>2, <2>3
<1>5. CASE Supervising
  <2>1. CASE Replace
    <3>1. reg + 1 \in Registries
      BY <2>1 DEF Replace, SupervisorInv, TypeOK, Registries
    <3>2. released[reg + 1] = 0 /\ latest[reg + 1] = 0
      BY <1>0, <3>1
    <3>3. relPc = "off"
      BY <2>1 DEF Replace, SupervisorInv
    <3>4. accepting' = {reg'} /\ supPc' = "start"
      BY <2>1 DEF Replace
    <3>5. \A r \in Registries : r > reg' => released'[r] = 0 /\ latest'[r] = 0
      BY <1>0, <2>1 DEF Replace, Registries
    <3> QED BY <2>1, <3>2, <3>3, <3>4, <3>5 DEF Replace
  <2>2. CASE StartLifetime
    BY <2>2 DEF StartLifetime
  <2>3. CASE Detach \/ Settle \/ SettleExpires \/ LeaveLoop \/ CloseClient
    BY <2>3 DEF Detach, Settle, SettleExpires, LeaveLoop, CloseClient
  <2>4. CASE StopDrained \/ StopFlushed \/ StopExpires \/ StopClose \/ Deferred
    BY <2>4 DEF StopDrained, StopFlushed, StopExpires, StopClose, Deferred
  <2> QED BY <1>5, <2>1, <2>2, <2>3, <2>4 DEF Supervising
<1>6. ASSUME NEW d \in Dispatches, Dispatching(d) PROVE RegistryInv'
  <2>1. dPc[d] \in {"running", "ending"} => dBundle[d].registry = reg
    BY DEF DispatchInv, DispatchOK
  <2>2. dPc[d] = "ending" => dSeq[d] \in Nat /\ dSeq[d] <= released[reg]
    BY DEF DispatchInv, DispatchOK, TypeOK
  <2>3. CASE EndScope(d)
    <3>1. released' = [released EXCEPT ![reg] = released[reg] + 1] /\ latest' = latest
      BY <2>1, <2>3 DEF EndScope
    <3>2. /\ \A r \in Registries : r > reg => released'[r] = 0 /\ latest'[r] = 0
          /\ released'[reg] = released[reg] + 1 /\ latest'[reg] = latest[reg]
      BY <1>0, <3>1
    <3>3. relPc = "send" => relSeq <= released'[reg]
      BY <1>0, <3>2
    <3>4. latest'[reg] <= released'[reg]
      BY <1>0, <3>2
    <3>5. UNCHANGED <<supPc, reg, accepting, relPc, relSeq>>
      BY <1>6, DispatchFrame
    <3> QED BY <3>2, <3>3, <3>4, <3>5
  <2>4. CASE TellSink(d)
    <3>1. /\ latest' = [latest EXCEPT ![reg] = IF dSeq[d] > latest[reg] THEN dSeq[d]
                                                 ELSE latest[reg]]
          /\ released' = released
      BY <2>1, <2>4 DEF TellSink
    <3>2. dPc[d] = "ending"
      BY <2>4 DEF TellSink
    <3>3. /\ \A r \in Registries : r > reg => released'[r] = 0 /\ latest'[r] = 0
          /\ released'[reg] = released[reg] /\ latest'[reg] <= released[reg]
      BY <1>0, <2>2, <3>1, <3>2
    <3> QED BY <1>0, <1>6, <3>3, DispatchFrame
  <2>5. CASE UNCHANGED <<released, latest>>
    BY <1>6, <2>5, DispatchFrame
  <2> QED BY <1>6, <2>3, <2>4, <2>5
          DEF Dispatching, LoadBundle, BeginDispatch, BeginRefused, DispatchRefused, Retry,
              HomeGrants, ReplyLost, Abort, EndPending, Install, Validate, ReplyContradicts
<1>7. CASE Stop \/ HomeForgets
  BY <1>7 DEF Stop, HomeForgets
<1>8. CASE UNCHANGED vars
  BY <1>8
<1> QED BY StepCases, <1>1, <1>2, <1>3, <1>4, <1>5, <1>6, <1>7, <1>8

\* What the supervisor does to the present registry and to what dispatches hold.
LEMMA DispatchKept ==
  ASSUME TypeOK, DispatchInv, UNCHANGED <<dispVars, released, reg>>,
         life' \in Nat, life <= life', bundle' \in {bundle, NoBundle}
  PROVE  DispatchInv'
<1>1. \A b : OfLife(b) => OfLife(b)'
  <2>1. life \in Nat
    BY DEF TypeOK
  <2> QED BY <2>1 DEF OfLife
<1>2. (bundle # NoBundle => OfLife(bundle))'
  BY <1>1 DEF DispatchInv, OfLife
<1>3. ASSUME NEW d \in Dispatches PROVE DispatchOK(d)'
  <2>1. DispatchOK(d)
    BY DEF DispatchInv
  <2>2. dBundle'[d] = dBundle[d] /\ dPc'[d] = dPc[d] /\ dSeq'[d] = dSeq[d]
        /\ released' = released /\ reg' = reg
    OBVIOUS
  <2>3. life \in Nat
    BY DEF TypeOK
  <2>4. dPc[d] # "idle" => dBundle[d].client \in 1..life'
    BY <2>1, <2>3 DEF DispatchOK, OfLife
  <2> QED BY <2>1, <2>2, <2>4 DEF DispatchOK, OfLife
<1> QED BY <1>2, <1>3 DEF DispatchInv

\* A dispatch moves alone.
LEMMA OnlyOneMoves ==
  ASSUME TypeOK, NEW d \in Dispatches, Dispatching(d), NEW e \in Dispatches, e # d
  PROVE  dPc'[e] = dPc[e] /\ dBundle'[e] = dBundle[e] /\ dSeq'[e] = dSeq[e]
<1> USE DEF Move
<1>1. CASE LoadBundle(d) \/ BeginDispatch(d) \/ HomeGrants(d) \/ ReplyLost(d)
  BY <1>1 DEF TypeOK, LoadBundle, BeginDispatch, HomeGrants, ReplyLost
<1>2. CASE BeginRefused(d) \/ DispatchRefused(d)
  BY <1>2 DEF TypeOK, BeginRefused, DispatchRefused, Retry
<1>3. CASE Abort(d) \/ EndPending(d) \/ Install(d) \/ Validate(d) \/ ReplyContradicts(d)
  BY <1>3 DEF TypeOK, Abort, EndPending, Install, Validate, ReplyContradicts
<1>4. CASE EndScope(d) \/ TellSink(d)
  BY <1>4 DEF TypeOK, EndScope, TellSink
<1> QED BY <1>1, <1>2, <1>3, <1>4 DEF Dispatching

LEMMA DispatchNext ==
  ASSUME TypeOK, SupervisorInv, RegistryInv, DispatchInv, [Next]_vars
  PROVE  DispatchInv'
<1>1. life \in Nat /\ reg \in Registries /\ Registries \subseteq Nat
      /\ released \in [Registries -> Nat]
  BY DEF TypeOK, Registries
<1>2. CASE LifetimeOver
  BY <1>1, <1>2, DispatchKept DEF LifetimeOver
<1>3. CASE Joining
  BY <1>1, <1>3, DispatchKept DEF Joining, Subscribe, HomeCommits, Ack, ProbeOk
<1>4. CASE Working
  <2>1. CASE WorkerPublish
    <3>1. life \in 1..life
      BY <1>1, <2>1 DEF WorkerPublish, homeLifetimeActive, SupervisorInv, Registries
    <3>2. bundle'.client = life /\ life' = life
      BY <2>1 DEF WorkerPublish
    <3>3. OfLife(bundle)'
      BY <3>1, <3>2 DEF OfLife
    <3>4. \A d \in Dispatches : DispatchOK(d)'
      BY <2>1 DEF WorkerPublish, DispatchInv, DispatchOK, OfLife
    <3> QED BY <3>3, <3>4 DEF DispatchInv
  <2>2. CASE WorkerCommit \/ WorkerExit \/ closeHomeClientOnCancellation
    BY <1>1, <2>2, DispatchKept DEF WorkerCommit, WorkerExit, closeHomeClientOnCancellation
  <2> QED BY <1>4, <2>1, <2>2 DEF Working
<1>5. CASE Flushing
  BY <1>1, <1>5, FlushFrame, DispatchKept
<1>6. CASE Supervising
  <2>1. CASE Replace
    <3>1. ASSUME NEW d \in Dispatches PROVE DispatchOK(d)'
      <4>1. DispatchOK(d)
        BY DEF DispatchInv
      <4>2. d \notin Pending(reg) \cup Scopes(reg)
        BY <2>1 DEF Replace, drained
      <4>3. dPc[d] \notin {"begun", "granted", "ambiguous", "aborted",
                           "installed", "running", "ending"}
        BY <4>1, <4>2 DEF DispatchOK, Pending, Scopes
      <4>4. UNCHANGED <<life, dPc, dBundle>>
        BY <2>1 DEF Replace
      <4> QED BY <4>1, <4>3, <4>4 DEF DispatchOK, OfLife
    <3> QED BY <2>1, <3>1 DEF Replace, DispatchInv, OfLife
  <2>2. CASE ~Replace
    <3>1. UNCHANGED reg /\ bundle' \in {bundle, NoBundle} /\ life' \in {life, life + 1}
      BY <1>6, <2>2 DEF Supervising, StartLifetime, Detach, CloseClient, Settle,
         SettleExpires, LeaveLoop, StopDrained, StopFlushed, StopExpires, StopClose, Deferred
    <3>2. life' \in Nat /\ life <= life'
      BY <1>1, <3>1
    <3> QED BY <1>6, <3>1, <3>2, SuperviseFrame, DispatchKept
  <2> QED BY <2>1, <2>2
<1>7. ASSUME NEW d \in Dispatches, Dispatching(d) PROVE DispatchInv'
  <2>1. DispatchOK(d) /\ UNCHANGED <<life, reg, bundle>>
    BY <1>7, DispatchFrame DEF DispatchInv
  <2>2. \/ released' = released
        \/ released' = [released EXCEPT ![dBundle[d].registry] = @ + 1] /\ dPc[d] = "running"
    BY <1>7 DEF Dispatching, LoadBundle, BeginDispatch, BeginRefused, DispatchRefused, Retry,
                HomeGrants, ReplyLost, Abort, EndPending, Install, Validate, ReplyContradicts,
                EndScope, TellSink
  <2>3. released'[reg] \in Nat /\ released[reg] \in Nat /\ released[reg] <= released'[reg]
    BY <1>1, <2>1, <2>2 DEF DispatchOK
  <2>4. ASSUME NEW e \in Dispatches, e # d PROVE DispatchOK(e)'
    <3>1. DispatchOK(e) /\ dSeq[e] \in Nat
      BY DEF DispatchInv, TypeOK
    <3>2. dPc'[e] = dPc[e] /\ dBundle'[e] = dBundle[e] /\ dSeq'[e] = dSeq[e]
      BY <1>7, <2>4, OnlyOneMoves
    <3> QED BY <2>1, <2>3, <3>1, <3>2 DEF DispatchOK, OfLife
  <2>5. DispatchOK(d)'
    <3> USE DEF Move, DispatchOK, OfLife
    <3>1. dPc \in [Dispatches -> DispatchPcs] /\ dBundle \in [Dispatches -> Bundles]
          /\ dSeq \in [Dispatches -> Nat] /\ accepting \subseteq {reg}
      BY DEF TypeOK, RegistryInv
    <3>2. CASE LoadBundle(d)
      BY <2>1, <3>1, <3>2 DEF LoadBundle, DispatchInv
    <3>3. CASE BeginRefused(d) \/ DispatchRefused(d)
      BY <2>1, <3>1, <3>3 DEF BeginRefused, DispatchRefused, Retry
    <3>4. CASE BeginDispatch(d)
      BY <2>1, <3>1, <3>4 DEF BeginDispatch
    <3>5. CASE HomeGrants(d) \/ ReplyLost(d) \/ EndPending(d) \/ Validate(d)
      BY <2>1, <3>1, <3>5 DEF HomeGrants, ReplyLost, EndPending, Validate
    <3>6. CASE Abort(d) \/ Install(d) \/ ReplyContradicts(d)
      BY <2>1, <3>1, <3>6 DEF Abort, Install, ReplyContradicts
    <3>7. CASE EndScope(d)
      <4>1. dBundle[d].registry = reg
        BY <2>1, <3>7 DEF EndScope
      <4>2. released'[reg] = released[reg] + 1
        BY <1>1, <3>7, <4>1 DEF EndScope
      <4>3. dSeq'[d] = released[reg] + 1 \/ dSeq'[d] = 0
        BY <3>1, <3>7, <4>1 DEF EndScope
      <4>4. dPc'[d] = "ending" /\ dPc[d] = "running" /\ dBundle' = dBundle
        BY <3>1, <3>7 DEF EndScope
      <4>5. 0 < released'[reg] /\ dSeq'[d] <= released'[reg]
        BY <2>3, <4>2, <4>3
      <4> QED BY <2>1, <4>1, <4>4, <4>5
    <3>8. CASE TellSink(d)
      BY <2>1, <3>1, <3>8 DEF TellSink
    <3> QED BY <1>7, <3>2, <3>3, <3>4, <3>5, <3>6, <3>7, <3>8 DEF Dispatching
  <2> QED BY <2>1, <2>4, <2>5 DEF DispatchInv, OfLife
<1>8. CASE Stop \/ HomeForgets
  BY <1>1, <1>8, DispatchKept DEF Stop, HomeForgets
<1>9. CASE UNCHANGED vars
  BY <1>1, <1>9, DispatchKept
<1> QED BY StepCases, <1>2, <1>3, <1>4, <1>5, <1>6, <1>7, <1>8, <1>9

-----------------------------------------------------------------------------
(* What Home has granted to the present registry *)

LEMMA GrantedFinite ==
  /\ IsFiniteSet(Granted) /\ Cardinality(Granted) \in Nat
  /\ IsFiniteSet(Executing) /\ Cardinality(Executing) \in Nat
<1>1. Granted \subseteq Dispatches /\ Executing \subseteq Dispatches
  BY DEF Granted, Executing
<1> QED BY <1>1, FS_Subset, FS_CardinalityType

\* What a dispatch does to the counters: nothing, or it is granted, or it ends,
\* or its grant is lost.
LEMMA GrantedMoves ==
  ASSUME TypeOK, DispatchInv, NEW d \in Dispatches, Dispatching(d)
  PROVE  \/ /\ HomeGrants(d) /\ d \notin Granted /\ Granted' = Granted \cup {d}
            /\ grants' = grants + 1 /\ UNCHANGED released
         \/ /\ EndScope(d) /\ d \in Granted /\ Granted' = Granted \ {d}
            /\ released' = [released EXCEPT ![reg] = @ + 1] /\ UNCHANGED grants
         \/ /\ ~HomeGrants(d) /\ ~EndScope(d) /\ Granted' \subseteq Granted
            /\ UNCHANGED <<released, grants>>
<1> USE DEF Granted, Move
<1>0. dPc \in [Dispatches -> DispatchPcs]
  BY DEF TypeOK
<1>1. CASE HomeGrants(d)
  BY <1>0, <1>1 DEF HomeGrants
<1>2. CASE EndScope(d)
  <2>1. dBundle[d].registry = reg
    BY <1>2 DEF EndScope, DispatchInv, DispatchOK
  <2> QED BY <1>0, <1>2, <2>1 DEF EndScope
<1>3. CASE LoadBundle(d) \/ BeginDispatch(d) \/ BeginRefused(d) \/ DispatchRefused(d)
  <2>1. ~HomeGrants(d) /\ ~EndScope(d)
    BY <1>0, <1>3 DEF LoadBundle, BeginDispatch, BeginRefused, DispatchRefused, Retry,
                      HomeGrants, EndScope
  <2> QED BY <1>0, <1>3, <2>1 DEF LoadBundle, BeginDispatch, BeginRefused, DispatchRefused,
                                  Retry
<1>4. CASE ReplyLost(d) \/ Abort(d) \/ EndPending(d) \/ TellSink(d)
  <2>1. ~HomeGrants(d) /\ ~EndScope(d)
    BY <1>0, <1>4 DEF ReplyLost, Abort, EndPending, TellSink, HomeGrants, EndScope
  <2> QED BY <1>0, <1>4, <2>1 DEF ReplyLost, Abort, EndPending, TellSink
<1>5. CASE Install(d) \/ Validate(d) \/ ReplyContradicts(d)
  <2>1. ~HomeGrants(d) /\ ~EndScope(d)
    BY <1>0, <1>5 DEF Install, Validate, ReplyContradicts, HomeGrants, EndScope
  <2> QED BY <1>0, <1>5, <2>1 DEF Install, Validate, ReplyContradicts
<1> QED BY <1>1, <1>2, <1>3, <1>4, <1>5 DEF Dispatching

\* A grant goes to a client that has joined Home with the present registry.
LEMMA GrantsReach ==
  ASSUME TypeOK, FenceInv, DispatchInv, NEW d \in Dispatches, HomeGrants(d)
  PROVE  Reached
<1>1. dPc[d] # "idle" /\ dBundle[d].client \in 1..life /\ dBundle[d].client \notin fenced
  BY DEF HomeGrants, mayPop, DispatchInv, DispatchOK, OfLife
<1>2. dBundle[d].client = life
  BY <1>1 DEF FenceInv
<1> QED BY <1>1, <1>2 DEF Reached

LEMMA CountedMoves ==
  ASSUME TypeOK, DispatchInv, Counted, NEW d \in Dispatches, Dispatching(d)
  PROVE  Counted'
<1>1. /\ released[reg] \in Nat /\ grants \in Nat /\ homeSeq \in Nat
      /\ released \in [Registries -> Nat] /\ reg \in Registries
  BY DEF TypeOK
<1>2. reg' = reg /\ homeSeq' = homeSeq
  BY DispatchFrame
<1>3. IsFiniteSet(Granted) /\ Cardinality(Granted) \in Nat
  BY GrantedFinite
<1>4. Granted' \subseteq Granted =>
        Cardinality(Granted') \in Nat /\ Cardinality(Granted') <= Cardinality(Granted)
  BY <1>3, FS_Subset, FS_CardinalityType
<1>5. CASE HomeGrants(d)
  <2>1. Granted' = Granted \cup {d} /\ d \notin Granted /\ grants' = grants + 1
        /\ released' = released
    BY <1>5, GrantedMoves DEF HomeGrants, EndScope
  <2>2. Cardinality(Granted') = Cardinality(Granted) + 1
    BY <1>3, <2>1, FS_AddElement
  <2>3. released'[reg'] + Cardinality(Granted') <= grants' /\ homeSeq' <= released'[reg']
    BY <1>1, <1>2, <1>3, <2>1, <2>2 DEF Counted
  <2> QED BY <2>3 DEF Counted
<1>6. CASE EndScope(d)
  <2>1. Granted' = Granted \ {d} /\ d \in Granted /\ grants' = grants
        /\ released' = [released EXCEPT ![reg] = @ + 1]
    BY <1>6, GrantedMoves DEF HomeGrants, EndScope
  <2>2. Cardinality(Granted') = Cardinality(Granted) - 1
    BY <1>3, <2>1, FS_RemoveElement
  <2>3. released'[reg] = released[reg] + 1
    BY <1>1, <2>1
  <2>4. released'[reg'] + Cardinality(Granted') <= grants' /\ homeSeq' <= released'[reg']
    BY <1>1, <1>2, <1>3, <2>1, <2>2, <2>3 DEF Counted
  <2> QED BY <2>4 DEF Counted
<1>7. CASE ~HomeGrants(d) /\ ~EndScope(d)
  <2>1. Granted' \subseteq Granted /\ grants' = grants /\ released' = released
    BY <1>7, GrantedMoves
  <2>2. released'[reg'] + Cardinality(Granted') <= grants' /\ homeSeq' <= released'[reg']
    BY <1>1, <1>2, <1>3, <1>4, <2>1 DEF Counted
  <2> QED BY <2>2 DEF Counted
<1> QED BY <1>5, <1>6, <1>7

\* The registry that replaces a drained one is new, and nothing waits for it.
LEMMA ReplacedUnused ==
  ASSUME TypeOK, SupervisorInv, RegistryInv, DispatchInv, Replace
  PROVE  Unused'
<1>1. reg \in Nat /\ reg + 1 \in Registries
  BY DEF Replace, SupervisorInv, TypeOK, Registries
<1>2. released'[reg'] = 0
  BY <1>1 DEF Replace, RegistryInv
<1>3. ASSUME NEW d \in Dispatches PROVE d \notin Granted
  <2>1. d \notin Pending(reg) \cup Scopes(reg)
    BY DEF Replace, drained
  <2> QED BY <2>1 DEF DispatchInv, DispatchOK, Pending, Scopes, Granted
<1>4. Granted' = {}
  BY <1>3 DEF Granted, Replace
<1> QED BY <1>2, <1>4 DEF Unused

LEMMA ReplacedUnreached ==
  ASSUME TypeOK, SupervisorInv, FenceInv, Replace
  PROVE  ~Reached'
  BY DEF Replace, FenceInv, SupervisorInv, TypeOK, Registries, Reached

\* A registry is first used by a grant.
LEMMA FirstUse ==
  ASSUME TypeOK, SupervisorInv, FenceInv, RegistryInv, DispatchInv, [Next]_vars,
         Unused, ~Unused'
  PROVE  Reached
<1>1. CASE LifetimeOver
  BY <1>1 DEF LifetimeOver, Unused, Granted
<1>2. CASE Joining
  BY <1>2 DEF Joining, Subscribe, HomeCommits, Ack, ProbeOk, Unused, Granted
<1>3. CASE Working
  BY <1>3, WorkFrame DEF Unused, Granted
<1>4. CASE Flushing
  BY <1>4, FlushFrame DEF Unused, Granted
<1>5. CASE Supervising
  <2>1. Granted' = Granted /\ released' = released
    BY <1>5, SuperviseFrame DEF Granted
  <2>2. reg' = reg \/ (Replace /\ reg' = reg + 1)
    BY <1>5 DEF Supervising, StartLifetime, Detach, CloseClient, Settle, Replace,
       SettleExpires, LeaveLoop, StopDrained, StopFlushed, StopExpires, StopClose, Deferred
  <2>3. CASE Replace
    BY <2>3, ReplacedUnused
  <2> QED BY <2>1, <2>2, <2>3 DEF Unused
<1>6. ASSUME NEW d \in Dispatches, Dispatching(d) PROVE Reached
  <2>1. CASE HomeGrants(d)
    BY <2>1, GrantsReach
  <2>2. CASE EndScope(d)
    BY <2>2 DEF EndScope, Unused, Granted
  <2>3. CASE ~HomeGrants(d) /\ ~EndScope(d)
    BY <1>6, <2>3, GrantedMoves, DispatchFrame DEF Unused
  <2> QED BY <2>1, <2>2, <2>3
<1>7. CASE Stop \/ HomeForgets
  BY <1>7 DEF Stop, HomeForgets, Unused, Granted
<1>8. CASE UNCHANGED vars
  BY <1>8 DEF Unused, Granted
<1> QED BY StepCases, <1>1, <1>2, <1>3, <1>4, <1>5, <1>6, <1>7, <1>8

\* A client reaches dispatches in its receive loop.
LEMMA FirstReach ==
  ASSUME TypeOK, DispatchInv, [Next]_vars, Reached'
  PROVE  Reached \/ lifePc = "receive" \/ lifePc' = "receive"
<1> USE DEF Reached
<1>1. CASE LifetimeOver
  BY <1>1 DEF LifetimeOver
<1>2. CASE Joining
  BY <1>2 DEF Joining, Subscribe, HomeCommits, Ack, ProbeOk
<1>3. CASE Working
  BY <1>3 DEF Working, WorkerCommit, WorkerPublish, WorkerExit, closeHomeClientOnCancellation
<1>4. CASE Flushing
  BY <1>4, FlushFrame
<1>5. CASE Supervising
  <2>1. CASE StartLifetime
    <3>1. life' = life + 1 /\ life \in Nat
      BY <2>1 DEF StartLifetime, TypeOK
    <3>2. bundle # NoBundle => bundle.client # life'
      BY <3>1 DEF DispatchInv, OfLife
    <3>3. \A d \in Dispatches : dPc[d] # "idle" => dBundle[d].client # life'
      BY <3>1 DEF DispatchInv, DispatchOK, OfLife
    <3> QED BY <2>1, <3>2, <3>3 DEF StartLifetime
  <2>2. CASE Detach
    BY <2>2 DEF Detach
  <2>3. CASE CloseClient \/ Settle \/ Replace \/ SettleExpires \/ LeaveLoop
    BY <2>3 DEF CloseClient, Settle, Replace, SettleExpires, LeaveLoop
  <2>4. CASE StopDrained \/ StopFlushed \/ StopExpires \/ StopClose \/ Deferred
    BY <2>4 DEF StopDrained, StopFlushed, StopExpires, StopClose, Deferred
  <2> QED BY <1>5, <2>1, <2>2, <2>3, <2>4 DEF Supervising
<1>6. ASSUME NEW d \in Dispatches, Dispatching(d)
      PROVE  Reached \/ lifePc = "receive"
  <2>1. UNCHANGED <<life, lifePc, workerPc, bundle>>
    BY <1>6, DispatchFrame
  <2>2. fenced \subseteq fenced'
    BY <1>6 DEF Dispatching, LoadBundle, BeginDispatch, BeginRefused, DispatchRefused, Retry,
                HomeGrants, ReplyLost, Abort, EndPending, Install, Validate, ReplyContradicts,
                EndScope, TellSink, AbortAmbiguousDispatch
  <2>3. CASE LoadBundle(d)
    BY <2>3 DEF LoadBundle, HeartbeatOK
  <2>4. CASE ~LoadBundle(d)
    <3>1. /\ dPc'[d] # "idle" => dPc[d] # "idle" /\ dBundle'[d] = dBundle[d]
      BY <1>6, <2>4 DEF TypeOK, Move, Dispatching, BeginDispatch, BeginRefused,
         DispatchRefused, Retry, HomeGrants, ReplyLost, Abort, EndPending, Install, Validate,
         ReplyContradicts, EndScope, TellSink
    <3> QED BY <1>6, <2>1, <2>2, <3>1, OnlyOneMoves
  <2> QED BY <2>3, <2>4
<1>7. CASE Stop \/ HomeForgets
  BY <1>7 DEF Stop, HomeForgets
<1>8. CASE UNCHANGED vars
  BY <1>8
<1> QED BY StepCases, <1>1, <1>2, <1>3, <1>4, <1>5, <1>6, <1>7, <1>8

\* A step that neither joins Home nor replaces the registry brings nothing new
\* into use.
LEMMA InUseNext ==
  ASSUME TypeOK, SupervisorInv, FenceInv, RegistryInv, DispatchInv, [Next]_vars,
         ~HomeCommits, ~ProbeOk, ~Replace, InUse'
  PROVE  InUse
<1>1. recovery' \in Eligible => recovery \in Eligible \/ lifePc \in Joined
  BY StepCases, DispatchFrame, FlushFrame, WorkFrame
     DEF LifetimeOver, Joining, Subscribe, Ack, Supervising, StartLifetime, Detach,
         CloseClient, Settle, SettleExpires, LeaveLoop, StopDrained, StopFlushed,
         StopExpires, StopClose, Deferred, Stop, HomeForgets, Joined
<1>2. lifePc' \in Joined => lifePc \in Joined
  BY StepCases, DispatchFrame, FlushFrame, WorkFrame
     DEF LifetimeOver, Joining, Subscribe, Ack, Supervising, StartLifetime, Detach,
         CloseClient, Settle, SettleExpires, LeaveLoop, StopDrained, StopFlushed,
         StopExpires, StopClose, Deferred, Stop, HomeForgets, Joined
<1>3. Reached' => Reached \/ lifePc \in Joined
  BY <1>2, FirstReach DEF Joined
<1>4. ~Unused' => ~Unused \/ Reached
  BY FirstUse
<1> QED BY <1>1, <1>2, <1>3, <1>4 DEF InUse

LEMMA CountNext ==
  ASSUME TypeOK, SupervisorInv, FenceInv, RegistryInv, DispatchInv, CountInv, TakeoverInv,
         [Next]_vars
  PROVE  CountInv'
<1>0. /\ released[reg] \in Nat /\ grants \in Nat /\ homeSeq \in Nat /\ relSeq \in Nat
      /\ Cardinality(Granted) \in Nat
  BY GrantedFinite DEF TypeOK
<1>1. CASE HomeCommits
  <2>1. UNCHANGED <<released, reg, dPc>> /\ Granted' = Granted
    BY <1>1 DEF HomeCommits, Granted
  <2>2. CASE takeover
    <3>1. Counted
      BY <1>1, <2>2 DEF HomeCommits, takeover, CountInv, InUse, Eligible
    <3> QED BY <1>1, <2>1, <2>2, <3>1 DEF HomeCommits, CountInv, Counted
  <2>3. CASE ~takeover
    <3>1. Unused
      BY <1>1, <2>3 DEF HomeCommits, TakeoverInv, SupervisorInv
    <3>2. Cardinality(Granted) = 0
      BY <3>1, FS_EmptySet DEF Unused
    <3>3. grants' = 0 /\ homeSeq' = 0
      BY <1>1, <2>3 DEF HomeCommits
    <3> QED BY <2>1, <3>1, <3>2, <3>3 DEF Unused, CountInv, Counted
  <2> QED BY <2>2, <2>3
<1>2. CASE ProbeOk
  <2>1. Counted
    BY <1>2 DEF ProbeOk, CountInv, InUse, Joined, SupervisorInv
  <2> QED BY <1>2, <2>1 DEF ProbeOk, CountInv, Counted, Granted
<1>3. CASE Replace
  <2>1. recovery' \notin Eligible
    BY <1>3 DEF Replace, SuppressTakeover, Eligible, TypeOK, RecoveryStates
  <2>2. lifePc' \notin Joined
    BY <1>3 DEF Replace, SupervisorInv, Joined
  <2>3. ~Reached'
    BY <1>3, ReplacedUnreached
  <2>4. Unused'
    BY <1>3, ReplacedUnused
  <2> QED BY <2>1, <2>2, <2>3, <2>4 DEF InUse, CountInv
<1>4. CASE ~HomeCommits /\ ~ProbeOk /\ ~Replace
  <2> SUFFICES ASSUME member', InUse' PROVE Counted'
    BY DEF CountInv
  <2>1. InUse
    BY <1>4, InUseNext
  <2>2. member /\ ~HomeForgets
    <3>1. ~HomeForgets
      BY DEF HomeForgets
    <3> QED BY <1>4, <3>1, StepCases, DispatchFrame, FlushFrame, WorkFrame, SuperviseFrame
            DEF LifetimeOver, Joining, Subscribe, Ack, Stop
  <2>3. Counted
    BY <2>1, <2>2 DEF CountInv
  <2>4. CASE \E d \in Dispatches : Dispatching(d)
    BY <2>3, <2>4, CountedMoves
  <2>5. CASE Flushing
    <3>1. UNCHANGED <<released, reg, grants>> /\ Granted' = Granted
      BY <2>5, FlushFrame DEF Granted
    <3>2. homeSeq' = homeSeq \/ (relPc = "send" /\ homeSeq' = relSeq)
      BY <2>5 DEF Flushing, SendRelease, ReleaseAccepted, ReleaseFails, ReleaseStops,
                  HomeReleases
    <3>3. homeSeq' <= released[reg]
      BY <1>0, <2>3, <3>2 DEF Counted, RegistryInv
    <3> QED BY <2>3, <3>1, <3>3 DEF Counted
  <2>6. CASE Supervising
    <3>1. reg' = reg
      BY <1>4, <2>6 DEF Supervising, StartLifetime, Detach, CloseClient, Settle,
         SettleExpires, LeaveLoop, StopDrained, StopFlushed, StopExpires, StopClose, Deferred
    <3> QED BY <2>3, <2>6, <3>1, SuperviseFrame DEF Counted, Granted
  <2>7. CASE LifetimeOver \/ Working \/ Stop \/ UNCHANGED vars
    BY <2>3, <2>7, WorkFrame DEF LifetimeOver, Stop, Counted, Granted
  <2>8. CASE Joining
    BY <1>4, <2>3, <2>8 DEF Joining, Subscribe, Ack, Counted, Granted
  <2> QED BY <2>2, <2>4, <2>5, <2>6, <2>7, <2>8, StepCases
<1> QED BY <1>1, <1>2, <1>3, <1>4

-----------------------------------------------------------------------------
(* What a lifetime without takeover begins with *)

\* What can take over, or is to be drained, stays so.
LEMMA TakeoverNext ==
  ASSUME TypeOK, SupervisorInv, FenceInv, RegistryInv, DispatchInv, TakeoverInv, [Next]_vars
  PROVE  TakeoverInv'
<1>1. CASE Unused /\ ~Reached /\ lifePc # "receive"
  <2>1. CASE lifePc' = "receive"
    BY <2>1 DEF TakeoverInv
  <2>2. CASE lifePc' # "receive"
    BY <1>1, <2>2, FirstUse, FirstReach DEF TakeoverInv
  <2> QED BY <2>1, <2>2
<1>2. CASE lifePc = "receive"
  <2>1. supPc = "run"
    BY <1>2 DEF SupervisorInv
  <2>2. CASE LifetimeOver
    <3>1. UNCHANGED <<stop, legacy, life, ambiguous>> /\ supPc' = "ended"
      BY <2>2 DEF LifetimeOver
    <3>2. CASE stop
      BY <3>1, <3>2 DEF TakeoverInv
    <3>3. CASE ~stop /\ life \in fenced
      <4>1. unsafe'
        BY <2>1, <3>1, <3>3 DEF FenceInv, unsafe
      <4> QED BY <3>1, <4>1 DEF TakeoverInv
    <3>4. CASE recovery' \in Eligible /\ legacy
      <4>1. unsafe'
        BY <3>1, <3>4 DEF unsafe
      <4> QED BY <3>1, <4>1 DEF TakeoverInv
    <3>5. CASE recovery' \in Eligible /\ ~legacy
      BY <3>1, <3>5 DEF TakeoverInv, takeover, Eligible
    <3> QED BY <1>2, <2>2, <3>2, <3>3, <3>4, <3>5 DEF LifetimeOver
  <2>3. CASE ~LifetimeOver
    <3>1. lifePc' = lifePc
      BY <1>2, <2>1, <2>3, StepCases, DispatchFrame, FlushFrame, WorkFrame
         DEF Joining, Subscribe, HomeCommits, Ack, ProbeOk, Supervising, StartLifetime, Detach,
             CloseClient, Settle, Replace, SettleExpires, LeaveLoop, StopDrained, StopFlushed,
             StopExpires, StopClose, Deferred, Stop, HomeForgets
    <3> QED BY <1>2, <3>1 DEF TakeoverInv
  <2> QED BY <2>2, <2>3
<1>3. CASE takeover /\ lifePc # "receive"
  <2>1. CASE Replace
    BY <2>1, ReplacedUnused, ReplacedUnreached DEF TakeoverInv
  <2>2. CASE Settle
    <3>1. CASE unsafe
      BY <2>2, <3>1 DEF Settle, TakeoverInv
    <3>2. CASE ~unsafe
      BY <1>3, <2>2, <3>2 DEF Settle, unsafe, TakeoverInv, takeover
    <3> QED BY <3>1, <3>2
  <2>3. CASE ~Replace /\ ~Settle
    <3>1. legacy' = legacy
      BY <2>3, StepCases, DispatchFrame, FlushFrame, WorkFrame
         DEF LifetimeOver, Joining, Subscribe, HomeCommits, Ack, ProbeOk, Supervising,
             StartLifetime, Detach, CloseClient, SettleExpires, LeaveLoop, StopDrained,
             StopFlushed, StopExpires, StopClose, Deferred, Stop, HomeForgets
    <3>2. recovery' \in Eligible \/ lifePc' = "receive"
      <4>1. recovery \in Eligible
        BY <1>3 DEF takeover, Eligible
      <4>2. Ack => recovery' = recovery
        BY <4>1 DEF Ack, markedEligible, Eligible
      <4> QED
        BY <1>3, <2>3, <4>1, <4>2, StepCases, DispatchFrame, FlushFrame, WorkFrame
           DEF LifetimeOver, Joining, Subscribe, HomeCommits, ProbeOk, Supervising,
               StartLifetime, Detach, CloseClient, SettleExpires, LeaveLoop, StopDrained,
               StopFlushed, StopExpires, StopClose, Deferred, Stop, HomeForgets
    <3> QED BY <1>3, <3>1, <3>2 DEF TakeoverInv, takeover, Eligible
  <2> QED BY <2>1, <2>2, <2>3
<1>4. CASE \/ supPc \in {"ended", "releaseStop", "settle"} /\ unsafe
           \/ supPc = "ended" /\ stop
           \/ supPc \in {"drain", "stopDrain", "stopFlush", "stopClose", "deferred", "done"}
  <2>1. CASE Replace
    BY <2>1, ReplacedUnused, ReplacedUnreached DEF TakeoverInv
  <2>2. CASE Supervising /\ ~Replace
    <3>1. CASE Detach
      BY <1>4, <3>1 DEF Detach, unsafe, TakeoverInv
    <3>2. CASE CloseClient
      BY <1>4, <3>2 DEF CloseClient, unsafe, TakeoverInv
    <3>3. CASE Settle
      BY <1>4, <3>3 DEF Settle, TakeoverInv
    <3>4. CASE StartLifetime \/ LeaveLoop
      BY <1>4, <3>4 DEF StartLifetime, LeaveLoop
    <3>5. CASE SettleExpires \/ StopDrained \/ StopFlushed \/ StopExpires \/ StopClose
               \/ Deferred
      <4>1. supPc' \in {"stopFlush", "stopClose", "deferred", "done"}
        BY <3>5 DEF SettleExpires, StopDrained, StopFlushed, StopExpires, StopClose, Deferred
      <4> QED BY <4>1 DEF TakeoverInv
    <3> QED BY <2>2, <3>1, <3>2, <3>3, <3>4, <3>5 DEF Supervising
  <2>3. CASE ~Supervising
    <3>1. supPc # "run" /\ lifePc = "over"
      BY <1>4 DEF SupervisorInv
    <3>2. UNCHANGED <<supPc, life, legacy, errRun>> /\ (UNCHANGED stop \/ Stop)
      BY <2>3, <3>1, StepCases, DispatchFrame, FlushFrame, WorkFrame
         DEF LifetimeOver, Joining, Subscribe, HomeCommits, Ack, ProbeOk, Stop, HomeForgets
    <3>3. stop => stop'
      BY <3>2, Zenon DEF Stop
    <3>4. ambiguous \subseteq ambiguous'
      <4>1. ASSUME NEW d \in Dispatches, Dispatching(d) PROVE ambiguous \subseteq ambiguous'
        BY <4>1 DEF Dispatching, LoadBundle, BeginDispatch, BeginRefused, DispatchRefused,
           Retry, HomeGrants, ReplyLost, Abort, EndPending, Install, Validate,
           ReplyContradicts, EndScope, TellSink, AbortAmbiguousDispatch
      <4> QED BY <2>3, <3>1, <4>1, StepCases, FlushFrame, WorkFrame
              DEF LifetimeOver, Joining, Subscribe, HomeCommits, Ack, ProbeOk, Stop, HomeForgets
    <3>5. unsafe => unsafe'
      BY <3>2, <3>4 DEF unsafe
    <3> QED BY <1>4, <3>2, <3>3, <3>5 DEF TakeoverInv
  <2> QED BY <2>1, <2>2, <2>3
<1> QED BY <1>1, <1>2, <1>3, <1>4 DEF TakeoverInv

-----------------------------------------------------------------------------
(* The invariant, and the refinement *)

LEMMA IInvInit == Init => IInv
<1> SUFFICES ASSUME Init PROVE IInv
  OBVIOUS
<1>1. TypeOK
  BY TypeInit
<1>2. SupervisorInv
  BY DEF Init, SupervisorInv, Joined
<1>3. FenceInv
  BY DEF Init, FenceInv
<1>4. RegistryInv
  BY DEF Init, RegistryInv, Registries
<1>5. DispatchInv
  BY DEF Init, DispatchInv, DispatchOK
<1>6. CountInv
  BY DEF Init, CountInv
<1>7. Unused /\ ~Reached
  BY DEF Init, Unused, Granted, Reached, Registries
<1> QED BY <1>1, <1>2, <1>3, <1>4, <1>5, <1>6, <1>7 DEF IInv, TakeoverInv

LEMMA IInvNext == IInv /\ [Next]_vars => IInv'
<1> SUFFICES ASSUME IInv, [Next]_vars PROVE IInv'
  OBVIOUS
<1> QED
  BY TypeNext, SupervisorNext, FenceNext, RegistryNext, DispatchNext, CountNext, TakeoverNext
     DEF IInv

LEMMA Inductive == Spec => []IInv
  BY IInvInit, IInvNext, PTL DEF Spec

\* What runs is granted, and Home counts it whenever it counts this registry.
LEMMA HeldCovers ==
  ASSUME IInv
  PROVE  /\ member /\ InUse => Cardinality(Granted) <= Held
         /\ Cardinality(Executing) <= Cardinality(Granted)
         /\ Cardinality(Executing) \in Nat /\ Cardinality(Granted) \in Nat
         /\ Held \in Int
<1>1. /\ released[reg] \in Nat /\ grants \in Nat /\ homeSeq \in Nat
  BY DEF IInv, TypeOK
<1>2. Executing \subseteq Granted
  BY DEF Executing, Granted
<1>3. Cardinality(Executing) <= Cardinality(Granted)
  BY <1>2, GrantedFinite, FS_Subset
<1>4. member /\ InUse => Cardinality(Granted) <= Held
  BY <1>1, GrantedFinite DEF IInv, CountInv, Counted, Held
<1> QED BY <1>1, <1>3, <1>4, GrantedFinite DEF Held

\* Only installing and ending change what runs.
LEMMA ExecutingMoves ==
  ASSUME TypeOK, NEW d \in Dispatches, Dispatching(d)
  PROVE  \/ /\ Install(d) /\ d \in Granted /\ d \notin Executing
            /\ Executing' = Executing \cup {d} /\ UNCHANGED grants
         \/ /\ EndScope(d) /\ d \in Executing /\ Executing' = Executing \ {d}
            /\ UNCHANGED grants
         \/ Executing' = Executing /\ UNCHANGED grants
         \/ Executing' = Executing /\ grants' = grants + 1
<1> USE DEF Executing, Granted, Move
<1>0. dPc \in [Dispatches -> DispatchPcs]
  BY DEF TypeOK
<1>1. CASE Install(d)
  BY <1>0, <1>1 DEF Install
<1>2. CASE EndScope(d)
  BY <1>0, <1>2 DEF EndScope
<1>3. CASE HomeGrants(d)
  BY <1>0, <1>3 DEF HomeGrants
<1>4. CASE LoadBundle(d) \/ BeginDispatch(d) \/ BeginRefused(d) \/ DispatchRefused(d)
  BY <1>0, <1>4 DEF LoadBundle, BeginDispatch, BeginRefused, DispatchRefused, Retry
<1>5. CASE ReplyLost(d) \/ Abort(d) \/ EndPending(d) \/ TellSink(d)
  BY <1>0, <1>5 DEF ReplyLost, Abort, EndPending, TellSink
<1>6. CASE Validate(d) \/ ReplyContradicts(d)
  BY <1>0, <1>6 DEF Validate, ReplyContradicts
<1> QED BY <1>1, <1>2, <1>3, <1>4, <1>5, <1>6 DEF Dispatching

Online == lifePc = "receive"

\* Every step of a lifetime is one of the promise, or none of it.
LEMMA StepImplements ==
  ASSUME IInv, [Next]_vars
  PROVE  \/ Accounting!Next
         \/ UNCHANGED <<Held, Cardinality(Executing), Online>>
<1> USE DEF Online
<1>0. TypeOK /\ SupervisorInv /\ RegistryInv /\ DispatchInv /\ TakeoverInv
  BY DEF IInv
<1>1. CASE LifetimeOver
  <2>1. UNCHANGED <<grants, homeSeq, dPc>> /\ lifePc' = "over"
    BY <1>1 DEF LifetimeOver
  <2>2. Accounting!Leave
    BY <2>1 DEF Accounting!Leave, Held, Executing
  <2> QED BY <2>2 DEF Accounting!Next
<1>2. CASE Joining
  <2>1. Executing' = Executing
    BY <1>2 DEF Joining, Subscribe, HomeCommits, Ack, ProbeOk, Executing
  <2>2. CASE ProbeOk
    <3>1. member /\ InUse
      BY <1>0, <2>2 DEF ProbeOk, SupervisorInv, InUse, Joined
    <3>2. Cardinality(Executing) <= Held
      BY <3>1, HeldCovers
    <3>3. Accounting!Join
      BY <2>1, <2>2, <3>2 DEF ProbeOk, Held, Accounting!Join
    <3> QED BY <3>3 DEF Accounting!Next
  <2>3. CASE HomeCommits
    <3>1. CASE takeover
      BY <2>1, <2>3, <3>1 DEF HomeCommits, Held
    <3>2. CASE ~takeover
      <4>1. Held' = 0 /\ lifePc = "ack" /\ lifePc' = "committed"
        BY <2>3, <3>2 DEF HomeCommits, Held
      <4>2. Accounting!Forget
        BY <2>1, <4>1 DEF Accounting!Forget
      <4> QED BY <4>2 DEF Accounting!Next
    <3> QED BY <3>1, <3>2
  <2>4. CASE Subscribe \/ Ack
    BY <2>1, <2>4 DEF Subscribe, Ack, Held
  <2> QED BY <1>2, <2>2, <2>3, <2>4 DEF Joining
<1>3. CASE Working
  BY <1>3, WorkFrame DEF Held, Executing
<1>4. CASE Flushing
  <2>1. UNCHANGED <<lifePc, grants, dPc, member>> /\ Executing' = Executing
    BY <1>4, FlushFrame DEF Executing
  <2>2. CASE homeSeq' = homeSeq
    BY <2>1, <2>2 DEF Held
  <2>3. CASE homeSeq' # homeSeq
    <3>1. member /\ relPc = "send" /\ homeSeq' = relSeq /\ relSeq > homeSeq
      BY <1>4, <2>3 DEF Flushing, SendRelease, ReleaseAccepted, ReleaseFails, ReleaseStops,
                        HomeReleases
    <3>2. /\ released[reg] \in Nat /\ grants \in Nat /\ homeSeq \in Nat /\ relSeq \in Nat
      BY <1>0 DEF TypeOK
    <3>3. 0 < relSeq /\ relSeq <= released[reg]
      BY <1>0, <3>1 DEF RegistryInv
    <3>4. Counted
      BY <3>1, <3>2, <3>3 DEF IInv, CountInv, InUse, Unused
    <3>5. Cardinality(Executing) <= Held' /\ Held' < Held /\ Held' \in Int
      BY <2>1, <3>1, <3>2, <3>3, <3>4, HeldCovers DEF Counted, Held
    <3>6. Accounting!Release
      BY <2>1, <3>5 DEF Accounting!Release
    <3> QED BY <3>6 DEF Accounting!Next
  <2> QED BY <2>2, <2>3
<1>5. CASE Supervising
  <2>1. UNCHANGED <<grants, homeSeq, dPc>>
    BY <1>5, SuperviseFrame
  <2>2. Online' = Online
    BY <1>0, <1>5 DEF SupervisorInv, Supervising, StartLifetime, Detach, CloseClient, Settle,
       Replace, SettleExpires, LeaveLoop, StopDrained, StopFlushed, StopExpires, StopClose,
       Deferred
  <2> QED BY <2>1, <2>2 DEF Held, Executing
<1>6. ASSUME NEW d \in Dispatches, Dispatching(d)
      PROVE  Accounting!Next \/ UNCHANGED <<Held, Cardinality(Executing), Online>>
  <2>1. UNCHANGED <<lifePc, homeSeq>> /\ Online' = Online /\ grants \in Nat /\ homeSeq \in Nat
    BY <1>0, <1>6, DispatchFrame DEF TypeOK
  <2>2. IsFiniteSet(Executing) /\ IsFiniteSet(Granted)
    BY GrantedFinite
  <2>3. CASE Executing' = Executing /\ UNCHANGED grants
    BY <2>1, <2>3 DEF Held
  <2>4. CASE Executing' = Executing /\ grants' = grants + 1
    <3>1. Held' = Held + 1
      BY <2>1, <2>4 DEF Held
    <3>2. Accounting!Grant
      BY <2>1, <2>4, <3>1 DEF Accounting!Grant
    <3> QED BY <3>2 DEF Accounting!Next
  <2>5. CASE /\ EndScope(d) /\ d \in Executing /\ Executing' = Executing \ {d}
             /\ UNCHANGED grants
    <3>1. Cardinality(Executing') = Cardinality(Executing) - 1
      BY <2>2, <2>5, FS_RemoveElement
    <3>2. Cardinality(Executing') \in Nat
      BY <2>2, <2>5, FS_RemoveElement, FS_CardinalityType
    <3>3. Held' = Held
      BY <2>1, <2>5 DEF Held
    <3>4. Accounting!Finish
      BY <2>1, <3>1, <3>2, <3>3, HeldCovers DEF Accounting!Finish
    <3> QED BY <3>4 DEF Accounting!Next
  <2>6. CASE /\ Install(d) /\ d \in Granted /\ d \notin Executing
             /\ Executing' = Executing \cup {d} /\ UNCHANGED grants
    <3>1. Cardinality(Executing') = Cardinality(Executing) + 1
      BY <2>2, <2>6, FS_AddElement
    <3>2. Cardinality(Executing') <= Cardinality(Granted)
      <4>1. Executing' \subseteq Granted
        BY <2>6 DEF Executing, Granted
      <4> QED BY <2>2, <4>1, FS_Subset
    <3>3. Online => Cardinality(Executing) < Held
      BY <1>0, <3>1, <3>2, HeldCovers DEF SupervisorInv, InUse, Joined
    <3>4. Held' = Held
      BY <2>1, <2>6 DEF Held
    <3>5. Accounting!Start
      BY <2>1, <3>1, <3>3, <3>4 DEF Accounting!Start
    <3> QED BY <3>5 DEF Accounting!Next
  <2> QED BY <1>0, <1>6, <2>3, <2>4, <2>5, <2>6, ExecutingMoves
<1>7. CASE Stop
  BY <1>7 DEF Stop, Held, Executing
<1>8. CASE HomeForgets
  <2>1. Held' = 0 /\ lifePc' = lifePc /\ lifePc # "receive" /\ Executing' = Executing
    BY <1>8 DEF HomeForgets, Held, Executing
  <2>2. Accounting!Forget
    BY <2>1 DEF Accounting!Forget
  <2> QED BY <2>2 DEF Accounting!Next
<1>9. CASE UNCHANGED vars
  BY <1>9 DEF Held, Executing
<1> QED BY <1>0, StepCases, <1>1, <1>2, <1>3, <1>4, <1>5, <1>6, <1>7, <1>8, <1>9

-----------------------------------------------------------------------------
\* The lifetimes of the Home connection keep their types.
THEOREM TypeCorrect == Spec => []TypeOK
<1>1. IInv => TypeOK
  BY DEF IInv
<1> QED BY <1>1, Inductive, PTL

\* While the node is a member Home's releases never pass what the registry
\* released, and its grants cover what runs, is granted, or has ended there.
THEOREM CountersAgree == Spec => [](member /\ InUse => Counted)
<1>1. IInv => (member /\ InUse => Counted)
  BY DEF IInv, CountInv
<1> QED BY <1>1, Inductive, PTL

\* A lifetime that joins Home afresh has a registry in which nothing was ever
\* granted or released: no execution is left behind uncounted.
THEOREM FreshJoinsAreClean ==
  Spec => [](lifePc \in {"connect", "ack"} /\ ~takeover => Unused)
<1>1. IInv => (lifePc \in {"connect", "ack"} /\ ~takeover => Unused)
  BY DEF IInv, TakeoverInv, SupervisorInv
<1> QED BY <1>1, Inductive, PTL

\* HomeLifetime implements HomeAccounting: over every order of losses,
\* takeovers and drains Home never counts fewer executions than run on a node
\* that is a member.
THEOREM LifetimesAccounted == Spec => Accounted
<1>1. Init => Accounting!Init
  <2> SUFFICES ASSUME Init PROVE Accounting!Init
    OBVIOUS
  <2>1. Executing = {}
    BY DEF Init, Executing
  <2>2. Cardinality(Executing) = 0
    BY <2>1, FS_EmptySet
  <2> QED BY <2>2 DEF Init, Held, Accounting!Init
<1>2. IInv /\ [Next]_vars => [Accounting!Next]_(Accounting!vars)
  BY StepImplements DEF Accounting!vars, Online
<1> QED BY <1>1, <1>2, Inductive, PTL DEF Spec, Accounted, Accounting!Spec

=============================================================================
