---------------------- MODULE ExecutionRegistryProofs ----------------------
(***************************************************************************)
(* Machine-checked theorems about the execution registry, for any number   *)
(* of dispatches, groups, sinks and concurrent callers.                    *)
(***************************************************************************)
EXTENDS ExecutionRegistry, FiniteSetTheorems, TLAPS

USE DEF lockVars, tokenVars, scopeVars, sinkVars, drainVars, closeVars, waitVars,
        threadVars, barrierVars, notLock, notToken, notScope, notSink, notDrain,
        notClose, notWait, notBarrier

-----------------------------------------------------------------------------
(* Type correctness *)

\* The initial registry, New(), is well typed.
LEMMA TypeInit == Init => TypeOK
<1> SUFFICES ASSUME Init PROVE TypeOK
  OBVIOUS
<1>1. TypeToken
  BY BoundsAssumption DEF Init, TypeToken, States, Ids
<1>2. TypeScope
  BY DEF Init, TypeScope, Resources, EndPcs, Calls
<1>3. TypeSink
  BY DEF Init, TypeSink, Replays
<1>4. TypeThreads
  BY BoundsAssumption DEF Init, TypeThreads, DrainPcs, ClosePcs, WaitPcs
<1>5. TypeFlags
  BY DEF Init, TypeFlags
<1>6. TypeBarrier
  BY BoundsAssumption DEF Init, TypeBarrier, Barriers
<1> QED
  BY <1>1, <1>2, <1>3, <1>4, <1>5, <1>6 DEF TypeOK

\* Every step of every goroutine keeps the registry well typed.
LEMMA TypeNext == TypeOK /\ [Next]_vars => TypeOK'
<1> SUFFICES ASSUME TypeOK, [Next]_vars PROVE TypeOK'
  OBVIOUS
<1> USE BoundsAssumption DEF TypeOK, TypeToken, TypeScope, TypeSink, TypeThreads, TypeFlags, TypeBarrier
<1>1. ASSUME BeginDispatchLock
       PROVE  TypeOK'
  BY <1>1 DEF BeginDispatchLock, Accepting, States, Ids
<1>2. ASSUME BeginDispatchCommit
       PROVE  TypeOK'
  BY SMTT(60), <1>2 DEF BeginDispatchCommit, States, Ids
<1>3. ASSUME InstallCommit
       PROVE  TypeOK'
  <2>1. muId \in Ids /\ "idle" \in EndPcs
    BY <1>3 DEF InstallCommit, EndPcs
  <2>2. endPc' \in [Ids -> EndPcs]
    BY <1>3, <2>1 DEF InstallCommit
  <2>3. spec' \in [Ids -> Groups \cup {Unaccounted}]
    BY <1>3, <2>1 DEF InstallCommit
  <2>4. pending' \subseteq Ids /\ scopes' \subseteq Ids
    BY <1>3, <2>1 DEF InstallCommit
  <2>5. signaled' \in [Threads -> BOOLEAN]
    BY <1>3 DEF InstallCommit, signalLocked
  <2> QED
    BY <1>3, <2>2, <2>3, <2>4, <2>5 DEF InstallCommit
<1>4. ASSUME NEW i \in Ids, PendingEnd(i)
       PROVE  TypeOK'
  BY <1>4 DEF PendingEnd, signalLocked, States, Ids, Threads
<1>5. ASSUME NEW i \in Ids, InstallLock(i)
       PROVE  TypeOK'
  BY SMTT(60), <1>5 DEF InstallLock, Accepting, States, Ids
<1>6. ASSUME NEW i \in Ids, InstallRefused(i)
       PROVE  TypeOK'
  BY <1>6 DEF InstallRefused, signalLocked, Accepting, States, Ids, Threads
<1>7. ASSUME BindCommit
       PROVE  TypeOK'
  BY SMTT(60), <1>7 DEF BindCommit, States, Ids, Resources, EndPcs, Calls
<1>8. ASSUME NEW i \in Ids, BindLock(i)
       PROVE  TypeOK'
  BY <1>8 DEF BindLock, Accepting, Active, States, Ids
<1>9. ASSUME NEW i \in Ids, ResourceClosed(i)
       PROVE  TypeOK'
  BY ZenonT(60), <1>9 DEF ResourceClosed, Resources, EndPcs, Calls, Ids
<1>10. ASSUME NEW i \in Ids, EndStart(i)
       PROVE  TypeOK'
  BY <1>10 DEF EndStart, Active, Resources, EndPcs, Calls, Ids
<1>11. ASSUME NEW i \in Ids, EndClose(i)
       PROVE  TypeOK'
  BY ZenonT(60), <1>11 DEF EndClose, startBoundResourceClose, hasCloseDone, Resources, EndPcs, Calls, Ids
<1>12. ASSUME NEW i \in Ids, EndWait(i)
       PROVE  TypeOK'
  BY ZenonT(60), <1>12 DEF EndWait, Resources, EndPcs, Calls, Ids
<1>13. ASSUME NEW i \in Ids, EndMark(i)
       PROVE  TypeOK'
  <2>1. CASE spec[i] = Unaccounted
    BY <1>13, <2>1 DEF EndMark, EndPcs
  <2>2. CASE spec[i] # Unaccounted
    <3>1. spec[i] \in Groups /\ releaseSequences[spec[i]] + 1 \in Nat
      BY <2>2
    <3>2. releaseSequences' \in [Groups -> Nat]
      BY <1>13, <2>2, <3>1 DEF EndMark, markReleasedLocked
    <3>3. call' \in [Ids -> Calls]
      BY SMTT(60), <1>13, <2>2, <3>1 DEF EndMark, markReleasedLocked, Calls
    <3> QED
      BY <1>13, <3>2, <3>3 DEF EndMark, EndPcs
  <2> QED
    BY <2>1, <2>2
<1>14. ASSUME NEW i \in Ids, EndSink(i)
       PROVE  TypeOK'
  <2>1. CASE call[i].sink = NoSink
    BY <1>14, <2>1 DEF EndSink, EndPcs
  <2>2. CASE call[i].sink # NoSink
    <3>1. call[i].sink \in Sinks /\ call[i].seq \in Nat
      BY <2>2 DEF Calls
    <3>2. delivered' \in [Sinks \X Groups -> Nat]
      BY ZenonT(60), <1>14, <2>2, <3>1 DEF EndSink, deliver
    <3> QED
      BY <1>14, <3>2 DEF EndSink, EndPcs
  <2> QED
    BY <2>1, <2>2
<1>15. ASSUME NEW i \in Ids, EndRemove(i)
       PROVE  TypeOK'
  BY <1>15 DEF EndRemove, signalLocked, Resources, EndPcs, Calls, Threads, Ids
<1>16. ASSUME NEW s \in Sinks \cup {NoSink}, SetReleaseSink(s)
       PROVE  TypeOK'
  BY SMTT(60), <1>16 DEF SetReleaseSink, replayTo, Replays, Calls, Ids
<1>17. ASSUME NEW r \in replay, ReplaySink(r)
       PROVE  TypeOK'
  BY <1>17 DEF ReplaySink, deliver, Replays, Calls, Ids
<1>18. ASSUME NEW t \in Drainers, DrainEnter(t)
       PROVE  TypeOK'
  BY ZenonT(60), <1>18 DEF DrainEnter, States, Ids, DrainPcs, ClosePcs, WaitPcs
<1>19. ASSUME NEW t \in Drainers, DrainSnapshot(t)
       PROVE  TypeOK'
  BY <1>19 DEF DrainSnapshot, DrainPcs, ClosePcs, WaitPcs, Ids
<1>20. ASSUME NEW t \in Drainers, NEW i \in Ids, DrainSweep(t, i)
       PROVE  TypeOK'
  BY ZenonT(60), <1>20 DEF DrainSweep, startBoundResourceClose, Resources, EndPcs, Calls, DrainPcs, ClosePcs, WaitPcs, Ids
<1>21. ASSUME NEW t \in Drainers, DrainSwept(t)
       PROVE  TypeOK'
  BY <1>21 DEF DrainSwept, DrainPcs, ClosePcs, WaitPcs, Ids
<1>22. ASSUME NEW t \in Drainers, DrainCheck(t)
       PROVE  TypeOK'
  BY ZenonT(60), <1>22 DEF DrainCheck, States, Ids, DrainPcs, ClosePcs, WaitPcs, Threads
<1>23. ASSUME NEW t \in Drainers, DrainWake(t)
       PROVE  TypeOK'
  BY <1>23 DEF DrainWake, DrainPcs, ClosePcs, WaitPcs, Ids
<1>24. ASSUME NEW t \in Drainers, DrainTimeout(t)
       PROVE  TypeOK'
  BY <1>24 DEF DrainTimeout, DrainPcs, ClosePcs, WaitPcs, Ids
<1>25. ASSUME NEW t \in Closers, CloseEnter(t)
       PROVE  TypeOK'
  BY ZenonT(60), <1>25 DEF CloseEnter, DrainPcs, ClosePcs, WaitPcs, Threads, Ids
<1>26. ASSUME NEW t \in Closers, CloseSwap(t)
       PROVE  TypeOK'
  BY SMTT(60), <1>26 DEF CloseSwap, States, Ids, DrainPcs, ClosePcs, WaitPcs
<1>27. ASSUME NEW t \in Closers, CloseSnapshot(t)
       PROVE  TypeOK'
  BY SMTT(60), <1>27 DEF CloseSnapshot, DrainPcs, ClosePcs, WaitPcs, Ids
<1>28. ASSUME NEW t \in Closers, NEW i \in Ids, CloseSweep(t, i)
       PROVE  TypeOK'
  <2>1. resource' \in [Ids -> Resources]
    BY <1>28 DEF CloseSweep, startBoundResourceClose, Resources
  <2>2. closePc' \in [Closers -> ClosePcs]
    BY <1>28 DEF CloseSweep, ClosePcs
  <2>5. closeAt' \in [Closers -> 0..MaxDispatches]
    BY SMTT(60), <1>28 DEF CloseSweep, Ids
  <2>3. \A u \in Closers : closePc'[u] = "await" => closeAt'[u] \in Ids
    BY <1>28 DEF CloseSweep
  <2>4. toClose' \in [Closers -> SUBSET Ids]
    BY <1>28 DEF CloseSweep
  <2> QED
    BY <1>28, <2>1, <2>2, <2>3, <2>4, <2>5 DEF CloseSweep
<1>29. ASSUME NEW t \in Closers, CloseAwait(t)
       PROVE  TypeOK'
  BY SMTT(60), <1>29 DEF CloseAwait, DrainPcs, ClosePcs, WaitPcs, Ids
<1>30. ASSUME NEW t \in Closers, CloseFinish(t)
       PROVE  TypeOK'
  BY <1>30 DEF CloseFinish, DrainPcs, ClosePcs, WaitPcs, Threads, Ids
<1>31. ASSUME NEW t \in Closers, CloseJoined(t)
       PROVE  TypeOK'
  BY ZenonT(60), <1>31 DEF CloseJoined, DrainPcs, ClosePcs, WaitPcs, Ids
<1>32. ASSUME NEW t \in Waiters, WaitPendingCheck(t)
       PROVE  TypeOK'
  BY ZenonT(60), <1>32 DEF WaitPendingCheck, DrainPcs, ClosePcs, WaitPcs, Threads, Ids
<1>33. ASSUME NEW t \in Waiters, WaitPendingWake(t)
       PROVE  TypeOK'
  BY <1>33 DEF WaitPendingWake, DrainPcs, ClosePcs, WaitPcs, Ids
<1>34. ASSUME NEW t \in Waiters, WaitPendingTimeout(t)
       PROVE  TypeOK'
  BY <1>34 DEF WaitPendingTimeout, DrainPcs, ClosePcs, WaitPcs, Ids
<1>35. ASSUME NEW b \in Barriers, ObserveBarrier(b)
       PROVE  TypeOK'
  BY <1>35 DEF ObserveBarrier, Barriers, Ids
<1>36. ASSUME FreezeInFlight
       PROVE  TypeOK'
  BY <1>36 DEF FreezeInFlight, BarrierBlocked, Barriers, Ids
<1>37. ASSUME UNCHANGED vars PROVE TypeOK'
  BY <1>37 DEF vars
<1> QED
  BY <1>1, <1>2, <1>3, <1>4, <1>5, <1>6, <1>7, <1>8, <1>9, <1>10, <1>11, <1>12, <1>13, <1>14, <1>15, <1>16, <1>17, <1>18, <1>19, <1>20, <1>21, <1>22, <1>23, <1>24, <1>25, <1>26, <1>27, <1>28, <1>29, <1>30, <1>31, <1>32, <1>33, <1>34, <1>35, <1>36, <1>37
     DEF Next, Token, Scope, ScopeStep, Sink, Drain, Close, WaitPending, Observe

\* The registry of registry.go is well typed in every reachable state.
THEOREM TypeCorrect == Spec => []TypeOK
  BY TypeInit, TypeNext, PTL DEF Spec

-----------------------------------------------------------------------------
(* Shutdown.  ShutdownInv says what the holder of mu knows, what a Drain    *)
(* or Close that took its snapshot knows, and how a scope's progress ties   *)
(* to the maps; none of the three properties is inductive without it.       *)

\* A new registry satisfies the shutdown invariant: nothing is in flight.
LEMMA ShutdownInit == Init => ShutdownInv
  BY SMTT(60) DEF Init, ShutdownInv, ScopeLife, LockHolder, DrainProgress, CloseProgress, AllClosed

\* A scope is in Registry.scopes exactly from Install to the end of End, and
\* what the holder of mu tested under the lock stays true until it unlocks.
LEMMA LifeNext ==
  TypeOK /\ ScopeLife /\ LockHolder /\ [Next]_vars => (ScopeLife /\ LockHolder)'
<1> SUFFICES ASSUME TypeOK, ScopeLife, LockHolder, [Next]_vars
             PROVE  (ScopeLife /\ LockHolder)'
  OBVIOUS
<1> USE BoundsAssumption DEF TypeOK, TypeToken, TypeScope, TypeSink, TypeThreads, TypeFlags, TypeBarrier, Resources, EndPcs,
       States, Ids, DrainPcs, ClosePcs, ScopeLife, LockHolder
<1>1. ASSUME BeginDispatchLock
       PROVE  (ScopeLife /\ LockHolder)'
  BY <1>1 DEF BeginDispatchLock, Accepting
<1>2. ASSUME BeginDispatchCommit
       PROVE  (ScopeLife /\ LockHolder)'
  BY <1>2 DEF BeginDispatchCommit
<1>3. ASSUME InstallCommit
       PROVE  (ScopeLife /\ LockHolder)'
  BY <1>3 DEF InstallCommit, signalLocked
<1>4. ASSUME NEW i \in Ids, PendingEnd(i)
       PROVE  (ScopeLife /\ LockHolder)'
  BY <1>4 DEF PendingEnd, signalLocked
<1>5. ASSUME NEW i \in Ids, InstallLock(i)
       PROVE  (ScopeLife /\ LockHolder)'
  BY <1>5 DEF InstallLock, Accepting
<1>6. ASSUME NEW i \in Ids, InstallRefused(i)
       PROVE  (ScopeLife /\ LockHolder)'
  BY <1>6 DEF InstallRefused, signalLocked, Accepting
<1>7. ASSUME BindCommit
       PROVE  (ScopeLife /\ LockHolder)'
  BY <1>7 DEF BindCommit
<1>8. ASSUME NEW i \in Ids, BindLock(i)
       PROVE  (ScopeLife /\ LockHolder)'
  BY <1>8 DEF BindLock, Accepting, Active
<1>9. ASSUME NEW i \in Ids, ResourceClosed(i)
       PROVE  (ScopeLife /\ LockHolder)'
  BY <1>9 DEF ResourceClosed
<1>10. ASSUME NEW i \in Ids, EndStart(i)
       PROVE  (ScopeLife /\ LockHolder)'
  BY <1>10 DEF EndStart, Active
<1>11. ASSUME NEW i \in Ids, EndClose(i)
       PROVE  (ScopeLife /\ LockHolder)'
  BY ZenonT(60), <1>11 DEF EndClose, startBoundResourceClose, hasCloseDone
<1>12. ASSUME NEW i \in Ids, EndWait(i)
       PROVE  (ScopeLife /\ LockHolder)'
  BY ZenonT(60), <1>12 DEF EndWait
<1>13. ASSUME NEW i \in Ids, EndMark(i)
       PROVE  (ScopeLife /\ LockHolder)'
  BY <1>13 DEF EndMark, markReleasedLocked
<1>14. ASSUME NEW i \in Ids, EndSink(i)
       PROVE  (ScopeLife /\ LockHolder)'
  BY <1>14 DEF EndSink, deliver
<1>15. ASSUME NEW i \in Ids, EndRemove(i)
       PROVE  (ScopeLife /\ LockHolder)'
  BY <1>15 DEF EndRemove, signalLocked
<1>16. ASSUME NEW s \in Sinks \cup {NoSink}, SetReleaseSink(s)
       PROVE  (ScopeLife /\ LockHolder)'
  BY <1>16 DEF SetReleaseSink, replayTo
<1>17. ASSUME NEW r \in replay, ReplaySink(r)
       PROVE  (ScopeLife /\ LockHolder)'
  BY <1>17 DEF ReplaySink, deliver
<1>18. ASSUME NEW t \in Drainers, DrainEnter(t)
       PROVE  (ScopeLife /\ LockHolder)'
  BY <1>18 DEF DrainEnter
<1>19. ASSUME NEW t \in Drainers, DrainSnapshot(t)
       PROVE  (ScopeLife /\ LockHolder)'
  BY <1>19 DEF DrainSnapshot
<1>20. ASSUME NEW t \in Drainers, NEW i \in Ids, DrainSweep(t, i)
       PROVE  (ScopeLife /\ LockHolder)'
  BY <1>20 DEF DrainSweep, startBoundResourceClose
<1>21. ASSUME NEW t \in Drainers, DrainSwept(t)
       PROVE  (ScopeLife /\ LockHolder)'
  BY <1>21 DEF DrainSwept
<1>22. ASSUME NEW t \in Drainers, DrainCheck(t)
       PROVE  (ScopeLife /\ LockHolder)'
  BY <1>22 DEF DrainCheck
<1>23. ASSUME NEW t \in Drainers, DrainWake(t)
       PROVE  (ScopeLife /\ LockHolder)'
  BY <1>23 DEF DrainWake
<1>24. ASSUME NEW t \in Drainers, DrainTimeout(t)
       PROVE  (ScopeLife /\ LockHolder)'
  BY <1>24 DEF DrainTimeout
<1>25. ASSUME NEW t \in Closers, CloseEnter(t)
       PROVE  (ScopeLife /\ LockHolder)'
  BY <1>25 DEF CloseEnter
<1>26. ASSUME NEW t \in Closers, CloseSwap(t)
       PROVE  (ScopeLife /\ LockHolder)'
  BY <1>26 DEF CloseSwap
<1>27. ASSUME NEW t \in Closers, CloseSnapshot(t)
       PROVE  (ScopeLife /\ LockHolder)'
  BY <1>27 DEF CloseSnapshot
<1>28. ASSUME NEW t \in Closers, NEW i \in Ids, CloseSweep(t, i)
       PROVE  (ScopeLife /\ LockHolder)'
  BY <1>28 DEF CloseSweep, startBoundResourceClose, hasCloseDone
<1>29. ASSUME NEW t \in Closers, CloseAwait(t)
       PROVE  (ScopeLife /\ LockHolder)'
  BY <1>29 DEF CloseAwait
<1>30. ASSUME NEW t \in Closers, CloseFinish(t)
       PROVE  (ScopeLife /\ LockHolder)'
  BY <1>30 DEF CloseFinish
<1>31. ASSUME NEW t \in Closers, CloseJoined(t)
       PROVE  (ScopeLife /\ LockHolder)'
  BY <1>31 DEF CloseJoined
<1>32. ASSUME NEW t \in Waiters, WaitPendingCheck(t)
       PROVE  (ScopeLife /\ LockHolder)'
  BY <1>32 DEF WaitPendingCheck
<1>33. ASSUME NEW t \in Waiters, WaitPendingWake(t)
       PROVE  (ScopeLife /\ LockHolder)'
  BY <1>33 DEF WaitPendingWake
<1>34. ASSUME NEW t \in Waiters, WaitPendingTimeout(t)
       PROVE  (ScopeLife /\ LockHolder)'
  BY <1>34 DEF WaitPendingTimeout
<1>35. ASSUME NEW b \in Barriers, ObserveBarrier(b)
       PROVE  (ScopeLife /\ LockHolder)'
  BY <1>35 DEF ObserveBarrier
<1>36. ASSUME FreezeInFlight
       PROVE  (ScopeLife /\ LockHolder)'
  BY <1>36 DEF FreezeInFlight, BarrierBlocked
<1>37. ASSUME UNCHANGED vars PROVE (ScopeLife /\ LockHolder)'
  BY SMTT(60), <1>37 DEF vars
<1> QED
  BY <1>1, <1>2, <1>3, <1>4, <1>5, <1>6, <1>7, <1>8, <1>9, <1>10, <1>11, <1>12, <1>13, <1>14, <1>15, <1>16, <1>17, <1>18, <1>19, <1>20, <1>21, <1>22, <1>23, <1>24, <1>25, <1>26, <1>27, <1>28, <1>29, <1>30, <1>31, <1>32, <1>33, <1>34, <1>35, <1>36, <1>37
     DEF Next, Token, Scope, ScopeStep, Sink, Drain, Close, WaitPending, Observe

\* What a Drain learnt from its compare-and-swap, snapshot and sweep stays true.
LEMMA DrainNext ==
  TypeOK /\ ScopeLife /\ LockHolder /\ DrainProgress /\ [Next]_vars => DrainProgress'
<1> SUFFICES ASSUME TypeOK, ScopeLife, LockHolder, DrainProgress, [Next]_vars
             PROVE  DrainProgress'
  OBVIOUS
<1> USE BoundsAssumption DEF TypeOK, TypeToken, TypeScope, TypeSink, TypeThreads, TypeFlags, TypeBarrier, Resources, EndPcs,
       States, Ids, DrainPcs, ClosePcs, ScopeLife, LockHolder, DrainProgress
<1>1. ASSUME BeginDispatchLock
       PROVE  DrainProgress'
  BY <1>1 DEF BeginDispatchLock, Accepting
<1>2. ASSUME BeginDispatchCommit
       PROVE  DrainProgress'
  BY <1>2 DEF BeginDispatchCommit
<1>3. ASSUME InstallCommit
       PROVE  DrainProgress'
  BY <1>3 DEF InstallCommit, signalLocked
<1>4. ASSUME NEW i \in Ids, PendingEnd(i)
       PROVE  DrainProgress'
  BY <1>4 DEF PendingEnd, signalLocked
<1>5. ASSUME NEW i \in Ids, InstallLock(i)
       PROVE  DrainProgress'
  BY <1>5 DEF InstallLock, Accepting
<1>6. ASSUME NEW i \in Ids, InstallRefused(i)
       PROVE  DrainProgress'
  BY <1>6 DEF InstallRefused, signalLocked, Accepting
<1>7. ASSUME BindCommit
       PROVE  DrainProgress'
  BY <1>7 DEF BindCommit
<1>8. ASSUME NEW i \in Ids, BindLock(i)
       PROVE  DrainProgress'
  BY <1>8 DEF BindLock, Accepting, Active
<1>9. ASSUME NEW i \in Ids, ResourceClosed(i)
       PROVE  DrainProgress'
  BY <1>9 DEF ResourceClosed
<1>10. ASSUME NEW i \in Ids, EndStart(i)
       PROVE  DrainProgress'
  BY <1>10 DEF EndStart, Active
<1>11. ASSUME NEW i \in Ids, EndClose(i)
       PROVE  DrainProgress'
  BY <1>11 DEF EndClose, startBoundResourceClose, hasCloseDone
<1>12. ASSUME NEW i \in Ids, EndWait(i)
       PROVE  DrainProgress'
  BY <1>12 DEF EndWait
<1>13. ASSUME NEW i \in Ids, EndMark(i)
       PROVE  DrainProgress'
  BY <1>13 DEF EndMark, markReleasedLocked
<1>14. ASSUME NEW i \in Ids, EndSink(i)
       PROVE  DrainProgress'
  BY <1>14 DEF EndSink, deliver
<1>15. ASSUME NEW i \in Ids, EndRemove(i)
       PROVE  DrainProgress'
  BY <1>15 DEF EndRemove, signalLocked
<1>16. ASSUME NEW s \in Sinks \cup {NoSink}, SetReleaseSink(s)
       PROVE  DrainProgress'
  BY <1>16 DEF SetReleaseSink, replayTo
<1>17. ASSUME NEW r \in replay, ReplaySink(r)
       PROVE  DrainProgress'
  BY <1>17 DEF ReplaySink, deliver
<1>18. ASSUME NEW t \in Drainers, DrainEnter(t)
       PROVE  DrainProgress'
  <2>1. CASE state = "Closed"
    <3>1. /\ drainPc' = [drainPc EXCEPT ![t] = "refused"]
          /\ UNCHANGED <<state, mu, resource, sweep, pending, scopes>>
      BY <1>18, <2>1 DEF DrainEnter
    <3>2. \A u \in Drainers : drainPc'[u] = drainPc[u] \/ drainPc'[u] = "refused"
      BY <3>1
    <3> QED
      BY <3>1, <3>2
  <2>2. CASE state # "Closed"
    <3>1. state' = "Draining" /\ drainPc' = [drainPc EXCEPT ![t] = "snapshot"]
      BY <1>18, <2>2 DEF DrainEnter
    <3>2. \A u \in Drainers : drainPc[u] # "done"
      BY <2>2
    <3> QED
      BY <1>18, <3>1, <3>2 DEF DrainEnter
  <2> QED
    BY <2>1, <2>2
<1>19. ASSUME NEW t \in Drainers, DrainSnapshot(t)
       PROVE  DrainProgress'
  BY <1>19 DEF DrainSnapshot
<1>20. ASSUME NEW t \in Drainers, NEW i \in Ids, DrainSweep(t, i)
       PROVE  DrainProgress'
  BY <1>20 DEF DrainSweep, startBoundResourceClose
<1>21. ASSUME NEW t \in Drainers, DrainSwept(t)
       PROVE  DrainProgress'
  BY <1>21 DEF DrainSwept
<1>22. ASSUME NEW t \in Drainers, DrainCheck(t)
       PROVE  DrainProgress'
  BY SMTT(60), <1>22 DEF DrainCheck
<1>23. ASSUME NEW t \in Drainers, DrainWake(t)
       PROVE  DrainProgress'
  BY <1>23 DEF DrainWake
<1>24. ASSUME NEW t \in Drainers, DrainTimeout(t)
       PROVE  DrainProgress'
  BY <1>24 DEF DrainTimeout
<1>25. ASSUME NEW t \in Closers, CloseEnter(t)
       PROVE  DrainProgress'
  BY <1>25 DEF CloseEnter
<1>26. ASSUME NEW t \in Closers, CloseSwap(t)
       PROVE  DrainProgress'
  BY <1>26 DEF CloseSwap
<1>27. ASSUME NEW t \in Closers, CloseSnapshot(t)
       PROVE  DrainProgress'
  BY <1>27 DEF CloseSnapshot
<1>28. ASSUME NEW t \in Closers, NEW i \in Ids, CloseSweep(t, i)
       PROVE  DrainProgress'
  BY <1>28 DEF CloseSweep, startBoundResourceClose, hasCloseDone
<1>29. ASSUME NEW t \in Closers, CloseAwait(t)
       PROVE  DrainProgress'
  BY <1>29 DEF CloseAwait
<1>30. ASSUME NEW t \in Closers, CloseFinish(t)
       PROVE  DrainProgress'
  BY <1>30 DEF CloseFinish
<1>31. ASSUME NEW t \in Closers, CloseJoined(t)
       PROVE  DrainProgress'
  BY <1>31 DEF CloseJoined
<1>32. ASSUME NEW t \in Waiters, WaitPendingCheck(t)
       PROVE  DrainProgress'
  BY <1>32 DEF WaitPendingCheck
<1>33. ASSUME NEW t \in Waiters, WaitPendingWake(t)
       PROVE  DrainProgress'
  BY <1>33 DEF WaitPendingWake
<1>34. ASSUME NEW t \in Waiters, WaitPendingTimeout(t)
       PROVE  DrainProgress'
  BY <1>34 DEF WaitPendingTimeout
<1>35. ASSUME NEW b \in Barriers, ObserveBarrier(b)
       PROVE  DrainProgress'
  BY <1>35 DEF ObserveBarrier
<1>36. ASSUME FreezeInFlight
       PROVE  DrainProgress'
  BY <1>36 DEF FreezeInFlight, BarrierBlocked
<1>37. ASSUME UNCHANGED vars PROVE DrainProgress'
  BY SMTT(60), <1>37 DEF vars
<1> QED
  BY <1>1, <1>2, <1>3, <1>4, <1>5, <1>6, <1>7, <1>8, <1>9, <1>10, <1>11, <1>12, <1>13, <1>14, <1>15, <1>16, <1>17, <1>18, <1>19, <1>20, <1>21, <1>22, <1>23, <1>24, <1>25, <1>26, <1>27, <1>28, <1>29, <1>30, <1>31, <1>32, <1>33, <1>34, <1>35, <1>36, <1>37
     DEF Next, Token, Scope, ScopeStep, Sink, Drain, Close, WaitPending, Observe

\* What a Close learnt from its swap, snapshot and waits stays true.
LEMMA CloseNext ==
  TypeOK /\ ScopeLife /\ LockHolder /\ CloseProgress /\ [Next]_vars => CloseProgress'
<1> SUFFICES ASSUME TypeOK, ScopeLife, LockHolder, CloseProgress, [Next]_vars
             PROVE  CloseProgress'
  OBVIOUS
<1> USE BoundsAssumption DEF TypeOK, TypeToken, TypeScope, TypeSink, TypeThreads, TypeFlags, TypeBarrier, Resources, EndPcs,
       States, Ids, DrainPcs, ClosePcs, ScopeLife, LockHolder, CloseProgress, AllClosed
<1>1. ASSUME BeginDispatchLock
       PROVE  CloseProgress'
  BY <1>1 DEF BeginDispatchLock, Accepting
<1>2. ASSUME BeginDispatchCommit
       PROVE  CloseProgress'
  BY <1>2 DEF BeginDispatchCommit
<1>3. ASSUME InstallCommit
       PROVE  CloseProgress'
  BY <1>3 DEF InstallCommit, signalLocked
<1>4. ASSUME NEW i \in Ids, PendingEnd(i)
       PROVE  CloseProgress'
  BY <1>4 DEF PendingEnd, signalLocked
<1>5. ASSUME NEW i \in Ids, InstallLock(i)
       PROVE  CloseProgress'
  BY <1>5 DEF InstallLock, Accepting
<1>6. ASSUME NEW i \in Ids, InstallRefused(i)
       PROVE  CloseProgress'
  BY <1>6 DEF InstallRefused, signalLocked, Accepting
<1>7. ASSUME BindCommit
       PROVE  CloseProgress'
  BY <1>7 DEF BindCommit
<1>8. ASSUME NEW i \in Ids, BindLock(i)
       PROVE  CloseProgress'
  BY <1>8 DEF BindLock, Accepting, Active
<1>9. ASSUME NEW i \in Ids, ResourceClosed(i)
       PROVE  CloseProgress'
  BY <1>9 DEF ResourceClosed
<1>10. ASSUME NEW i \in Ids, EndStart(i)
       PROVE  CloseProgress'
  BY <1>10 DEF EndStart, Active
<1>11. ASSUME NEW i \in Ids, EndClose(i)
       PROVE  CloseProgress'
  BY <1>11 DEF EndClose, startBoundResourceClose, hasCloseDone
<1>12. ASSUME NEW i \in Ids, EndWait(i)
       PROVE  CloseProgress'
  BY <1>12 DEF EndWait
<1>13. ASSUME NEW i \in Ids, EndMark(i)
       PROVE  CloseProgress'
  BY <1>13 DEF EndMark, markReleasedLocked
<1>14. ASSUME NEW i \in Ids, EndSink(i)
       PROVE  CloseProgress'
  BY <1>14 DEF EndSink, deliver
<1>15. ASSUME NEW i \in Ids, EndRemove(i)
       PROVE  CloseProgress'
  BY <1>15 DEF EndRemove, signalLocked
<1>16. ASSUME NEW s \in Sinks \cup {NoSink}, SetReleaseSink(s)
       PROVE  CloseProgress'
  BY <1>16 DEF SetReleaseSink, replayTo
<1>17. ASSUME NEW r \in replay, ReplaySink(r)
       PROVE  CloseProgress'
  BY <1>17 DEF ReplaySink, deliver
<1>18. ASSUME NEW t \in Drainers, DrainEnter(t)
       PROVE  CloseProgress'
  BY <1>18 DEF DrainEnter
<1>19. ASSUME NEW t \in Drainers, DrainSnapshot(t)
       PROVE  CloseProgress'
  BY <1>19 DEF DrainSnapshot
<1>20. ASSUME NEW t \in Drainers, NEW i \in Ids, DrainSweep(t, i)
       PROVE  CloseProgress'
  BY <1>20 DEF DrainSweep, startBoundResourceClose
<1>21. ASSUME NEW t \in Drainers, DrainSwept(t)
       PROVE  CloseProgress'
  BY <1>21 DEF DrainSwept
<1>22. ASSUME NEW t \in Drainers, DrainCheck(t)
       PROVE  CloseProgress'
  BY <1>22 DEF DrainCheck
<1>23. ASSUME NEW t \in Drainers, DrainWake(t)
       PROVE  CloseProgress'
  BY <1>23 DEF DrainWake
<1>24. ASSUME NEW t \in Drainers, DrainTimeout(t)
       PROVE  CloseProgress'
  BY <1>24 DEF DrainTimeout
<1>25. ASSUME NEW t \in Closers, CloseEnter(t)
       PROVE  CloseProgress'
  BY <1>25 DEF CloseEnter
<1>26. ASSUME NEW t \in Closers, CloseSwap(t)
       PROVE  CloseProgress'
  BY <1>26 DEF CloseSwap
<1>27. ASSUME NEW t \in Closers, CloseSnapshot(t)
       PROVE  CloseProgress'
  <2>1. \A i \in Ids : resource[i] \in {"bound", "closing"} => i \in scopes
    OBVIOUS
  <2>2. toClose'[t] = scopes /\ closePc'[t] = "sweep" /\ state = "Closed" /\ closeStarted
    BY <1>27 DEF CloseSnapshot
  <2>3. \A u \in Closers : u # t => toClose'[u] = toClose[u] /\ closePc'[u] = closePc[u]
    BY <1>27 DEF CloseSnapshot
  <2> QED
    BY <1>27, <2>1, <2>2, <2>3 DEF CloseSnapshot
<1>28. ASSUME NEW t \in Closers, NEW i \in Ids, CloseSweep(t, i)
       PROVE  CloseProgress'
  BY <1>28 DEF CloseSweep, startBoundResourceClose, hasCloseDone
<1>29. ASSUME NEW t \in Closers, CloseAwait(t)
       PROVE  CloseProgress'
  BY <1>29 DEF CloseAwait
<1>30. ASSUME NEW t \in Closers, CloseFinish(t)
       PROVE  CloseProgress'
  BY ZenonT(60), <1>30 DEF CloseFinish
<1>31. ASSUME NEW t \in Closers, CloseJoined(t)
       PROVE  CloseProgress'
  BY <1>31 DEF CloseJoined
<1>32. ASSUME NEW t \in Waiters, WaitPendingCheck(t)
       PROVE  CloseProgress'
  BY <1>32 DEF WaitPendingCheck
<1>33. ASSUME NEW t \in Waiters, WaitPendingWake(t)
       PROVE  CloseProgress'
  BY <1>33 DEF WaitPendingWake
<1>34. ASSUME NEW t \in Waiters, WaitPendingTimeout(t)
       PROVE  CloseProgress'
  BY <1>34 DEF WaitPendingTimeout
<1>35. ASSUME NEW b \in Barriers, ObserveBarrier(b)
       PROVE  CloseProgress'
  BY <1>35 DEF ObserveBarrier
<1>36. ASSUME FreezeInFlight
       PROVE  CloseProgress'
  BY <1>36 DEF FreezeInFlight, BarrierBlocked
<1>37. ASSUME UNCHANGED vars PROVE CloseProgress'
  BY <1>37 DEF vars
<1> QED
  BY <1>1, <1>2, <1>3, <1>4, <1>5, <1>6, <1>7, <1>8, <1>9, <1>10, <1>11, <1>12, <1>13, <1>14, <1>15, <1>16, <1>17, <1>18, <1>19, <1>20, <1>21, <1>22, <1>23, <1>24, <1>25, <1>26, <1>27, <1>28, <1>29, <1>30, <1>31, <1>32, <1>33, <1>34, <1>35, <1>36, <1>37
     DEF Next, Token, Scope, ScopeStep, Sink, Drain, Close, WaitPending, Observe

\* The shutdown invariant holds in every reachable state.
THEOREM ShutdownCorrect == Spec => []ShutdownInv
<1>1. Init => ShutdownInv
  BY ShutdownInit
<1>2. TypeOK /\ ShutdownInv /\ [Next]_vars => ShutdownInv'
  BY LifeNext, DrainNext, CloseNext DEF ShutdownInv
<1> QED
  BY <1>1, <1>2, TypeCorrect, PTL DEF Spec

\* However Bind races Drain, a swept registry has no resource left bound.
THEOREM DrainSweepSafe == Spec => []SweepLeavesNothingBound
<1>1. ShutdownInv => SweepLeavesNothingBound
  BY DEF ShutdownInv, DrainProgress, SweepLeavesNothingBound
<1> QED
  BY <1>1, ShutdownCorrect, PTL

\* A Drain that returned nil left the registry closed and empty for good.
THEOREM DrainedSafe == Spec => []DrainedStaysEmpty
<1>1. ShutdownInv => DrainedStaysEmpty
  BY DEF ShutdownInv, DrainProgress, DrainedStaysEmpty
<1> QED
  BY <1>1, ShutdownCorrect, PTL

\* When any call of Close returns, every resource ever bound is closed.
THEOREM CloseSafe == Spec => []CloseReturnsAllClosed
<1>1. ShutdownInv => CloseReturnsAllClosed
  BY DEF ShutdownInv, CloseProgress, AllClosed, CloseReturnsAllClosed
<1> QED
  BY <1>1, ShutdownCorrect, PTL

-----------------------------------------------------------------------------
(* Releases.  A sink is called without mu, so calls overtake each other and *)
(* a replay; the invariant bounds every sequence on its way.                *)

\* A new registry has released nothing.
LEMMA ReleaseInit == Init => ReleaseInv
  BY SMTT(60) DEF Init, ReleaseInv, SequencesInFlight, NoOverRelease, NoReleaseLost

\* No End, replay or sink ever holds a sequence beyond the released ones, and
\* a scope past its sink call has been heard.
LEMMA FlightNext ==
  TypeOK /\ ScopeLife /\ LockHolder /\ SequencesInFlight /\ NoOverRelease /\ [Next]_vars => (SequencesInFlight /\ NoOverRelease)'
<1> SUFFICES ASSUME TypeOK, ScopeLife, LockHolder, SequencesInFlight, NoOverRelease, [Next]_vars
             PROVE  (SequencesInFlight /\ NoOverRelease)'
  OBVIOUS
<1> USE BoundsAssumption DEF TypeOK, TypeToken, TypeScope, TypeSink, TypeThreads, TypeFlags, TypeBarrier, Resources, EndPcs,
       Calls, Replays, Ids, ScopeLife, LockHolder, SequencesInFlight, NoOverRelease, Marked
<1>1. ASSUME BeginDispatchLock
       PROVE  (SequencesInFlight /\ NoOverRelease)'
  BY <1>1 DEF BeginDispatchLock, Accepting
<1>2. ASSUME BeginDispatchCommit
       PROVE  (SequencesInFlight /\ NoOverRelease)'
  BY <1>2 DEF BeginDispatchCommit
<1>3. ASSUME InstallCommit
       PROVE  (SequencesInFlight /\ NoOverRelease)'
  BY SMTT(60), <1>3 DEF InstallCommit, signalLocked
<1>4. ASSUME NEW i \in Ids, PendingEnd(i)
       PROVE  (SequencesInFlight /\ NoOverRelease)'
  BY <1>4 DEF PendingEnd, signalLocked
<1>5. ASSUME NEW i \in Ids, InstallLock(i)
       PROVE  (SequencesInFlight /\ NoOverRelease)'
  BY <1>5 DEF InstallLock, Accepting
<1>6. ASSUME NEW i \in Ids, InstallRefused(i)
       PROVE  (SequencesInFlight /\ NoOverRelease)'
  BY <1>6 DEF InstallRefused, signalLocked, Accepting
<1>7. ASSUME BindCommit
       PROVE  (SequencesInFlight /\ NoOverRelease)'
  BY <1>7 DEF BindCommit
<1>8. ASSUME NEW i \in Ids, BindLock(i)
       PROVE  (SequencesInFlight /\ NoOverRelease)'
  BY <1>8 DEF BindLock, Accepting, Active
<1>9. ASSUME NEW i \in Ids, ResourceClosed(i)
       PROVE  (SequencesInFlight /\ NoOverRelease)'
  BY <1>9 DEF ResourceClosed
<1>10. ASSUME NEW i \in Ids, EndStart(i)
       PROVE  (SequencesInFlight /\ NoOverRelease)'
  BY <1>10 DEF EndStart, Active
<1>11. ASSUME NEW i \in Ids, EndClose(i)
       PROVE  (SequencesInFlight /\ NoOverRelease)'
  BY <1>11 DEF EndClose, startBoundResourceClose, hasCloseDone
<1>12. ASSUME NEW i \in Ids, EndWait(i)
       PROVE  (SequencesInFlight /\ NoOverRelease)'
  BY <1>12 DEF EndWait
<1>13. ASSUME NEW i \in Ids, EndMark(i)
       PROVE  (SequencesInFlight /\ NoOverRelease)'
  <2>1. CASE spec[i] = Unaccounted
    BY <1>13, <2>1 DEF EndMark
  <2>2. CASE spec[i] # Unaccounted
    <3> DEFINE n == releaseSequences[spec[i]] + 1
    <3>1. spec[i] \in Groups /\ n \in Nat
      BY <2>2
    <3>2. /\ releaseSequences' = [releaseSequences EXCEPT ![spec[i]] = n]
          /\ call' = [call EXCEPT ![i] = [sink |-> releaseSink, seq |-> n]]
          /\ endPc' = [endPc EXCEPT ![i] = "sink"]
          /\ endPc[i] = "mark"
          /\ UNCHANGED <<spec, delivered, replay>>
      BY <1>13, <2>2 DEF EndMark, markReleasedLocked
    <3>3. \A g \in Groups : releaseSequences'[g] >= releaseSequences[g]
      BY <3>1, <3>2
    <3>4. \A j \in Ids : j # i => call'[j] = call[j] /\ endPc'[j] = endPc[j]
      BY <3>2
    <3>5. call'[i].seq = releaseSequences'[spec[i]] /\ endPc'[i] = "sink"
      BY <3>1, <3>2
    <3>6. \A j \in Ids : call'[j].sink # NoSink =>
              /\ Marked(j)' /\ spec'[j] \in Groups
              /\ call'[j].seq <= releaseSequences'[spec'[j]]
      <4> TAKE j \in Ids
      <4>1. CASE j = i
        BY <4>1, <3>1, <3>2, <3>5
      <4>2. CASE j # i
        BY SMTT(60), <4>2, <3>1, <3>2, <3>3, <3>4
      <4> QED
        BY <4>1, <4>2
    <3>7. \A r \in replay' : r.seq <= releaseSequences'[r.group]
      BY SMTT(60), <3>2, <3>3
    <3>8. \A s \in Sinks, g \in Groups : delivered'[<<s, g>>] <= releaseSequences'[g]
      <4> TAKE s \in Sinks, g \in Groups
      <4>1. /\ delivered[<<s, g>>] \in Nat
            /\ delivered[<<s, g>>] <= releaseSequences[g]
            /\ releaseSequences[g] \in Nat /\ releaseSequences'[g] \in Nat
        BY <3>1, <3>2
      <4> QED
        BY SMTT(60), <4>1, <3>2, <3>3
    <3>9. \A j \in Ids : (endPc'[j] \in {"remove", "done"} /\ call'[j].sink # NoSink) =>
              delivered'[<<call'[j].sink, spec'[j]>>] >= call'[j].seq
      BY SMTT(60), <3>2, <3>4, <3>5
    <3> QED
      BY <3>6, <3>7, <3>8, <3>9
  <2> QED
    BY <2>1, <2>2
<1>14. ASSUME NEW i \in Ids, EndSink(i)
       PROVE  (SequencesInFlight /\ NoOverRelease)'
  <2>1. CASE call[i].sink = NoSink
    BY <1>14, <2>1 DEF EndSink
  <2>2. CASE call[i].sink # NoSink
    <3> DEFINE k == call[i].sink
    <3>1. k \in Sinks /\ spec[i] \in Groups /\ call[i].seq \in Nat
      BY <2>2
    <3>2. /\ endPc' = [endPc EXCEPT ![i] = "remove"]
          /\ UNCHANGED <<spec, call, releaseSequences, replay>>
      BY <1>14 DEF EndSink
    <3>3. \A s \in Sinks, g \in Groups : delivered'[<<s, g>>] >= delivered[<<s, g>>]
      <4> TAKE s \in Sinks, g \in Groups
      <4>1. delivered[<<s, g>>] \in Nat
        OBVIOUS
      <4>2. CASE s = k /\ g = spec[i]
        BY SMTT(60), <1>14, <2>2, <3>1, <4>1, <4>2 DEF EndSink, deliver
      <4>3. CASE s # k \/ g # spec[i]
        BY SMTT(60), <1>14, <2>2, <3>1, <4>1, <4>3 DEF EndSink, deliver
      <4> QED
        BY <4>2, <4>3
    <3>4. delivered'[<<k, spec[i]>>] >= call[i].seq
      <4>1. delivered' = [delivered EXCEPT ![<<k, spec[i]>>] =
                            IF call[i].seq > @ THEN call[i].seq ELSE @]
        BY <1>14, <2>2 DEF EndSink, deliver
      <4>2. <<k, spec[i]>> \in Sinks \X Groups /\ delivered[<<k, spec[i]>>] \in Nat
        BY <3>1
      <4>3. delivered'[<<k, spec[i]>>] =
              IF call[i].seq > delivered[<<k, spec[i]>>]
              THEN call[i].seq ELSE delivered[<<k, spec[i]>>]
        BY <4>1, <4>2
      <4> QED
        BY SMTT(60), <3>1, <4>2, <4>3
    <3>5. \A s \in Sinks, g \in Groups : delivered'[<<s, g>>] <= releaseSequences[g]
      <4> TAKE s \in Sinks, g \in Groups
      <4>1. delivered[<<s, g>>] \in Nat /\ delivered[<<s, g>>] <= releaseSequences[g]
        OBVIOUS
      <4>2. delivered' = [delivered EXCEPT ![<<k, spec[i]>>] =
                            IF call[i].seq > @ THEN call[i].seq ELSE @]
        BY <1>14, <2>2 DEF EndSink, deliver
      <4>3. CASE s = k /\ g = spec[i]
        <5>1. call[i].seq <= releaseSequences[g]
          BY <1>14, <2>2, <4>3 DEF EndSink
        <5>2. delivered'[<<s, g>>] = delivered[<<s, g>>] \/ delivered'[<<s, g>>] = call[i].seq
          BY <4>2, <4>3
        <5> QED
          BY <4>1, <5>1, <5>2
      <4>4. CASE s # k \/ g # spec[i]
        <5>1. delivered'[<<s, g>>] = delivered[<<s, g>>]
          BY <4>2, <4>4
        <5> QED
          BY <4>1, <5>1
      <4> QED
        BY <4>3, <4>4
    <3>6. \A j \in Ids : (endPc'[j] \in {"remove", "done"} /\ call[j].sink # NoSink) =>
              delivered'[<<call[j].sink, spec[j]>>] >= call[j].seq
      <4> TAKE j \in Ids
      <4>1. CASE j = i
        BY <4>1, <3>4
      <4>2. CASE j # i
        <5> HAVE endPc'[j] \in {"remove", "done"} /\ call[j].sink # NoSink
        <5>1. call[j].sink \in Sinks /\ spec[j] \in Groups /\ call[j].seq \in Nat
          OBVIOUS
        <5>2. delivered[<<call[j].sink, spec[j]>>] >= call[j].seq
          BY <4>2, <3>2
        <5>3. delivered'[<<call[j].sink, spec[j]>>] \in Nat
          BY TypeNext, <5>1, <3>5, <1>14, <2>2, <3>1 DEF EndSink, deliver
        <5> QED
          BY <5>1, <5>2, <5>3, <3>3
      <4> QED
        BY <4>1, <4>2
    <3>7. \A j \in Ids : Marked(j) => Marked(j)'
      BY <1>14, <3>2 DEF EndSink
    <3> QED
      BY <3>2, <3>5, <3>6, <3>7
  <2> QED
    BY <2>1, <2>2
<1>15. ASSUME NEW i \in Ids, EndRemove(i)
       PROVE  (SequencesInFlight /\ NoOverRelease)'
  BY <1>15 DEF EndRemove, signalLocked
<1>16. ASSUME NEW s \in Sinks \cup {NoSink}, SetReleaseSink(s)
       PROVE  (SequencesInFlight /\ NoOverRelease)'
  BY <1>16 DEF SetReleaseSink, replayTo
<1>17. ASSUME NEW r \in replay, ReplaySink(r)
       PROVE  (SequencesInFlight /\ NoOverRelease)'
  BY SMTT(60), <1>17 DEF ReplaySink, deliver
<1>18. ASSUME NEW t \in Drainers, DrainEnter(t)
       PROVE  (SequencesInFlight /\ NoOverRelease)'
  BY <1>18 DEF DrainEnter
<1>19. ASSUME NEW t \in Drainers, DrainSnapshot(t)
       PROVE  (SequencesInFlight /\ NoOverRelease)'
  BY <1>19 DEF DrainSnapshot
<1>20. ASSUME NEW t \in Drainers, NEW i \in Ids, DrainSweep(t, i)
       PROVE  (SequencesInFlight /\ NoOverRelease)'
  BY <1>20 DEF DrainSweep, startBoundResourceClose
<1>21. ASSUME NEW t \in Drainers, DrainSwept(t)
       PROVE  (SequencesInFlight /\ NoOverRelease)'
  BY <1>21 DEF DrainSwept
<1>22. ASSUME NEW t \in Drainers, DrainCheck(t)
       PROVE  (SequencesInFlight /\ NoOverRelease)'
  BY <1>22 DEF DrainCheck
<1>23. ASSUME NEW t \in Drainers, DrainWake(t)
       PROVE  (SequencesInFlight /\ NoOverRelease)'
  BY <1>23 DEF DrainWake
<1>24. ASSUME NEW t \in Drainers, DrainTimeout(t)
       PROVE  (SequencesInFlight /\ NoOverRelease)'
  BY <1>24 DEF DrainTimeout
<1>25. ASSUME NEW t \in Closers, CloseEnter(t)
       PROVE  (SequencesInFlight /\ NoOverRelease)'
  BY <1>25 DEF CloseEnter
<1>26. ASSUME NEW t \in Closers, CloseSwap(t)
       PROVE  (SequencesInFlight /\ NoOverRelease)'
  BY <1>26 DEF CloseSwap
<1>27. ASSUME NEW t \in Closers, CloseSnapshot(t)
       PROVE  (SequencesInFlight /\ NoOverRelease)'
  BY <1>27 DEF CloseSnapshot
<1>28. ASSUME NEW t \in Closers, NEW i \in Ids, CloseSweep(t, i)
       PROVE  (SequencesInFlight /\ NoOverRelease)'
  BY <1>28 DEF CloseSweep, startBoundResourceClose, hasCloseDone
<1>29. ASSUME NEW t \in Closers, CloseAwait(t)
       PROVE  (SequencesInFlight /\ NoOverRelease)'
  BY <1>29 DEF CloseAwait
<1>30. ASSUME NEW t \in Closers, CloseFinish(t)
       PROVE  (SequencesInFlight /\ NoOverRelease)'
  BY <1>30 DEF CloseFinish
<1>31. ASSUME NEW t \in Closers, CloseJoined(t)
       PROVE  (SequencesInFlight /\ NoOverRelease)'
  BY <1>31 DEF CloseJoined
<1>32. ASSUME NEW t \in Waiters, WaitPendingCheck(t)
       PROVE  (SequencesInFlight /\ NoOverRelease)'
  BY <1>32 DEF WaitPendingCheck
<1>33. ASSUME NEW t \in Waiters, WaitPendingWake(t)
       PROVE  (SequencesInFlight /\ NoOverRelease)'
  BY <1>33 DEF WaitPendingWake
<1>34. ASSUME NEW t \in Waiters, WaitPendingTimeout(t)
       PROVE  (SequencesInFlight /\ NoOverRelease)'
  BY <1>34 DEF WaitPendingTimeout
<1>35. ASSUME NEW b \in Barriers, ObserveBarrier(b)
       PROVE  (SequencesInFlight /\ NoOverRelease)'
  BY <1>35 DEF ObserveBarrier
<1>36. ASSUME FreezeInFlight
       PROVE  (SequencesInFlight /\ NoOverRelease)'
  BY <1>36 DEF FreezeInFlight, BarrierBlocked
<1>37. ASSUME UNCHANGED vars PROVE (SequencesInFlight /\ NoOverRelease)'
  BY SMTT(60), <1>37 DEF vars
<1> QED
  BY <1>1, <1>2, <1>3, <1>4, <1>5, <1>6, <1>7, <1>8, <1>9, <1>10, <1>11, <1>12, <1>13, <1>14, <1>15, <1>16, <1>17, <1>18, <1>19, <1>20, <1>21, <1>22, <1>23, <1>24, <1>25, <1>26, <1>27, <1>28, <1>29, <1>30, <1>31, <1>32, <1>33, <1>34, <1>35, <1>36, <1>37
     DEF Next, Token, Scope, ScopeStep, Sink, Drain, Close, WaitPending, Observe

\* Whoever overtakes whom, the latest sequence of a group has reached the current
\* sink or somebody still carries it.
LEMMA LostNext ==
  TypeOK /\ ScopeLife /\ LockHolder /\ SequencesInFlight /\ NoOverRelease /\ NoReleaseLost /\ [Next]_vars => NoReleaseLost'
<1> SUFFICES ASSUME TypeOK, ScopeLife, LockHolder, SequencesInFlight, NoOverRelease, NoReleaseLost, [Next]_vars
             PROVE  NoReleaseLost'
  OBVIOUS
<1> USE BoundsAssumption DEF TypeOK, TypeToken, TypeScope, TypeSink, TypeThreads, TypeFlags, TypeBarrier, Resources, EndPcs,
       Calls, Replays, Ids, ScopeLife, LockHolder, SequencesInFlight, NoOverRelease, Marked, NoReleaseLost
<1>1. ASSUME BeginDispatchLock
       PROVE  NoReleaseLost'
  BY <1>1 DEF BeginDispatchLock, Accepting
<1>2. ASSUME BeginDispatchCommit
       PROVE  NoReleaseLost'
  BY <1>2 DEF BeginDispatchCommit
<1>3. ASSUME InstallCommit
       PROVE  NoReleaseLost'
  BY <1>3 DEF InstallCommit, signalLocked
<1>4. ASSUME NEW i \in Ids, PendingEnd(i)
       PROVE  NoReleaseLost'
  BY <1>4 DEF PendingEnd, signalLocked
<1>5. ASSUME NEW i \in Ids, InstallLock(i)
       PROVE  NoReleaseLost'
  BY <1>5 DEF InstallLock, Accepting
<1>6. ASSUME NEW i \in Ids, InstallRefused(i)
       PROVE  NoReleaseLost'
  BY <1>6 DEF InstallRefused, signalLocked, Accepting
<1>7. ASSUME BindCommit
       PROVE  NoReleaseLost'
  BY <1>7 DEF BindCommit
<1>8. ASSUME NEW i \in Ids, BindLock(i)
       PROVE  NoReleaseLost'
  BY <1>8 DEF BindLock, Accepting, Active
<1>9. ASSUME NEW i \in Ids, ResourceClosed(i)
       PROVE  NoReleaseLost'
  BY <1>9 DEF ResourceClosed
<1>10. ASSUME NEW i \in Ids, EndStart(i)
       PROVE  NoReleaseLost'
  BY <1>10 DEF EndStart, Active
<1>11. ASSUME NEW i \in Ids, EndClose(i)
       PROVE  NoReleaseLost'
  BY <1>11 DEF EndClose, startBoundResourceClose, hasCloseDone
<1>12. ASSUME NEW i \in Ids, EndWait(i)
       PROVE  NoReleaseLost'
  BY <1>12 DEF EndWait
<1>13. ASSUME NEW i \in Ids, EndMark(i)
       PROVE  NoReleaseLost'
  <2>1. CASE spec[i] = Unaccounted
    BY <1>13, <2>1 DEF EndMark
  <2>2. CASE spec[i] # Unaccounted
    <3> DEFINE n == releaseSequences[spec[i]] + 1
    <3>1. spec[i] \in Groups /\ n \in Nat
      BY <2>2
    <3>2. /\ releaseSequences' = [releaseSequences EXCEPT ![spec[i]] = n]
          /\ call' = [call EXCEPT ![i] = [sink |-> releaseSink, seq |-> n]]
          /\ endPc' = [endPc EXCEPT ![i] = "sink"]
          /\ endPc[i] = "mark"
          /\ UNCHANGED <<spec, delivered, replay, releaseSink>>
      BY <1>13, <2>2 DEF EndMark, markReleasedLocked
    <3> SUFFICES ASSUME NEW g \in Groups, releaseSink # NoSink, releaseSequences'[g] > 0
                 PROVE  \/ delivered[<<releaseSink, g>>] = releaseSequences'[g]
                        \/ \E j \in Ids : /\ endPc'[j] = "sink" /\ spec[j] = g
                                          /\ call'[j] = [sink |-> releaseSink, seq |-> releaseSequences'[g]]
                        \/ [group |-> g, seq |-> releaseSequences'[g]] \in replay
      BY SMTT(60), <3>2
    <3>3. CASE g = spec[i]
      <4>1. endPc'[i] = "sink" /\ call'[i] = [sink |-> releaseSink, seq |-> releaseSequences'[g]]
        BY <3>1, <3>2, <3>3
      <4> QED
        BY <4>1, <3>3
    <3>4. CASE g # spec[i]
      <4>1. releaseSequences'[g] = releaseSequences[g]
        BY <3>2, <3>4
      <4>2. \A j \in Ids : (endPc[j] = "sink" /\ spec[j] = g) => endPc'[j] = "sink" /\ call'[j] = call[j]
        BY <3>2, <3>4
      <4> QED
        BY ZenonT(60), <4>1, <4>2
    <3> QED
      BY <3>3, <3>4
  <2> QED
    BY <2>1, <2>2
<1>14. ASSUME NEW i \in Ids, EndSink(i)
       PROVE  NoReleaseLost'
  <2>1. CASE call[i].sink = NoSink
    BY SMTT(60), <1>14, <2>1 DEF EndSink
  <2>2. CASE call[i].sink # NoSink
    <3> DEFINE k == call[i].sink
    <3>1. k \in Sinks /\ spec[i] \in Groups /\ call[i].seq \in Nat
      BY <2>2
    <3>2. /\ endPc' = [endPc EXCEPT ![i] = "remove"]
          /\ UNCHANGED <<spec, call, releaseSequences, replay, releaseSink>>
      BY <1>14 DEF EndSink
    <3>3. /\ delivered'[<<k, spec[i]>>] \in {delivered[<<k, spec[i]>>], call[i].seq}
          /\ delivered'[<<k, spec[i]>>] >= call[i].seq
          /\ delivered'[<<k, spec[i]>>] >= delivered[<<k, spec[i]>>]
          /\ \A s \in Sinks, g \in Groups : (s # k \/ g # spec[i]) => delivered'[<<s, g>>] = delivered[<<s, g>>]
      BY SMTT(60), <1>14, <2>2, <3>1 DEF EndSink, deliver
    <3> SUFFICES ASSUME NEW g \in Groups, releaseSink # NoSink, releaseSequences[g] > 0
                 PROVE  \/ delivered'[<<releaseSink, g>>] = releaseSequences[g]
                        \/ \E j \in Ids : /\ endPc'[j] = "sink" /\ spec[j] = g
                                          /\ call[j] = [sink |-> releaseSink, seq |-> releaseSequences[g]]
                        \/ [group |-> g, seq |-> releaseSequences[g]] \in replay
      BY SMTT(60), <3>2
    <3>4. CASE k = releaseSink /\ g = spec[i]
      <4>1. delivered[<<k, g>>] <= releaseSequences[g] /\ call[i].seq <= releaseSequences[g]
        BY <3>1, <3>4
      <4>2. CASE delivered[<<k, g>>] = releaseSequences[g] \/ call[i].seq = releaseSequences[g]
        BY SMTT(60), <4>1, <4>2, <3>1, <3>3, <3>4
      <4>3. CASE delivered[<<k, g>>] # releaseSequences[g] /\ call[i].seq # releaseSequences[g]
        <5>1. call[i] # [sink |-> releaseSink, seq |-> releaseSequences[g]]
          BY <4>3
        <5> QED
          BY SMTT(60), <5>1, <4>3, <3>2, <3>4
      <4> QED
        BY <4>2, <4>3
    <3>5. CASE k # releaseSink \/ g # spec[i]
      <4>1. delivered'[<<releaseSink, g>>] = delivered[<<releaseSink, g>>]
        BY SMTT(60), <3>3, <3>5
      <4>2. ~(spec[i] = g /\ call[i] = [sink |-> releaseSink, seq |-> releaseSequences[g]])
        BY <3>5
      <4> QED
        BY <4>1, <4>2, <3>2
    <3> QED
      BY <3>4, <3>5
  <2> QED
    BY <2>1, <2>2
<1>15. ASSUME NEW i \in Ids, EndRemove(i)
       PROVE  NoReleaseLost'
  BY <1>15 DEF EndRemove, signalLocked
<1>16. ASSUME NEW s \in Sinks \cup {NoSink}, SetReleaseSink(s)
       PROVE  NoReleaseLost'
  BY <1>16 DEF SetReleaseSink, replayTo
<1>17. ASSUME NEW r \in replay, ReplaySink(r)
       PROVE  NoReleaseLost'
  <2>1. /\ r.group \in Groups /\ r.seq \in Nat /\ r.seq <= releaseSequences[r.group]
        /\ releaseSink \in Sinks /\ r = [group |-> r.group, seq |-> r.seq]
    BY <1>17 DEF ReplaySink
  <2>2. /\ replay' = replay \ {r}
        /\ UNCHANGED <<endPc, spec, call, releaseSequences, releaseSink>>
    BY <1>17 DEF ReplaySink
  <2>3. /\ delivered'[<<releaseSink, r.group>>] =
              IF r.seq > delivered[<<releaseSink, r.group>>]
              THEN r.seq ELSE delivered[<<releaseSink, r.group>>]
        /\ \A g \in Groups : g # r.group =>
              delivered'[<<releaseSink, g>>] = delivered[<<releaseSink, g>>]
    BY <1>17, <2>1 DEF ReplaySink, deliver
  <2> SUFFICES ASSUME NEW g \in Groups, releaseSequences[g] > 0
               PROVE  \/ delivered'[<<releaseSink, g>>] = releaseSequences[g]
                      \/ \E j \in Ids : /\ endPc[j] = "sink" /\ spec[j] = g
                                        /\ call[j] = [sink |-> releaseSink, seq |-> releaseSequences[g]]
                      \/ [group |-> g, seq |-> releaseSequences[g]] \in replay'
    BY <2>2
  <2>4. CASE g = r.group
    <3>1. delivered[<<releaseSink, g>>] \in Nat /\ delivered[<<releaseSink, g>>] <= releaseSequences[g]
      BY <2>1
    <3>2. CASE r.seq = releaseSequences[g]
      BY SMTT(60), <2>1, <2>3, <2>4, <3>1, <3>2
    <3>3. CASE r.seq # releaseSequences[g]
      <4>1. r # [group |-> g, seq |-> releaseSequences[g]]
        BY <3>3
      <4>2. delivered[<<releaseSink, g>>] = releaseSequences[g] =>
                delivered'[<<releaseSink, g>>] = releaseSequences[g]
        BY SMTT(60), <2>1, <2>3, <2>4, <3>1
      <4> QED
        BY <4>1, <4>2, <2>1, <2>2
    <3> QED
      BY <3>2, <3>3
  <2>5. CASE g # r.group
    BY SMTT(60), <2>1, <2>2, <2>3, <2>5
  <2> QED
    BY <2>4, <2>5
<1>18. ASSUME NEW t \in Drainers, DrainEnter(t)
       PROVE  NoReleaseLost'
  BY <1>18 DEF DrainEnter
<1>19. ASSUME NEW t \in Drainers, DrainSnapshot(t)
       PROVE  NoReleaseLost'
  BY <1>19 DEF DrainSnapshot
<1>20. ASSUME NEW t \in Drainers, NEW i \in Ids, DrainSweep(t, i)
       PROVE  NoReleaseLost'
  BY <1>20 DEF DrainSweep, startBoundResourceClose
<1>21. ASSUME NEW t \in Drainers, DrainSwept(t)
       PROVE  NoReleaseLost'
  BY <1>21 DEF DrainSwept
<1>22. ASSUME NEW t \in Drainers, DrainCheck(t)
       PROVE  NoReleaseLost'
  BY <1>22 DEF DrainCheck
<1>23. ASSUME NEW t \in Drainers, DrainWake(t)
       PROVE  NoReleaseLost'
  BY <1>23 DEF DrainWake
<1>24. ASSUME NEW t \in Drainers, DrainTimeout(t)
       PROVE  NoReleaseLost'
  BY <1>24 DEF DrainTimeout
<1>25. ASSUME NEW t \in Closers, CloseEnter(t)
       PROVE  NoReleaseLost'
  BY <1>25 DEF CloseEnter
<1>26. ASSUME NEW t \in Closers, CloseSwap(t)
       PROVE  NoReleaseLost'
  BY <1>26 DEF CloseSwap
<1>27. ASSUME NEW t \in Closers, CloseSnapshot(t)
       PROVE  NoReleaseLost'
  BY <1>27 DEF CloseSnapshot
<1>28. ASSUME NEW t \in Closers, NEW i \in Ids, CloseSweep(t, i)
       PROVE  NoReleaseLost'
  BY <1>28 DEF CloseSweep, startBoundResourceClose, hasCloseDone
<1>29. ASSUME NEW t \in Closers, CloseAwait(t)
       PROVE  NoReleaseLost'
  BY <1>29 DEF CloseAwait
<1>30. ASSUME NEW t \in Closers, CloseFinish(t)
       PROVE  NoReleaseLost'
  BY <1>30 DEF CloseFinish
<1>31. ASSUME NEW t \in Closers, CloseJoined(t)
       PROVE  NoReleaseLost'
  BY <1>31 DEF CloseJoined
<1>32. ASSUME NEW t \in Waiters, WaitPendingCheck(t)
       PROVE  NoReleaseLost'
  BY <1>32 DEF WaitPendingCheck
<1>33. ASSUME NEW t \in Waiters, WaitPendingWake(t)
       PROVE  NoReleaseLost'
  BY <1>33 DEF WaitPendingWake
<1>34. ASSUME NEW t \in Waiters, WaitPendingTimeout(t)
       PROVE  NoReleaseLost'
  BY <1>34 DEF WaitPendingTimeout
<1>35. ASSUME NEW b \in Barriers, ObserveBarrier(b)
       PROVE  NoReleaseLost'
  BY <1>35 DEF ObserveBarrier
<1>36. ASSUME FreezeInFlight
       PROVE  NoReleaseLost'
  BY <1>36 DEF FreezeInFlight, BarrierBlocked
<1>37. ASSUME UNCHANGED vars PROVE NoReleaseLost'
  BY <1>37 DEF vars
<1> QED
  BY <1>1, <1>2, <1>3, <1>4, <1>5, <1>6, <1>7, <1>8, <1>9, <1>10, <1>11, <1>12, <1>13, <1>14, <1>15, <1>16, <1>17, <1>18, <1>19, <1>20, <1>21, <1>22, <1>23, <1>24, <1>25, <1>26, <1>27, <1>28, <1>29, <1>30, <1>31, <1>32, <1>33, <1>34, <1>35, <1>36, <1>37
     DEF Next, Token, Scope, ScopeStep, Sink, Drain, Close, WaitPending, Observe

\* The release invariant holds in every reachable state.
THEOREM ReleaseCorrect == Spec => []ReleaseInv
<1>1. Init => ReleaseInv
  BY ReleaseInit
<1>2. TypeOK /\ ShutdownInv /\ ReleaseInv /\ [Next]_vars => ReleaseInv'
  BY FlightNext, LostNext DEF ReleaseInv, ShutdownInv
<1> QED
  BY <1>1, <1>2, TypeCorrect, ShutdownCorrect, PTL DEF Spec

\* No sink is told of a release that did not happen.
THEOREM NoOverReleaseSafe == Spec => []NoOverRelease
  BY ReleaseCorrect, PTL DEF ReleaseInv

\* Replacing the sink in the middle of concurrent Ends loses no release.
THEOREM NoReleaseLostSafe == Spec => []NoReleaseLost
  BY ReleaseCorrect, PTL DEF ReleaseInv

\* A scope is removed from the registry only after its release reached its
\* sink, so a Drain that returned nil left no release behind.
THEOREM RemovalSafe == Spec => []ReleaseReachesSinkBeforeRemoval
<1>1. ShutdownInv /\ ReleaseInv => ReleaseReachesSinkBeforeRemoval
  BY DEF ShutdownInv, ScopeLife, ReleaseInv, SequencesInFlight, Accounted, Installed,
         ReleaseReachesSinkBeforeRemoval
<1> QED
  BY <1>1, ShutdownCorrect, ReleaseCorrect, PTL

-----------------------------------------------------------------------------
(* Counting and barriers.  Most steps leave the tokens, the scopes' progress *)
(* and the barrier fields alone; the others are taken one at a time.         *)

progressVars == <<next, pending, scopes, spec, endPc, releaseSequences, barrierVars>>

\* The steps that move a token or a scope along.
Moves ==
    \/ BeginDispatchCommit
    \/ InstallCommit
    \/ \E i \in Ids :
        \/ PendingEnd(i) \/ InstallRefused(i)
        \/ EndStart(i) \/ EndClose(i) \/ EndWait(i) \/ EndMark(i) \/ EndSink(i) \/ EndRemove(i)

\* Locking, binding, sweeping, waiting and telling sinks move nothing along.
LEMMA NextMoves ==
  [Next]_vars => UNCHANGED progressVars \/ Moves \/ Observe
<1> SUFFICES ASSUME [Next]_vars, ~Moves, ~Observe PROVE UNCHANGED progressVars
  OBVIOUS
<1> USE DEF progressVars
<1>1. CASE Token
  BY <1>1 DEF Token, Moves, BeginDispatchLock, InstallLock
<1>2. CASE Scope
  BY <1>2 DEF Scope, ScopeStep, Moves, BindLock, BindCommit, ResourceClosed
<1>3. CASE Sink
  BY <1>3 DEF Sink, SetReleaseSink, ReplaySink
<1>4. ASSUME NEW t \in Drainers, Drain(t) PROVE UNCHANGED progressVars
  BY <1>4 DEF Drain, DrainEnter, DrainSnapshot, DrainSweep, DrainSwept, DrainCheck,
              DrainWake, DrainTimeout
<1>5. ASSUME NEW t \in Closers, Close(t) PROVE UNCHANGED progressVars
  BY <1>5 DEF Close, CloseEnter, CloseSwap, CloseSnapshot, CloseSweep, CloseAwait,
              CloseFinish, CloseJoined
<1>6. ASSUME NEW t \in Waiters, WaitPending(t) PROVE UNCHANGED progressVars
  BY <1>6 DEF WaitPending, WaitPendingCheck, WaitPendingWake, WaitPendingTimeout
<1>7. CASE UNCHANGED vars
  BY <1>7 DEF vars
<1> QED
  BY <1>1, <1>2, <1>3, <1>4, <1>5, <1>6, <1>7 DEF Next

\* Whether the release of scope i was counted for group g, and the scopes of
\* which that is so.
Counted(i, g) == Accounted(i) /\ spec[i] = g /\ Marked(i)

CountedFor(g) == {i \in Ids : Counted(i, g)}

\* A step that marks no scope and changes no sequence keeps the count.
LEMMA CountedFrame ==
  ASSUME ReleasedExactlyOnce, UNCHANGED releaseSequences,
         \A i \in Ids, g \in Groups : Counted(i, g)' <=> Counted(i, g)
  PROVE  ReleasedExactlyOnce'
<1> SUFFICES ASSUME NEW g \in Groups
             PROVE  releaseSequences'[g] = Cardinality(CountedFor(g)')
  BY DEF ReleasedExactlyOnce, CountedFor, Counted
<1>1. CountedFor(g)' = CountedFor(g)
  BY DEF CountedFor
<1>2. releaseSequences[g] = Cardinality(CountedFor(g))
  BY DEF ReleasedExactlyOnce, CountedFor, Counted
<1> QED
  BY <1>1, <1>2

\* markReleasedLocked is the only place where a release is counted, and every
\* accounted scope passes it exactly once.
LEMMA CountNext ==
  TypeOK /\ ScopeLife /\ LockHolder /\ ReleasedExactlyOnce /\ [Next]_vars
    => ReleasedExactlyOnce'
<1> SUFFICES ASSUME TypeOK, ScopeLife, LockHolder, ReleasedExactlyOnce, [Next]_vars
             PROVE  ReleasedExactlyOnce'
  OBVIOUS
<1>t. /\ endPc \in [Ids -> EndPcs]
      /\ spec \in [Ids -> Groups \cup {Unaccounted}]
      /\ releaseSequences \in [Groups -> Nat]
      /\ mu = "install" => muId \in Ids
  BY DEF TypeOK, TypeScope, TypeSink, TypeToken
<1> DEFINE Same == \A i \in Ids, g \in Groups : Counted(i, g)' <=> Counted(i, g)
<1>1. CASE UNCHANGED progressVars
  <2>1. Same /\ UNCHANGED releaseSequences
    BY <1>1 DEF progressVars, Counted, Accounted, Installed, Marked
  <2> QED
    BY <2>1, CountedFrame
<1>2. CASE Observe
  <2>1. Same /\ UNCHANGED releaseSequences
    BY <1>2 DEF Observe, ObserveBarrier, FreezeInFlight, Counted, Accounted, Installed, Marked
  <2> QED
    BY <2>1, CountedFrame
<1>3. CASE BeginDispatchCommit
  <2>1. Same /\ UNCHANGED releaseSequences
    BY <1>3 DEF BeginDispatchCommit, Counted, Accounted, Installed, Marked
  <2> QED
    BY <2>1, CountedFrame
<1>4. CASE InstallCommit
  <2>1. muId \in Ids /\ endPc[muId] = "none"
    BY <1>4, <1>t DEF InstallCommit, LockHolder, ScopeLife
  <2>2. Same /\ UNCHANGED releaseSequences
    BY <1>4, <1>t, <2>1 DEF InstallCommit, Counted, Accounted, Installed, Marked
  <2> QED
    BY <2>2, CountedFrame
<1>5. ASSUME NEW i \in Ids, PendingEnd(i) \/ InstallRefused(i) PROVE ReleasedExactlyOnce'
  <2>1. Same /\ UNCHANGED releaseSequences
    BY <1>5 DEF PendingEnd, InstallRefused, Counted, Accounted, Installed, Marked
  <2> QED
    BY <2>1, CountedFrame
<1>6. ASSUME NEW i \in Ids, EndStart(i) \/ EndClose(i) \/ EndWait(i) PROVE ReleasedExactlyOnce'
  <2>1. /\ ~Marked(i) /\ ~Marked(i)'
        /\ \A j \in Ids : j # i => endPc'[j] = endPc[j]
        /\ UNCHANGED <<spec, releaseSequences>>
    BY <1>6, <1>t DEF EndStart, Active, EndClose, EndWait, Marked
  <2>2. Same
    BY <2>1 DEF Counted, Accounted, Installed, Marked
  <2> QED
    BY <2>1, <2>2, CountedFrame
<1>7. ASSUME NEW i \in Ids, EndSink(i) \/ EndRemove(i) PROVE ReleasedExactlyOnce'
  <2>1. /\ Marked(i) /\ Marked(i)' /\ Installed(i) /\ Installed(i)'
        /\ \A j \in Ids : j # i => endPc'[j] = endPc[j]
        /\ UNCHANGED <<spec, releaseSequences>>
    BY <1>7, <1>t DEF EndSink, EndRemove, Marked, Installed
  <2>2. Same
    BY <2>1 DEF Counted, Accounted, Installed, Marked
  <2> QED
    BY <2>1, <2>2, CountedFrame
<1>8. ASSUME NEW i \in Ids, EndMark(i) PROVE ReleasedExactlyOnce'
  <2>1. /\ endPc[i] = "mark" /\ endPc'[i] = "sink"
        /\ \A j \in Ids : j # i => endPc'[j] = endPc[j]
        /\ UNCHANGED spec
    BY <1>8, <1>t DEF EndMark
  <2>2. CASE spec[i] = Unaccounted
    <3>1. Same /\ UNCHANGED releaseSequences
      BY <1>8, <2>1, <2>2 DEF EndMark, Counted, Accounted, Installed, Marked
    <3> QED
      BY <3>1, CountedFrame
  <2>3. CASE spec[i] # Unaccounted
    <3> DEFINE h == spec[i]
    <3>1. h \in Groups
      BY <1>t, <2>3
    <3>2. /\ releaseSequences'[h] = releaseSequences[h] + 1
          /\ \A g \in Groups : g # h => releaseSequences'[g] = releaseSequences[g]
      BY <1>8, <1>t, <2>3, <3>1 DEF EndMark, markReleasedLocked
    <3>3. PICK k \in Groups : k = h
      BY <3>1
    <3> HIDE DEF h
    <3>4. i \notin CountedFor(k)
      BY <2>1 DEF CountedFor, Counted, Marked
    <3>5. CountedFor(k)' = CountedFor(k) \cup {i}
      BY <2>1, <2>3, <3>3 DEF CountedFor, Counted, Accounted, Installed, Marked, h
    <3>6. IsFiniteSet(CountedFor(k))
      <4>1. IsFiniteSet(Ids)
        BY BoundsAssumption, FS_Interval DEF Ids
      <4> QED
        BY <4>1, FS_Subset DEF CountedFor
    <3>7. Cardinality(CountedFor(k)') = Cardinality(CountedFor(k)) + 1
      BY <3>4, <3>5, <3>6, FS_AddElement
    <3>8. \A g \in Groups : g # k => CountedFor(g)' = CountedFor(g)
      BY <2>1, <3>3 DEF CountedFor, Counted, Accounted, Installed, Marked, h
    <3>9. \A g \in Groups : releaseSequences[g] = Cardinality(CountedFor(g))
      BY DEF ReleasedExactlyOnce, CountedFor, Counted
    <3>10. \A g \in Groups : releaseSequences'[g] = Cardinality(CountedFor(g)')
      BY <3>2, <3>3, <3>7, <3>8, <3>9
    <3> QED
      BY <3>10 DEF ReleasedExactlyOnce, CountedFor, Counted
  <2> QED
    BY <2>2, <2>3
<1> QED
  BY NextMoves, <1>1, <1>2, <1>3, <1>4, <1>5, <1>6, <1>7, <1>8 DEF Moves

\* Registry.releaseSequences counts every accounted scope that got past
\* markReleasedLocked exactly once, however Ends interleave.
THEOREM ReleasesCountedOnce == Spec => []ReleasedExactlyOnce
<1>1. Init => ReleasedExactlyOnce
  <2> SUFFICES ASSUME Init, NEW g \in Groups
               PROVE  releaseSequences[g] = Cardinality(CountedFor(g))
    BY DEF ReleasedExactlyOnce, CountedFor, Counted
  <2>1. CountedFor(g) = {}
    BY DEF Init, CountedFor, Counted, Marked
  <2> QED
    BY <2>1, FS_EmptySet DEF Init
<1>2. ShutdownInv => ScopeLife /\ LockHolder
  BY DEF ShutdownInv
<1> QED
  BY <1>1, <1>2, TypeCorrect, ShutdownCorrect, CountNext, PTL DEF Spec

\* What the barrier fields remember: a barrier is published after it was
\* observed, no barrier lies ahead of the tokens, and pendingBarrierSequence
\* is the last token before the barrier observed last.
BarrierInv ==
    /\ publishedBarrier <= observedBarrier
    /\ \A b \in Barriers : barrierNext[b] <= next
    /\ pendingBarrierSequence = barrierNext[observedBarrier]
    /\ BarrierSnapshotComplete

\* A token that began before a published barrier is gone for good, because
\* installing needs it pending; a new token lies behind every barrier.
LEMMA BarrierNext ==
  TypeOK /\ ScopeLife /\ LockHolder /\ BarrierInv /\ [Next]_vars => BarrierInv'
<1> SUFFICES ASSUME TypeOK, ScopeLife, LockHolder, BarrierInv, [Next]_vars
             PROVE  BarrierInv'
  OBVIOUS
<1>t. /\ endPc \in [Ids -> EndPcs]
      /\ pending \subseteq Ids
      /\ mu = "install" => muId \in Ids
      /\ next \in Nat
      /\ observedBarrier \in Barriers /\ publishedBarrier \in Barriers
      /\ barrierNext \in [Barriers -> 0..MaxDispatches]
      /\ \A b \in Barriers : barrierNext[b] \in Nat
      /\ Ids \subseteq Nat /\ Barriers \subseteq Nat
  BY BoundsAssumption DEF TypeOK, TypeScope, TypeToken, TypeBarrier, Ids, Barriers
<1> USE DEF BarrierInv, BarrierSnapshotComplete
<1>1. CASE UNCHANGED progressVars
  BY <1>1 DEF progressVars
<1>2. ASSUME NEW b \in Barriers, ObserveBarrier(b) PROVE BarrierInv'
  <2>1. publishedBarrier # b /\ publishedBarrier < b
    BY <1>2, <1>t DEF ObserveBarrier
  <2>2. barrierNext'[publishedBarrier] = barrierNext[publishedBarrier]
    BY <1>2, <1>t, <2>1 DEF ObserveBarrier
  <2>3. barrierNext'[b] = next /\ \A c \in Barriers : c # b => barrierNext'[c] = barrierNext[c]
    BY <1>2, <1>t DEF ObserveBarrier
  <2> QED
    BY <1>2, <1>t, <2>1, <2>2, <2>3 DEF ObserveBarrier
<1>3. CASE FreezeInFlight
  <2>1. CASE observedBarrier > publishedBarrier /\ ~BarrierBlocked
    BY <1>3, <1>t, <2>1 DEF FreezeInFlight, BarrierBlocked, ScopeLife
  <2>2. CASE ~(observedBarrier > publishedBarrier /\ ~BarrierBlocked)
    BY <1>3, <1>t, <2>2 DEF FreezeInFlight, ScopeLife
  <2> QED
    BY <2>1, <2>2
<1>4. CASE BeginDispatchCommit
  BY <1>4, <1>t DEF BeginDispatchCommit
<1>5. CASE InstallCommit
  <2>1. muId \in pending /\ muId \in Ids
    BY <1>5, <1>t DEF InstallCommit, LockHolder
  <2> QED
    BY <1>5, <1>t, <2>1 DEF InstallCommit
<1>6. ASSUME NEW i \in Ids, PendingEnd(i) \/ InstallRefused(i) PROVE BarrierInv'
  BY <1>6, <1>t DEF PendingEnd, InstallRefused
<1>7. ASSUME NEW i \in Ids,
             EndStart(i) \/ EndClose(i) \/ EndWait(i) \/ EndMark(i) \/ EndSink(i) \/ EndRemove(i)
      PROVE  BarrierInv'
  <2>1. /\ endPc[i] \notin {"none", "done"}
        /\ \A j \in Ids : j # i => endPc'[j] = endPc[j]
        /\ UNCHANGED <<next, pending, barrierVars>>
    BY <1>7, <1>t DEF EndStart, Active, EndClose, EndWait, EndMark, EndSink, EndRemove
  <2> QED
    BY <1>t, <2>1
<1> QED
  BY NextMoves, <1>1, <1>2, <1>3, <1>4, <1>5, <1>6, <1>7 DEF Moves, Observe

\* FreezeInFlight publishes a barrier only with a snapshot that is complete
\* for it, and no execution that began before it turns up later.
THEOREM BarrierSafe == Spec => []BarrierSnapshotComplete
<1>1. Init => BarrierInv
  BY BoundsAssumption DEF Init, BarrierInv, BarrierSnapshotComplete, Barriers, Ids
<1>2. ShutdownInv => ScopeLife /\ LockHolder
  BY DEF ShutdownInv
<1>3. BarrierInv => BarrierSnapshotComplete
  BY DEF BarrierInv
<1> QED
  BY <1>1, <1>2, <1>3, TypeCorrect, ShutdownCorrect, BarrierNext, PTL DEF Spec
=============================================================================
