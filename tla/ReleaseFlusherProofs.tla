------------------------ MODULE ReleaseFlusherProofs ------------------------
(***************************************************************************)
(* Proofs about ReleaseFlusher for every set of groups, every number of    *)
(* lifetimes and every bound on the sequences.  NoSleepOnDirty and         *)
(* TicketMeansAccepted are not inductive: a step of flush uses sequences   *)
(* copied long before, and FlusherInv says how they relate to the marks    *)
(* and acknowledgements that happened since.                               *)
(***************************************************************************)
EXTENDS ReleaseFlusher, TLAPS

LEMMA TypeInit == Init => TypeOK
<1> SUFFICES ASSUME Init PROVE TypeOK
  OBVIOUS
<1> 0 \in 0..MaxSeq /\ 0 \in 0..MaxRuns
  BY FlusherAssumption
<1> QED
  BY DEF Init, TypeOK, Tickets

LEMMA TypeNext == TypeOK /\ [Next]_vars => TypeOK'
<1> SUFFICES ASSUME TypeOK, [Next]_vars PROVE TypeOK'
  OBVIOUS
<1> USE FlusherAssumption DEF TypeOK, Tickets, Seqs
<1> USE DEF markVars, loopVars, runVars, flightVars, flushVars, chanVars
<1>1. ASSUME NEW g \in Groups, NEW n \in Seqs, MarkDirty(g, n) PROVE TypeOK'
  BY <1>1 DEF MarkDirty, MarkLatest, alreadyAcked
<1>2. ASSUME NEW x \in toSignal, Signal(x) PROVE TypeOK'
  BY <1>2 DEF Signal
<1>3. CASE RunStart
  <2> PICK t \in Timings : timing' = t /\ delay' = t.flushInterval
    BY <1>3 DEF RunStart
  <2>1. timing' \in Timings /\ delay' \in Nat
    OBVIOUS
  <2>2. runs' \in 0..MaxRuns
    BY <1>3 DEF RunStart
  <2>3. UNCHANGED <<markVars, flightVars, flushVars, force, toSignal, home>>
    BY <1>3 DEF RunStart
  <2>4. wake' = TRUE /\ runPc' = "select" /\ cancelled' = FALSE
        /\ timer' = "now" /\ backingOff' = FALSE
    BY <1>3 DEF RunStart
  <2> QED
    BY <2>1, <2>2, <2>3, <2>4
<1>4. CASE ConfigChange
  BY <1>4 DEF ConfigChange
<1>5. CASE RunCancel
  BY <1>5 DEF RunCancel
<1>6. CASE RunReturn
  BY <1>6 DEF RunReturn
<1>7. CASE RunWake
  BY ZenonT(60), <1>7 DEF RunWake, afterWake
<1>8. CASE RunTimer
  BY <1>8 DEF RunTimer, FlushSnapshot, pendingGroups
<1>9. CASE RunForce
  BY <1>9 DEF RunForce, FlushSnapshot, pendingGroups
<1>10. CASE FlushReturn
  BY <1>10 DEF FlushReturn, nextDelay, backoffLimit
<1>11. ASSUME NEW g \in Groups, HomeAccept(g) PROVE TypeOK'
  BY <1>11 DEF HomeAccept
<1>12. ASSUME NEW g \in Groups, SendError(g) PROVE TypeOK'
  BY <1>12 DEF SendError
<1>13. ASSUME NEW g \in Groups, Ack(g) PROVE TypeOK'
  BY <1>13 DEF Ack, ackSequence, completes
<1>14. CASE FlushCall
  BY <1>14 DEF FlushCall
<1>15. CASE FlushIdle
  BY <1>15 DEF FlushIdle
<1>16. CASE FlushTimeout
  BY <1>16 DEF FlushTimeout
<1>17. CASE UNCHANGED vars
  BY <1>17 DEF vars
<1> QED
  BY <1>1, <1>2, <1>3, <1>4, <1>5, <1>6, <1>7, <1>8, <1>9, <1>10, <1>11, <1>12,
     <1>13, <1>14, <1>15, <1>16, <1>17 DEF Next, RunLoop

\* The flusher's variables keep their types in every reachable state.
THEOREM TypeCorrect == Spec => []TypeOK
  BY TypeInit, TypeNext, PTL DEF Spec

LEMMA InvInit == Init => FlusherInv
  BY SMTT(60), FlusherAssumption DEF Init, FlusherInv, AckedWithinHome, NoTicketStranded,
     DoneAcked, FlightBetween, FlightSettled, LateMarkSignals, NoSleepOnDirty,
     FlushOkMeansAccepted, BackoffHolds

LEMMA InvNext == TypeOK /\ FlusherInv /\ [Next]_vars => FlusherInv'
<1> SUFFICES ASSUME TypeOK, FlusherInv, [Next]_vars PROVE FlusherInv'
  OBVIOUS
<1> USE FlusherAssumption DEF TypeOK, Tickets, Seqs
<1> USE DEF markVars, loopVars, runVars, flightVars, flushVars, chanVars
<1> USE DEF FlusherInv, AckedWithinHome, NoTicketStranded, DoneAcked,
            FlightBetween, FlightSettled, LateMarkSignals, NoSleepOnDirty,
            FlushOkMeansAccepted, BackoffHolds
<1>1. ASSUME NEW h \in Groups, NEW m \in Seqs, MarkDirty(h, m) PROVE FlusherInv'
  BY SMTT(60), <1>1 DEF MarkDirty, MarkLatest, alreadyAcked
<1>2. ASSUME NEW x \in toSignal, Signal(x) PROVE FlusherInv'
  BY <1>2 DEF Signal
<1>3. CASE RunStart
  BY <1>3 DEF RunStart
<1>4. CASE ConfigChange
  BY <1>4 DEF ConfigChange
<1>5. CASE RunCancel
  BY <1>5 DEF RunCancel
<1>6. CASE RunReturn
  BY <1>6 DEF RunReturn
<1>7. CASE RunWake
  BY <1>7 DEF RunWake, afterWake
<1>8. CASE RunTimer
  BY <1>8 DEF RunTimer, FlushSnapshot, pendingGroups
<1>9. CASE RunForce
  BY <1>9 DEF RunForce, FlushSnapshot, pendingGroups
<1>10. CASE FlushReturn
  BY <1>10 DEF FlushReturn
<1>11. ASSUME NEW h \in Groups, HomeAccept(h) PROVE FlusherInv'
  BY <1>11 DEF HomeAccept
<1>12. ASSUME NEW h \in Groups, SendError(h) PROVE FlusherInv'
  BY <1>12 DEF SendError
<1>13. ASSUME NEW h \in Groups, Ack(h) PROVE FlusherInv'
  BY <1>13 DEF Ack, ackSequence, completes
<1>14. CASE FlushCall
  BY <1>14 DEF FlushCall
<1>15. CASE FlushIdle
  BY <1>15 DEF FlushIdle, idle
<1>16. CASE FlushTimeout
  BY <1>16 DEF FlushTimeout
<1>17. CASE UNCHANGED vars
  BY <1>17 DEF vars
<1> QED
  BY <1>1, <1>2, <1>3, <1>4, <1>5, <1>6, <1>7, <1>8, <1>9, <1>10, <1>11, <1>12, <1>13, <1>14, <1>15, <1>16, <1>17
     DEF Next, RunLoop

\* FlusherInv is an invariant of the flusher.
THEOREM FlusherCorrect == Spec => []FlusherInv
<1>1. Init => TypeOK /\ FlusherInv
  BY TypeInit, InvInit
<1>2. (TypeOK /\ FlusherInv) /\ [Next]_vars => (TypeOK /\ FlusherInv)'
  BY TypeNext, InvNext
<1> QED
  BY <1>1, <1>2, PTL DEF Spec

\* A ticket completes only after Home accepted its sequence.
THEOREM TicketSafe == Spec => []TicketMeansAccepted
<1>1. TypeOK /\ FlusherInv => TicketMeansAccepted
  BY FlusherAssumption DEF TypeOK, Tickets, Seqs, FlusherInv, DoneAcked,
     AckedWithinHome, TicketMeansAccepted
<1> QED
  BY <1>1, TypeCorrect, FlusherCorrect, PTL

\* No ticket is left waiting for a sequence that was acknowledged already.
THEOREM NoTicketStrandedSafe == Spec => []NoTicketStranded
<1>1. FlusherInv => NoTicketStranded
  BY DEF FlusherInv
<1> QED
  BY <1>1, FlusherCorrect, PTL

\* The flusher acknowledges no more than Home accepted, Home no more than was
\* marked.
THEOREM AckedWithinHomeSafe == Spec => []AckedWithinHome
<1>1. FlusherInv => AckedWithinHome
  BY DEF FlusherInv
<1> QED
  BY <1>1, FlusherCorrect, PTL

\* The loop never waits out its interval with an untried release.
THEOREM NoSleepSafe == Spec => []NoSleepOnDirty
<1>1. FlusherInv => NoSleepOnDirty
  BY DEF FlusherInv
<1> QED
  BY <1>1, FlusherCorrect, PTL

\* Flush returns nil only when Home has every release marked before the call.
THEOREM FlushSafe == Spec => []FlushOkMeansAccepted
<1>1. FlusherInv => FlushOkMeansAccepted
  BY DEF FlusherInv
<1> QED
  BY <1>1, FlusherCorrect, PTL

\* No wake-up ends the wait after a failed flush early.
THEOREM BackoffSafe == Spec => []BackoffHolds
<1>1. FlusherInv => BackoffHolds
  BY DEF FlusherInv
<1> QED
  BY <1>1, FlusherCorrect, PTL

\* Every delay that Run arms is at least the flush interval and at most the
\* backoff limit of the configuration in force when it is armed.
THEOREM DelaySafe == Spec => DelayWithinTimings
<1>1. TypeOK /\ [Next]_vars
      => [FlushReturn => timing.flushInterval <= delay' /\ delay' <= backoffLimit]_vars
  BY FlusherAssumption DEF TypeOK, FlushReturn, nextDelay, backoffLimit
<1> QED
  BY <1>1, TypeCorrect, PTL DEF Spec, DelayWithinTimings
=============================================================================
