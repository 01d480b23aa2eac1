----------------------- MODULE RequestExecutionProofs -----------------------
(***************************************************************************)
(* Machine-checked theorems about one request, for any credentials, any    *)
(* number of models, rounds and chunks and any cooldowns: every execution  *)
(* is recorded once, and the client sees the errors of its stream.         *)
(***************************************************************************)
EXTENDS RequestExecution, TLAPS

-----------------------------------------------------------------------------
(* Types *)

Pcs == {"pick", "prepare", "call", "refresh", "bootstrap", "decide", "wait", "returned"}

Rounds == [tried : SUBSET Auths, attempted : SUBSET Auths,
           lastErr : Errors \cup {"terminated", None}]

Calls == [pc : Pcs, stream : BOOLEAN, limit : Nat, round : Rounds, attempt : Nat,
          auth : Auths \cup {None}, model : Nat,
          refreshed : {"no", "call", "boot", "done"}, any : BOOLEAN, wake : Nat]

Streams == [sent : Nat, err : BOOLEAN, open : Nat, discarded : Nat]

Wraps == [pc : {"none", "read", "send", "done"}, hold : {None, "payload", "error"},
          failed : BOOLEAN]

TypeOK ==
  /\ req \in Calls
  /\ cool \in [Auths -> Nat]
  /\ ctx \in {"live", "cancelled"}
  /\ up \in Streams /\ up.discarded <= up.open
  /\ wrap \in Wraps
  /\ client \in SUBSET {"payload", "error"}
  /\ bill \in {"settled", "cancelled", "fail"}

-----------------------------------------------------------------------------
(* The inductive invariant *)

\* A verdict waits to be recorded only while the credential is refreshed, or
\* after the caller has gone.
BillInv ==
  /\ req.pc = "refresh" => bill \in {"fail", "cancelled"}
  /\ req.pc # "refresh" => bill \in {"settled", "cancelled"}
  /\ bill = "cancelled" => ctx = "cancelled"

\* The goroutine of wrapStreamResult starts when the call has returned, knows
\* of every error of the upstream, and holds it or has sent it.
WrapInv ==
  /\ wrap.pc # "none" => req.pc = "returned"
  /\ wrap.failed <=> up.err
  /\ wrap.pc = "none" => ~up.err /\ client = {}
  /\ wrap.pc = "send" <=> wrap.hold # None
  /\ wrap.hold = "error" \/ "error" \in client => up.err
  /\ ctx = "live" /\ up.err => wrap.hold = "error" \/ "error" \in client

IInv == TypeOK /\ BillInv /\ WrapInv

-----------------------------------------------------------------------------
(* What the helpers of the actions return *)

\* An assignment to the record of the call keeps its type.
LEMMA CallFields ==
  ASSUME NEW q \in Calls
  PROVE  /\ \A v \in Pcs : [q EXCEPT !.pc = v] \in Calls /\ [q EXCEPT !.pc = v].pc = v
         /\ \A v \in BOOLEAN : [q EXCEPT !.any = v] \in Calls /\ [q EXCEPT !.any = v].pc = q.pc
         /\ \A v \in Nat : [q EXCEPT !.wake = v] \in Calls /\ [q EXCEPT !.wake = v].pc = q.pc
         /\ \A v \in {"no", "call", "boot", "done"} :
              [q EXCEPT !.refreshed = v] \in Calls /\ [q EXCEPT !.refreshed = v].pc = q.pc
  BY Zenon DEF Calls

\* A round that has seen one more credential or error is a round.
LEMMA RoundFields ==
  ASSUME NEW d \in Rounds, NEW a \in Auths
  PROVE  /\ [d EXCEPT !.tried = @ \cup {a}] \in Rounds
         /\ [d EXCEPT !.tried = @ \cup {a}, !.attempted = @ \cup {a}] \in Rounds
  BY DEF Rounds

LEMMA RoundError ==
  ASSUME NEW d \in Rounds, NEW e \in Errors \cup {"terminated"}
  PROVE  [d EXCEPT !.lastErr = e] \in Rounds
  BY DEF Rounds

LEMMA NewRoundType == NewRound \in Rounds
  BY DEF NewRound, Rounds

\* What a call returns with.
LEMMA ReturnedType ==
  ASSUME req \in Calls
  PROVE  returned \in Calls /\ returned.pc = "returned"
<1>1. 0 \in Nat /\ "returned" \in Pcs /\ NewRound \in Rounds
  BY NewRoundType DEF Pcs
<1> QED
  BY <1>1, Zenon DEF returned, Calls

\* The next credential is picked, or the call returns.
LEMMA NextAuthType ==
  ASSUME req \in Calls, NEW e \in Errors \cup {"terminated"}
  PROVE  nextAuth(e) \in Calls /\ nextAuth(e).pc \in {"returned", "pick"}
<1> DEFINE d == [req.round EXCEPT !.lastErr = e]
           y == [req EXCEPT !.pc = "pick", !.auth = None, !.model = 0, !.refreshed = "no",
                            !.any = FALSE, !.round = d]
<1>1. nextAuth(e) = IF req.stream /\ ctx = "cancelled" THEN returned ELSE y
  BY DEF nextAuth
<1>2. 0 \in Nat /\ "pick" \in Pcs /\ None \in Auths \cup {None}
  BY DEF Pcs
<1>3. d \in Rounds
  BY RoundError DEF Calls
<1>4. y \in Calls /\ y.pc = "pick"
  BY <1>2, <1>3, Zenon DEF Calls
<1> QED
  BY <1>1, <1>4, ReturnedType

\* A failed execution is followed by a call, a pick or the return.
LEMMA AfterType ==
  ASSUME ExecutionAssumption, req \in Calls, NEW e \in Errors
  PROVE  after(e) \in Calls /\ after(e).pc \in {"returned", "call", "pick"}
<1>1. CASE e = "invalid"
  BY <1>1, ReturnedType DEF after
<1>2. CASE e # "invalid" /\ req.model < ModelsOf[req.auth]
  <2> DEFINE k == IF req.refreshed = "no" THEN "no" ELSE "done"
             y == [req EXCEPT !.pc = "call", !.model = req.model + 1, !.any = FALSE, !.refreshed = k]
  <2>1. after(e) = y
    BY <1>2 DEF after
  <2>2. req.model + 1 \in Nat /\ "call" \in Pcs /\ k \in {"no", "call", "boot", "done"}
    BY DEF Calls, Pcs
  <2> QED
    BY <2>1, <2>2, Zenon DEF Calls
<1>3. CASE e # "invalid" /\ ~(req.model < ModelsOf[req.auth])
  <2>1. after(e) = nextAuth(e)
    BY <1>3 DEF after
  <2> QED
    BY <2>1, NextAuthType
<1> QED
  BY <1>1, <1>2, <1>3

\* Streams that are opened, read, discarded and closed.
LEMMA StreamFields ==
  ASSUME NEW u \in Streams, u.discarded <= u.open
  PROVE  /\ [u EXCEPT !.sent = @ + 1] \in Streams
         /\ [u EXCEPT !.sent = @ + 1].discarded <= [u EXCEPT !.sent = @ + 1].open
         /\ [u EXCEPT !.sent = @ + 1].err = u.err
         /\ [u EXCEPT !.open = @ + 1] \in Streams
         /\ [u EXCEPT !.open = @ + 1].discarded <= [u EXCEPT !.open = @ + 1].open
         /\ [u EXCEPT !.open = @ + 1].err = u.err
         /\ u.open > u.discarded =>
              /\ [u EXCEPT !.open = @ - 1] \in Streams
              /\ [u EXCEPT !.open = @ - 1].discarded <= [u EXCEPT !.open = @ - 1].open
              /\ [u EXCEPT !.open = @ - 1].err = u.err
<1>1. u.sent + 1 \in Nat /\ u.open + 1 \in Nat /\ (u.open > u.discarded => u.open - 1 \in Nat)
  BY DEF Streams
<1>2. /\ [u EXCEPT !.sent = @ + 1] \in Streams
      /\ [u EXCEPT !.open = @ + 1] \in Streams
      /\ (u.open > u.discarded => [u EXCEPT !.open = @ - 1] \in Streams)
  BY <1>1, Zenon DEF Streams
<1>3. /\ [u EXCEPT !.sent = @ + 1].err = u.err
      /\ [u EXCEPT !.open = @ + 1].err = u.err
      /\ [u EXCEPT !.open = @ - 1].err = u.err
  BY Zenon DEF Streams
<1> QED
  BY <1>2, <1>3, SMT DEF Streams

LEMMA DiscardType ==
  ASSUME NEW u \in Streams, u.discarded <= u.open
  PROVE  /\ discard(u) \in Streams
         /\ discard(u).discarded <= discard(u).open
         /\ discard(u).err = u.err
<1>1. u.discarded + 1 \in Nat
  BY DEF Streams
<1>2. /\ [u EXCEPT !.discarded = @ + 1] \in Streams
      /\ [u EXCEPT !.discarded = @ + 1].err = u.err
  BY <1>1, Zenon DEF Streams
<1>3. u.open > u.discarded =>
        [u EXCEPT !.discarded = @ + 1].discarded <= [u EXCEPT !.discarded = @ + 1].open
  BY DEF Streams
<1> QED
  BY <1>2, <1>3 DEF discard

\* A result keeps the cooldowns numbers.
LEMMA MarkResultType ==
  ASSUME ExecutionAssumption, cool \in [Auths -> Nat], NEW a, NEW v, MarkResult(a, v)
  PROVE  cool' \in [Auths -> Nat]
  BY DEF MarkResult, ExecutionAssumption
-----------------------------------------------------------------------------
(* The steps of the goroutine inside Execute or ExecuteStream *)

\* A verdict recorded at once leaves nothing to record.
LEMMA RecordSettles ==
  ASSUME IInv, req.pc # "refresh", NEW v \in {"ok", "fail"}
  PROVE  charged(ended(v), v) = "settled"
  BY DEF IInv, TypeOK, BillInv, charged, ended

\* Before the return there is no goroutine for the stream: the invariant only
\* asks that it starts at the return and that the verdict is kept for a
\* refresh.
LEMMA CallStep ==
  ASSUME IInv, req.pc # "returned",
         req' \in Calls, cool' \in [Auths -> Nat], UNCHANGED <<ctx, client>>,
         up' \in Streams, up'.discarded <= up'.open, up'.err = up.err \/ up'.err = FALSE,
         \/ wrap' = wrap
         \/ /\ req'.pc = "returned" /\ wrap' \in Wraps /\ wrap'.failed = wrap.failed
            /\ \/ wrap'.pc = "send" /\ wrap'.hold = "payload"
               \/ wrap'.pc = "read" /\ wrap'.hold = None,
         \/ bill' = bill /\ req.pc # "refresh" /\ req'.pc # "refresh"
         \/ bill' = "settled" /\ req'.pc # "refresh"
         \/ bill' = ended("fail") /\ req.pc # "refresh" /\ req'.pc = "refresh"
  PROVE  IInv'
<1>1. bill' \in {"settled", "cancelled", "fail"} /\ BillInv'
  BY DEF IInv, TypeOK, BillInv, ended
<1>2. wrap.pc = "none" /\ client = {} /\ ~up.err /\ ~wrap.failed /\ wrap.hold = None
  BY DEF IInv, TypeOK, WrapInv, Wraps, None
<1>3. wrap' \in Wraps
  BY DEF IInv, TypeOK
<1>4. TypeOK'
  BY <1>1, <1>3 DEF IInv, TypeOK
<1>5. ~up'.err /\ ~wrap'.failed /\ client' = {}
  BY <1>2, Zenon
<1>6. wrap'.hold # "error" /\ (wrap'.pc = "send" <=> wrap'.hold # None)
  BY <1>2 DEF None
<1>7. wrap'.pc # "none" => req'.pc = "returned"
  BY <1>2
<1>8. WrapInv'
  BY <1>5, <1>6, <1>7, Zenon DEF WrapInv
<1> QED
  BY <1>1, <1>4, <1>8 DEF IInv

\* A step that leaves the streams and the verdict alone.
LEMMA QuietStep ==
  ASSUME IInv, req.pc \notin {"returned", "refresh"}, req' \in Calls, req'.pc # "refresh",
         UNCHANGED <<cool, ctx, up, wrap, client, bill>>
  PROVE  IInv'
<1>1. /\ cool' \in [Auths -> Nat] /\ up' \in Streams /\ up'.discarded <= up'.open
      /\ up'.err = up.err
  BY DEF IInv, TypeOK
<1> QED
  BY <1>1, CallStep

\* The return of a cancelled call.
LEMMA CancelStep ==
  ASSUME IInv, req.pc # "returned", ReturnCancelled, UNCHANGED <<ctx, wrap, client>>,
         up' \in Streams, up'.discarded <= up'.open, up'.err = up.err
  PROVE  IInv'
<1>1. req' \in Calls /\ req'.pc = "returned" /\ bill' = "settled" /\ cool' \in [Auths -> Nat]
  BY ReturnedType DEF IInv, TypeOK, ReturnCancelled, Return
<1> QED
  BY <1>1, CallStep

\* A result that is recorded at once.
LEMMA RecordStep ==
  ASSUME ExecutionAssumption, IInv, req.pc \notin {"returned", "refresh"},
         NEW v \in {"ok", "fail"}, Record(v), UNCHANGED <<ctx, wrap, client>>,
         req' \in Calls, req'.pc # "refresh",
         up' \in Streams, up'.discarded <= up'.open, up'.err = up.err
  PROVE  IInv'
<1>1. bill' = "settled"
  BY RecordSettles DEF Record
<1>2. cool' \in [Auths -> Nat]
  BY MarkResultType DEF Record, IInv, TypeOK
<1> QED
  BY <1>1, <1>2, CallStep

LEMMA PickAuthStep ==
  ASSUME ExecutionAssumption, IInv, NEW a \in Auths, PickAuth(a)
  PROVE  IInv'
<1> DEFINE d == [req.round EXCEPT !.tried = @ \cup {a}]
           f == [req.round EXCEPT !.tried = @ \cup {a}, !.attempted = @ \cup {a}]
           y == [req EXCEPT !.round = d]
           z == [req EXCEPT !.pc = "prepare", !.auth = a, !.model = 1, !.refreshed = "no",
                            !.round = f]
<1>1. req \in Calls /\ req.pc = "pick"
  BY DEF IInv, TypeOK, PickAuth
<1>2. d \in Rounds /\ f \in Rounds
  BY <1>1, RoundFields DEF Calls
<1>3. y \in Calls /\ y.pc = req.pc
  BY <1>1, <1>2, Zenon DEF Calls
<1>4. 1 \in Nat /\ "prepare" \in Pcs
  BY DEF Pcs
<1>5. z \in Calls /\ z.pc = "prepare"
  BY <1>1, <1>2, <1>4, Zenon DEF Calls
<1>6. req' = y \/ req' = z
  BY <1>1 DEF PickAuth, Calls, Rounds
<1> QED
  BY <1>1, <1>3, <1>5, <1>6, QuietStep DEF PickAuth

LEMMA RoundFailsStep ==
  ASSUME IInv, RoundFails
  PROVE  IInv'
<1>1. req \in Calls /\ "decide" \in Pcs /\ req.pc = "pick"
  BY DEF IInv, TypeOK, Pcs, RoundFails
<1>2. req' \in Calls /\ req'.pc = "decide"
  BY <1>1, CallFields DEF RoundFails
<1> QED
  BY <1>1, <1>2, QuietStep DEF RoundFails

LEMMA PrepareOkStep ==
  ASSUME IInv, PrepareOk
  PROVE  IInv'
<1>1. req \in Calls /\ "call" \in Pcs /\ req.pc = "prepare"
  BY DEF IInv, TypeOK, Pcs, PrepareOk
<1>2. req' \in Calls /\ req'.pc = "call"
  BY <1>1, CallFields DEF PrepareOk
<1> QED
  BY <1>1, <1>2, QuietStep DEF PrepareOk

LEMMA ReturnStep ==
  ASSUME IInv, req.pc \notin {"returned", "refresh"}, Return,
         UNCHANGED <<cool, ctx, up, wrap, client, bill>>
  PROVE  IInv'
<1>1. req' \in Calls /\ req'.pc = "returned"
  BY ReturnedType DEF IInv, TypeOK, Return
<1> QED
  BY <1>1, QuietStep

LEMMA PrepareFailsStep ==
  ASSUME ExecutionAssumption, IInv, PrepareFails
  PROVE  IInv'
<1>1. /\ req \in Calls /\ req.pc = "prepare" /\ UNCHANGED <<ctx, up, wrap, client>>
      /\ up' \in Streams /\ up'.discarded <= up'.open /\ up'.err = up.err
  BY DEF IInv, TypeOK, PrepareFails
<1>2. CASE ctx = "cancelled" /\ req.auth \in ClaudeOAuth
  BY <1>1, <1>2, CancelStep DEF PrepareFails
<1>3. CASE ~(ctx = "cancelled" /\ req.auth \in ClaudeOAuth)
  <2> DEFINE d == [req.round EXCEPT !.lastErr = "failure"]
             y == [req EXCEPT !.pc = "pick", !.auth = None, !.model = 0, !.round = d]
  <2>1. d \in Rounds /\ 0 \in Nat /\ "pick" \in Pcs
    BY <1>1, RoundError DEF Calls, Errors, Pcs
  <2>2. y \in Calls /\ y.pc = "pick"
    BY <1>1, <2>1, Zenon DEF Calls
  <2>3. Record("fail") /\ req' = y
    BY <1>3 DEF PrepareFails
  <2> QED
    BY <1>1, <2>2, <2>3, RecordStep
<1> QED
  BY <1>2, <1>3

LEMMA CallOkStep ==
  ASSUME ExecutionAssumption, IInv, CallOk
  PROVE  IInv'
<1>1. /\ req \in Calls /\ req.pc = "call" /\ UNCHANGED <<ctx, wrap, client>>
      /\ up \in Streams /\ up.discarded <= up.open
  BY DEF IInv, TypeOK, CallOk, mayCall
<1> DEFINE o == [up EXCEPT !.open = @ + 1]
<1>2. o \in Streams /\ o.discarded <= o.open /\ o.err = up.err
  BY <1>1, StreamFields
<1>3. CASE req.stream /\ ~leaves
  <2> DEFINE q == [req EXCEPT !.pc = "bootstrap", !.any = FALSE]
             u == [up EXCEPT !.sent = 0, !.err = FALSE, !.open = up.open + 1]
  <2>1. req' = q /\ up' = u /\ UNCHANGED <<cool, bill>>
    BY <1>3 DEF CallOk
  <2>2. 0 \in Nat /\ up.open + 1 \in Nat /\ "bootstrap" \in Pcs
    BY <1>1 DEF Streams, Pcs
  <2>3. q \in Calls /\ q.pc = "bootstrap"
    BY <1>1, <2>2, Zenon DEF Calls
  <2>4. u \in Streams /\ u.err = FALSE
    BY <1>1, <2>2, Zenon DEF Streams
  <2>5. u.discarded = up.discarded /\ u.open = up.open + 1
    BY <1>1 DEF Streams
  <2>6. u.discarded <= u.open
    BY <1>1, <2>5 DEF Streams
  <2>7. cool' \in [Auths -> Nat]
    BY <2>1 DEF IInv, TypeOK
  <2> HIDE DEF q, u
  <2> QED
    BY <1>1, <2>1, <2>3, <2>4, <2>6, <2>7, CallStep
<1>4. CASE req.stream /\ leaves
  <2>1. ReturnCancelled /\ up' = o
    BY <1>4 DEF CallOk
  <2> QED
    BY <1>1, <1>2, <2>1, CancelStep
<1>5. CASE ~req.stream /\ ctx = "cancelled" /\ req.auth \in ClaudeOAuth
  <2>1. ReturnCancelled /\ up' = up
    BY <1>5 DEF CallOk
  <2> QED
    BY <1>1, <2>1, CancelStep
<1>6. CASE ~req.stream /\ ~(ctx = "cancelled" /\ req.auth \in ClaudeOAuth)
  <2>1. Record("ok") /\ Return /\ up' = up
    BY <1>6 DEF CallOk
  <2>2. req' \in Calls /\ req'.pc = "returned"
    BY <1>1, <2>1, ReturnedType DEF Return
  <2> QED
    BY <1>1, <2>1, <2>2, RecordStep
<1> QED
  BY <1>3, <1>4, <1>5, <1>6

LEMMA CallFailsStep ==
  ASSUME ExecutionAssumption, IInv, NEW e \in Errors, CallFails(e)
  PROVE  IInv'
<1>1. /\ req \in Calls /\ req.pc = "call" /\ UNCHANGED <<ctx, up, wrap, client>>
      /\ up' \in Streams /\ up'.discarded <= up'.open /\ up'.err = up.err
  BY DEF IInv, TypeOK, CallFails, mayCall
<1>2. CASE ctx = "cancelled"
  BY <1>1, <1>2, CancelStep DEF CallFails
<1>3. CASE ctx = "live" /\ refreshes(e)
  <2> DEFINE q == [req EXCEPT !.pc = "refresh", !.refreshed = "call"]
  <2>1. req' = q /\ bill' = ended("fail") /\ UNCHANGED cool
    BY <1>3 DEF CallFails
  <2>2. "refresh" \in Pcs
    BY DEF Pcs
  <2>3. q \in Calls /\ q.pc = "refresh"
    BY <1>1, <2>2, Zenon DEF Calls
  <2>4. cool' \in [Auths -> Nat]
    BY <2>1 DEF IInv, TypeOK
  <2> HIDE DEF q
  <2> QED
    BY <1>1, <2>1, <2>3, <2>4, CallStep
<1>4. CASE ctx = "live" /\ ~refreshes(e)
  <2>1. Record("fail") /\ req' = after(e)
    BY <1>4 DEF CallFails
  <2> QED
    BY <1>1, <2>1, AfterType, RecordStep
<1> QED
  BY <1>2, <1>3, <1>4 DEF IInv, TypeOK

LEMMA RefreshOkStep ==
  ASSUME IInv, RefreshOk
  PROVE  IInv'
<1>1. req \in Calls /\ "call" \in Pcs /\ req.pc = "refresh"
  BY DEF IInv, TypeOK, Pcs, RefreshOk
<1>2. req' \in Calls /\ req'.pc = "call"
  BY <1>1, CallFields DEF RefreshOk
<1>3. bill' = "settled"
  BY <1>1 DEF RefreshOk, IInv, BillInv, charged
<1>4. up' \in Streams /\ up'.discarded <= up'.open /\ up'.err = up.err
  BY DiscardType DEF RefreshOk, IInv, TypeOK
<1>5. cool' \in [Auths -> Nat] /\ UNCHANGED <<ctx, wrap, client>>
  BY DEF RefreshOk, IInv, TypeOK
<1> QED
  BY <1>1, <1>2, <1>3, <1>4, <1>5, CallStep

LEMMA RefreshFailsStep ==
  ASSUME ExecutionAssumption, IInv, RefreshFails
  PROVE  IInv'
<1>1. req \in Calls /\ req.pc = "refresh" /\ UNCHANGED <<ctx, wrap, client>>
  BY DEF IInv, TypeOK, RefreshFails
<1>2. up' \in Streams /\ up'.discarded <= up'.open /\ up'.err = up.err
  BY DiscardType DEF RefreshFails, IInv, TypeOK
<1>3. CASE ctx = "cancelled" /\ req.auth \in ClaudeOAuth
  BY <1>1, <1>2, <1>3, CancelStep DEF RefreshFails
<1>4. CASE ~(ctx = "cancelled" /\ req.auth \in ClaudeOAuth)
  <2>1. /\ bill' = charged(bill, "fail") /\ MarkResult(req.auth, "fail")
        /\ req' = [after("unauthorized") EXCEPT !.refreshed = "no"]
    BY <1>4 DEF RefreshFails
  <2>2. bill' = "settled"
    BY <1>1, <2>1 DEF IInv, BillInv, charged
  <2>3. cool' \in [Auths -> Nat]
    BY <2>1, MarkResultType DEF IInv, TypeOK
  <2>4. after("unauthorized") \in Calls /\ after("unauthorized").pc # "refresh"
    BY <1>1, AfterType DEF Errors
  <2>5. req' \in Calls /\ req'.pc # "refresh"
    BY <2>1, <2>4, CallFields
  <2> QED
    BY <1>1, <1>2, <2>2, <2>3, <2>5, CallStep
<1> QED
  BY <1>3, <1>4
LEMMA BootstrapEmptyStep ==
  ASSUME IInv, BootstrapEmpty
  PROVE  IInv'
<1>1. req \in Calls /\ req.pc = "bootstrap" /\ UNCHANGED <<cool, ctx, wrap, client, bill>>
  BY DEF IInv, TypeOK, BootstrapEmpty
<1>2. req' \in Calls /\ req'.pc = "bootstrap"
  BY <1>1, CallFields DEF BootstrapEmpty
<1>3. up' \in Streams /\ up'.discarded <= up'.open /\ up'.err = up.err
  BY StreamFields DEF BootstrapEmpty, IInv, TypeOK
<1>4. cool' \in [Auths -> Nat]
  BY <1>1 DEF IInv, TypeOK
<1> QED
  BY <1>1, <1>2, <1>3, <1>4, CallStep

LEMMA BootstrapPayloadStep ==
  ASSUME IInv, BootstrapPayload
  PROVE  IInv'
<1> DEFINE sent == [up EXCEPT !.sent = @ + 1]
<1>1. req \in Calls /\ req.pc = "bootstrap" /\ UNCHANGED <<ctx, client>>
  BY DEF IInv, TypeOK, BootstrapPayload
<1>2. sent \in Streams /\ sent.discarded <= sent.open /\ sent.err = up.err
  BY StreamFields DEF IInv, TypeOK
<1>3. CASE ctx = "cancelled" /\ req.auth \in ClaudeOAuth
  <2>1. ReturnCancelled /\ up' = discard(sent) /\ UNCHANGED wrap
    BY <1>3 DEF BootstrapPayload
  <2> HIDE DEF sent
  <2>2. up' \in Streams /\ up'.discarded <= up'.open /\ up'.err = up.err
    BY <1>2, <2>1, DiscardType
  <2> QED
    BY <1>1, <2>1, <2>2, CancelStep
<1>4. CASE ~(ctx = "cancelled" /\ req.auth \in ClaudeOAuth)
  <2> DEFINE w == [wrap EXCEPT !.pc = "send", !.hold = "payload"]
  <2>1. Return /\ up' = sent /\ wrap' = w /\ UNCHANGED <<cool, bill>>
    BY <1>4 DEF BootstrapPayload
  <2>2. req' \in Calls /\ req'.pc = "returned"
    BY <1>1, <2>1, ReturnedType DEF Return
  <2>3. wrap \in Wraps /\ cool' \in [Auths -> Nat]
    BY <2>1 DEF IInv, TypeOK
  <2>4. w \in Wraps /\ w.failed = wrap.failed /\ w.pc = "send" /\ w.hold = "payload"
    BY <2>3, Zenon DEF Wraps
  <2> HIDE DEF w, sent
  <2> QED
    BY <1>1, <1>2, <2>1, <2>2, <2>3, <2>4, CallStep
<1> QED
  BY <1>3, <1>4

LEMMA BootstrapErrorStep ==
  ASSUME ExecutionAssumption, IInv, NEW e \in Errors, BootstrapError(e)
  PROVE  IInv'
<1> DEFINE sent == [up EXCEPT !.sent = @ + 1]
<1>1. req \in Calls /\ req.pc = "bootstrap" /\ UNCHANGED <<ctx, wrap, client>>
  BY DEF IInv, TypeOK, BootstrapError
<1>2. sent \in Streams /\ sent.discarded <= sent.open /\ sent.err = up.err
  BY StreamFields DEF IInv, TypeOK
<1>3. /\ discard(sent) \in Streams /\ discard(sent).discarded <= discard(sent).open
      /\ discard(sent).err = up.err
  <2> HIDE DEF sent
  <2> QED
    BY <1>2, DiscardType
<1>4. CASE abandons
  <2>1. ReturnCancelled /\ up' = discard(sent)
    BY <1>4 DEF BootstrapError
  <2> QED
    BY <1>1, <1>3, <2>1, CancelStep
<1>5. CASE ~abandons /\ refreshes(e)
  <2> DEFINE q == [req EXCEPT !.pc = "refresh", !.refreshed = "boot"]
  <2>1. req' = q /\ bill' = ended("fail") /\ up' = sent /\ UNCHANGED cool
    BY <1>5 DEF BootstrapError
  <2>2. "refresh" \in Pcs
    BY DEF Pcs
  <2>3. q \in Calls /\ q.pc = "refresh"
    BY <1>1, <2>2, Zenon DEF Calls
  <2>4. cool' \in [Auths -> Nat]
    BY <2>1 DEF IInv, TypeOK
  <2> HIDE DEF q, sent
  <2> QED
    BY <1>1, <1>2, <2>1, <2>3, <2>4, CallStep
<1>6. CASE ~abandons /\ ~refreshes(e)
  <2>1. Record("fail") /\ req' = after(e) /\ up' = discard(sent)
    BY <1>6 DEF BootstrapError
  <2> HIDE DEF sent
  <2> QED
    BY <1>1, <1>3, <2>1, AfterType, RecordStep
<1> QED
  BY <1>4, <1>5, <1>6

LEMMA BootstrapClosedStep ==
  ASSUME ExecutionAssumption, IInv, BootstrapClosed
  PROVE  IInv'
<1>1. req \in Calls /\ req.pc = "bootstrap" /\ UNCHANGED <<ctx, client>>
  BY DEF IInv, TypeOK, BootstrapClosed
<1>2. up' \in Streams /\ up'.discarded <= up'.open /\ up'.err = up.err
  BY StreamFields DEF IInv, TypeOK, BootstrapClosed, live
<1>3. CASE ctx = "cancelled" /\ req.auth \in ClaudeOAuth
  <2>1. ReturnCancelled /\ UNCHANGED wrap
    BY <1>3 DEF BootstrapClosed
  <2> QED
    BY <1>1, <1>2, <2>1, CancelStep
<1>4. CASE ~(ctx = "cancelled" /\ req.auth \in ClaudeOAuth) /\ ~req.any
  <2>1. Record("fail") /\ req' = after("failure") /\ UNCHANGED wrap
    BY <1>4 DEF BootstrapClosed
  <2>2. req' \in Calls /\ req'.pc # "refresh"
    BY <1>1, <2>1, AfterType DEF Errors
  <2> QED
    BY <1>1, <1>2, <2>1, <2>2, RecordStep
<1>5. CASE ~(ctx = "cancelled" /\ req.auth \in ClaudeOAuth) /\ req.any
  <2> DEFINE w == [wrap EXCEPT !.pc = "read"]
  <2>1. Return /\ wrap' = w /\ UNCHANGED <<cool, bill>>
    BY <1>5 DEF BootstrapClosed
  <2>2. req' \in Calls /\ req'.pc = "returned"
    BY <1>1, <2>1, ReturnedType DEF Return
  <2>3. wrap \in Wraps /\ cool' \in [Auths -> Nat]
    BY <2>1 DEF IInv, TypeOK
  <2>4. wrap.hold = None
    BY <1>1 DEF IInv, WrapInv
  <2>5. w \in Wraps /\ w.failed = wrap.failed /\ w.pc = "read" /\ w.hold = wrap.hold
    BY <2>3, Zenon DEF Wraps
  <2> HIDE DEF w
  <2> QED
    BY <1>1, <1>2, <2>1, <2>2, <2>3, <2>4, <2>5, CallStep
<1> QED
  BY <1>3, <1>4, <1>5

LEMMA BootstrapCancelledStep ==
  ASSUME ExecutionAssumption, IInv, BootstrapCancelled
  PROVE  IInv'
<1>1. req \in Calls /\ req.pc = "bootstrap" /\ UNCHANGED <<ctx, wrap, client>>
  BY DEF IInv, TypeOK, BootstrapCancelled
<1>2. up' \in Streams /\ up'.discarded <= up'.open /\ up'.err = up.err
  BY DiscardType DEF BootstrapCancelled, IInv, TypeOK
<1>3. CASE abandons
  BY <1>1, <1>2, <1>3, CancelStep DEF BootstrapCancelled
<1>4. CASE ~abandons
  <2>1. Record("fail") /\ req' = after("failure")
    BY <1>4 DEF BootstrapCancelled
  <2>2. req' \in Calls /\ req'.pc # "refresh"
    BY <1>1, <2>1, AfterType DEF Errors
  <2> QED
    BY <1>1, <1>2, <2>1, <2>2, RecordStep
<1> QED
  BY <1>3, <1>4

\* The smaller of two numbers is a number.
LEMMA MinPair ==
  ASSUME NEW m \in Nat, NEW n \in Nat
  PROVE  Min({m, n}) \in Nat
<1> DEFINE least == IF m <= n THEN m ELSE n
<1>1. least \in {m, n} /\ \A y \in {m, n} : least <= y
  OBVIOUS
<1> HIDE DEF least
<1>2. \E x \in {m, n} : \A y \in {m, n} : x <= y
  BY <1>1
<1>3. (CHOOSE x \in {m, n} : \A y \in {m, n} : x <= y) \in {m, n}
  BY <1>2
<1> QED
  BY <1>3 DEF Min

LEMMA BeginWaitStep ==
  ASSUME ExecutionAssumption, IInv, NEW w \in 1..MaxWait, BeginWait(w)
  PROVE  IInv'
<1>1. req \in Calls /\ req.pc = "decide"
  BY DEF IInv, TypeOK, BeginWait
<1>2. PICK d \in jittered(w) : req' = [req EXCEPT !.pc = "wait", !.wake = d]
  BY DEF BeginWait
<1>3. MaxWait \in Nat /\ w \in Nat /\ w + Jitter \in Nat
  BY DEF ExecutionAssumption
<1>4. Min({w + Jitter, MaxWait}) \in Nat
  BY <1>3, MinPair
<1>5. d \in Nat /\ "wait" \in Pcs
  BY <1>3, <1>4 DEF jittered, Pcs
<1>6. req' \in Calls /\ req'.pc = "wait"
  BY <1>1, <1>2, <1>5, Zenon DEF Calls
<1> QED
  BY <1>1, <1>6, QuietStep DEF BeginWait

LEMMA NextRoundStep ==
  ASSUME IInv, NextRound
  PROVE  IInv'
<1> DEFINE n == IF req.attempt < AttemptCap THEN req.attempt + 1 ELSE req.attempt
           q == [req EXCEPT !.pc = "pick", !.attempt = n, !.round = NewRound]
<1>1. req \in Calls /\ req.pc = "wait" /\ req' = q
  BY DEF IInv, TypeOK, NextRound
<1>2. n \in Nat /\ "pick" \in Pcs
  BY <1>1 DEF Calls, Pcs
<1> HIDE DEF n
<1>3. q \in Calls /\ q.pc = "pick"
  BY <1>1, <1>2, NewRoundType, Zenon DEF Calls
<1> HIDE DEF q
<1> QED
  BY <1>1, <1>3, QuietStep DEF NextRound

LEMMA RequestStep ==
  ASSUME ExecutionAssumption, IInv, Request
  PROVE  IInv'
<1>1. ASSUME NEW a \in Auths, PickAuth(a) PROVE IInv'
  BY <1>1, PickAuthStep
<1>2. CASE InterceptorRefuses
  <2>1. CASE Return
    BY <1>2, <2>1, ReturnStep DEF InterceptorRefuses
  <2>2. CASE req' = nextAuth("terminated")
    <3>1. req.pc = "call" /\ req' \in Calls /\ req'.pc \in {"returned", "pick"}
      BY <1>2, <2>2, NextAuthType DEF InterceptorRefuses, IInv, TypeOK
    <3> QED
      BY <1>2, <3>1, QuietStep DEF InterceptorRefuses
  <2> QED
    BY <1>2, <2>1, <2>2 DEF InterceptorRefuses
<1>3. CASE CallSkipped
  <2>1. /\ up' \in Streams /\ up'.discarded <= up'.open /\ up'.err = up.err
        /\ req.pc = "call" /\ ReturnCancelled /\ UNCHANGED <<ctx, wrap, client>>
    BY <1>3 DEF CallSkipped, IInv, TypeOK
  <2> QED
    BY <2>1, CancelStep
<1>4. ASSUME NEW e \in Errors, CallFails(e) PROVE IInv'
  BY <1>4, CallFailsStep
<1>5. ASSUME NEW e \in Errors, BootstrapError(e) PROVE IInv'
  BY <1>5, BootstrapErrorStep
<1>6. ASSUME NEW w \in 1..MaxWait, BeginWait(w) PROVE IInv'
  BY <1>6, BeginWaitStep
<1>7. CASE GiveUp
  BY <1>7, ReturnStep DEF GiveUp
<1>8. CASE WaitCancelled
  BY <1>8, ReturnStep DEF WaitCancelled
<1>9. CASE RoundFails \/ PrepareOk \/ PrepareFails \/ CallOk \/ RefreshOk \/ RefreshFails
  BY <1>9, RoundFailsStep, PrepareOkStep, PrepareFailsStep, CallOkStep, RefreshOkStep,
     RefreshFailsStep
<1>10. CASE \/ BootstrapEmpty \/ BootstrapPayload \/ BootstrapClosed \/ BootstrapCancelled
            \/ NextRound
  BY <1>10, BootstrapEmptyStep, BootstrapPayloadStep, BootstrapClosedStep,
     BootstrapCancelledStep, NextRoundStep
<1> QED
  BY <1>1, <1>2, <1>3, <1>4, <1>5, <1>6, <1>7, <1>8, <1>9, <1>10 DEF Request

-----------------------------------------------------------------------------
(* The steps of the goroutine of the stream *)

LEMMA WrapReadStep ==
  ASSUME ExecutionAssumption, IInv, NEW c \in Chunks, WrapRead(c)
  PROVE  IInv'
<1> DEFINE e == up.err \/ c = "error"
           u == [up EXCEPT !.sent = up.sent + 1, !.err = e]
           k == wrap.failed \/ c = "error"
           p == IF forwards(c) THEN "send" ELSE "read"
           h == IF forwards(c) THEN c ELSE None
           w == [pc |-> p, hold |-> h, failed |-> k]
<1>1. up' = u /\ wrap' = w /\ UNCHANGED <<req, ctx, client>> /\ wrap.pc = "read"
  BY DEF WrapRead
<1>2. /\ req \in Calls /\ up \in Streams /\ up.discarded <= up.open /\ wrap \in Wraps
      /\ req.pc = "returned" /\ wrap.hold = None /\ ctx \in {"live", "cancelled"}
      /\ bill \in {"settled", "cancelled"}
  BY <1>1, Zenon DEF IInv, TypeOK, BillInv, WrapInv
<1>3. e \in BOOLEAN /\ k \in BOOLEAN /\ (k <=> e)
  BY DEF IInv, WrapInv
<1>4. up.sent + 1 \in Nat
  BY <1>2 DEF Streams
<1>5. p \in {"read", "send"} /\ h \in {None, "payload", "error"} /\ (p = "send" <=> h # None)
  BY DEF Chunks, forwards, None
<1>6. (h = "error" <=> c = "error") /\ (e <=> up.err \/ c = "error")
  BY DEF forwards, None
<1> HIDE DEF e, k, p, h
<1>7. u \in Streams /\ u.err = e
  BY <1>2, <1>3, <1>4, Zenon DEF Streams
<1>8. u.discarded <= u.open
  BY <1>2 DEF Streams
<1>9. w \in Wraps /\ w.pc = p /\ w.hold = h /\ w.failed = k
  BY <1>3, <1>5, Zenon DEF Wraps
<1>10. bill' \in {"settled", "cancelled"} /\ (bill' = "cancelled" => ctx = "cancelled")
  <2>1. bill = "cancelled" => ctx = "cancelled"
    BY DEF IInv, BillInv
  <2>2. CASE c = "error" /\ ~wrap.failed
    <3>1. ~up.err
      BY <2>2 DEF IInv, WrapInv
    <3>2. bill' = charged(ended("fail"), "fail")
      BY <2>2, <3>1 DEF WrapRead
    <3> QED
      BY <1>2, <3>2, RecordSettles
  <2>3. CASE ~(c = "error" /\ ~wrap.failed)
    <3>1. ~(c = "error" /\ ~up.err)
      BY <2>3 DEF IInv, WrapInv
    <3>2. bill' = bill
      BY <2>3, <3>1 DEF WrapRead
    <3> QED
      BY <1>2, <2>1, <3>2
  <2> QED
    BY <2>2, <2>3
<1>11. cool' \in [Auths -> Nat]
  <2>1. MarkResult(req.auth, "fail") \/ cool' = cool
    BY DEF WrapRead
  <2> QED
    BY <2>1, MarkResultType DEF IInv, TypeOK
<1> HIDE DEF u, w
<1>12. TypeOK'
  BY <1>1, <1>7, <1>8, <1>9, <1>10, <1>11 DEF IInv, TypeOK
<1>13. BillInv'
  BY <1>1, <1>2, <1>10 DEF BillInv
<1>14. /\ wrap'.pc # "none" /\ req'.pc = "returned" /\ (wrap'.failed <=> up'.err)
       /\ (wrap'.pc = "send" <=> wrap'.hold # None)
  BY <1>1, <1>2, <1>3, <1>5, <1>7, <1>9
<1>15. wrap'.hold = "error" \/ "error" \in client' => up'.err
  <2>1. "error" \in client => up.err
    BY DEF IInv, WrapInv
  <2> QED
    BY <1>1, <1>6, <1>7, <1>9, <2>1
<1>16. ctx' = "live" /\ up'.err => wrap'.hold = "error" \/ "error" \in client'
  <2>1. ctx = "live" /\ up.err => "error" \in client
    BY <1>2, Zenon DEF IInv, WrapInv, None
  <2> QED
    BY <1>1, <1>6, <1>7, <1>9, <2>1
<1>17. WrapInv'
  BY <1>14, <1>15, <1>16, Zenon DEF WrapInv
<1> QED
  BY <1>12, <1>13, <1>17 DEF IInv

LEMMA WrapSendStep ==
  ASSUME IInv, WrapSend
  PROVE  IInv'
<1> DEFINE w == [wrap EXCEPT !.pc = "read", !.hold = None]
<1>1. /\ wrap' = w /\ wrap.pc = "send" /\ client' = client \cup {wrap.hold}
      /\ UNCHANGED <<req, cool, ctx, up, bill>> /\ wrap \in Wraps
  BY DEF WrapSend, IInv, TypeOK
<1>2. w \in Wraps /\ w.pc = "read" /\ w.hold = None /\ w.failed = wrap.failed
  BY <1>1, Zenon DEF Wraps
<1> HIDE DEF w
<1>3. wrap.hold \in {"payload", "error"}
  BY <1>1, Zenon DEF IInv, WrapInv, Wraps
<1>4. TypeOK' /\ BillInv'
  BY <1>1, <1>2, <1>3 DEF IInv, TypeOK, BillInv
<1>5. /\ wrap.pc # "none" => req.pc = "returned"
      /\ wrap.failed <=> up.err
      /\ wrap.hold = "error" \/ "error" \in client => up.err
      /\ ctx = "live" /\ up.err => wrap.hold = "error" \/ "error" \in client
  BY DEF IInv, WrapInv
<1>6. WrapInv'
  <2>1. "error" \in client' <=> wrap.hold = "error" \/ "error" \in client
    BY <1>1
  <2>2. wrap'.hold = None /\ wrap'.pc = "read" /\ wrap'.failed = wrap.failed
    BY <1>1, <1>2
  <2>3. /\ wrap'.hold # "error" /\ req' = req /\ up' = up /\ ctx' = ctx /\ wrap'.pc # "none"
        /\ wrap'.pc # "send"
    BY <1>1, <2>2 DEF None
  <2> QED
    BY <1>1, <1>5, <2>1, <2>2, <2>3, Zenon DEF WrapInv
<1> QED
  BY <1>4, <1>6 DEF IInv

\* The other steps once the call has returned: the goroutine ends, or a
\* stream nobody reads does.
LEMMA QuietWrapStep ==
  ASSUME IInv, UNCHANGED <<req, ctx, client>>, cool' \in [Auths -> Nat],
         wrap' \in Wraps, wrap'.failed = wrap.failed, wrap'.hold = wrap.hold \/ ctx = "cancelled",
         wrap'.hold = wrap.hold \/ wrap'.hold = None, wrap'.pc = "send" <=> wrap'.hold # None,
         wrap'.pc = wrap.pc \/ (wrap'.pc # "none" /\ wrap.pc # "none"),
         up' \in Streams, up'.discarded <= up'.open, up'.err = up.err,
         bill' = bill \/ (req.pc # "refresh" /\
            (bill' = "settled" \/ (bill' = "cancelled" /\ ctx = "cancelled")))
  PROVE  IInv'
<1>1. TypeOK'
  BY DEF IInv, TypeOK
<1>2. BillInv'
  BY DEF IInv, BillInv
<1>3. /\ wrap.pc # "none" => req.pc = "returned"
      /\ wrap.failed <=> up.err
      /\ wrap.pc = "none" => ~up.err /\ client = {}
      /\ wrap.hold = "error" \/ "error" \in client => up.err
      /\ ctx = "live" /\ up.err => wrap.hold = "error" \/ "error" \in client
  BY DEF IInv, WrapInv
<1>4. None # "error" /\ (ctx = "live" => ctx # "cancelled")
  BY DEF None
<1>5. (wrap'.hold = "error" => wrap.hold = "error") /\ (ctx = "live" => wrap'.hold = wrap.hold)
  BY <1>4
<1>6. /\ wrap'.pc = "none" => wrap.pc = "none"
      /\ wrap'.pc # "none" => wrap.pc # "none"
  OBVIOUS
<1>7. WrapInv'
  BY <1>3, <1>5, <1>6, Zenon DEF WrapInv
<1> QED
  BY <1>1, <1>2, <1>7 DEF IInv

LEMMA WrapGoneStep ==
  ASSUME IInv, WrapGone
  PROVE  IInv'
<1> DEFINE w == [wrap EXCEPT !.pc = "done", !.hold = None]
<1>1. /\ wrap' = w /\ wrap.pc = "send" /\ ctx = "cancelled" /\ wrap \in Wraps
      /\ UNCHANGED <<req, cool, ctx, client, bill>> /\ cool' \in [Auths -> Nat]
  BY DEF WrapGone, IInv, TypeOK
<1>2. w \in Wraps /\ w.pc = "done" /\ w.hold = None /\ w.failed = wrap.failed
  BY <1>1, Zenon DEF Wraps
<1>3. up' \in Streams /\ up'.discarded <= up'.open /\ up'.err = up.err
  BY DiscardType DEF WrapGone, IInv, TypeOK
<1> HIDE DEF w
<1> QED
  BY <1>1, <1>2, <1>3, QuietWrapStep

LEMMA WrapEndStep ==
  ASSUME ExecutionAssumption, IInv, WrapEnd
  PROVE  IInv'
<1> DEFINE w == [wrap EXCEPT !.pc = "done"]
<1>1. /\ wrap' = w /\ wrap.pc = "read" /\ wrap \in Wraps /\ UNCHANGED <<req, ctx, client>>
      /\ up' = IF live THEN [up EXCEPT !.open = @ - 1] ELSE up
  BY DEF WrapEnd, IInv, TypeOK
<1>2. /\ req.pc = "returned" /\ wrap.hold = None /\ bill \in {"settled", "cancelled"}
      /\ (wrap.failed <=> up.err) /\ ctx \in {"live", "cancelled"}
  BY <1>1, Zenon DEF IInv, TypeOK, BillInv, WrapInv
<1>3. w \in Wraps /\ w.pc = "done" /\ w.hold = wrap.hold /\ w.failed = wrap.failed
  BY <1>1, Zenon DEF Wraps
<1>4. up' \in Streams /\ up'.discarded <= up'.open /\ up'.err = up.err
  BY <1>1, StreamFields DEF live, IInv, TypeOK
<1>5. cool' \in [Auths -> Nat]
  <2>1. MarkResult(req.auth, "ok") \/ cool' = cool
    BY DEF WrapEnd
  <2> QED
    BY <2>1, MarkResultType DEF IInv, TypeOK
<1>6. bill' = bill \/ bill' = "settled" \/ (bill' = "cancelled" /\ ctx = "cancelled")
  <2>1. CASE up.err
    <3>1. ~succeeds
      BY <1>2, <2>1 DEF succeeds
    <3> QED
      BY <2>1, <3>1 DEF WrapEnd
  <2>2. CASE ~up.err /\ succeeds
    <3>1. bill' = charged(ended("ok"), "ok")
      BY <2>2 DEF WrapEnd
    <3> QED
      BY <1>2, <3>1, RecordSettles
  <2>3. CASE ~up.err /\ ~succeeds
    <3>1. bill' = ended("ok")
      BY <2>3 DEF WrapEnd
    <3>2. ctx = "cancelled"
      BY <1>2, <2>3 DEF succeeds
    <3> QED
      BY <1>2, <3>1, <3>2 DEF ended
  <2> QED
    BY <2>1, <2>2, <2>3
<1> HIDE DEF w
<1> QED
  BY <1>1, <1>2, <1>3, <1>4, <1>5, <1>6, QuietWrapStep DEF None

LEMMA WrapStep ==
  ASSUME ExecutionAssumption, IInv, Wrap
  PROVE  IInv'
  BY WrapReadStep, WrapSendStep, WrapGoneStep, WrapEndStep DEF Wrap

-----------------------------------------------------------------------------
(* The steps of the environment *)

LEMMA StreamEndStep ==
  ASSUME IInv, DrainDiscarded \/ SourceEnds
  PROVE  IInv'
<1>1. up \in Streams /\ up.discarded <= up.open
  BY DEF IInv, TypeOK
<1>2. up' \in Streams /\ up'.discarded <= up'.open /\ up'.err = up.err
  <2>1. CASE DrainDiscarded
    <3> DEFINE u == [up EXCEPT !.open = up.open - 1, !.discarded = up.discarded - 1]
    <3>1. up' = u /\ up.open - 1 \in Nat /\ up.discarded - 1 \in Nat
      BY <1>1, <2>1 DEF DrainDiscarded, Streams
    <3>2. u \in Streams /\ u.err = up.err
      BY <1>1, <3>1, Zenon DEF Streams
    <3>3. u.discarded <= u.open
      BY <1>1 DEF Streams
    <3> QED
      BY <3>1, <3>2, <3>3
  <2>2. CASE SourceEnds
    BY <1>1, <2>2, StreamFields DEF SourceEnds, live
  <2> QED
    BY <2>1, <2>2
<1>3. UNCHANGED <<req, cool, ctx, wrap, client, bill>>
  BY DEF DrainDiscarded, SourceEnds
<1>4. /\ cool' \in [Auths -> Nat] /\ wrap' \in Wraps
      /\ (wrap.pc = "send" <=> wrap.hold # None)
  BY <1>3 DEF IInv, TypeOK, WrapInv
<1> QED
  BY <1>2, <1>3, <1>4, QuietWrapStep

\* Time and other requests only move the cooldowns and the timer.
LEMMA TimeStep ==
  ASSUME IInv, req' \in Calls, req'.pc = req.pc, cool' \in [Auths -> Nat],
         UNCHANGED <<ctx, up, wrap, client, bill>>
  PROVE  IInv'
  BY Zenon DEF IInv, TypeOK, BillInv, WrapInv

LEMMA TickStep ==
  ASSUME IInv, Tick
  PROVE  IInv'
<1>1. req \in Calls /\ cool \in [Auths -> Nat]
  BY DEF IInv, TypeOK
<1>2. \A n \in Nat : less(n) \in Nat
  BY DEF less
<1>3. cool' \in [Auths -> Nat]
  BY <1>1, <1>2 DEF Tick
<1>4. less(req.wake) \in Nat
  BY <1>1, <1>2 DEF Calls
<1>5. req' \in Calls /\ req'.pc = req.pc
  BY <1>1, <1>4, CallFields DEF Tick
<1> QED
  BY <1>3, <1>5, TimeStep DEF Tick

LEMMA OtherResultStep ==
  ASSUME ExecutionAssumption, IInv, NEW a \in Auths, OtherResult(a)
  PROVE  IInv'
<1>1. cool' \in [Auths -> Nat] /\ req' = req /\ req \in Calls
  BY DEF OtherResult, ExecutionAssumption, IInv, TypeOK
<1> QED
  BY <1>1, TimeStep DEF OtherResult

LEMMA CancelledStep ==
  ASSUME IInv, Cancel
  PROVE  IInv'
<1>1. TypeOK'
  BY DEF IInv, TypeOK, Cancel
<1>2. BillInv'
  BY DEF IInv, BillInv, Cancel
<1>3. ctx' # "live"
  BY DEF Cancel
<1>4. WrapInv'
  BY <1>3, Zenon DEF IInv, WrapInv, Cancel
<1> QED
  BY <1>1, <1>2, <1>4 DEF IInv

-----------------------------------------------------------------------------
(* The theorems *)

LEMMA InitInv ==
  ASSUME ExecutionAssumption, Init
  PROVE  IInv
<1>1. PICK stream \in BOOLEAN, limit \in RetryCredentials :
        req = [pc |-> "pick", stream |-> stream, limit |-> limit, round |-> NewRound,
               attempt |-> 0, auth |-> None, model |-> 0, refreshed |-> "no", any |-> FALSE,
               wake |-> 0]
  BY DEF Init
<1>2. limit \in Nat /\ 0 \in Nat /\ "pick" \in Pcs
  BY DEF ExecutionAssumption, Pcs
<1>3. req \in Calls /\ req.pc = "pick"
  BY <1>1, <1>2, NewRoundType, Zenon DEF Calls
<1>4. cool \in [Auths -> Nat]
  BY DEF Init, ExecutionAssumption
<1>5. up \in Streams /\ up.discarded <= up.open /\ ~up.err
  <2>1. up.discarded <= up.open
    BY DEF Init
  <2>2. up \in Streams /\ up.err = FALSE
    BY <1>2, Zenon DEF Init, Streams
  <2> QED
    BY <2>1, <2>2
<1>6. wrap \in Wraps /\ wrap.pc = "none" /\ wrap.hold = None /\ ~wrap.failed
  <2>1. wrap \in Wraps /\ wrap.pc = "none" /\ wrap.hold = None /\ wrap.failed = FALSE
    BY Zenon DEF Init, Wraps
  <2> QED
    BY <2>1
<1>7. TypeOK
  BY <1>3, <1>4, <1>5, <1>6 DEF TypeOK, Init
<1>8. BillInv
  BY <1>3 DEF BillInv, Init
<1>9. client = {} /\ wrap.hold # "error" /\ wrap.pc # "send"
  BY <1>6 DEF Init, None
<1>10. WrapInv
  BY <1>5, <1>6, <1>9, Zenon DEF WrapInv
<1> QED
  BY <1>7, <1>8, <1>10 DEF IInv

LEMMA NextInv ==
  ASSUME ExecutionAssumption, IInv, [Next]_vars
  PROVE  IInv'
<1>1. CASE UNCHANGED vars
  BY <1>1, Zenon DEF vars, IInv, TypeOK, BillInv, WrapInv
<1>2. ASSUME NEW a \in Auths, OtherResult(a) PROVE IInv'
  BY <1>2, OtherResultStep
<1>3. CASE Request
  BY <1>3, RequestStep
<1>4. CASE Wrap
  BY <1>4, WrapStep
<1>5. CASE DrainDiscarded \/ SourceEnds
  BY <1>5, StreamEndStep
<1>6. CASE Tick
  BY <1>6, TickStep
<1>7. CASE Cancel
  BY <1>7, CancelledStep
<1> QED
  BY <1>1, <1>2, <1>3, <1>4, <1>5, <1>6, <1>7 DEF Next

LEMMA Invariant == Spec => []IInv
<1>1. Init => IInv
  BY ExecutionAssumption, InitInv
<1>2. IInv /\ [Next]_vars => IInv'
  BY ExecutionAssumption, NextInv
<1> QED
  BY <1>1, <1>2, PTL DEF Spec

\* The state of a call, of its streams and of the verdict keep their types: no
\* verdict is ever recorded as something else, and more streams are never
\* discarded than are open.
THEOREM TypeCorrect == Spec => []TypeOK
<1>1. IInv => TypeOK
  BY DEF IInv
<1> QED
  BY <1>1, Invariant, PTL

\* MarkResult is called once for every execution of a credential, with the
\* verdict of that execution, whatever the credentials, the retries, the
\* refreshes and the moment at which the caller goes.
THEOREM ResultsChargedOnce == Spec => []ChargedOnce
<1>1. IInv => ChargedOnce
  BY DEF IInv, TypeOK, BillInv, ChargedOnce, finished
<1> QED
  BY <1>1, Invariant, PTL

\* wrapStreamResult hands every error of the upstream to a client that stays,
\* and none that the upstream did not send.
THEOREM ClientToldTheTruth == Spec => []ClientSeesTruth
<1>1. ASSUME IInv PROVE ClientSeesTruth
  <2>1. wrap.pc = "done" => wrap.hold = None
    BY <1>1, Zenon DEF IInv, WrapInv
  <2>2. /\ ctx = "live" /\ up.err => wrap.hold = "error" \/ "error" \in client
        /\ "error" \in client => up.err
    BY <1>1 DEF IInv, WrapInv
  <2> QED
    BY <2>1, <2>2 DEF ClientSeesTruth, None
<1> QED
  BY <1>1, Invariant, PTL
=============================================================================
