-------------------------- MODULE RequestExecution --------------------------
(***************************************************************************)
(* One request outside Home mode: Execute or ExecuteStream, with the loop  *)
(* over credentials and their upstream models, the refresh after a 401,    *)
(* the reading of a stream up to its first payload, the goroutine that     *)
(* then forwards the stream, the waits for a cooldown and the cancellation *)
(* of the caller.  Any untried credential that is not cooling may be       *)
(* picked: Scheduler says which.  Cooldowns are the time that is left.     *)
(*                                                                         *)
(* ExecuteCount has the loop of Execute.  Left out: plugins, the rewriting *)
(* of model names, the fallback to Antigravity credits, and errors that    *)
(* wrap a cancellation while the context of the caller is live.            *)
(***************************************************************************)
EXTENDS Naturals, FiniteSets, FiniteSetsExt

CONSTANTS
  Auths,               \* the credentials of the providers
  ModelsOf,            \* upstream models of each for the requested one
  Refreshable,         \* the credentials with a refresh token
  ClaudeOAuth,         \* those for which a cancellation is never a result
  RequestRetry,        \* rounds after the first, per credential
  RetryCredentials,    \* settings of maxRetryCredentials: credentials per
                       \* round, 0 for any number
  MaxWait,             \* maxRetryInterval
  Cooldowns,           \* how long a result may cool a credential
  Jitter,              \* what a wait may grow by
  MaxChunks            \* bound: chunks of a stream

ASSUME ExecutionAssumption ==
  /\ ModelsOf \in [Auths -> Nat] /\ RequestRetry \in [Auths -> Nat]
  /\ Refreshable \subseteq Auths /\ ClaudeOAuth \subseteq Auths
  /\ RetryCredentials \subseteq Nat /\ MaxWait \in Nat /\ Cooldowns \subseteq Nat
  /\ Jitter \in Nat /\ MaxChunks \in Nat

VARIABLES
  req,     \* the goroutine inside Execute or ExecuteStream
  cool,    \* how long each credential keeps cooling
  ctx,     \* "live" or "cancelled"
  up,      \* upstream streams: chunks of the last one, whether it sent an
           \* error, how many are open and how many of these are discarded
  wrap,    \* the goroutine of wrapStreamResult
  client,  \* what the reader of the stream has seen
  bill     \* history: the verdict of an execution that is still to be recorded

vars == <<req, cool, ctx, up, wrap, client, bill>>

Errors == {"invalid", "unauthorized", "limited", "failure"}
Chunks == {"empty", "payload", "error"}
None == "none"

NewRound == [tried |-> {}, attempted |-> {}, lastErr |-> None]

Init ==
  /\ \E stream \in BOOLEAN, limit \in RetryCredentials :
       req = [pc |-> "pick", stream |-> stream, limit |-> limit, round |-> NewRound,
              attempt |-> 0, auth |-> None, model |-> 0, refreshed |-> "no", any |-> FALSE, wake |-> 0]
  /\ cool \in [Auths -> Cooldowns]
  /\ ctx = "live"
  /\ up = [sent |-> 0, err |-> FALSE, open |-> 0, discarded |-> 0]
  /\ wrap = [pc |-> "none", hold |-> None, failed |-> FALSE]
  /\ client = {}
  /\ bill = "settled"

-----------------------------------------------------------------------------
(* Results *)

\* An execution ends with a verdict; its predecessor must have been settled.
ended(v) ==
  CASE bill \notin {"settled", "cancelled"} -> "wrong"
    [] bill \in {"settled", "cancelled"} /\ ctx = "cancelled" -> "cancelled"
    [] OTHER -> v

\* A result is recorded: of a cancelled request either way.
charged(b, v) == IF b = v \/ b = "cancelled" THEN "settled" ELSE "wrong"

\* MarkResult: a failure may cool the credential.
MarkResult(a, v) ==
  IF v = "ok" THEN cool' = [cool EXCEPT ![a] = 0]
              ELSE \E d \in Cooldowns : cool' = [cool EXCEPT ![a] = d]

\* A verdict that is recorded at once.
Record(v) == bill' = charged(ended(v), v) /\ MarkResult(req.auth, v)

\* The call has returned: only the credential still matters, to its stream.
returned == [req EXCEPT !.pc = "returned", !.limit = 0, !.round = NewRound, !.attempt = 0, !.model = 0,
                        !.refreshed = "no", !.any = FALSE, !.wake = 0]
Return == req' = returned

\* The caller's context ended the execution: nothing is recorded.
ReturnCancelled == Return /\ bill' = "settled" /\ UNCHANGED cool

-----------------------------------------------------------------------------
(* executeMixedOnce and executeStreamMixedOnce: the credentials *)

exhausted == req.limit > 0 /\ Cardinality(req.round.attempted) >= req.limit
pickable == {a \in Auths \ req.round.tried : cool[a] = 0}

PickAuth(a) ==
  /\ req.pc = "pick" /\ ~exhausted /\ a \in pickable
  /\ req' = IF ModelsOf[a] = 0
              THEN [req EXCEPT !.round.tried = @ \cup {a}]
              ELSE [req EXCEPT !.pc = "prepare", !.auth = a, !.model = 1, !.refreshed = "no",
                               !.round.tried = @ \cup {a}, !.round.attempted = @ \cup {a}]
  /\ UNCHANGED <<cool, ctx, up, wrap, client, bill>>

\* The round ends with the last error, or that of the pick.
RoundFails ==
  /\ req.pc = "pick" /\ (exhausted \/ pickable = {})
  /\ req' = [req EXCEPT !.pc = "decide"]
  /\ UNCHANGED <<cool, ctx, up, wrap, client, bill>>

PrepareOk ==
  /\ req.pc = "prepare"
  /\ req' = [req EXCEPT !.pc = "call"]
  /\ UNCHANGED <<cool, ctx, up, wrap, client, bill>>

\* The call that follows a refresh goes straight to the executor.
recall == req.refreshed \in {"call", "boot"}

PrepareFails ==
  /\ req.pc = "prepare"
  /\ IF ctx = "cancelled" /\ req.auth \in ClaudeOAuth
       THEN ReturnCancelled
       ELSE /\ Record("fail")
            /\ req' = [req EXCEPT !.pc = "pick", !.auth = None, !.model = 0,
                               !.round.lastErr = "failure"]
  /\ UNCHANGED <<ctx, up, wrap, client>>

\* The next credential, unless the caller of a stream has gone.
nextAuth(e) ==
  IF req.stream /\ ctx = "cancelled"
    THEN returned
    ELSE [req EXCEPT !.pc = "pick", !.auth = None, !.model = 0, !.refreshed = "no",
                     !.any = FALSE, !.round.lastErr = e]

\* The interceptor of the caller terminates the request.  The loop of
\* ExecuteStream only takes it so if its status is that of an invalid request;
\* with another one it is the error of this credential.
InterceptorRefuses ==
  /\ req.pc = "call" /\ ~recall
  /\ Return \/ (req.stream /\ req' = nextAuth("terminated"))
  /\ UNCHANGED <<cool, ctx, up, wrap, client, bill>>

\* After a failed execution: the next model, the next credential, or the end.
after(e) ==
  CASE e = "invalid" -> returned
    [] e # "invalid" /\ req.model < ModelsOf[req.auth] ->
         [req EXCEPT !.pc = "call", !.model = @ + 1, !.any = FALSE,
                     !.refreshed = IF @ = "no" THEN "no" ELSE "done"]
    [] OTHER -> nextAuth(e)

\* A 401 is answered with one refresh per credential and round.
refreshes(e) == e = "unauthorized" /\ req.auth \in Refreshable /\ req.refreshed = "no"

-----------------------------------------------------------------------------
(* The call of the executor *)

\* A stream is not started once the context has ended.
CallSkipped ==
  /\ req.pc = "call" /\ req.stream /\ ctx = "cancelled" /\ ~recall
  /\ ReturnCancelled
  /\ UNCHANGED <<ctx, up, wrap, client>>

mayCall == req.pc = "call" /\ (ctx = "live" \/ ~req.stream \/ recall)

\* A stream that is never looked at: the call after a 401 in place of the first
\* payload leaves this to the reading of its stream.
leaves == ctx = "cancelled" /\ req.auth \in ClaudeOAuth /\ req.refreshed # "boot"

CallOk ==
  /\ mayCall
  /\ CASE req.stream /\ ~leaves ->
            /\ req' = [req EXCEPT !.pc = "bootstrap", !.any = FALSE]
            /\ up' = [up EXCEPT !.sent = 0, !.err = FALSE, !.open = @ + 1]
            /\ UNCHANGED <<cool, bill>>
       [] req.stream /\ leaves ->
            /\ ReturnCancelled
            /\ up' = [up EXCEPT !.open = @ + 1]
       [] ~req.stream /\ ctx = "cancelled" /\ req.auth \in ClaudeOAuth ->
            ReturnCancelled /\ UNCHANGED up
       [] OTHER -> Record("ok") /\ Return /\ UNCHANGED up
  /\ UNCHANGED <<ctx, wrap, client>>

CallFails(e) ==
  /\ mayCall
  /\ CASE ctx = "cancelled" -> ReturnCancelled
       [] ctx = "live" /\ refreshes(e) ->
            /\ req' = [req EXCEPT !.pc = "refresh", !.refreshed = "call"]
            /\ bill' = ended("fail") /\ UNCHANGED cool
       [] OTHER -> Record("fail") /\ req' = after(e)
  /\ UNCHANGED <<ctx, up, wrap, client>>

\* Streams that are open and that nobody discards.
live == up.open > up.discarded

\* Faulty variant: the rest of a stream is left alone.
discardNever(u) == u

\* discardStreamChunks: a goroutine reads what is left of the last stream.
discard(u) == IF u.open > u.discarded THEN [u EXCEPT !.discarded = @ + 1] ELSE u

\* tryRefreshAfterUnauthorized: a refreshed credential is called again.
RefreshOk ==
  /\ req.pc = "refresh"
  /\ req' = [req EXCEPT !.pc = "call"]
  /\ bill' = charged(bill, "fail")
  /\ up' = discard(up)
  /\ UNCHANGED <<cool, ctx, wrap, client>>

\* The credential stays refreshable for its next model.
RefreshFails ==
  /\ req.pc = "refresh"
  /\ IF ctx = "cancelled" /\ req.auth \in ClaudeOAuth
       THEN ReturnCancelled
       ELSE /\ bill' = charged(bill, "fail") /\ MarkResult(req.auth, "fail")
            /\ req' = [after("unauthorized") EXCEPT !.refreshed = "no"]
  /\ up' = discard(up)
  /\ UNCHANGED <<ctx, wrap, client>>

-----------------------------------------------------------------------------
(* readStreamBootstrap: the stream up to its first payload *)

abandons == ctx = "cancelled" /\ (req.auth \in ClaudeOAuth \/ req.refreshed # "boot")

BootstrapEmpty ==
  /\ req.pc = "bootstrap" /\ live /\ up.sent < MaxChunks
  /\ req' = [req EXCEPT !.any = TRUE]
  /\ up' = [up EXCEPT !.sent = @ + 1]
  /\ UNCHANGED <<cool, ctx, wrap, client, bill>>

\* The first payload: the stream goes to the caller, unless it is a
\* cancelled one of a Claude subscription.
BootstrapPayload ==
  /\ req.pc = "bootstrap" /\ live /\ up.sent < MaxChunks
  /\ LET sent == [up EXCEPT !.sent = @ + 1]
     IN IF ctx = "cancelled" /\ req.auth \in ClaudeOAuth
          THEN ReturnCancelled /\ up' = discard(sent) /\ UNCHANGED wrap
          ELSE /\ Return /\ up' = sent
               /\ wrap' = [wrap EXCEPT !.pc = "send", !.hold = "payload"]
               /\ UNCHANGED <<cool, bill>>
  /\ UNCHANGED <<ctx, client>>

\* An error in its place is like a failed call.
BootstrapError(e) ==
  /\ req.pc = "bootstrap" /\ live /\ up.sent < MaxChunks
  /\ LET sent == [up EXCEPT !.sent = @ + 1]
     IN CASE abandons -> ReturnCancelled /\ up' = discard(sent)
          [] ~abandons /\ refreshes(e) ->
               /\ req' = [req EXCEPT !.pc = "refresh", !.refreshed = "boot"]
               /\ bill' = ended("fail") /\ up' = sent /\ UNCHANGED cool
          [] OTHER -> Record("fail") /\ req' = after(e) /\ up' = discard(sent)
  /\ UNCHANGED <<ctx, wrap, client>>

\* A stream that ends without a chunk is a failure; with empty ones it is
\* passed on.
BootstrapClosed ==
  /\ req.pc = "bootstrap" /\ live
  /\ up' = [up EXCEPT !.open = @ - 1]
  /\ CASE ctx = "cancelled" /\ req.auth \in ClaudeOAuth -> ReturnCancelled /\ UNCHANGED wrap
       [] ~(ctx = "cancelled" /\ req.auth \in ClaudeOAuth) /\ ~req.any ->
            Record("fail") /\ req' = after("failure") /\ UNCHANGED wrap
       [] OTHER -> /\ Return /\ wrap' = [wrap EXCEPT !.pc = "read"]
                   /\ UNCHANGED <<cool, bill>>
  /\ UNCHANGED <<ctx, client>>

\* The context ends first.  After a refresh this counts as an error.
BootstrapCancelled ==
  /\ req.pc = "bootstrap" /\ ctx = "cancelled"
  /\ IF abandons THEN ReturnCancelled ELSE Record("fail") /\ req' = after("failure")
  /\ up' = discard(up)
  /\ UNCHANGED <<ctx, wrap, client>>

-----------------------------------------------------------------------------
(* The goroutine of wrapStreamResult *)

\* Faulty variant: chunks without a payload are skipped, errors too.
forwardsPayload(c) == c = "payload"

\* Chunks the client gets.
forwards(c) == c \in {"payload", "error"}

\* A chunk is recorded if it is the first error, and then sent.
WrapRead(c) ==
  /\ wrap.pc = "read" /\ live /\ up.sent < MaxChunks
  /\ up' = [up EXCEPT !.sent = @ + 1, !.err = @ \/ c = "error"]
  /\ wrap' = [pc |-> IF forwards(c) THEN "send" ELSE "read",
              hold |-> IF forwards(c) THEN c ELSE None,
              failed |-> wrap.failed \/ c = "error"]
  /\ LET b == IF c = "error" /\ ~up.err THEN ended("fail") ELSE bill
     IN IF c = "error" /\ ~wrap.failed
          THEN bill' = charged(b, "fail") /\ MarkResult(req.auth, "fail")
          ELSE bill' = b /\ UNCHANGED cool
  /\ UNCHANGED <<req, ctx, client>>

\* The client takes the chunk ...
WrapSend ==
  /\ wrap.pc = "send"
  /\ client' = client \cup {wrap.hold}
  /\ wrap' = [wrap EXCEPT !.pc = "read", !.hold = None]
  /\ UNCHANGED <<req, cool, ctx, up, bill>>

\* ... or is gone.
WrapGone ==
  /\ wrap.pc = "send" /\ ctx = "cancelled"
  /\ wrap' = [wrap EXCEPT !.pc = "done", !.hold = None]
  /\ up' = discard(up)
  /\ UNCHANGED <<req, cool, ctx, client, bill>>

\* Faulty variant: the end of a stream is a success, whatever was in it.
succeedsAlways == ~(ctx = "cancelled" /\ req.auth \in ClaudeOAuth)

\* The end of a stream is a success if no error came before it.
succeeds == ~wrap.failed /\ ~(ctx = "cancelled" /\ req.auth \in ClaudeOAuth)

WrapEnd ==
  /\ wrap.pc = "read"
  /\ wrap' = [wrap EXCEPT !.pc = "done"]
  /\ up' = IF live THEN [up EXCEPT !.open = @ - 1] ELSE up
  /\ LET b == IF up.err THEN bill ELSE ended("ok")
     IN IF succeeds THEN bill' = charged(b, "ok") /\ MarkResult(req.auth, "ok")
                    ELSE bill' = b /\ UNCHANGED cool
  /\ UNCHANGED <<req, ctx, client>>

-----------------------------------------------------------------------------
(* The rounds *)

\* Faulty variant: a credential is waited for in any round.
waitedForAlways(a) == cool[a] > 0

\* closestCooldownWait: cooling credentials that allow another round.
waitedFor(a) == cool[a] > 0 /\ req.attempt < RequestRetry[a]

retryAllowed == \E a \in Auths : req.attempt < RequestRetry[a]

\* shouldRetryAfterError: how long to wait, 0 for not at all.  A terminated
\* request returns before it is asked.
waits ==
  LET cooling == {cool[a] : a \in {b \in Auths : waitedFor(b)}}
  IN CASE req.round.lastErr = "terminated" -> {0}
       [] req.round.lastErr # "terminated" /\ cooling # {} -> {IF Min(cooling) > MaxWait THEN 0 ELSE Min(cooling)}
       [] cooling = {} /\ req.round.lastErr = "limited" /\ retryAllowed -> 0..MaxWait
       [] OTHER -> {0}

\* jitteredCooldownWait.
jittered(w) == w..Min({w + Jitter, MaxWait})

GiveUp ==
  /\ req.pc = "decide" /\ 0 \in waits
  /\ Return
  /\ UNCHANGED <<cool, ctx, up, wrap, client, bill>>

BeginWait(w) ==
  /\ req.pc = "decide" /\ w \in waits \ {0}
  /\ \E d \in jittered(w) : req' = [req EXCEPT !.pc = "wait", !.wake = d]
  /\ UNCHANGED <<cool, ctx, up, wrap, client, bill>>

AttemptCap == Max({RequestRetry[a] : a \in Auths})  \* rounds are alike from here on

NextRound ==
  /\ req.pc = "wait" /\ req.wake = 0
  /\ req' = [req EXCEPT !.pc = "pick", !.attempt = IF @ < AttemptCap THEN @ + 1 ELSE @,
                         !.round = NewRound]
  /\ UNCHANGED <<cool, ctx, up, wrap, client, bill>>

WaitCancelled ==
  /\ req.pc = "wait" /\ ctx = "cancelled"
  /\ Return
  /\ UNCHANGED <<cool, ctx, up, wrap, client, bill>>

-----------------------------------------------------------------------------
(* The environment *)

less(n) == IF n = 0 THEN 0 ELSE n - 1

\* Once the call has returned, nothing depends on cool.
Tick ==
  /\ req.pc # "returned"
  /\ req.wake > 0 \/ \E a \in Auths : cool[a] > 0
  /\ cool' = [a \in Auths |-> less(cool[a])]
  /\ req' = [req EXCEPT !.wake = less(@)]
  /\ UNCHANGED <<ctx, up, wrap, client, bill>>

\* Another request got a result for a.
OtherResult(a) ==
  /\ req.pc # "returned"
  /\ \E d \in Cooldowns : cool' = [cool EXCEPT ![a] = d]
  /\ UNCHANGED <<req, ctx, up, wrap, client, bill>>

Cancel ==
  /\ ctx = "live"
  /\ ctx' = "cancelled"
  /\ UNCHANGED <<req, cool, up, wrap, client, bill>>

\* A discarded stream runs to its end.
DrainDiscarded ==
  /\ up.discarded > 0
  /\ up' = [up EXCEPT !.open = @ - 1, !.discarded = @ - 1]
  /\ UNCHANGED <<req, cool, ctx, wrap, client, bill>>

\* The executor for Claude gives up its stream when the context ends; others
\* hand over each chunk before they look.
SourceEnds ==
  /\ ctx = "cancelled" /\ req.auth \in ClaudeOAuth /\ live
  /\ req.pc = "returned" /\ wrap.pc \in {"none", "done"}
  /\ up' = [up EXCEPT !.open = @ - 1]
  /\ UNCHANGED <<req, cool, ctx, wrap, client, bill>>

-----------------------------------------------------------------------------
Request ==
  \/ \E a \in Auths : PickAuth(a)
  \/ RoundFails \/ PrepareOk \/ PrepareFails \/ InterceptorRefuses
  \/ CallSkipped \/ CallOk \/ \E e \in Errors : CallFails(e)
  \/ RefreshOk \/ RefreshFails
  \/ BootstrapEmpty \/ BootstrapPayload \/ BootstrapClosed \/ BootstrapCancelled
  \/ \E e \in Errors : BootstrapError(e)
  \/ GiveUp \/ (\E w \in 1..MaxWait : BeginWait(w)) \/ NextRound \/ WaitCancelled

Wrap == (\E c \in Chunks : WrapRead(c)) \/ WrapSend \/ WrapGone \/ WrapEnd

Next ==
  \/ Request \/ Wrap \/ DrainDiscarded \/ SourceEnds
  \/ Tick \/ Cancel \/ \E a \in Auths : OtherResult(a)

Spec == Init /\ [][Next]_vars

\* Goroutines keep running, executors answer, upstreams end their streams,
\* clients read theirs, and time passes.
Fairness ==
  /\ WF_vars(Request) /\ WF_vars(Wrap) /\ WF_vars(Tick)
  /\ WF_vars(DrainDiscarded) /\ WF_vars(SourceEnds)

FairSpec == Spec /\ Fairness

-----------------------------------------------------------------------------
(* Properties *)

finished == req.pc = "returned" /\ wrap.pc \in {"none", "done"}

\* Every execution of a credential is recorded once and as what it was: a
\* stream that broke off is a failure and not also a success, a 401 that a
\* refresh cured is nothing, and only a cancelled one may go unrecorded.
ChargedOnce == bill # "wrong" /\ (finished => bill \in {"settled", "cancelled"})

\* A client that stayed to the end of its stream saw an error if and only if
\* the upstream sent one after the first payload.
ClientSeesTruth ==
  wrap.pc = "done" /\ ctx = "live" => (up.err <=> "error" \in client)

\* Every request returns, and the goroutine of its stream ends: the rounds of
\* retries are bounded, although credentials cool and recover meanwhile.
RequestReturns == <>finished

\* No goroutine of an executor is left blocked on a stream that nobody reads.
UpstreamDrained == (up.open > 0) ~> (up.open = 0)
=============================================================================
