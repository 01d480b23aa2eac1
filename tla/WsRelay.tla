------------------------------ MODULE WsRelay ------------------------------
(***************************************************************************)
(* The websocket relay (internal/wsrelay): a Manager that keeps the        *)
(* current session of a provider name, sessions with a reader, a heartbeat *)
(* and a table of pending requests, and callers of NonStream and Stream    *)
(* that wait for the messages of their request on a buffered channel.      *)
(*                                                                         *)
(* All sessions of the model connect under one provider name.  A message   *)
(* is its type; the request it answers is part of the step.  The callbacks *)
(* onConnected and onDisconnected are external and left out.               *)
(***************************************************************************)
EXTENDS Naturals, Sequences

CONSTANTS
  Sessions,     \* connections that may be accepted
  Requests,     \* calls of NonStream and Stream, each with its own uuid
  Capacity,     \* buffer of a pendingRequest channel (8 in the code)
  MaxMessages,  \* bound: messages the remote client sends per request
  Cancels,      \* whether callers may cancel their context
  Enders,       \* who may end a session: "reader", "heartbeat", "stop"
  NoSession, NoRequest

ASSUME RelayAssumption ==
  /\ Capacity \in Nat \ {0} /\ MaxMessages \in Nat /\ Cancels \in BOOLEAN
  /\ Enders \subseteq {"reader", "heartbeat", "stop"}
  /\ NoSession \notin Sessions /\ NoRequest \notin Requests

VARIABLES
  current,   \* Manager.sessions: the session of the provider, or NoSession
  stop,      \* Manager.Stop: its step and the session it took
  sess,      \* the sessions
  req,       \* the calls, their channels and what the client knows of them
  crashed    \* a reader, a heartbeat or Stop panicked: the process is gone

vars == <<current, stop, sess, req, crashed>>

Terminal == {"resp", "error", "end"}
Types == {"start", "chunk"} \cup Terminal
Idle == [req |-> NoRequest, type |-> "start", step |-> "idle"]

\* A session before its connection is accepted.  handler is the step of
\* handleWebsocket, then of the reader; cleaning the step of cleanup under
\* closeOnce; sweep and holding belong to its Range over pending; reading is
\* what dispatch has loaded.
NewSession ==
  [handler |-> "none", replaced |-> NoSession, open |-> FALSE, closed |-> FALSE,
   pending |-> {}, cleaning |-> "none", sweep |-> {}, holding |-> NoRequest,
   reading |-> Idle]

\* A call before it is made.  got counts the chunks it was handed; asked,
\* emitted and chunks are the client's side; dropped records that a message
\* found the channel full.
NewRequest(kind) ==
  [call |-> "idle", kind |-> kind, via |-> NoSession, buffer |-> <<>>,
   closed |-> FALSE, watched |-> FALSE, cancelled |-> FALSE,
   streamMode |-> FALSE, got |-> 0, result |-> "none",
   asked |-> FALSE, emitted |-> 0, chunks |-> 0, dropped |-> FALSE]

Init ==
  /\ current = NoSession
  /\ stop = [step |-> "idle", took |-> NoSession]
  /\ sess = [s \in Sessions |-> NewSession]
  /\ req \in [Requests -> {NewRequest(k) : k \in {"nonstream", "stream"}}]
  /\ crashed = FALSE

-----------------------------------------------------------------------------
(* Channels of pending requests *)

\* A non-blocking send of a message on the channel of call q, which is open: a
\* full buffer drops the message.
offer(q, type) ==
  IF Len(q.buffer) = Capacity
    THEN [q EXCEPT !.dropped = TRUE]
    ELSE [q EXCEPT !.buffer = Append(@, type)]

-----------------------------------------------------------------------------
(* Sessions: handleWebsocket, the reader and the heartbeat *)

\* Upgrade and newSession, which starts the heartbeat.
Upgrade(s) ==
  /\ sess[s].handler = "none"
  /\ sess' = [sess EXCEPT ![s].handler = "upgraded", ![s].open = TRUE]
  /\ UNCHANGED <<current, stop, req, crashed>>

\* The critical section that puts the session in the place of another.
Place(s) ==
  /\ sess[s].handler = "upgraded"
  /\ sess' = [sess EXCEPT ![s].handler = "placed", ![s].replaced = current]
  /\ current' = s
  /\ UNCHANGED <<stop, req, crashed>>

\* cleanup begins: the first caller closes the channel closed, and Range starts
\* over the entries of that moment.
BeginCleanup(s) ==
  /\ sess[s].cleaning = "none"
  /\ sess' = [sess EXCEPT ![s].closed = TRUE, ![s].cleaning = "sweep",
                          ![s].sweep = sess[s].pending]
  /\ UNCHANGED <<current, stop, req, crashed>>

\* A call of cleanup has returned: by now somebody ran it to the end.
Cleaned(s) == sess[s].cleaning = "done"

\* The handler cleans the replaced session up, or waits for whoever does, and
\* then starts the reader.
ReplacedCleanup(s) ==
  /\ sess[s].handler = "placed"
  /\ sess[s].replaced # NoSession
  /\ BeginCleanup(sess[s].replaced)

StartReader(s) ==
  /\ sess[s].handler = "placed"
  /\ sess[s].replaced # NoSession => Cleaned(sess[s].replaced)
  /\ sess' = [sess EXCEPT ![s].handler = "run"]
  /\ UNCHANGED <<current, stop, req, crashed>>

\* A ping could not be written.
HeartbeatFails(s) ==
  /\ "heartbeat" \in Enders
  /\ sess[s].handler # "none"
  /\ BeginCleanup(s)

\* ReadJSON fails: the peer is gone, the read timed out, or cleanup closed the
\* connection.  The reader ends the session and itself.
ReadFails(s) ==
  /\ sess[s].handler = "run" /\ sess[s].reading = Idle
  /\ "reader" \in Enders
  /\ BeginCleanup(s)

ReaderExit(s) ==
  /\ sess[s].handler = "run" /\ sess[s].reading = Idle
  /\ Cleaned(s)
  /\ sess' = [sess EXCEPT ![s].handler = "exit"]
  /\ UNCHANGED <<current, stop, req, crashed>>

\* ReadJSON returns a message of the client for request r and dispatch looks
\* its entry up.  The client answers once or streams, and stops after a
\* terminal message or at the bound.
Read(s, r, type) ==
  /\ sess[s].handler = "run" /\ sess[s].reading = Idle /\ sess[s].open
  /\ req[r].asked /\ req[r].via = s
  /\ req[r].emitted < MaxMessages
  /\ type = "start" => req[r].emitted = 0
  /\ req' = [req EXCEPT ![r].emitted = @ + 1,
                        ![r].asked = type \notin Terminal,
                        ![r].chunks = IF type = "chunk" THEN @ + 1 ELSE @]
  /\ sess' = IF r \in sess[s].pending
               THEN [sess EXCEPT ![s].reading =
                       [req |-> r, type |-> type, step |-> "send"]]
               ELSE sess
  /\ UNCHANGED <<current, stop, crashed>>

\* The send of dispatch panics if the channel was closed since the lookup.
DispatchSend(s) ==
  LET m == sess[s].reading IN
  /\ m.step = "send"
  /\ crashed' = req[m.req].closed
  /\ req' = [req EXCEPT ![m.req] = IF @.closed THEN @ ELSE offer(@, m.type)]
  /\ sess' = [sess EXCEPT ![s].reading =
                IF m.type \in Terminal THEN [m EXCEPT !.step = "delete"]
                                       ELSE Idle]
  /\ UNCHANGED <<current, stop>>

DispatchDelete(s) ==
  LET m == sess[s].reading IN
  /\ m.step = "delete"
  /\ req' = [req EXCEPT ![m.req].closed = @ \/ m.req \in sess[s].pending]
  /\ sess' = [sess EXCEPT ![s].reading = Idle, ![s].pending = @ \ {m.req}]
  /\ UNCHANGED <<current, stop, crashed>>

-----------------------------------------------------------------------------
(* cleanup and Stop *)

\* Range loads the next entry.  An entry that was stored meanwhile may be
\* visited as well; one that was deleted meanwhile is not.
SweepLoad(s, r) ==
  /\ sess[s].cleaning = "sweep" /\ sess[s].holding = NoRequest
  /\ r \in sess[s].pending /\ ~req[r].closed
  /\ sess' = [sess EXCEPT ![s].holding = r, ![s].sweep = @ \ {r}]
  /\ UNCHANGED <<current, stop, req, crashed>>

\* Faulty variant: the channel is closed without the error message.
SweepCloseSilent(s) ==
  LET r == sess[s].holding IN
  /\ r # NoRequest
  /\ req' = [req EXCEPT ![r].closed = TRUE]
  /\ sess' = [sess EXCEPT ![s].holding = NoRequest]
  /\ UNCHANGED <<current, stop, crashed>>

\* The callback: the error message, then close.
SweepClose(s) ==
  LET r == sess[s].holding IN
  /\ r # NoRequest
  /\ crashed' = req[r].closed
  /\ req' = [req EXCEPT ![r] =
               IF @.closed THEN @ ELSE [offer(@, "error") EXCEPT !.closed = TRUE]]
  /\ sess' = [sess EXCEPT ![s].holding = NoRequest]
  /\ UNCHANGED <<current, stop>>

\* Range is over; the table is replaced by an empty one.
ResetPending(s) ==
  /\ sess[s].cleaning = "sweep" /\ sess[s].holding = NoRequest
  /\ sess[s].sweep \cap sess[s].pending = {}
  /\ sess' = [sess EXCEPT ![s].pending = {}, ![s].cleaning = "reset"]
  /\ UNCHANGED <<current, stop, req, crashed>>

CloseConn(s) ==
  /\ sess[s].cleaning = "reset"
  /\ sess' = [sess EXCEPT ![s].open = FALSE, ![s].cleaning = "report"]
  /\ UNCHANGED <<current, stop, req, crashed>>

\* Faulty variant: the entry is deleted whichever session it holds.
deletesEntryAlways(s) == TRUE

\* The test of handleSessionClosed.
deletesEntry(s) == current = s

\* handleSessionClosed, and cleanup returns.
handleSessionClosed(s) ==
  /\ sess[s].cleaning = "report"
  /\ current' = IF deletesEntry(s) THEN NoSession ELSE current
  /\ sess' = [sess EXCEPT ![s].cleaning = "done"]
  /\ UNCHANGED <<stop, req, crashed>>

\* Stop empties the map ...
StopTake ==
  /\ "stop" \in Enders
  /\ stop.step = "idle"
  /\ stop' = [step |-> "cleanup", took |-> current]
  /\ current' = NoSession
  /\ UNCHANGED <<sess, req, crashed>>

\* ... and cleans up what it took.
StopCleanup ==
  /\ stop.step = "cleanup"
  /\ stop.took # NoSession
  /\ BeginCleanup(stop.took)

StopReturn ==
  /\ stop.step = "cleanup"
  /\ stop.took # NoSession => Cleaned(stop.took)
  /\ stop' = [stop EXCEPT !.step = "done"]
  /\ UNCHANGED <<current, sess, req, crashed>>

-----------------------------------------------------------------------------
(* Callers: Send, request, and the consumers of NonStream and Stream *)

returned(q, how) == [q EXCEPT !.call = "done", !.result = how]

\* Send looks the session up.
Lookup(r) ==
  /\ req[r].call = "idle"
  /\ req' = [req EXCEPT ![r] =
               IF current = NoSession
                 THEN returned(@, "error")
                 ELSE [@ EXCEPT !.call = "store", !.via = current]]
  /\ UNCHANGED <<current, stop, sess, crashed>>

\* request: LoadOrStore under a fresh id.
Store(r) ==
  /\ req[r].call = "store"
  /\ sess' = [sess EXCEPT ![req[r].via].pending = @ \cup {r}]
  /\ req' = [req EXCEPT ![r].call = "load"]
  /\ UNCHANGED <<current, stop, crashed>>

\* request: the entry is loaded again and asserted to be a pendingRequest.
\* When cleanup has replaced the table meanwhile the assertion panics, and the
\* recovery of the HTTP server ends the call.
Load(r) ==
  /\ req[r].call = "load"
  /\ req' = [req EXCEPT ![r] =
               IF r \in sess[req[r].via].pending
                 THEN [@ EXCEPT !.call = "check"]
                 ELSE returned(@, "panicked")]
  /\ UNCHANGED <<current, stop, sess, crashed>>

\* Faulty variant: send does not look at the closed channel.
refusesNever(s) == FALSE

\* The first test of send.
refuses(s) == sess[s].closed

\* request takes its entry back and returns an error.
GiveUp(r) ==
  LET s == req[r].via IN
  /\ sess' = [sess EXCEPT ![s].pending = @ \ {r}]
  /\ req' = [req EXCEPT ![r] =
               [returned(req[r], "error") EXCEPT !.closed = @ \/ r \in sess[s].pending]]
  /\ UNCHANGED <<current, stop, crashed>>

Check(r) ==
  /\ req[r].call = "check"
  /\ ~refuses(req[r].via)
  /\ req' = [req EXCEPT ![r].call = "write"]
  /\ UNCHANGED <<current, stop, sess, crashed>>

CheckRefused(r) ==
  /\ req[r].call = "check"
  /\ refuses(req[r].via)
  /\ GiveUp(r)

\* WriteJSON succeeds and the goroutine that waits for the context starts.
WriteOk(r) ==
  /\ req[r].call = "write"
  /\ sess[req[r].via].open
  /\ req' = [req EXCEPT ![r].call = "wait", ![r].watched = TRUE,
                        ![r].asked = TRUE]
  /\ UNCHANGED <<current, stop, sess, crashed>>

WriteFails(r) == req[r].call = "write" /\ GiveUp(r)

\* The caller gives up: its client went away or a timeout passed.  Nothing
\* looks at the context before the call waits.
Cancel(r) ==
  /\ Cancels
  /\ req[r].call \in {"wait", "deliver"}
  /\ ~req[r].cancelled
  /\ req' = [req EXCEPT ![r].cancelled = TRUE]
  /\ UNCHANGED <<current, stop, sess, crashed>>

\* The goroutine of request sees the context done, or the session closed.
WatchCancel(r) ==
  LET s == req[r].via IN
  /\ req[r].watched /\ req[r].cancelled
  /\ sess' = [sess EXCEPT ![s].pending = @ \ {r}]
  /\ req' = [req EXCEPT ![r].watched = FALSE,
                        ![r].closed = @ \/ r \in sess[s].pending]
  /\ UNCHANGED <<current, stop, crashed>>

WatchClosed(r) ==
  /\ req[r].watched /\ sess[req[r].via].closed
  /\ req' = [req EXCEPT ![r].watched = FALSE]
  /\ UNCHANGED <<current, stop, sess, crashed>>

\* What NonStream makes of a message, or Stream tells its caller.
received(q, type) ==
  CASE type = "error" -> returned(q, "error")
    [] type \in {"resp", "end"} -> returned(q, "ok")
    [] OTHER -> [q EXCEPT
         !.call = IF q.kind = "stream" THEN "deliver" ELSE "wait",
         !.streamMode = TRUE,
         !.got = IF type = "chunk" THEN @ + 1 ELSE @]

Receive(r) ==
  /\ req[r].call = "wait"
  /\ req[r].buffer # <<>>
  /\ req' = [req EXCEPT ![r] =
               received([req[r] EXCEPT !.buffer = Tail(@)], Head(@.buffer))]
  /\ UNCHANGED <<current, stop, sess, crashed>>

\* The channel is closed and empty.  NonStream takes what it has of a stream
\* for the whole answer; Stream reports an error.
ReceiveClosed(r) ==
  /\ req[r].call = "wait"
  /\ req[r].buffer = <<>> /\ req[r].closed
  /\ req' = [req EXCEPT ![r] =
               returned(@, IF @.kind = "nonstream" /\ @.streamMode
                             THEN "ok" ELSE "error")]
  /\ UNCHANGED <<current, stop, sess, crashed>>

ReceiveCancelled(r) ==
  /\ req[r].call \in {"wait", "deliver"}
  /\ req[r].cancelled
  /\ req' = [req EXCEPT ![r] = returned(@, "cancelled")]
  /\ UNCHANGED <<current, stop, sess, crashed>>

\* The reader of the stream takes the event.
Deliver(r) ==
  /\ req[r].call = "deliver"
  /\ req' = [req EXCEPT ![r].call = "wait"]
  /\ UNCHANGED <<current, stop, sess, crashed>>

-----------------------------------------------------------------------------
SessionStep(s) ==
  \/ Upgrade(s) \/ Place(s) \/ ReplacedCleanup(s) \/ StartReader(s)
  \/ HeartbeatFails(s) \/ ReadFails(s) \/ ReaderExit(s)
  \/ \E r \in Requests, type \in Types : Read(s, r, type)
  \/ DispatchSend(s) \/ DispatchDelete(s)
  \/ \E r \in Requests : SweepLoad(s, r)
  \/ SweepClose(s) \/ ResetPending(s) \/ CloseConn(s)
  \/ handleSessionClosed(s)

CallStep(r) ==
  \/ Lookup(r) \/ Store(r) \/ Load(r) \/ Check(r) \/ CheckRefused(r)
  \/ WriteOk(r) \/ WriteFails(r)
  \/ Cancel(r) \/ WatchCancel(r) \/ WatchClosed(r)
  \/ Receive(r) \/ ReceiveClosed(r) \/ ReceiveCancelled(r) \/ Deliver(r)

\* Nothing runs after a panic.
Next ==
  /\ ~crashed
  /\ \/ \E s \in Sessions : SessionStep(s)
     \/ \E r \in Requests : CallStep(r)
     \/ StopTake \/ StopCleanup \/ StopReturn

Spec == Init /\ [][Next]_vars

-----------------------------------------------------------------------------
(* Properties *)

\* The session in the map is the latest one placed: a session that dies late
\* never takes the entry of its successor away (the test of
\* handleSessionClosed), so a live session that nobody replaced or stopped
\* stays reachable for Send.
SuccessorStaysReachable ==
  \A s \in Sessions :
    /\ sess[s].handler \in {"placed", "run"}
    /\ ~sess[s].closed
    /\ stop.took # s
    /\ \A t \in Sessions : sess[t].replaced # s
    => current = s

\* A call that reports success although chunks of its answer are missing had a
\* message dropped by a full channel, or its own caller cancelled it: neither
\* the sweep of cleanup nor the end of the reader truncates an answer that is
\* then reported complete.
TruncatedOnlyWhenFull ==
  \A r \in Requests :
    req[r].result = "ok" /\ req[r].got < req[r].chunks
      => req[r].dropped \/ req[r].cancelled

\* A call that waits on a session past its sweep has a closed channel to
\* return from: no entry slips in between the test of send and the reset of
\* the table.
NoCallerStranded ==
  \A r \in Requests :
    /\ req[r].call \in {"wait", "deliver"}
    /\ sess[req[r].via].cleaning \in {"reset", "report", "done"}
    => req[r].closed

\* Nothing that ends a request makes another goroutine send on its closed
\* channel: Stop closes sessions without taking the process down.
NoSendOnClosedChannel == ~crashed
=============================================================================
