--------------------------- MODULE StreamableHTTP ---------------------------
(***************************************************************************)
(* Requests and event streams of StreamableHTTPTransport                   *)
(* (pkg/transport/streamable_http.go).                                     *)
(*                                                                         *)
(* SendRequest registers a response handler, posts the request and waits.  *)
(* The answer is in the body of the POST, or comes over the listener       *)
(* stream that Initialize opened, or over a stream of the request's own    *)
(* that the POST was upgraded to.  Each stream has a processEventSource    *)
(* loop, which connects through one circuit breaker shared by all streams  *)
(* and hands messages to HandleResponse, and readEvents goroutines, which  *)
(* read a connection into the stream's MessageChan.                        *)
(*                                                                         *)
(* A section under a mutex, an operation on a channel and a call that      *)
(* waits for the network are one action each.  Left out: connectionState   *)
(* and the metrics, which are only written; CloseChan, which no loop       *)
(* selects on; LastEventID; the event buffer, which nothing fills;         *)
(* backoff durations.                                                      *)
(***************************************************************************)
EXTENDS Integers, FiniteSets

CONSTANTS
  Listener,          \* the stream that openListenerConnection opens
  Requests,          \* calls of SendRequest; also their own streams
  Conns,             \* connections; the bound on those in use at once
  None,              \* no connection, no stream, no request
  MaxRetries,        \* reconnectConfig.MaxRetries
  FailureThreshold,  \* circuitBreaker.failureThreshold and
  HalfOpenMaxCalls,  \* halfOpenMaxCalls: what the configuration says, even 0
  ChanSize,          \* capacity of MessageChan
  Restarts           \* bound: is the transport started again after Stop?

Streams == {Listener} \cup Requests

ASSUME StreamableAssumption ==
  /\ Listener \notin Requests
  /\ None \notin Streams \cup Conns
  /\ MaxRetries \in Nat /\ ChanSize \in Nat
  /\ FailureThreshold \in Nat /\ HalfOpenMaxCalls \in Nat
  /\ Restarts \in BOOLEAN

VARIABLES
  life,       \* "new", "running" (after Start), "stopping", "stopped"
  ctxDone,    \* the streams whose context is cancelled
  circuit,    \* circuitBreaker.state: "closed", "open", "half"
  failures,   \* failureCount
  halfCalls,  \* halfOpenCalls
  cooled,     \* open, and recoveryTimeout has passed since the last failure
  caller,     \* the stream whose Call holds the breaker's mutex
  pc,         \* where the processEventSource of each stream is
  attempt,    \* its local variable
  taken,      \* the request whose handler it is about to call
  sources,    \* the keys of eventSources
  isConn,     \* isConnected of each stream
  conn,       \* its Connection
  unclosed,   \* connections whose Body is not closed
  readers,    \* readEvents goroutines: <<stream, kind, connection>>
  inbox,      \* requests whose answers wait in MessageChan
  call,       \* where each SendRequest is
  handlers,   \* the keys of responseHandlers
  chan        \* responseChan of each request: "empty", "full", "closed"

lifeVars    == <<life, ctxDone>>
breakerVars == <<circuit, failures, halfCalls, cooled, caller>>
loopVars    == <<pc, attempt, taken>>
connVars    == <<isConn, conn, unclosed, readers, inbox>>
callVars    == <<call, handlers, chan>>
vars == <<lifeVars, breakerVars, loopVars, sources, connVars, callVars>>

(***************************************************************************)
(* A stream object is read by the goroutine that was started with it       *)
(* ("first") and by one per session of its loop ("session").  The object   *)
(* createEventSource makes for a reconnection is thrown away after its     *)
(* connection is taken over, but its own reader goes on ("shadow").        *)
(***************************************************************************)
Kinds == {"first", "session", "shadow"}

Loop == {"top", "recover", "call", "dial", "session", "deliver", "quit", "lost"}

TypeOK ==
  /\ life \in {"new", "running", "stopping", "stopped"} /\ ctxDone \subseteq Streams
  /\ circuit \in {"closed", "open", "half"}
  /\ failures \in 0..FailureThreshold /\ halfCalls \in 0..HalfOpenMaxCalls
  /\ cooled \in BOOLEAN /\ caller \in Streams \cup {None}
  /\ pc \in [Streams -> Loop \cup {"none", "done", "panicked"}]
  /\ attempt \in [Streams -> 0..MaxRetries]
  /\ taken \in [Streams -> Requests \cup {None}]
  /\ sources \subseteq Streams
  /\ isConn \in [Streams -> BOOLEAN]
  /\ conn \in [Streams -> Conns \cup {None}] /\ unclosed \subseteq Conns
  /\ readers \subseteq Streams \X Kinds \X Conns
  /\ inbox \in [Streams -> SUBSET Requests]
  /\ call \in [Requests -> {"idle", "post", "wait", "unregister",
                            "close", "returned"}]
  /\ handlers \subseteq Requests
  /\ chan \in [Requests -> {"empty", "full", "closed"}]

Init ==
  /\ life = "new" /\ ctxDone = {}
  /\ circuit = "closed" /\ failures = 0 /\ halfCalls = 0
  /\ cooled = FALSE /\ caller = None
  /\ pc = [s \in Streams |-> "none"]
  /\ attempt = [s \in Streams |-> 0]
  /\ taken = [s \in Streams |-> None]
  /\ sources = {}
  /\ isConn = [s \in Streams |-> FALSE]
  /\ conn = [s \in Streams |-> None]
  /\ unclosed = {} /\ readers = {}
  /\ inbox = [s \in Streams |-> {}]
  /\ call = [r \in Requests |-> "idle"]
  /\ handlers = {}
  /\ chan = [r \in Requests |-> "empty"]

\* A panic in a goroutine ends the program.
Alive == \A s \in Streams : pc[s] # "panicked"

Goto(s, from, to) == pc[s] = from /\ pc' = [pc EXCEPT ![s] = to]

FreeConns ==
  {c \in Conns : /\ \A s \in Streams : conn[s] # c
                 /\ \A k \in readers : k[3] # c}

-----------------------------------------------------------------------------
(* The circuit breaker: Call holds its mutex while it connects *)

\* callOpen makes an open circuit half-open when it has cooled, before
\* callHalfOpen looks at the limit: also when the limit is 0.
Circuit == IF circuit = "open" /\ cooled THEN "half" ELSE circuit

Admitted == \/ Circuit = "closed"
            \/ Circuit = "half" /\ halfCalls < HalfOpenMaxCalls

\* What an admitted call counts before it runs fn.
HalfCalls == IF Circuit = "half" THEN halfCalls + 1 ELSE halfCalls

\* callClosed and callHalfOpen, when fn has failed.  Bound: failures are
\* counted up to the threshold, beyond it the number makes no difference; and
\* halfOpenCalls, which callOpen resets, is 0 unless the state is half-open.
OneMoreFailure ==
  IF failures < FailureThreshold THEN failures + 1 ELSE failures

\* Mutant: the threshold is compared before the failure is counted.
RecordFailureLate(state) ==
  /\ failures' = OneMoreFailure
  /\ circuit' = IF state = "half" \/ failures > FailureThreshold
                THEN "open" ELSE "closed"
  /\ halfCalls' = 0
  /\ cooled' = FALSE

RecordFailure(state) ==
  /\ failures' = OneMoreFailure
  /\ circuit' = IF state = "half" \/ failures + 1 >= FailureThreshold
                THEN "open" ELSE "closed"
  /\ halfCalls' = 0
  /\ cooled' = FALSE

\* The same, when fn has succeeded.
RecordSuccess(state, calls) ==
  /\ failures' = 0
  /\ circuit' = IF state = "half" /\ calls >= HalfOpenMaxCalls
                THEN "closed" ELSE state
  /\ halfCalls' = IF calls >= HalfOpenMaxCalls THEN 0 ELSE calls
  /\ cooled' = FALSE

\* recoveryTimeout has passed since the last failure.
CoolDown ==
  /\ circuit = "open" /\ ~cooled
  /\ cooled' = TRUE
  /\ UNCHANGED <<lifeVars, circuit, failures, halfCalls, caller, loopVars,
                 sources, connVars, callVars>>

-----------------------------------------------------------------------------
(* Connections: readEvents and Close *)

\* StreamableEventSource.Close, as a relation on the connection's variables.
\* It does nothing for a stream that is disconnected already, not even for
\* the connection it has been given since.
CloseAll(ss) ==
  LET open == {s \in ss : isConn[s]} IN
  /\ isConn' = [s \in Streams |-> isConn[s] /\ s \notin open]
  /\ unclosed' = unclosed \ {conn[s] : s \in open}
  /\ conn' = [s \in Streams |-> IF s \in open THEN None ELSE conn[s]]

\* Mutant of MustEnd: the connection is made without the context, as Connect
\* makes it.
MustEndNoContext(k) ==
  \/ k[3] \notin unclosed
  \/ k[2] # "shadow" /\ ~isConn[k[1]]

\* A goroutine's connection is closed or its context done, or the stream that
\* it reads for is disconnected: it returns by itself.
MustEnd(k) ==
  \/ k[3] \notin unclosed
  \/ k[1] \in ctxDone
  \/ k[2] # "shadow" /\ ~isConn[k[1]]

\* readEvents returns: the server closed the stream, the network failed or no
\* line came for a minute.  The reader of a stream that is still connected
\* disconnects it, closes the connection that the stream has now and puts an
\* error into ErrorChan.
ReaderEnds(k) ==
  /\ Alive /\ k \in readers
  /\ readers' = readers \ {k}
  /\ IF k[2] = "shadow"
     THEN /\ unclosed' = unclosed \ {k[3]}
          /\ UNCHANGED isConn
     ELSE LET s == k[1] IN
          /\ isConn' = [isConn EXCEPT ![s] = FALSE]
          /\ unclosed' = IF isConn[s] THEN unclosed \ {conn[s]} ELSE unclosed
  /\ UNCHANGED <<lifeVars, breakerVars, loopVars, sources, conn, inbox, callVars>>

\* The server's "close" event.  (For a shadow it is the same as an error.)
CloseEvent(k) ==
  /\ Alive /\ k \in readers /\ k[3] \in unclosed
  /\ k[2] # "shadow" /\ isConn[k[1]]
  /\ readers' = readers \ {k}
  /\ CloseAll({k[1]})
  /\ UNCHANGED <<lifeVars, breakerVars, loopVars, sources, inbox, callVars>>

\* A stream's reader takes an answer from the connection.  What a shadow
\* reads goes to a channel that nobody receives from, and so does what comes
\* after the loop or finds MessageChan full, and an answer to a request that
\* has returned is dropped anyway: these leave the state as it is.
\* The server answers a request on the stream its POST was upgraded to, or on
\* the listener connection, and may repeat the answer.
ReadAnswer(k, r) ==
  /\ Alive /\ k \in readers /\ k[2] # "shadow" /\ k[3] \in unclosed
  /\ k[1] = r \/ (k[1] = Listener /\ r \notin sources)
  /\ call[r] \in {"wait", "unregister", "close"}
  /\ isConn[k[1]] /\ pc[k[1]] # "done"
  /\ r \notin inbox[k[1]] /\ Cardinality(inbox[k[1]]) < ChanSize
  /\ inbox' = [inbox EXCEPT ![k[1]] = @ \cup {r}]
  /\ UNCHANGED <<lifeVars, breakerVars, loopVars, sources, isConn, conn,
                 unclosed, readers, callVars>>

-----------------------------------------------------------------------------
(* processEventSource *)

\* The top of the loop: the context, the state of the breaker, the limit.
LoopTop(s) ==
  /\ Alive
  /\ \/ s \in ctxDone /\ Goto(s, "top", "quit")
     \/ /\ s \notin ctxDone /\ caller = None
        /\ Goto(s, "top", IF circuit = "open" THEN "recover"
                          ELSE IF attempt[s] >= MaxRetries THEN "quit" ELSE "call")
  /\ UNCHANGED <<lifeVars, breakerVars, attempt, taken, sources, connVars, callVars>>

\* The wait for recoveryTimeout is over, or this wait or the backoff before
\* another attempt ends with the context.
LoopWait(s) ==
  /\ Alive
  /\ \/ Goto(s, "recover", "top")
     \/ s \in ctxDone /\ Goto(s, "recover", "quit")
     \/ s \in ctxDone /\ attempt[s] > 0 /\ Goto(s, "call", "quit")
  /\ UNCHANGED <<lifeVars, breakerVars, attempt, taken, sources, connVars, callVars>>

Retry(s, from) ==
  /\ Goto(s, from, "top")
  /\ attempt' = [attempt EXCEPT ![s] = @ + 1]

\* The key under which attemptEventSourceConnection looks up the handler of a
\* request's stream: the stream's id, which is not the request's id.
StreamKey(s) == <<"request-", s>>

\* An id is the prefix of the transport and a number, and "request-" before an
\* id makes no other id.
ASSUME KeyAssumption == \A s \in Streams : StreamKey(s) \notin Requests

MayConnect(s) ==
  /\ s \notin ctxDone
  /\ life = "running"
  /\ s # Listener => StreamKey(s) \in handlers

\* CircuitBreaker.Call up to the point where createEventSource waits for the
\* server.
CallBreaker(s) ==
  /\ Alive /\ caller = None
  /\ IF ~Admitted
     THEN /\ Retry(s, "call")
          /\ circuit' = Circuit /\ cooled' = FALSE
          /\ UNCHANGED <<failures, halfCalls, caller>>
     ELSE IF MayConnect(s)
     THEN /\ Goto(s, "call", "dial") /\ caller' = s
          /\ circuit' = Circuit /\ halfCalls' = HalfCalls
          /\ cooled' = FALSE
          /\ UNCHANGED <<failures, attempt>>
     ELSE Retry(s, "call") /\ RecordFailure(Circuit) /\ UNCHANGED caller
  /\ UNCHANGED <<lifeVars, taken, sources, connVars, callVars>>

\* The server accepts: the stream takes over the new connection, whatever
\* became of the old one, and its isConnected stays what it was.  The loop
\* starts a reader of its own.
Connected(s) ==
  /\ Alive /\ caller = s /\ s \notin ctxDone
  /\ Goto(s, "dial", "session") /\ caller' = None
  /\ RecordSuccess(circuit, halfCalls)
  /\ attempt' = [attempt EXCEPT ![s] = 0]
  /\ \E c \in FreeConns :
        /\ conn' = [conn EXCEPT ![s] = c]
        /\ unclosed' = unclosed \cup {c}
        /\ readers' = readers \cup {<<s, "shadow", c>>, <<s, "session", c>>}
  /\ UNCHANGED <<lifeVars, taken, sources, isConn, inbox, callVars>>

\* It does not, or the connection fails.  classifyError gives up at once only
\* if the text of the error happens to contain "HTTP error 4".
NotConnected(s) ==
  /\ Alive /\ caller = s /\ caller' = None
  /\ RecordFailure(circuit)
  /\ \/ Retry(s, "dial")
     \/ Goto(s, "dial", "quit") /\ UNCHANGED attempt
  /\ UNCHANGED <<lifeVars, taken, sources, connVars, callVars>>

-----------------------------------------------------------------------------
(* processConnectedEventSource and HandleResponse *)

SessionReader(s) == {k \in readers : k[1] = s /\ k[2] = "session"}

\* The loop stops and waits for its reader: "quit" when the context is done,
\* "lost" when the reader has ended or ErrorChan has an error, which is after
\* the stream was disconnected.  (Close puts no error there, but its reader
\* ends all the same.)
LeaveSession(s) ==
  /\ Alive
  /\ \/ s \in ctxDone /\ Goto(s, "session", "quit")
     \/ /\ SessionReader(s) = {} \/ ~isConn[s]
        /\ Goto(s, "session", "lost")
  /\ UNCHANGED <<lifeVars, breakerVars, attempt, taken, sources, connVars, callVars>>

\* Mutant of SessionLost: it does not wait for the reader.
SessionLostEarly(s) ==
  /\ Alive
  /\ Retry(s, "lost")
  /\ UNCHANGED <<lifeVars, breakerVars, taken, sources, connVars, callVars>>

\* The connection is lost: the next attempt is the second one.
SessionLost(s) ==
  /\ Alive /\ SessionReader(s) = {}
  /\ Retry(s, "lost")
  /\ UNCHANGED <<lifeVars, breakerVars, taken, sources, connVars, callVars>>

\* Mutant of LoopEnds: the stream of a request stays in eventSources.
LoopEndsKept(s) ==
  /\ Alive /\ SessionReader(s) = {}
  /\ Goto(s, "quit", "done")
  /\ attempt' = [attempt EXCEPT ![s] = 0]   \* gone, and so is
  /\ inbox' = [inbox EXCEPT ![s] = {}]      \* what is in the channel
  /\ CloseAll({s})
  /\ UNCHANGED <<lifeVars, breakerVars, taken, sources, readers, callVars>>

\* processEventSource returns, once its reader is gone; the deferred function
\* closes the stream and removes that of a request.
LoopEnds(s) ==
  /\ Alive /\ SessionReader(s) = {}
  /\ Goto(s, "quit", "done")
  /\ attempt' = [attempt EXCEPT ![s] = 0]   \* gone, and so is
  /\ inbox' = [inbox EXCEPT ![s] = {}]      \* what is in the channel
  /\ CloseAll({s})
  /\ sources' = IF s = Listener THEN sources ELSE sources \ {s}
  /\ UNCHANGED <<lifeVars, breakerVars, taken, readers, callVars>>

\* HandleResponse looks the handler up.  An answer that has none goes to
\* BaseTransport, which knows no such id either, and is dropped.
TakeHandler(s) ==
  /\ Alive /\ pc[s] = "session"
  /\ \E r \in inbox[s] :
        /\ inbox' = [inbox EXCEPT ![s] = @ \ {r}]
        /\ IF r \in handlers
           THEN /\ pc' = [pc EXCEPT ![s] = "deliver"]
                /\ taken' = [taken EXCEPT ![s] = r]
           ELSE UNCHANGED <<pc, taken>>
  /\ UNCHANGED <<lifeVars, breakerVars, attempt, sources, isConn, conn, unclosed,
                 readers, callVars>>

\* It calls the handler, without the lock, and deletes it.  A send on a
\* closed channel panics, even in a select that has a default.
CallHandler(s) ==
  /\ Alive
  /\ LET r == taken[s] IN
     /\ IF pc[s] = "deliver" /\ chan[r] = "closed"
        THEN Goto(s, "deliver", "panicked") /\ UNCHANGED <<chan, handlers>>
        ELSE /\ Goto(s, "deliver", "session")
             /\ chan' = [chan EXCEPT ![r] = "full"]
             /\ handlers' = handlers \ {r}
  /\ taken' = [taken EXCEPT ![s] = None]
  /\ UNCHANGED <<lifeVars, breakerVars, attempt, sources, connVars, call>>

-----------------------------------------------------------------------------
(* SendRequest *)

CallGoto(r, from, to) == call[r] = from /\ call' = [call EXCEPT ![r] = to]

\* The handler is registered before the request is sent.
SendRequest(r) ==
  /\ Alive
  /\ CallGoto(r, "idle", "post")
  /\ handlers' = handlers \cup {r}
  /\ UNCHANGED <<lifeVars, breakerVars, loopVars, sources, connVars, chan>>

\* sendHTTPRequest: the POST fails, or is accepted, or its body is the answer,
\* which the caller itself hands to its handler.
PostDone(r) ==
  /\ Alive
  /\ \/ CallGoto(r, "post", "unregister") /\ UNCHANGED <<handlers, chan>>
     \/ CallGoto(r, "post", "wait") /\ UNCHANGED <<handlers, chan>>
     \/ CallGoto(r, "post", "wait") /\ r \in handlers
        /\ handlers' = handlers \ {r} /\ chan' = [chan EXCEPT ![r] = "full"]
  /\ UNCHANGED <<lifeVars, breakerVars, loopVars, sources, connVars>>

\* The POST is upgraded to a stream, which is handed to two goroutines.
PostStream(r) ==
  /\ Alive /\ r \notin ctxDone
  /\ CallGoto(r, "post", "wait")
  /\ \E c \in FreeConns :
        /\ conn' = [conn EXCEPT ![r] = c]
        /\ unclosed' = unclosed \cup {c}
        /\ readers' = readers \cup {<<r, "first", c>>}
  /\ isConn' = [isConn EXCEPT ![r] = TRUE]
  /\ sources' = sources \cup {r}
  /\ pc' = [pc EXCEPT ![r] = "top"]
  /\ UNCHANGED <<lifeVars, breakerVars, attempt, taken, inbox, handlers, chan>>

\* The select: the answer has come.
Receive(r) ==
  /\ Alive /\ chan[r] = "full"
  /\ CallGoto(r, "wait", "unregister")
  /\ chan' = [chan EXCEPT ![r] = "empty"]
  /\ UNCHANGED <<lifeVars, breakerVars, loopVars, sources, connVars, handlers>>

\* waitCtx is done: after the cancel notification the stream of the request
\* is closed.
CancelRequest(r) ==
  /\ Alive
  /\ CallGoto(r, "wait", "unregister")
  /\ sources' = sources \ {r}
  /\ CloseAll(sources \cap {r})
  /\ UNCHANGED <<lifeVars, breakerVars, loopVars, readers, inbox, handlers, chan>>

\* Mutant of Unregister: the handler stays.
UnregisterNot(r) ==
  /\ Alive
  /\ CallGoto(r, "unregister", "close")
  /\ UNCHANGED <<lifeVars, breakerVars, loopVars, sources, connVars, handlers, chan>>

\* The deferred function deletes the handler ...
Unregister(r) ==
  /\ Alive
  /\ CallGoto(r, "unregister", "close")
  /\ handlers' = handlers \ {r}
  /\ UNCHANGED <<lifeVars, breakerVars, loopVars, sources, connVars, chan>>

\* ... and closes the channel.
CloseChan(r) ==
  /\ Alive
  /\ CallGoto(r, "close", "returned")
  /\ chan' = [chan EXCEPT ![r] = "closed"]
  /\ UNCHANGED <<lifeVars, breakerVars, loopVars, sources, connVars, handlers>>

-----------------------------------------------------------------------------
(* The transport's life *)

Start ==
  /\ Alive
  /\ life = "new" \/ (Restarts /\ life = "stopped")
  /\ life' = "running"
  /\ UNCHANGED <<ctxDone, breakerVars, loopVars, sources, connVars, callVars>>

\* openListenerConnection, when the server accepts.
OpenListener ==
  /\ Alive /\ Listener \notin ctxDone
  /\ Goto(Listener, "none", "top")
  /\ \E c \in FreeConns :
        /\ conn' = [conn EXCEPT ![Listener] = c]
        /\ unclosed' = unclosed \cup {c}
        /\ readers' = readers \cup {<<Listener, "first", c>>}
  /\ isConn' = [isConn EXCEPT ![Listener] = TRUE]
  /\ sources' = sources \cup {Listener}
  /\ UNCHANGED <<lifeVars, breakerVars, attempt, taken, inbox, callVars>>

\* Stop ends running first, and then closes the streams and forgets the
\* handlers.
StopBegin ==
  /\ Alive /\ life = "running" /\ life' = "stopping"
  /\ UNCHANGED <<ctxDone, breakerVars, loopVars, sources, connVars, callVars>>

StopStreams ==
  /\ Alive /\ life = "stopping" /\ life' = "stopped"
  /\ CloseAll(sources) /\ sources' = {}
  /\ handlers' = {}
  /\ UNCHANGED <<ctxDone, breakerVars, loopVars, readers, inbox, call, chan>>

\* The caller of SendRequest, or of Initialize, cancels its context.
CancelContext(s) ==
  /\ Alive /\ s \notin ctxDone
  /\ ctxDone' = ctxDone \cup {s}
  /\ UNCHANGED <<life, breakerVars, loopVars, sources, connVars, callVars>>

-----------------------------------------------------------------------------
Process(s) ==
  \/ LoopTop(s) \/ LoopWait(s) \/ CallBreaker(s)
  \/ Connected(s) \/ NotConnected(s) \/ LoopEnds(s)
  \/ LeaveSession(s) \/ SessionLost(s) \/ TakeHandler(s) \/ CallHandler(s)

\* SendRequest, once called.
Finish(r) ==
  \/ PostDone(r) \/ PostStream(r) \/ Receive(r) \/ CancelRequest(r)
  \/ Unregister(r) \/ CloseChan(r)

\* The goroutines that read for a stream and cannot go on return.
EndReaders(s) == \E k \in readers : k[1] = s /\ MustEnd(k) /\ ReaderEnds(k)

Next ==
  \/ \E s \in Streams : Process(s) \/ CancelContext(s)
  \/ \E r \in Requests : SendRequest(r) \/ Finish(r)
  \/ \E k \in readers : ReaderEnds(k) \/ CloseEvent(k)
                        \/ \E r \in Requests : ReadAnswer(k, r)
  \/ CoolDown \/ Start \/ OpenListener \/ StopBegin \/ StopStreams

Spec == Init /\ [][Next]_vars

(***************************************************************************)
(* Goroutines run, timers fire, a POST and an attempt to connect end (the  *)
(* HTTP client has a timeout), and so do reads of a closed connection, of  *)
(* one whose context is done and, after a minute, of one whose stream is   *)
(* disconnected.  The breaker's mutex does not starve a waiter, hence SF.  *)
(* Nothing is assumed of the server or of the user.                        *)
(***************************************************************************)
Fairness ==
  /\ \A s \in Streams : SF_vars(Process(s)) /\ WF_vars(EndReaders(s))
  /\ WF_vars(CoolDown)

FairSpec == Spec /\ Fairness
-----------------------------------------------------------------------------
(* Properties *)

\* The breaker, shared by all streams, is never closed with a failure that
\* reached the threshold, and never half-open with all its calls used up, for
\* then Call would refuse for ever (streamable_http.go:2068) - if it has any
\* calls: newStreamableHTTPTransport takes the limit from SuccessThreshold as
\* it is, and a limit of 0, as in a configuration that sets FailureThreshold
\* only (middleware_integration_test.go:244-248), is StaysHalfOpen.
BreakerSound ==
  /\ circuit = "closed" => failures = 0 \/ failures < FailureThreshold
  /\ circuit = "half" /\ caller = None /\ HalfOpenMaxCalls # 0
       => halfCalls < HalfOpenMaxCalls
  /\ caller # None => circuit # "open" /\ pc[caller] = "dial"

\* A half-open breaker stays half-open and lets nobody connect.
StaysHalfOpen ==
  [][circuit = "half" => circuit' = "half" /\ caller' = None]_vars

\* A loop has left its session only when the reader of the session is gone
\* ("<-readEventsDone"), so that no two sessions of a stream ever read at once.
OneSession ==
  \A s \in Streams :
     /\ Cardinality(SessionReader(s)) <= 1
     /\ SessionReader(s) # {} =>
          pc[s] \in {"session", "deliver", "quit", "lost", "panicked"}

\* No handler outlives its SendRequest, whoever deletes it: the caller, the
\* goroutine that delivers the answer, or Stop.
NoLeakedHandler ==
  \A r \in handlers : call[r] \in {"post", "wait", "unregister"}

\* eventSources holds the stream of a request only while its loop runs.
NoLeakedStream ==
  \A r \in sources \cap Requests : pc[r] \in Loop

\* When the context of a stream is done, its loop and all the goroutines that
\* read for it end, also those of connections it has abandoned.
CancelledStreamsEnd ==
  \A s \in Streams :
     s \in ctxDone ~> \/ pc[s] \in {"none", "done"} /\ \A k \in readers : k[1] # s
                      \/ ~Alive

\* streamable_http.go:955 starts a loop that processes the messages of a
\* request's stream: it does not end while the request waits and its answer is
\* in the stream's channel, unless the request's context is done.
StreamServedBeforeGivenUp ==
  [][\A r \in Requests :
        /\ call[r] = "wait" /\ chan[r] = "empty" /\ r \in inbox[r]
        /\ life = "running" /\ r \notin ctxDone
        => ~(pc[r] = "quit" /\ pc'[r] = "done")]_vars
=============================================================================
