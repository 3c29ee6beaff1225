---------------------------- MODULE HTTPSessions ----------------------------
(***************************************************************************)
(* Sessions and server-sent-event streams of HTTPHandler                   *)
(* (pkg/server/http_handler.go).                                           *)
(*                                                                         *)
(* net/http runs one handler goroutine per request.  Handlers share the    *)
(* sessions map (under sessionMu) and the sseConnections map (under        *)
(* sseConnectionMu) with each other, with the hourly clean-up goroutine    *)
(* and with the senders of events, which copy the connections, let the     *)
(* lock go and write afterwards.  Each section under a mutex, each read    *)
(* outside one, each close of a channel and each write is one action.      *)
(*                                                                         *)
(* A request that opens a stream owns one connection, so connections are   *)
(* named by their handlers.  Requests that change no state are left out (a *)
(* forbidden origin, an unreadable body, OPTIONS, a Last-Event-ID without  *)
(* a session), and so is rotateSessionID, which only tests call.           *)
(***************************************************************************)
EXTENDS Integers, FiniteSets

CONSTANTS
  Handlers,    \* handler goroutines; a finished one serves another request
  Sids,        \* ids that createSession can generate; the bound on sessions
  NoSession,   \* the request carries no MCP-Session-ID
  Timeout,     \* sessionTimeout, in ticks
  Broadcasts   \* does the application call BroadcastNotification?

ASSUME SessionsAssumption ==
  /\ NoSession \notin Sids
  /\ Timeout \in Nat \ {0}
  /\ Broadcasts \in BOOLEAN

VARIABLES
  sessions,  \* the ids in the sessions map
  born,      \* every id ever generated
  ttl,       \* ticks until ExpiresAt of each session object
  expiring,  \* the ids cleanupExpiredSessions still has to remove
  conns,     \* the connections in the sseConnections map
  closeCh,   \* the closeCh of each connection: "none", "open", "closed"
  pc,        \* where each handler is
  method,    \* what it serves: "initialize", "post", "get" or "delete"
  sse,       \* does the client of a POST accept an event stream?
  sid,       \* the session id of its request
  check,     \* which of its two calls of isSessionValid is under way
  toSend,    \* events that a sender has not begun to send yet
  writing    \* events whose sender has found closeCh open

sessionVars == <<sessions, born, ttl, expiring>>
connVars    == <<conns, closeCh>>
requestVars == <<method, sse, sid>>
sendVars    == <<toSend, writing>>
vars == <<sessions, born, ttl, expiring, conns, closeCh, pc, method, sse, sid,
          check, toSend, writing>>

Finished  == {"idle", "served", "rejected", "closed", "panicked"}
Streaming == {"stream", "unregister"}
Working   == {"lookup", "compare", "expire", "touch", "dispatch", "create",
              "register", "remove", "sweep"}

\* An event is a response on a handler's own stream or a copy of a broadcast.
Events == {"response", "broadcast"} \X Handlers

TypeOK ==
  /\ sessions \subseteq born /\ born \subseteq Sids
  /\ ttl \in [Sids -> 0..Timeout]
  /\ expiring \subseteq sessions
  /\ conns \subseteq Handlers
  /\ closeCh \in [Handlers -> {"none", "open", "closed"}]
  /\ pc \in [Handlers -> Finished \cup Streaming \cup Working \cup {"close"}]
  /\ method \in [Handlers -> {"initialize", "post", "get", "delete"}]
  /\ sse \in [Handlers -> BOOLEAN]
  /\ sid \in [Handlers -> born \cup {NoSession}]
  /\ check \in [Handlers -> {1, 2}]
  /\ toSend \subseteq Events /\ writing \subseteq Events

Init ==
  /\ sessions = {} /\ born = {} /\ expiring = {}
  /\ ttl = [s \in Sids |-> 0]
  /\ conns = {}
  /\ closeCh = [h \in Handlers |-> "none"]
  /\ pc = [h \in Handlers |-> "idle"]
  /\ method = [h \in Handlers |-> "post"]
  /\ sse = [h \in Handlers |-> FALSE]
  /\ sid = [h \in Handlers |-> NoSession]
  /\ check = [h \in Handlers |-> 1]
  /\ toSend = {} /\ writing = {}

Expired(s) == ttl[s] = 0                 \* time.Now().After(ExpiresAt)
sessionMuFree == expiring = {}           \* the clean-up holds it throughout
ConnsOf(s) == {h \in conns : sid[h] = s}

Goto(h, from, to) == pc[h] = from /\ pc' = [pc EXCEPT ![h] = to]

-----------------------------------------------------------------------------
(* ServeHTTP and the checks of the session *)

\* Bound: no more sessions are asked for than there are ids left.
IdsLeft ==
  Cardinality({h \in Handlers : /\ method[h] = "initialize"
                                /\ sid[h] = NoSession
                                /\ pc[h] \in {"dispatch", "create"}})
    < Cardinality(Sids \ born)

\* A client knows the ids of responses it got; they may have ended since.
Arrive(h) ==
  /\ pc[h] \in Finished
  /\ \A e \in toSend \cup writing : e[2] # h
  /\ \E m \in {"initialize", "post", "get", "delete"}, stream \in BOOLEAN,
        s \in born \cup {NoSession} :
        /\ m = "initialize" /\ s = NoSession => IdsLeft
        /\ method' = [method EXCEPT ![h] = m]
        /\ sse' = [sse EXCEPT ![h] = stream]
        /\ sid' = [sid EXCEPT ![h] = s]
        /\ pc' = [pc EXCEPT ![h] = IF s = NoSession THEN "dispatch" ELSE "lookup"]
  /\ check' = [check EXCEPT ![h] = 1]
  /\ closeCh' = [closeCh EXCEPT ![h] = "none"]
  /\ UNCHANGED <<sessionVars, conns, sendVars>>

\* The request goes on although its session is not valid: ServeHTTP lets
\* initialize and GET pass, the second check of GET and DELETE lets none.
Invalid(h) ==
  IF check[h] = 1 /\ method[h] \in {"initialize", "get"}
  THEN "dispatch" ELSE "rejected"

\* isSessionValid, the lookup.
Lookup(h) ==
  /\ sessionMuFree
  /\ Goto(h, "lookup", IF sid[h] \in sessions THEN "compare" ELSE Invalid(h))
  /\ UNCHANGED <<sessionVars, connVars, requestVars, check, sendVars>>

\* isSessionValid, the comparison, without the lock.
Compare(h) ==
  /\ Goto(h, "compare", IF Expired(sid[h]) THEN "expire"
                        ELSE IF check[h] = 2 /\ method[h] = "delete" THEN "remove"
                        ELSE "touch")
  /\ UNCHANGED <<sessionVars, connVars, requestVars, check, sendVars>>

\* isSessionValid, the removal of an expired session.
ExpireSession(h) ==
  /\ sessionMuFree
  /\ Goto(h, "expire", Invalid(h))
  /\ sessions' = sessions \ {sid[h]}
  /\ UNCHANGED <<born, ttl, expiring, connVars, requestVars, check, sendVars>>

\* Mutant of updateSessionLastUsed: the entry is stored again.
StoreSession(h) ==
  /\ sessionMuFree
  /\ Goto(h, "touch", IF check[h] = 1 THEN "dispatch" ELSE "register")
  /\ ttl' = [ttl EXCEPT ![sid[h]] = Timeout]
  /\ sessions' = sessions \cup {sid[h]}
  /\ UNCHANGED <<born, expiring, connVars, requestVars, check, sendVars>>

updateSessionLastUsed(h) ==
  /\ sessionMuFree
  /\ Goto(h, "touch", IF check[h] = 1 THEN "dispatch" ELSE "register")
  /\ ttl' = [ttl EXCEPT ![sid[h]] = IF sid[h] \in sessions THEN Timeout ELSE @]
  /\ UNCHANGED <<sessions, born, expiring, connVars, requestVars, check, sendVars>>

\* The switch on the method and the beginning of each branch.
Dispatch(h) ==
  /\ Goto(h, "dispatch",
       CASE method[h] = "initialize" /\ sid[h] = NoSession -> "create"
         [] method[h] \in {"initialize", "post"} /\ sse[h] -> "register"
         [] method[h] = "get" /\ sid[h] = NoSession        -> "register"
         [] method[h] = "delete" /\ sid[h] = NoSession     -> "rejected"
         [] method[h] \in {"get", "delete"} /\ sid[h] # NoSession -> "lookup"
         [] OTHER -> "served")
  /\ check' = [check EXCEPT ![h] = 2]
  /\ UNCHANGED <<sessionVars, connVars, requestVars, sendVars>>

createSession(h) ==
  /\ sessionMuFree
  /\ Goto(h, "create", IF sse[h] THEN "register" ELSE "served")
  /\ \E s \in Sids \ born :
        /\ sessions' = sessions \cup {s}
        /\ born' = born \cup {s}
        /\ ttl' = [ttl EXCEPT ![s] = Timeout]
        /\ sid' = [sid EXCEPT ![h] = s]
  /\ UNCHANGED <<expiring, connVars, method, sse, check, sendVars>>

-----------------------------------------------------------------------------
(* Streams: handleStreamingRequest and handleGetRequest *)

\* The connection is registered; a POST also starts the goroutine that will
\* send the response.
Register(h) ==
  /\ Goto(h, "register", "stream")
  /\ conns' = conns \cup {h}
  /\ closeCh' = [closeCh EXCEPT ![h] = "open"]
  /\ toSend' = IF method[h] = "get" THEN toSend
               ELSE toSend \cup {<<"response", h>>}
  /\ UNCHANGED <<sessionVars, requestVars, check, writing>>

\* The keep-alive loop ends only when the client disconnects.
Disconnect(h) ==
  /\ Goto(h, "stream", "unregister")
  /\ UNCHANGED <<sessionVars, connVars, requestVars, check, sendVars>>

\* The deferred clean-up, under the lock ...
Unregister(h) ==
  /\ Goto(h, "unregister", "close")
  /\ conns' = conns \ {h}
  /\ UNCHANGED <<sessionVars, closeCh, requestVars, check, sendVars>>

\* ... and after it.  Closing a closed channel panics.
CloseConn(h) ==
  /\ Goto(h, "close", IF closeCh[h] = "closed" THEN "panicked" ELSE "closed")
  /\ closeCh' = [closeCh EXCEPT ![h] = "closed"]
  /\ UNCHANGED <<sessionVars, conns, requestVars, check, sendVars>>

-----------------------------------------------------------------------------
(* The end of a session: DELETE, and the clean-up goroutine *)

\* Mutant of RemoveSession: the entry is deleted without the lock.
RemoveUnlocked(h) ==
  /\ Goto(h, "remove", "sweep")
  /\ sessions' = sessions \ {sid[h]}
  /\ UNCHANGED <<born, ttl, expiring, connVars, requestVars, check, sendVars>>

RemoveSession(h) ==
  /\ sessionMuFree
  /\ Goto(h, "remove", "sweep")
  /\ sessions' = sessions \ {sid[h]}
  /\ UNCHANGED <<born, ttl, expiring, connVars, requestVars, check, sendVars>>

\* Mutant of Sweep: every connection of the handler is closed.
SweepAll(s) ==
  /\ closeCh' = [h \in Handlers |->
                   IF h \in conns THEN "closed" ELSE closeCh[h]]
  /\ conns' = {}

\* Under sseConnectionMu: close and forget the connections of a session.
Sweep(s) ==
  /\ closeCh' = [h \in Handlers |->
                   IF h \in ConnsOf(s) THEN "closed" ELSE closeCh[h]]
  /\ conns' = conns \ ConnsOf(s)

SweepStreams(h) ==
  /\ Goto(h, "sweep", "served")
  /\ Sweep(sid[h])
  /\ UNCHANGED <<sessionVars, requestVars, check, sendVars>>

\* Mutant of CleanupStart: a session with open streams is kept.
CleanupStartUnused ==
  /\ sessionMuFree
  /\ expiring' = {s \in sessions : Expired(s) /\ ConnsOf(s) = {}}
  /\ expiring' # {}
  /\ UNCHANGED <<sessions, born, ttl, connVars, pc, requestVars, check, sendVars>>

\* cleanupExpiredSessions takes sessionMu and collects the expired ids.
CleanupStart ==
  /\ sessionMuFree
  /\ expiring' = {s \in sessions : Expired(s)}
  /\ expiring' # {}
  /\ UNCHANGED <<sessions, born, ttl, connVars, pc, requestVars, check, sendVars>>

\* Mutant of CleanupSession: a session whose stream is open is left to the
\* next round, which never begins as the lock is not released.
CleanupSessionUnused ==
  /\ \E s \in expiring :
        /\ ConnsOf(s) = {}
        /\ sessions' = sessions \ {s}
        /\ expiring' = expiring \ {s}
        /\ Sweep(s)
  /\ UNCHANGED <<born, ttl, pc, requestVars, check, sendVars>>

\* One round of its second loop; sessionMu is released after the last one.
CleanupSession ==
  /\ \E s \in expiring :
        /\ sessions' = sessions \ {s}
        /\ expiring' = expiring \ {s}
        /\ Sweep(s)
  /\ UNCHANGED <<born, ttl, pc, requestVars, check, sendVars>>

Cleanup == CleanupStart \/ CleanupSession

-----------------------------------------------------------------------------
(* Events *)

\* BroadcastNotification copies the connections; one broadcast at a time.
Broadcast ==
  /\ Broadcasts
  /\ \A e \in toSend \cup writing : e[1] # "broadcast"
  /\ conns # {}
  /\ toSend' = toSend \cup ({"broadcast"} \X conns)
  /\ UNCHANGED <<sessionVars, connVars, pc, requestVars, check, writing>>

\* sendSSEEvent, the check of closeCh.
BeginSend(e) ==
  /\ e \in toSend
  /\ e[1] = "broadcast" => \A f \in writing : f[1] # "broadcast"
  /\ toSend' = toSend \ {e}
  /\ writing' = IF closeCh[e[2]] = "open" THEN writing \cup {e} ELSE writing
  /\ UNCHANGED <<sessionVars, connVars, pc, requestVars, check>>

\* sendSSEEvent, the write, under the connection's mutex.
WriteEvent(e) ==
  /\ e \in writing
  /\ writing' = writing \ {e}
  /\ UNCHANGED <<sessionVars, connVars, pc, requestVars, check, toSend>>

-----------------------------------------------------------------------------
Tick ==
  /\ \E s \in Sids : ttl[s] > 0
  /\ ttl' = [s \in Sids |-> IF ttl[s] > 0 THEN ttl[s] - 1 ELSE 0]
  /\ UNCHANGED <<sessions, born, expiring, connVars, pc, requestVars, check,
                 sendVars>>

Serve(h) ==
  \/ Lookup(h) \/ Compare(h) \/ ExpireSession(h) \/ updateSessionLastUsed(h)
  \/ Dispatch(h) \/ createSession(h) \/ Register(h) \/ Unregister(h)
  \/ CloseConn(h) \/ RemoveSession(h) \/ SweepStreams(h)

Next ==
  \/ \E h \in Handlers : Arrive(h) \/ Serve(h) \/ Disconnect(h)
  \/ Cleanup
  \/ Broadcast
  \/ \E e \in Events : BeginSend(e) \/ WriteEvent(e)
  \/ Tick

Spec == Init /\ [][Next]_vars

(***************************************************************************)
(* Handler goroutines run and the ticker fires for ever; each waits for    *)
(* sessionMu only while another is in a section that ends.  Nothing is     *)
(* assumed of the clients: a stream may stay connected for ever.           *)
(***************************************************************************)
Fairness ==
  /\ \A h \in Handlers : WF_vars(Serve(h))
  /\ WF_vars(CleanupSession)
  /\ WF_vars(CleanupStart)

FairSpec == Spec /\ Fairness
-----------------------------------------------------------------------------
(* Properties *)

\* A connection in sseConnections has an open closeCh, and its handler will
\* remove it.  DELETE and the clean-up close what they find there with the
\* lock held: a closed channel would panic and leave the lock locked for all
\* other requests (http_handler.go:245, 795).
RegisteredConnOpen ==
  \A h \in conns : closeCh[h] = "open" /\ pc[h] \in Streaming

\* The stream of a live session, or of none, is not closed under its handler
\* by the end of another session, and broadcasts can still reach it.
LiveStreamsKept ==
  \A h \in Handlers :
     pc[h] \in Streaming /\ (sid[h] = NoSession \/ sid[h] \in sessions)
       => h \in conns /\ closeCh[h] = "open"

\* Both: the registries of streams agree with the sessions and the handlers.
StreamsAgree == RegisteredConnOpen /\ LiveStreamsKept

\* A session that was deleted or has expired is never valid again, although
\* requests that checked it before are still refreshing it.
EndedForGood ==
  [][\A s \in born : s \notin sessions => s \notin sessions']_vars

\* An expired session does not stay in memory: the clean-up removes it unless
\* a request that had checked it in time refreshes it.
ExpiredRemoved ==
  \A s \in Sids : s \in sessions /\ Expired(s)
    ~> s \notin sessions \/ ~Expired(s)

\* Every request is answered, or is a stream: none is stuck behind the
\* clean-up, which holds sessionMu while it takes sseConnectionMu.
RequestsServed ==
  \A h \in Handlers : pc[h] \in Working ~> pc[h] \in Finished \cup Streaming

\* http_handler.go:865 cleans the connection up when its stream is done; the
\* handler ends without a panic, whatever ended the session before.
StreamsEndCleanly == \A h \in Handlers : pc[h] # "panicked"
=============================================================================
