-------------------------- MODULE HTTPSessions_proofs --------------------------
(***************************************************************************)
(* Theorems of the HTTP handler's sessions and streams, for any handlers,  *)
(* ids and timeout.  That the registry of streams agrees with the handlers *)
(* and sessions needs to know of the rest: a handler that is about to      *)
(* register has no open stream yet, one that has removed its connection    *)
(* does not come back to it, and a handler that will sweep a session has   *)
(* removed it for good.                                                    *)
(***************************************************************************)
EXTENDS HTTPSessions, TLAPS

\* Handlers that are past isSessionValid for a request with a session.
NeedsSession == {"lookup", "compare", "expire", "touch", "remove", "sweep"}

\* A handler that looks a session up, refreshes or removes one has its id.
SessionKnown == \A h \in Handlers : pc[h] \in NeedsSession => sid[h] \in born

\* RemoveSession comes before the sweep of DELETE, and ids are not used again.
SweptIsGone ==
  \A h \in Handlers : pc[h] = "sweep" => sid[h] \notin sessions

IInv == TypeOK /\ SessionKnown /\ SweptIsGone /\ StreamsAgree

USE DEF sessionVars, connVars, requestVars, sendVars

LEMMA InitIInv == Init => IInv
BY SessionsAssumption
   DEF Init, IInv, TypeOK, SessionKnown, NeedsSession, SweptIsGone, StreamsAgree,
       RegisteredConnOpen, LiveStreamsKept, Finished, Streaming, Events

LEMMA NextTypes == TypeOK /\ SessionKnown /\ [Next]_vars => TypeOK' /\ SessionKnown'
<1> SUFFICES ASSUME TypeOK, SessionKnown, [Next]_vars
             PROVE TypeOK' /\ SessionKnown'
  OBVIOUS
<1> USE SessionsAssumption DEF TypeOK, SessionKnown, NeedsSession, Finished,
        Streaming, Working, Goto, sessionMuFree
<1>1. ASSUME NEW h \in Handlers, Arrive(h) PROVE TypeOK' /\ SessionKnown'
  BY <1>1 DEF Arrive
<1>2. ASSUME NEW h \in Handlers, Lookup(h) PROVE TypeOK' /\ SessionKnown'
  BY <1>2 DEF Lookup, Invalid
<1>3. ASSUME NEW h \in Handlers, Compare(h) PROVE TypeOK' /\ SessionKnown'
  BY <1>3 DEF Compare
<1>4. ASSUME NEW h \in Handlers, ExpireSession(h) PROVE TypeOK' /\ SessionKnown'
  BY <1>4 DEF ExpireSession, Invalid
<1>5. ASSUME NEW h \in Handlers, updateSessionLastUsed(h)
      PROVE TypeOK' /\ SessionKnown'
  BY <1>5 DEF updateSessionLastUsed
<1>6. ASSUME NEW h \in Handlers, Dispatch(h) PROVE TypeOK' /\ SessionKnown'
  BY <1>6 DEF Dispatch
<1>7. ASSUME NEW h \in Handlers, createSession(h) PROVE TypeOK' /\ SessionKnown'
  BY <1>7 DEF createSession
<1>8. ASSUME NEW h \in Handlers, Register(h) PROVE TypeOK' /\ SessionKnown'
  BY <1>8 DEF Register, Events
<1>9. ASSUME NEW h \in Handlers, Disconnect(h) \/ Unregister(h) \/ CloseConn(h)
      PROVE TypeOK' /\ SessionKnown'
  BY <1>9 DEF Disconnect, Unregister, CloseConn
<1>10. ASSUME NEW h \in Handlers, RemoveSession(h) \/ SweepStreams(h)
       PROVE TypeOK' /\ SessionKnown'
  BY <1>10 DEF RemoveSession, SweepStreams, Sweep, ConnsOf
<1>11. CASE Cleanup
  BY <1>11 DEF Cleanup, CleanupStart, CleanupSession, Sweep, ConnsOf, Expired
<1>12. CASE Broadcast
  BY <1>12 DEF Broadcast, Events
<1>13. CASE \E e \in Events : BeginSend(e) \/ WriteEvent(e)
  BY <1>13 DEF BeginSend, WriteEvent
<1>14. CASE Tick
  BY <1>14 DEF Tick
<1>15. CASE UNCHANGED vars
  BY <1>15 DEF vars
<1> QED
  BY <1>1, <1>2, <1>3, <1>4, <1>5, <1>6, <1>7, <1>8, <1>9, <1>10, <1>11, <1>12,
     <1>13, <1>14, <1>15 DEF Next, Serve
-----------------------------------------------------------------------------
(* The registry of streams *)

\* Nothing but createSession adds a session, and it takes a new id.
LEMMA OnlyNewSessions ==
  ASSUME TypeOK, [Next]_vars
  PROVE  \A s \in born : s \notin sessions => s \notin sessions'
<1> USE SessionsAssumption DEF TypeOK, Goto
<1>1. ASSUME NEW h \in Handlers, createSession(h)
      PROVE \A s \in born : s \notin sessions => s \notin sessions'
  BY <1>1 DEF createSession
<1>2. ASSUME NEW h \in Handlers, Serve(h), ~createSession(h)
      PROVE sessions' \subseteq sessions
  BY <1>2 DEF Serve, Lookup, Compare, ExpireSession, updateSessionLastUsed, Dispatch,
       Register, Unregister, CloseConn, RemoveSession, SweepStreams
<1>3. CASE ~ \E h \in Handlers : Serve(h)
  <2>1. sessions' \subseteq sessions
    BY <1>3 DEF Next, vars, Arrive, Disconnect, Cleanup, CleanupStart, CleanupSession,
         Broadcast, BeginSend, WriteEvent, Tick
  <2> QED
    BY <2>1
<1> QED
  BY <1>1, <1>2, <1>3

LEMMA NextSwept ==
  TypeOK /\ SessionKnown /\ SweptIsGone /\ [Next]_vars => SweptIsGone'
<1> SUFFICES ASSUME TypeOK, SessionKnown, SweptIsGone, [Next]_vars,
                    NEW h \in Handlers, pc'[h] = "sweep"
             PROVE  sid'[h] \notin sessions'
  BY DEF SweptIsGone
<1>1. CASE pc[h] = "sweep" /\ sid'[h] = sid[h]
  BY <1>1, OnlyNewSessions DEF SessionKnown, NeedsSession, SweptIsGone
<1>2. ASSUME NEW k \in Handlers, Arrive(k) \/ Disconnect(k)
      PROVE pc[h] = "sweep" /\ sid'[h] = sid[h]
  BY <1>2 DEF Arrive, Disconnect, Goto, TypeOK, Finished, Streaming
<1>3. ASSUME NEW k \in Handlers, RemoveSession(k)
      PROVE sid'[h] \notin sessions'
  <2>1. CASE k = h
    BY <1>3, <2>1 DEF RemoveSession
  <2>2. CASE k # h
    BY <1>1, <1>3, <2>2 DEF RemoveSession, Goto, TypeOK
  <2> QED
    BY <2>1, <2>2
<1>4. ASSUME NEW k \in Handlers, Serve(k), ~RemoveSession(k)
      PROVE pc[h] = "sweep" /\ sid'[h] = sid[h]
  BY <1>4 DEF Serve, Lookup, Invalid, Compare, ExpireSession, updateSessionLastUsed,
       Dispatch, createSession, Register, Unregister, CloseConn, SweepStreams, Goto,
       TypeOK
<1>5. CASE Cleanup \/ Broadcast \/ (\E e \in Events : BeginSend(e) \/ WriteEvent(e))
             \/ Tick \/ UNCHANGED vars
  <2>1. UNCHANGED <<pc, sid>>
    BY <1>5 DEF Cleanup, CleanupStart, CleanupSession, Broadcast, BeginSend, WriteEvent,
         Tick, vars
  <2> QED
    BY <1>1, <2>1
<1> QED
  BY <1>1, <1>2, <1>3, <1>4, <1>5 DEF Next

\* A sweep of a session that is gone leaves the streams of the others alone.
LEMMA SweepAgrees ==
  ASSUME TypeOK, StreamsAgree, NEW s \in born, Sweep(s), s \notin sessions',
         sessions' \subseteq sessions, UNCHANGED <<pc, sid>>
  PROVE  StreamsAgree'
<1> USE SessionsAssumption DEF TypeOK, StreamsAgree, Sweep, ConnsOf
<1>1. RegisteredConnOpen'
  BY DEF RegisteredConnOpen
<1>2. LiveStreamsKept'
  <2> SUFFICES ASSUME NEW h \in Handlers, pc[h] \in Streaming,
                      sid[h] = NoSession \/ sid[h] \in sessions'
               PROVE  h \in conns' /\ closeCh'[h] = "open"
    BY DEF LiveStreamsKept
  <2>1. sid[h] # s
    OBVIOUS
  <2>2. h \in conns /\ closeCh[h] = "open"
    BY DEF LiveStreamsKept
  <2> QED
    BY <2>1, <2>2
<1> QED
  BY <1>1, <1>2

LEMMA NextAgrees == IInv /\ [Next]_vars => StreamsAgree'
<1> SUFFICES ASSUME IInv, [Next]_vars PROVE StreamsAgree'
  OBVIOUS
<1> USE SessionsAssumption DEF IInv, TypeOK, Goto, Finished, Streaming
<1> DEFINE Kept == UNCHANGED <<conns, closeCh>> /\ sessions' \subseteq sessions
<1>1. ASSUME NEW h \in Handlers, Arrive(h) PROVE StreamsAgree'
  BY <1>1 DEF Arrive, StreamsAgree, RegisteredConnOpen, LiveStreamsKept
<1>2. ASSUME NEW h \in Handlers,
             Lookup(h) \/ Compare(h) \/ ExpireSession(h) \/ updateSessionLastUsed(h)
               \/ Dispatch(h) \/ RemoveSession(h)
      PROVE StreamsAgree'
  <2>1. Kept /\ UNCHANGED sid
    BY <1>2 DEF Lookup, Compare, ExpireSession, updateSessionLastUsed, Dispatch,
         RemoveSession
  <2>2. /\ pc[h] \notin Streaming /\ pc'[h] \notin Streaming
        /\ \A k \in Handlers \ {h} : pc'[k] = pc[k]
    BY <1>2 DEF Lookup, Invalid, Compare, ExpireSession, updateSessionLastUsed,
         Dispatch, RemoveSession
  <2> QED
    BY <2>1, <2>2 DEF StreamsAgree, RegisteredConnOpen, LiveStreamsKept
<1>3. ASSUME NEW h \in Handlers, createSession(h) PROVE StreamsAgree'
  BY <1>3 DEF createSession, StreamsAgree, RegisteredConnOpen, LiveStreamsKept
<1>4. ASSUME NEW h \in Handlers, Register(h) PROVE StreamsAgree'
  BY <1>4 DEF Register, StreamsAgree, RegisteredConnOpen, LiveStreamsKept
<1>5. ASSUME NEW h \in Handlers, Disconnect(h) \/ Unregister(h) \/ CloseConn(h)
      PROVE StreamsAgree'
  BY <1>5 DEF Disconnect, Unregister, CloseConn, StreamsAgree, RegisteredConnOpen,
       LiveStreamsKept
<1>6. ASSUME NEW h \in Handlers, SweepStreams(h) PROVE StreamsAgree'
  <2>1. sid[h] \in born /\ sid[h] \notin sessions
    BY <1>6 DEF SweepStreams, SessionKnown, NeedsSession, SweptIsGone
  <2>2. Sweep(sid[h]) /\ UNCHANGED <<sessions, sid>>
    BY <1>6 DEF SweepStreams
  <2>3. /\ pc[h] = "sweep" /\ pc'[h] = "served"
        /\ \A k \in Handlers \ {h} : pc'[k] = pc[k]
    BY <1>6 DEF SweepStreams
  <2> QED
    BY <2>1, <2>2, <2>3
       DEF Sweep, ConnsOf, StreamsAgree, RegisteredConnOpen, LiveStreamsKept
<1>7. CASE Cleanup
  <2>1. CASE CleanupStart
    BY <2>1 DEF CleanupStart, StreamsAgree, RegisteredConnOpen, LiveStreamsKept
  <2>2. CASE CleanupSession
    <3>1. PICK s \in expiring : sessions' = sessions \ {s} /\ Sweep(s)
      BY <2>2 DEF CleanupSession
    <3>2. UNCHANGED <<pc, sid>>
      BY <2>2 DEF CleanupSession
    <3> QED
      BY <3>1, <3>2, SweepAgrees
  <2> QED
    BY <1>7, <2>1, <2>2 DEF Cleanup
<1>8. CASE Broadcast \/ (\E e \in Events : BeginSend(e) \/ WriteEvent(e)) \/ Tick
             \/ UNCHANGED vars
  <2>1. Kept /\ UNCHANGED <<pc, sid>>
    BY <1>8 DEF Broadcast, BeginSend, WriteEvent, Tick, vars
  <2> QED
    BY <2>1 DEF StreamsAgree, RegisteredConnOpen, LiveStreamsKept
<1> QED
  BY <1>1, <1>2, <1>3, <1>4, <1>5, <1>6, <1>7, <1>8 DEF Next, Serve

-----------------------------------------------------------------------------
(* Theorems *)

\* The inductive invariant: types, ids, the order of removal and sweep in
\* DELETE, and the agreement of streams, sessions and handlers.
THEOREM SessionsInductive == Spec => []IInv
<1>1. IInv /\ [Next]_vars => IInv'
  BY NextTypes, NextSwept, NextAgrees DEF IInv
<1> QED
  BY InitIInv, <1>1, PTL DEF Spec

\* Every variable of the handler keeps its type; what the clean-up has still to
\* remove is in the map until it does.
THEOREM SessionsTypeCorrect == Spec => []TypeOK
<1>1. IInv => TypeOK
  BY DEF IInv
<1> QED
  BY SessionsInductive, <1>1, PTL

\* Whatever DELETE, expiry and the clean-up end meanwhile: a registered
\* connection has an open channel and a handler that will remove it, and the
\* stream of a living session is registered.
THEOREM StreamsAgreeWithSessions == Spec => []StreamsAgree
<1>1. IInv => StreamsAgree
  BY DEF IInv
<1> QED
  BY SessionsInductive, <1>1, PTL

\* A session that was deleted, expired or swept is not brought back by a
\* request that has validated it before.
THEOREM SessionsEndForGood == Spec => EndedForGood
<1>1. IInv /\ [Next]_vars => [\A s \in born : s \notin sessions => s \notin sessions']_vars
  BY OnlyNewSessions DEF IInv
<1> QED
  BY SessionsInductive, <1>1, PTL DEF Spec, EndedForGood
=============================================================================
