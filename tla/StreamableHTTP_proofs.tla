------------------------ MODULE StreamableHTTP_proofs ------------------------
(***************************************************************************)
(* Theorems of the streamable HTTP transport, for any requests,            *)
(* connections, limits and thresholds.  The inductive invariant is proved  *)
(* group by group: connections, calls, and the breaker with the loops that *)
(* share it.  The last needs two facts that no property states: a loop on  *)
(* its way to a connection has an attempt left, and a request has no       *)
(* stream before its POST has been answered.  That sessions do not overlap *)
(* is proved on top of it.                                                 *)
(***************************************************************************)
EXTENDS StreamableHTTP, FiniteSetTheorems, TLAPS

\* The life of the transport, its connections and streams.
ConnInv ==
  /\ life \in {"new", "running", "stopping", "stopped"} /\ ctxDone \subseteq Streams
  /\ sources \subseteq Streams
  /\ isConn \in [Streams -> BOOLEAN]
  /\ conn \in [Streams -> Conns \cup {None}] /\ unclosed \subseteq Conns
  /\ readers \subseteq Streams \X Kinds \X Conns
  /\ inbox \in [Streams -> SUBSET Requests]

\* A loop that is on its way to a connection, or has one, has an attempt left.
AttemptLeft ==
  \A s \in Streams :
     pc[s] \in {"call", "dial", "session", "deliver", "lost"} =>
        attempt[s] < MaxRetries

\* A request has no stream before its POST has been answered.
NoEarlyStream ==
  \A r \in Requests : call[r] \in {"idle", "post"} => pc[r] = "none"

\* The breaker and the loops that share it: BreakerSound in three parts, with
\* the types.
Counts ==
  /\ circuit \in {"closed", "open", "half"}
  /\ failures \in 0..FailureThreshold /\ halfCalls \in 0..HalfOpenMaxCalls
  /\ circuit = "closed" => failures = 0 \/ failures < FailureThreshold
  /\ circuit # "half" => halfCalls = 0

HalfHasCalls ==
  circuit = "half" /\ caller = None /\ HalfOpenMaxCalls # 0
    => halfCalls < HalfOpenMaxCalls

CallerDials ==
  /\ caller \in Streams \cup {None}
  /\ caller # None => circuit # "open" /\ pc[caller] = "dial"

LoopTypes ==
  /\ pc \in [Streams -> Loop \cup {"none", "done", "panicked"}]
  /\ attempt \in [Streams -> 0..MaxRetries]

Others ==
  /\ cooled \in BOOLEAN
  /\ taken \in [Streams -> Requests \cup {None}]

LoopInv ==
  /\ Counts /\ HalfHasCalls /\ CallerDials
  /\ LoopTypes /\ AttemptLeft /\ NoEarlyStream /\ Others

\* The calls of SendRequest and their handlers.
CallInv ==
  /\ call \in [Requests -> {"idle", "post", "wait", "unregister",
                            "close", "returned"}]
  /\ handlers \subseteq Requests
  /\ chan \in [Requests -> {"empty", "full", "closed"}]
  /\ NoLeakedHandler

IInv == ConnInv /\ LoopInv /\ CallInv

USE DEF lifeVars, breakerVars, loopVars, connVars, callVars

LEMMA InitIInv == Init => IInv
<1> SUFFICES ASSUME Init PROVE IInv
  OBVIOUS
<1>1. ConnInv
  BY StreamableAssumption DEF Init, ConnInv
<1>2. Counts /\ HalfHasCalls
  BY StreamableAssumption DEF Init, Counts, HalfHasCalls
<1>3. CallerDials /\ NoEarlyStream /\ Others
  BY DEF Init, CallerDials, NoEarlyStream, Others, Streams
<1>4. LoopTypes /\ AttemptLeft
  BY StreamableAssumption DEF Init, LoopTypes, AttemptLeft
<1>5. CallInv
  BY DEF Init, CallInv, NoLeakedHandler
<1> QED
  BY <1>1, <1>2, <1>3, <1>4, <1>5 DEF IInv, LoopInv

\* Closing streams keeps the types of the connections.
LEMMA CloseAllTypes ==
  ASSUME NEW ss, ConnInv, CloseAll(ss)
  PROVE  /\ isConn' \in [Streams -> BOOLEAN]
         /\ conn' \in [Streams -> Conns \cup {None}]
         /\ unclosed' \subseteq Conns
  BY DEF CloseAll, ConnInv

-----------------------------------------------------------------------------
(* Connections *)

LEMMA NextConnInv == IInv /\ [Next]_vars => ConnInv'
<1> SUFFICES ASSUME ConnInv, LoopInv, [Next]_vars  PROVE ConnInv'
  BY DEF IInv
<1>1. ASSUME NEW k \in readers, ReaderEnds(k)  PROVE ConnInv'
  BY <1>1 DEF ReaderEnds, ConnInv
<1>2. ASSUME NEW k \in readers, CloseEvent(k)  PROVE ConnInv'
  <2>1. CloseAll({k[1]})
    BY <1>2 DEF CloseEvent
  <2> QED  BY <1>2, <2>1, CloseAllTypes DEF CloseEvent, ConnInv
<1>3. ASSUME NEW k \in readers, NEW r \in Requests, ReadAnswer(k, r)
      PROVE ConnInv'
  <2>1. k[1] \in Streams
    BY DEF ConnInv
  <2> QED  BY <1>3, <2>1 DEF ReadAnswer, ConnInv
<1>4. ASSUME NEW s \in Streams, Connected(s)  PROVE ConnInv'
  BY <1>4 DEF Connected, FreeConns, Kinds, ConnInv
<1>5. ASSUME NEW s \in Streams, LoopEnds(s)  PROVE ConnInv'
  <2>1. CloseAll({s})
    BY <1>5 DEF LoopEnds
  <2> QED  BY <1>5, <2>1, CloseAllTypes DEF LoopEnds, ConnInv
<1>6. ASSUME NEW s \in Streams, TakeHandler(s)  PROVE ConnInv'
  BY <1>6 DEF TakeHandler, ConnInv
<1>7. ASSUME NEW r \in Requests, PostStream(r)  PROVE ConnInv'
  BY <1>7 DEF PostStream, FreeConns, Kinds, Streams, ConnInv
<1>8. ASSUME NEW r \in Requests, CancelRequest(r)  PROVE ConnInv'
  <2>1. CloseAll(sources \cap {r})
    BY <1>8 DEF CancelRequest
  <2> QED  BY <1>8, <2>1, CloseAllTypes DEF CancelRequest, ConnInv
<1>9. CASE OpenListener
  BY <1>9 DEF OpenListener, FreeConns, Kinds, Streams, ConnInv
<1>10. CASE StopStreams
  <2>1. CloseAll(sources)
    BY <1>10 DEF StopStreams
  <2> QED  BY <1>10, <2>1, CloseAllTypes DEF StopStreams, ConnInv
<1>11. CASE Start \/ StopBegin
  BY <1>11 DEF Start, StopBegin, ConnInv
<1>12. ASSUME NEW s \in Streams, CancelContext(s)  PROVE ConnInv'
  BY <1>12 DEF CancelContext, ConnInv
<1>13. CASE UNCHANGED <<lifeVars, sources, connVars>>
  BY <1>13 DEF ConnInv
<1>14. ASSUME NEW s \in Streams,
              \/ LoopTop(s) \/ LoopWait(s) \/ CallBreaker(s) \/ NotConnected(s)
              \/ LeaveSession(s) \/ SessionLost(s) \/ CallHandler(s)
       PROVE ConnInv'
  BY <1>13, <1>14 DEF LoopTop, LoopWait, CallBreaker, NotConnected,
                      LeaveSession, SessionLost, CallHandler
<1>15. ASSUME NEW r \in Requests,
              \/ SendRequest(r) \/ PostDone(r) \/ Receive(r)
              \/ Unregister(r) \/ CloseChan(r)
       PROVE ConnInv'
  BY <1>13, <1>15 DEF SendRequest, PostDone, Receive, Unregister, CloseChan
<1>16. CASE CoolDown
  BY <1>13, <1>16 DEF CoolDown
<1>17. CASE UNCHANGED vars
  BY <1>13, <1>17 DEF vars
<1> QED
  BY <1>1, <1>2, <1>3, <1>4, <1>5, <1>6, <1>7, <1>8, <1>9, <1>10, <1>11,
     <1>12, <1>14, <1>15, <1>16, <1>17 DEF Next, Process, Finish

-----------------------------------------------------------------------------
(* Calls *)

LEMMA NextCallInv == IInv /\ [Next]_vars => CallInv'
<1> SUFFICES ASSUME CallInv, [Next]_vars  PROVE CallInv'
  BY DEF IInv
<1>1. ASSUME NEW r \in Requests, SendRequest(r)  PROVE CallInv'
  BY <1>1 DEF SendRequest, CallGoto, CallInv, NoLeakedHandler
<1>2. ASSUME NEW r \in Requests, PostDone(r)  PROVE CallInv'
  BY <1>2 DEF PostDone, CallGoto, CallInv, NoLeakedHandler
<1>3. ASSUME NEW r \in Requests, PostStream(r) \/ CancelRequest(r)
      PROVE CallInv'
  BY <1>3 DEF PostStream, CancelRequest, CallGoto, CallInv, NoLeakedHandler
<1>4. ASSUME NEW r \in Requests, Receive(r)  PROVE CallInv'
  BY <1>4 DEF Receive, CallGoto, CallInv, NoLeakedHandler
<1>5. ASSUME NEW r \in Requests, Unregister(r)  PROVE CallInv'
  BY <1>5 DEF Unregister, CallGoto, CallInv, NoLeakedHandler
<1>6. ASSUME NEW r \in Requests, CloseChan(r)  PROVE CallInv'
  BY <1>6 DEF CloseChan, CallGoto, CallInv, NoLeakedHandler
<1>7. ASSUME NEW s \in Streams, CallHandler(s)  PROVE CallInv'
  BY <1>7 DEF CallHandler, CallInv, NoLeakedHandler
<1>8. CASE StopStreams
  BY <1>8 DEF StopStreams, CallInv, NoLeakedHandler
<1>9. CASE UNCHANGED callVars
  BY <1>9 DEF CallInv, NoLeakedHandler
<1>10. ASSUME NEW s \in Streams,
              \/ LoopTop(s) \/ LoopWait(s) \/ CallBreaker(s)
              \/ Connected(s) \/ NotConnected(s) \/ LoopEnds(s)
              \/ LeaveSession(s) \/ SessionLost(s) \/ TakeHandler(s)
              \/ CancelContext(s)
       PROVE CallInv'
  BY <1>9, <1>10 DEF LoopTop, LoopWait, CallBreaker, Connected, NotConnected,
     LoopEnds, LeaveSession, SessionLost, TakeHandler, CancelContext
<1>11. ASSUME NEW k \in readers,
              \/ ReaderEnds(k) \/ CloseEvent(k)
              \/ \E r \in Requests : ReadAnswer(k, r)
       PROVE CallInv'
  BY <1>9, <1>11 DEF ReaderEnds, CloseEvent, ReadAnswer
<1>12. CASE CoolDown \/ Start \/ OpenListener \/ StopBegin \/ UNCHANGED vars
  BY <1>9, <1>12 DEF CoolDown, Start, OpenListener, StopBegin, vars
<1> QED
  BY <1>1, <1>2, <1>3, <1>4, <1>5, <1>6, <1>7, <1>8, <1>10, <1>11, <1>12
  DEF Next, Process, Finish

-----------------------------------------------------------------------------
(* The breaker *)

\* A failure is recorded soundly for a call admitted in any state; afterwards
\* the breaker is not half-open.
LEMMA FailureRecorded ==
  ASSUME Counts, RecordFailure(Circuit)
  PROVE  Counts' /\ circuit' # "half"
<1>1. CASE Circuit = "half"
  BY <1>1, StreamableAssumption DEF Counts, RecordFailure, OneMoreFailure
<1>2. CASE Circuit # "half"
  BY <1>2, StreamableAssumption
  DEF Counts, RecordFailure, OneMoreFailure, Circuit
<1> QED  BY <1>1, <1>2

\* So is a success; a breaker that stays half-open has calls left.
LEMMA SuccessRecorded ==
  ASSUME Counts, circuit # "open", RecordSuccess(circuit, halfCalls)
  PROVE  /\ Counts'
         /\ circuit' = "half" => halfCalls' < HalfOpenMaxCalls
  BY StreamableAssumption DEF Counts, RecordSuccess

LEMMA NextCounts == IInv /\ [Next]_vars => Counts' /\ HalfHasCalls'
<1> SUFFICES ASSUME Counts, HalfHasCalls, CallerDials, [Next]_vars
             PROVE  Counts' /\ HalfHasCalls'
  BY DEF IInv, LoopInv
<1>1. CASE UNCHANGED <<circuit, failures, halfCalls, caller>>
  BY <1>1 DEF Counts, HalfHasCalls
<1>2. ASSUME NEW s \in Streams, CallBreaker(s)
      PROVE  Counts' /\ HalfHasCalls'
  <2>1. CASE ~Admitted
    <3>1. circuit' = Circuit /\ UNCHANGED <<failures, halfCalls, caller>>
          /\ caller = None
      BY <1>2, <2>1 DEF CallBreaker
    <3> QED
      BY <2>1, <3>1, StreamableAssumption
      DEF Counts, HalfHasCalls, Circuit, Admitted
  <2>2. CASE Admitted /\ MayConnect(s)
    <3>1. circuit' = Circuit /\ halfCalls' = HalfCalls /\ caller' = s
          /\ failures' = failures
      BY <1>2, <2>2 DEF CallBreaker
    <3>2. Counts'
      BY <2>2, <3>1, StreamableAssumption
      DEF Counts, Circuit, HalfCalls, Admitted
    <3> QED  BY <3>1, <3>2, StreamableAssumption DEF HalfHasCalls
  <2>3. CASE Admitted /\ ~MayConnect(s)
    <3>1. RecordFailure(Circuit)
      BY <1>2, <2>3 DEF CallBreaker
    <3> QED  BY <3>1, FailureRecorded DEF HalfHasCalls
  <2> QED  BY <2>1, <2>2, <2>3
<1>3. ASSUME NEW s \in Streams, Connected(s)
      PROVE  Counts' /\ HalfHasCalls'
  <2>1. circuit # "open" /\ RecordSuccess(circuit, halfCalls)
    BY <1>3, StreamableAssumption DEF Connected, CallerDials
  <2> QED  BY <2>1, SuccessRecorded DEF HalfHasCalls
<1>4. ASSUME NEW s \in Streams, NotConnected(s)
      PROVE  Counts' /\ HalfHasCalls'
  <2>1. circuit # "open" /\ RecordFailure(circuit)
    BY <1>4, StreamableAssumption DEF NotConnected, CallerDials
  <2>2. RecordFailure(Circuit)
    BY <2>1 DEF Circuit
  <2> QED  BY <2>2, FailureRecorded DEF HalfHasCalls
<1>5. ASSUME NEW s \in Streams,
             \/ LoopTop(s) \/ LoopWait(s) \/ LoopEnds(s) \/ LeaveSession(s)
             \/ SessionLost(s) \/ TakeHandler(s) \/ CallHandler(s)
             \/ CancelContext(s)
      PROVE  Counts' /\ HalfHasCalls'
  BY <1>1, <1>5 DEF LoopTop, LoopWait, LoopEnds, LeaveSession, SessionLost,
     TakeHandler, CallHandler, CancelContext
<1>6. ASSUME NEW r \in Requests, SendRequest(r) \/ Finish(r)
      PROVE  Counts' /\ HalfHasCalls'
  BY <1>1, <1>6 DEF SendRequest, Finish, PostDone, PostStream, Receive,
     CancelRequest, Unregister, CloseChan
<1>7. ASSUME NEW k \in readers,
             \/ ReaderEnds(k) \/ CloseEvent(k)
             \/ \E r \in Requests : ReadAnswer(k, r)
      PROVE  Counts' /\ HalfHasCalls'
  BY <1>1, <1>7 DEF ReaderEnds, CloseEvent, ReadAnswer
<1>8. CASE \/ CoolDown \/ Start \/ OpenListener \/ StopBegin \/ StopStreams
           \/ UNCHANGED vars
  BY <1>1, <1>8 DEF CoolDown, Start, OpenListener, StopBegin, StopStreams, vars
<1> QED
  BY <1>2, <1>3, <1>4, <1>5, <1>6, <1>7, <1>8 DEF Next, Process

LEMMA NextOthers == IInv /\ [Next]_vars => Others'
<1> SUFFICES ASSUME Others, ConnInv, [Next]_vars  PROVE Others'
  BY DEF IInv, LoopInv
<1>1. CASE UNCHANGED <<cooled, taken>>
  BY <1>1 DEF Others
<1>2. CASE cooled' \in {TRUE, FALSE} /\ UNCHANGED taken
  BY <1>2 DEF Others
<1>3. ASSUME NEW s \in Streams, CallBreaker(s) \/ Connected(s) \/ NotConnected(s)
      PROVE  Others'
  BY <1>1, <1>2, <1>3 DEF CallBreaker, Connected, NotConnected,
     RecordSuccess, RecordFailure
<1>4. ASSUME NEW s \in Streams, TakeHandler(s) \/ CallHandler(s)
      PROVE  Others'
  <2>1. cooled' = cooled
    BY <1>4 DEF TakeHandler, CallHandler
  <2>2. taken' \in [Streams -> Requests \cup {None}]
    BY <1>4 DEF TakeHandler, CallHandler, Others, ConnInv
  <2> QED  BY <2>1, <2>2 DEF Others
<1>5. ASSUME NEW s \in Streams,
             \/ LoopTop(s) \/ LoopWait(s) \/ LoopEnds(s) \/ LeaveSession(s)
             \/ SessionLost(s) \/ CancelContext(s)
      PROVE  Others'
  BY <1>1, <1>5 DEF LoopTop, LoopWait, LoopEnds, LeaveSession, SessionLost,
     CancelContext
<1>6. ASSUME NEW r \in Requests, SendRequest(r) \/ Finish(r)
      PROVE  Others'
  BY <1>1, <1>6 DEF SendRequest, Finish, PostDone, PostStream, Receive,
     CancelRequest, Unregister, CloseChan
<1>7. ASSUME NEW k \in readers,
             \/ ReaderEnds(k) \/ CloseEvent(k)
             \/ \E r \in Requests : ReadAnswer(k, r)
      PROVE  Others'
  BY <1>1, <1>7 DEF ReaderEnds, CloseEvent, ReadAnswer
<1>8. CASE \/ Start \/ OpenListener \/ StopBegin \/ StopStreams
           \/ UNCHANGED vars
  BY <1>1, <1>8 DEF Start, OpenListener, StopBegin, StopStreams, vars
<1>9. CASE CoolDown
  BY <1>2, <1>9 DEF CoolDown
<1> QED
  BY <1>3, <1>4, <1>5, <1>6, <1>7, <1>8, <1>9 DEF Next, Process

-----------------------------------------------------------------------------
(* The loops *)

PcInv == CallerDials /\ LoopTypes /\ AttemptLeft /\ NoEarlyStream

\* Where the loop of one stream may go, with what attempt, when no breaker
\* call and no SendRequest begins or ends.
LEMMA LoopMoves ==
  ASSUME PcInv, NEW s \in Streams, NEW from, from \notin {"none", "dial"},
         NEW to \in Loop \cup {"done", "panicked"}, to # "dial",
         Goto(s, from, to),
         attempt' \in [Streams -> 0..MaxRetries],
         \A t \in Streams : t # s => attempt'[t] = attempt[t],
         to \in {"call", "session", "deliver", "lost"} =>
            attempt'[s] < MaxRetries,
         UNCHANGED <<circuit, caller, call>>
  PROVE  PcInv'
<1>1. LoopTypes'
  BY DEF PcInv, LoopTypes, Goto
<1>2. \A t \in Streams : pc'[t] = IF t = s THEN to ELSE pc[t]
  BY DEF PcInv, LoopTypes, Goto
<1>3. AttemptLeft'
  BY <1>2 DEF PcInv, AttemptLeft
<1>4. CallerDials'
  BY <1>2 DEF PcInv, CallerDials, Goto
<1>5. NoEarlyStream'
  BY <1>2 DEF PcInv, NoEarlyStream, Goto, Streams
<1> QED  BY <1>1, <1>3, <1>4, <1>5 DEF PcInv

\* The same, when the attempt stays what it was.
LEMMA LoopMovesOn ==
  ASSUME PcInv, NEW s \in Streams, NEW from, from \notin {"none", "dial"},
         NEW to \in Loop \cup {"done", "panicked"}, to # "dial",
         Goto(s, from, to),
         to \in {"call", "session", "deliver", "lost"} => attempt[s] < MaxRetries,
         UNCHANGED <<circuit, caller, call, attempt>>
  PROVE  PcInv'
<1>1. attempt' \in [Streams -> 0..MaxRetries]
  BY DEF PcInv, LoopTypes
<1> QED  BY <1>1, LoopMoves

\* Another attempt, from a place where one is left.
LEMMA RetryAttempt ==
  ASSUME PcInv, NEW s \in Streams,
         NEW from \in {"call", "dial", "lost"}, Retry(s, from)
  PROVE  /\ attempt' \in [Streams -> 0..MaxRetries]
         /\ \A t \in Streams : t # s => attempt'[t] = attempt[t]
<1>1. attempt[s] \in 0..MaxRetries /\ attempt[s] < MaxRetries
  BY DEF PcInv, LoopTypes, AttemptLeft, Retry, Goto
<1>2. attempt[s] + 1 \in 0..MaxRetries
  BY <1>1, StreamableAssumption
<1> QED  BY <1>2 DEF PcInv, LoopTypes, Retry

LEMMA NextPcInv == IInv /\ [Next]_vars => PcInv'
<1> SUFFICES ASSUME PcInv, LoopInv, CallInv, [Next]_vars  PROVE PcInv'
  BY DEF IInv, LoopInv, PcInv
<1>1. CASE UNCHANGED <<circuit, caller, pc, attempt, call>>
  BY <1>1 DEF PcInv, CallerDials, LoopTypes, AttemptLeft, NoEarlyStream
<1>2. ASSUME NEW s \in Streams, LoopTop(s)  PROVE PcInv'
  <2>1. CASE Goto(s, "top", "quit")
    BY <1>2, <2>1, LoopMovesOn DEF LoopTop, Loop
  <2>2. CASE Goto(s, "top", "recover")
    BY <1>2, <2>2, LoopMovesOn DEF LoopTop, Loop
  <2>3. CASE Goto(s, "top", "call") /\ attempt[s] < MaxRetries
    BY <1>2, <2>3, LoopMovesOn DEF LoopTop, Loop
  <2>4. attempt[s] \in 0..MaxRetries
    BY DEF PcInv, LoopTypes
  <2> QED  BY <1>2, <2>1, <2>2, <2>3, <2>4, StreamableAssumption DEF LoopTop
<1>3. ASSUME NEW s \in Streams, LoopWait(s)  PROVE PcInv'
  <2>1. CASE Goto(s, "recover", "top")
    BY <1>3, <2>1, LoopMovesOn DEF LoopWait, Loop
  <2>2. CASE Goto(s, "recover", "quit")
    BY <1>3, <2>2, LoopMovesOn DEF LoopWait, Loop
  <2>3. CASE Goto(s, "call", "quit")
    BY <1>3, <2>3, LoopMovesOn DEF LoopWait, Loop
  <2> QED  BY <1>3, <2>1, <2>2, <2>3 DEF LoopWait
<1>4. ASSUME NEW s \in Streams, CallBreaker(s)  PROVE PcInv'
  <2> DEFINE dials == Admitted /\ MayConnect(s)
  <2>1. CASE ~dials
    <3>1. Retry(s, "call") /\ caller' = None /\ caller = None /\ call' = call
      BY <1>4, <2>1 DEF CallBreaker
    <3>2. LoopTypes' /\ AttemptLeft'
      BY <3>1, RetryAttempt, StreamableAssumption
      DEF PcInv, LoopTypes, AttemptLeft, Retry, Goto, Loop
    <3>3. NoEarlyStream' /\ CallerDials'
      BY <3>1 DEF PcInv, NoEarlyStream, CallerDials, Retry, Goto, Streams,
                  LoopTypes
    <3> QED  BY <3>2, <3>3 DEF PcInv
  <2>2. CASE dials
    <3>1. /\ Goto(s, "call", "dial") /\ caller' = s /\ circuit' = Circuit
          /\ attempt' = attempt /\ call' = call
      BY <1>4, <2>2 DEF CallBreaker
    <3>0. circuit' # "open"
      BY <2>2, <3>1 DEF Admitted
    <3>2. LoopTypes' /\ AttemptLeft'
      BY <3>1 DEF PcInv, LoopTypes, AttemptLeft, Goto, Loop
    <3>3. NoEarlyStream' /\ CallerDials'
      BY <3>0, <3>1 DEF PcInv, NoEarlyStream, CallerDials, Goto, Streams,
                        LoopTypes
    <3> QED  BY <3>2, <3>3 DEF PcInv
  <2> QED  BY <2>1, <2>2
<1>5. ASSUME NEW s \in Streams, Connected(s)  PROVE PcInv'
  <2>1. /\ Goto(s, "dial", "session") /\ caller' = None /\ call' = call
        /\ attempt' = [attempt EXCEPT ![s] = 0]
    BY <1>5 DEF Connected
  <2>2. 0 < MaxRetries /\ 0 \in 0..MaxRetries
    BY <2>1, StreamableAssumption DEF PcInv, LoopTypes, AttemptLeft, Goto
  <2>3. LoopTypes' /\ AttemptLeft'
    BY <2>1, <2>2 DEF PcInv, LoopTypes, AttemptLeft, Goto, Loop
  <2>4. NoEarlyStream' /\ CallerDials'
    BY <2>1 DEF PcInv, NoEarlyStream, CallerDials, Goto, Streams, LoopTypes
  <2> QED  BY <2>3, <2>4 DEF PcInv
<1>6. ASSUME NEW s \in Streams, NotConnected(s)  PROVE PcInv'
  <2>1. caller' = None /\ call' = call
    BY <1>6 DEF NotConnected
  <2>2. CASE Retry(s, "dial")
    <3>1. LoopTypes' /\ AttemptLeft'
      BY <2>2, RetryAttempt, StreamableAssumption
      DEF PcInv, LoopTypes, AttemptLeft, Retry, Goto, Loop
    <3>2. NoEarlyStream' /\ CallerDials'
      BY <2>1, <2>2 DEF PcInv, NoEarlyStream, CallerDials, Retry, Goto,
                        Streams, LoopTypes
    <3> QED  BY <3>1, <3>2 DEF PcInv
  <2>3. CASE Goto(s, "dial", "quit") /\ UNCHANGED attempt
    <3>1. LoopTypes' /\ AttemptLeft'
      BY <2>3 DEF PcInv, LoopTypes, AttemptLeft, Goto, Loop
    <3>2. NoEarlyStream' /\ CallerDials'
      BY <2>1, <2>3 DEF PcInv, NoEarlyStream, CallerDials, Goto, Streams,
                        LoopTypes
    <3> QED  BY <3>1, <3>2 DEF PcInv
  <2> QED  BY <1>6, <2>2, <2>3 DEF NotConnected
<1>7. ASSUME NEW s \in Streams, LeaveSession(s)  PROVE PcInv'
  <2>1. CASE Goto(s, "session", "quit")
    BY <1>7, <2>1, LoopMovesOn DEF LeaveSession, Loop
  <2>2. CASE Goto(s, "session", "lost")
    <3>1. attempt[s] < MaxRetries
      BY <2>2 DEF PcInv, AttemptLeft, Goto
    <3> QED  BY <1>7, <2>2, <3>1, LoopMovesOn DEF LeaveSession, Loop
  <2> QED  BY <1>7, <2>1, <2>2 DEF LeaveSession
<1>8. ASSUME NEW s \in Streams, SessionLost(s)  PROVE PcInv'
  <2>1. Retry(s, "lost") /\ UNCHANGED <<circuit, caller, call>>
    BY <1>8 DEF SessionLost
  <2>2. Goto(s, "lost", "top")
    BY <2>1 DEF Retry
  <2> QED  BY <2>1, <2>2, RetryAttempt, LoopMoves DEF Loop
<1>9. ASSUME NEW s \in Streams, LoopEnds(s)  PROVE PcInv'
  <2>1. /\ Goto(s, "quit", "done") /\ attempt' = [attempt EXCEPT ![s] = 0]
        /\ UNCHANGED <<circuit, caller, call>>
    BY <1>9 DEF LoopEnds
  <2>2. /\ attempt' \in [Streams -> 0..MaxRetries]
        /\ \A t \in Streams : t # s => attempt'[t] = attempt[t]
    BY <2>1, StreamableAssumption DEF PcInv, LoopTypes
  <2> QED  BY <2>1, <2>2, LoopMoves
<1>10. ASSUME NEW s \in Streams, TakeHandler(s)  PROVE PcInv'
  <2>1. CASE UNCHANGED pc
    BY <1>1, <1>10, <2>1 DEF TakeHandler
  <2>2. CASE Goto(s, "session", "deliver")
    <3>1. attempt[s] < MaxRetries
      BY <2>2 DEF PcInv, AttemptLeft, Goto
    <3> QED  BY <1>10, <2>2, <3>1, LoopMovesOn DEF TakeHandler, Loop
  <2> QED  BY <1>10, <2>1, <2>2 DEF TakeHandler, Goto
<1>11. ASSUME NEW s \in Streams, CallHandler(s)  PROVE PcInv'
  <2>1. CASE Goto(s, "deliver", "panicked")
    BY <1>11, <2>1, LoopMovesOn DEF CallHandler, Loop
  <2>2. CASE Goto(s, "deliver", "session")
    <3>1. attempt[s] < MaxRetries
      BY <2>2 DEF PcInv, AttemptLeft, Goto
    <3> QED  BY <1>11, <2>2, <3>1, LoopMovesOn DEF CallHandler, Loop
  <2> QED  BY <1>11, <2>1, <2>2 DEF CallHandler
<1>12. ASSUME NEW r \in Requests, PostStream(r)  PROVE PcInv'
  <2>1. /\ call[r] = "post" /\ pc[r] = "none" /\ r \in Streams
        /\ pc' = [pc EXCEPT ![r] = "top"] /\ call' = [call EXCEPT ![r] = "wait"]
        /\ UNCHANGED <<circuit, caller, attempt>>
    BY <1>12 DEF PostStream, CallGoto, PcInv, NoEarlyStream, Streams
  <2>2. LoopTypes' /\ AttemptLeft'
    BY <2>1 DEF PcInv, LoopTypes, AttemptLeft, Loop
  <2>3. CallerDials'
    BY <2>1 DEF PcInv, CallerDials, LoopTypes
  <2>4. NoEarlyStream'
    BY <2>1 DEF PcInv, NoEarlyStream, LoopTypes, CallInv, Streams
  <2> QED  BY <2>2, <2>3, <2>4 DEF PcInv
<1>13. CASE OpenListener
  <2>1. /\ pc[Listener] = "none" /\ Listener \in Streams
        /\ pc' = [pc EXCEPT ![Listener] = "top"]
        /\ UNCHANGED <<circuit, caller, attempt, call>>
    BY <1>13 DEF OpenListener, Goto, Streams
  <2>2. LoopTypes' /\ AttemptLeft'
    BY <2>1 DEF PcInv, LoopTypes, AttemptLeft, Loop
  <2>3. CallerDials'
    BY <2>1 DEF PcInv, CallerDials, LoopTypes
  <2>4. NoEarlyStream'
    BY <2>1, StreamableAssumption DEF PcInv, NoEarlyStream, LoopTypes, Streams
  <2> QED  BY <2>2, <2>3, <2>4 DEF PcInv
<1>14. ASSUME NEW r \in Requests,
              \/ SendRequest(r) \/ PostDone(r) \/ Receive(r)
              \/ CancelRequest(r) \/ Unregister(r) \/ CloseChan(r)
       PROVE  PcInv'
  <2>1. UNCHANGED <<circuit, caller, pc, attempt>>
    BY <1>14 DEF SendRequest, PostDone, Receive, CancelRequest, Unregister,
                 CloseChan
  <2>2. \A q \in Requests :
           call'[q] \in {"idle", "post"} => call[q] \in {"idle", "post"}
    BY <1>14 DEF SendRequest, PostDone, Receive, CancelRequest, Unregister,
                 CloseChan, CallGoto, CallInv
  <2> QED
    BY <2>1, <2>2 DEF PcInv, CallerDials, LoopTypes, AttemptLeft, NoEarlyStream
<1>15. ASSUME NEW s \in Streams, CancelContext(s)  PROVE PcInv'
  BY <1>1, <1>15 DEF CancelContext
<1>16. ASSUME NEW k \in readers,
              \/ ReaderEnds(k) \/ CloseEvent(k)
              \/ \E r \in Requests : ReadAnswer(k, r)
       PROVE  PcInv'
  BY <1>1, <1>16 DEF ReaderEnds, CloseEvent, ReadAnswer
<1>17. CASE \/ CoolDown \/ Start \/ StopBegin \/ StopStreams
            \/ UNCHANGED vars
  BY <1>1, <1>17 DEF CoolDown, Start, StopBegin, StopStreams, vars
<1> QED
  BY <1>2, <1>3, <1>4, <1>5, <1>6, <1>7, <1>8, <1>9, <1>10, <1>11, <1>12,
     <1>13, <1>14, <1>15, <1>16, <1>17 DEF Next, Process, Finish

-----------------------------------------------------------------------------
\* The invariant from which the theorems follow.
THEOREM StreamsInductive == Spec => []IInv
<1>1. IInv /\ [Next]_vars => IInv'
  BY NextConnInv, NextCallInv, NextCounts, NextOthers, NextPcInv
  DEF IInv, LoopInv, PcInv
<1> QED  BY <1>1, InitIInv, PTL DEF Spec

\* The type invariant: in particular no loop makes more attempts than
\* MaxRetries allows (streamable_http.go:1056), although the count is reset by
\* every connection and raised in three places.
THEOREM StreamsTypeCorrect == Spec => []TypeOK
<1>1. IInv => TypeOK
  BY DEF IInv, ConnInv, LoopInv, Counts, CallerDials, LoopTypes, Others,
         CallInv, TypeOK
<1> QED  BY <1>1, StreamsInductive, PTL

\* The breaker that the streams share never wedges itself, if it may let any
\* call through when half-open (streamable_http.go:2042-2087).
THEOREM BreakerIsSound == Spec => []BreakerSound
<1>1. IInv => BreakerSound
  BY DEF IInv, LoopInv, Counts, HalfHasCalls, CallerDials, BreakerSound
<1> QED  BY <1>1, StreamsInductive, PTL

\* If it may not, for SuccessThreshold was left 0, it does wedge itself: callOpen
\* makes it half-open, and then nothing ever connects or moves it again
\* (streamable_http.go:2056-2068).
THEOREM ZeroLimitRefuses ==
  ASSUME HalfOpenMaxCalls = 0
  PROVE  Spec => StaysHalfOpen
<1> DEFINE Refusing == circuit = "half" => caller = None
<1>1. Init => Refusing
  BY DEF Init
<1>2. ASSUME IInv, Refusing, [Next]_vars
      PROVE  Refusing' /\ (circuit = "half" => circuit' = "half" /\ caller' = None)
  <2>0. Counts /\ CallerDials
    BY <1>2 DEF IInv, LoopInv
  <2>1. CASE UNCHANGED <<circuit, caller>>
    BY <1>2, <2>1
  <2>2. ASSUME NEW s \in Streams, CallBreaker(s)
        PROVE  Refusing' /\ (circuit = "half" => circuit' = "half" /\ caller' = None)
    <3>1. CASE Circuit = "half"
      <4>1. ~Admitted
        BY <3>1, <2>0 DEF Admitted, Counts
      <4> QED
        BY <2>2, <3>1, <4>1 DEF CallBreaker, Circuit
    <3>2. CASE Circuit # "half"
      <4>1. circuit # "half" /\ circuit' # "half"
        BY <2>2, <3>2 DEF CallBreaker, RecordFailure, Circuit
      <4> QED
        BY <4>1
    <3> QED
      BY <3>1, <3>2
  <2>3. ASSUME NEW s \in Streams, Connected(s) \/ NotConnected(s)
        PROVE  Refusing' /\ (circuit = "half" => circuit' = "half" /\ caller' = None)
    <3>1. caller # None /\ caller' = None
      BY <2>3, StreamableAssumption DEF Connected, NotConnected
    <3>2. circuit # "half"
      BY <1>2, <3>1
    <3> QED
      BY <3>1, <3>2
  <2>4. ASSUME NEW s \in Streams,
               \/ LoopTop(s) \/ LoopWait(s) \/ LoopEnds(s) \/ LeaveSession(s)
               \/ SessionLost(s) \/ TakeHandler(s) \/ CallHandler(s)
               \/ CancelContext(s)
        PROVE  UNCHANGED <<circuit, caller>>
    BY <2>4 DEF LoopTop, LoopWait, LoopEnds, LeaveSession, SessionLost,
       TakeHandler, CallHandler, CancelContext
  <2>5. ASSUME NEW r \in Requests, SendRequest(r) \/ Finish(r)
        PROVE  UNCHANGED <<circuit, caller>>
    BY <2>5 DEF SendRequest, Finish, PostDone, PostStream, Receive,
       CancelRequest, Unregister, CloseChan
  <2>6. ASSUME NEW k \in readers,
               \/ ReaderEnds(k) \/ CloseEvent(k)
               \/ \E r \in Requests : ReadAnswer(k, r)
        PROVE  UNCHANGED <<circuit, caller>>
    BY <2>6 DEF ReaderEnds, CloseEvent, ReadAnswer
  <2>7. ASSUME \/ CoolDown \/ Start \/ OpenListener \/ StopBegin \/ StopStreams
               \/ UNCHANGED vars
        PROVE  UNCHANGED <<circuit, caller>>
    BY <2>7 DEF CoolDown, Start, OpenListener, StopBegin, StopStreams, vars
  <2> HIDE DEF Refusing
  <2> QED
    BY <1>2, <2>1, <2>2, <2>3, <2>4, <2>5, <2>6, <2>7 DEF Next, Process
<1>3. IInv /\ Refusing /\ [Next]_vars => Refusing'
  BY <1>2
<1>4. IInv /\ Refusing /\ [Next]_vars
        => [circuit = "half" => circuit' = "half" /\ caller' = None]_vars
  BY <1>2
<1> QED
  BY <1>1, <1>3, <1>4, StreamsInductive, PTL DEF Spec, StaysHalfOpen

\* No handler outlives its SendRequest (streamable_http.go:510-515).
THEOREM HandlersDoNotLeak == Spec => []NoLeakedHandler
<1>1. IInv => NoLeakedHandler
  BY DEF IInv, CallInv
<1> QED  BY <1>1, StreamsInductive, PTL

-----------------------------------------------------------------------------
(* Sessions *)

InSession == {"session", "deliver", "quit", "lost", "panicked"}

\* OneSession without cardinalities.
AtMostOneReader ==
  \A s \in Streams :
     \/ SessionReader(s) = {}
     \/ pc[s] \in InSession /\ \E k : SessionReader(s) = {k}

\* A step that starts no reader of a session, and takes no loop out of its
\* session while the reader is there.
LEMMA SessionsKept ==
  ASSUME AtMostOneReader,
         \A s \in Streams : SessionReader(s)' \subseteq SessionReader(s),
         \A s \in Streams : pc[s] \in InSession /\ SessionReader(s) # {}
                            => pc'[s] \in InSession
  PROVE  AtMostOneReader'
<1> SUFFICES ASSUME NEW s \in Streams
             PROVE  \/ SessionReader(s)' = {}
                    \/ pc'[s] \in InSession /\ \E k : SessionReader(s)' = {k}
  BY DEF AtMostOneReader
<1>1. CASE SessionReader(s) = {}
  BY <1>1
<1>2. CASE SessionReader(s) # {}
  <2>1. PICK k : SessionReader(s) = {k}
    BY <1>2 DEF AtMostOneReader
  <2>2. SessionReader(s)' = {} \/ SessionReader(s)' = {k}
    BY <2>1
  <2> QED  BY <1>2, <2>2 DEF AtMostOneReader
<1> QED  BY <1>1, <1>2

LEMMA NextSessions == IInv /\ AtMostOneReader /\ [Next]_vars => AtMostOneReader'
<1> SUFFICES ASSUME LoopTypes, NoEarlyStream, AtMostOneReader, [Next]_vars
             PROVE  AtMostOneReader'
  BY DEF IInv, LoopInv
<1> DEFINE readersKept ==
             \A s \in Streams : SessionReader(s)' \subseteq SessionReader(s)
           loopsKept ==
             \A s \in Streams : pc[s] \in InSession /\ SessionReader(s) # {}
                                => pc'[s] \in InSession
<1>1. readers' \subseteq readers => readersKept
  BY DEF SessionReader
<1>2. pc' = pc => loopsKept
  OBVIOUS
<1>3. ASSUME NEW s \in Streams, Connected(s)  PROVE AtMostOneReader'
  <2>1. Goto(s, "dial", "session")
    BY <1>3 DEF Connected
  <2>2. SessionReader(s) = {}
    BY <2>1 DEF AtMostOneReader, InSession, Goto
  <2>3. PICK c : readers' = readers \cup {<<s, "shadow", c>>, <<s, "session", c>>}
    BY <1>3 DEF Connected
  <2>4. SessionReader(s)' = {<<s, "session", c>>}
    BY <2>2, <2>3 DEF SessionReader
  <2>5. \A t \in Streams : t # s => /\ SessionReader(t)' = SessionReader(t)
                                    /\ pc'[t] = pc[t]
    BY <2>1, <2>3 DEF SessionReader, Goto, LoopTypes
  <2>6. pc'[s] \in InSession
    BY <2>1 DEF Goto, LoopTypes, InSession
  <2> QED  BY <2>4, <2>5, <2>6 DEF AtMostOneReader
<1>4. ASSUME NEW s \in Streams, SessionLost(s) \/ LoopEnds(s)
      PROVE  AtMostOneReader'
  <2>1. readers' = readers /\ SessionReader(s) = {}
    BY <1>4 DEF SessionLost, LoopEnds
  <2>2. \A t \in Streams : t # s => pc'[t] = pc[t]
    BY <1>4 DEF SessionLost, LoopEnds, Retry, Goto, LoopTypes
  <2>3. loopsKept
    BY <2>1, <2>2
  <2> QED  BY <1>1, <2>1, <2>3, SessionsKept
<1>5. ASSUME NEW s \in Streams,
             LeaveSession(s) \/ TakeHandler(s) \/ CallHandler(s)
      PROVE  AtMostOneReader'
  <2>1. readers' = readers
    BY <1>5 DEF LeaveSession, TakeHandler, CallHandler
  <2>2. loopsKept
    BY <1>5 DEF LeaveSession, TakeHandler, CallHandler, Goto, LoopTypes,
                InSession
  <2> QED  BY <1>1, <2>1, <2>2, SessionsKept
<1>6. ASSUME NEW s \in Streams,
             \/ LoopTop(s) \/ LoopWait(s) \/ CallBreaker(s) \/ NotConnected(s)
      PROVE  AtMostOneReader'
  <2>1. readers' = readers
    BY <1>6 DEF LoopTop, LoopWait, CallBreaker, NotConnected
  <2>2. \A t \in Streams : t # s => pc'[t] = pc[t]
    BY <1>6 DEF LoopTop, LoopWait, CallBreaker, NotConnected, Retry, Goto,
                LoopTypes
  <2>3. pc[s] \notin InSession
    BY <1>6 DEF LoopTop, LoopWait, CallBreaker, NotConnected, Retry, Goto,
                InSession
  <2> QED  BY <1>1, <2>1, <2>2, <2>3, SessionsKept
<1>7. ASSUME NEW r \in Streams, NEW c, pc[r] = "none",
             pc' = [pc EXCEPT ![r] = "top"],
             readers' = readers \cup {<<r, "first", c>>}
      PROVE  AtMostOneReader'
  <2>1. readersKept
    BY <1>7 DEF SessionReader
  <2>2. loopsKept
    BY <1>7 DEF LoopTypes, InSession
  <2> QED  BY <2>1, <2>2, SessionsKept
<1>8. ASSUME NEW r \in Requests, PostStream(r)  PROVE AtMostOneReader'
  <2>1. r \in Streams /\ pc[r] = "none"
    BY <1>8 DEF PostStream, CallGoto, NoEarlyStream, Streams
  <2>2. pc' = [pc EXCEPT ![r] = "top"]
    BY <1>8 DEF PostStream
  <2>3. PICK c : readers' = readers \cup {<<r, "first", c>>}
    BY <1>8 DEF PostStream
  <2> QED  BY <1>7, <2>1, <2>2, <2>3
<1>9. CASE OpenListener
  <2>1. /\ Listener \in Streams /\ pc[Listener] = "none"
        /\ pc' = [pc EXCEPT ![Listener] = "top"]
    BY <1>9 DEF OpenListener, Goto, Streams
  <2>2. PICK c : readers' = readers \cup {<<Listener, "first", c>>}
    BY <1>9 DEF OpenListener
  <2> QED  BY <1>7, <2>1, <2>2
<1>10. ASSUME readers' \subseteq readers, pc' = pc  PROVE AtMostOneReader'
  BY <1>1, <1>2, <1>10, SessionsKept
<1>11. ASSUME NEW k \in readers,
              \/ ReaderEnds(k) \/ CloseEvent(k)
              \/ \E r \in Requests : ReadAnswer(k, r)
       PROVE  AtMostOneReader'
  BY <1>10, <1>11 DEF ReaderEnds, CloseEvent, ReadAnswer
<1>12. ASSUME NEW r \in Requests,
              \/ SendRequest(r) \/ PostDone(r) \/ Receive(r)
              \/ CancelRequest(r) \/ Unregister(r) \/ CloseChan(r)
       PROVE  AtMostOneReader'
  BY <1>10, <1>12 DEF SendRequest, PostDone, Receive, CancelRequest,
     Unregister, CloseChan
<1>13. ASSUME NEW s \in Streams, CancelContext(s)  PROVE AtMostOneReader'
  BY <1>10, <1>13 DEF CancelContext
<1>14. CASE CoolDown \/ Start \/ StopBegin \/ StopStreams \/ UNCHANGED vars
  BY <1>10, <1>14 DEF CoolDown, Start, StopBegin, StopStreams, vars
<1> QED
  BY <1>3, <1>4, <1>5, <1>6, <1>8, <1>9, <1>11, <1>12, <1>13, <1>14
  DEF Next, Process, Finish

\* A stream never has two sessions that read at once, however often it is
\* lost and connected again (streamable_http.go:1780-1815).
THEOREM SessionsDoNotOverlap == Spec => []OneSession
<1>1. Init => AtMostOneReader
  BY DEF Init, AtMostOneReader, SessionReader
<1>2. IInv /\ AtMostOneReader /\ [Next]_vars => AtMostOneReader'
  BY NextSessions
<1>3. AtMostOneReader => OneSession
  <2> SUFFICES ASSUME AtMostOneReader, NEW s \in Streams
               PROVE  /\ Cardinality(SessionReader(s)) <= 1
                      /\ SessionReader(s) # {} => pc[s] \in InSession
    BY DEF OneSession, InSession
  <2>1. CASE SessionReader(s) = {}
    BY <2>1, FS_EmptySet
  <2>2. CASE SessionReader(s) # {}
    <3>1. PICK k : SessionReader(s) = {k}
      BY <2>2 DEF AtMostOneReader
    <3>2. Cardinality(SessionReader(s)) = 1
      BY <3>1, FS_Singleton
    <3> QED  BY <2>2, <3>2 DEF AtMostOneReader
  <2> QED  BY <2>1, <2>2
<1> QED  BY <1>1, <1>2, <1>3, StreamsInductive, PTL DEF Spec

-----------------------------------------------------------------------------
(* The streams of requests *)

QuietLoop == {"top", "recover", "call", "quit"}

\* The loop of a request's stream never gets past "call": the handler it looks
\* for is not there.  While eventSources holds the stream, the loop runs.
RequestStreams ==
  \A r \in Requests :
     /\ pc[r] \in QuietLoop \cup {"none", "done"}
     /\ r \in sources => pc[r] \in QuietLoop

\* A loop moves on; if it is the loop of a request's stream, within QuietLoop.
LEMMA RequestStreamsKept ==
  ASSUME LoopTypes, RequestStreams, NEW s \in Streams, NEW from, NEW to,
         Goto(s, from, to), s \in Requests => to \in QuietLoop,
         sources' \subseteq sources
  PROVE  RequestStreams'
<1>1. \A t \in Streams : pc'[t] = IF t = s THEN to ELSE pc[t]
  BY DEF LoopTypes, Goto
<1>2. Requests \subseteq Streams
  BY DEF Streams
<1> QED  BY <1>1, <1>2 DEF RequestStreams

LEMMA NextRequestStreams == IInv /\ RequestStreams /\ [Next]_vars => RequestStreams'
<1> SUFFICES ASSUME LoopTypes, NoEarlyStream, handlers \subseteq Requests,
                    RequestStreams, [Next]_vars
             PROVE  RequestStreams'
  BY DEF IInv, LoopInv, CallInv
<1>1. ASSUME sources' \subseteq sources, pc' = pc  PROVE RequestStreams'
  BY <1>1 DEF RequestStreams
<1>2. ASSUME NEW s \in Streams, LoopTop(s)  PROVE RequestStreams'
  <2>1. sources' = sources
    BY <1>2 DEF LoopTop
  <2>2. \E to \in {"quit", "recover", "call"} : Goto(s, "top", to)
    BY <1>2 DEF LoopTop
  <2> QED  BY <2>1, <2>2, RequestStreamsKept DEF QuietLoop
<1>3. ASSUME NEW s \in Streams, LoopWait(s)  PROVE RequestStreams'
  <2>1. sources' = sources
    BY <1>3 DEF LoopWait
  <2>2. \E from \in {"recover", "call"}, to \in {"quit", "top"} : Goto(s, from, to)
    BY <1>3 DEF LoopWait
  <2> QED  BY <2>1, <2>2, RequestStreamsKept DEF QuietLoop
<1>4. ASSUME NEW s \in Streams, CallBreaker(s)  PROVE RequestStreams'
  <2>1. sources' = sources
    BY <1>4 DEF CallBreaker
  <2>2. CASE s \in Requests
    <3>1. ~MayConnect(s)
      BY <2>2, KeyAssumption, StreamableAssumption DEF MayConnect
    <3>2. Goto(s, "call", "top")
      BY <1>4, <3>1 DEF CallBreaker, Retry
    <3> QED  BY <2>1, <3>2, RequestStreamsKept DEF QuietLoop
  <2>3. CASE s \notin Requests
    <3>1. \E to : Goto(s, "call", to)
      BY <1>4 DEF CallBreaker, Retry
    <3> QED  BY <2>1, <2>3, <3>1, RequestStreamsKept
  <2> QED  BY <2>2, <2>3
<1>5. ASSUME NEW s \in Streams,
             \/ Connected(s) \/ NotConnected(s) \/ LeaveSession(s)
             \/ SessionLost(s) \/ TakeHandler(s) \/ CallHandler(s)
      PROVE  RequestStreams'
  <2>1. sources' = sources
    BY <1>5 DEF Connected, NotConnected, LeaveSession, SessionLost, TakeHandler,
                CallHandler
  <2>2. pc[s] \in {"dial", "session", "lost", "deliver"}
    BY <1>5 DEF Connected, NotConnected, LeaveSession, SessionLost, TakeHandler,
                CallHandler, Retry, Goto
  <2>3. s \notin Requests
    BY <2>2 DEF RequestStreams, QuietLoop
  <2>4. (\E from, to : Goto(s, from, to)) \/ pc' = pc
    BY <1>5 DEF Connected, NotConnected, LeaveSession, SessionLost, TakeHandler,
                CallHandler, Retry, Goto
  <2> QED  BY <1>1, <2>1, <2>3, <2>4, RequestStreamsKept
<1>6. ASSUME NEW s \in Streams, LoopEnds(s)  PROVE RequestStreams'
  <2>1. /\ pc' = [pc EXCEPT ![s] = "done"]
        /\ sources' = IF s = Listener THEN sources ELSE sources \ {s}
    BY <1>6 DEF LoopEnds, Goto
  <2>2. \A t \in Streams : pc'[t] = IF t = s THEN "done" ELSE pc[t]
    BY <2>1 DEF LoopTypes
  <2>3. Requests \subseteq Streams /\ Listener \notin Requests
    BY StreamableAssumption DEF Streams
  <2> QED  BY <2>1, <2>2, <2>3 DEF RequestStreams
<1>7. ASSUME NEW r \in Requests, PostStream(r)  PROVE RequestStreams'
  <2>1. /\ pc' = [pc EXCEPT ![r] = "top"] /\ sources' = sources \cup {r}
    BY <1>7 DEF PostStream
  <2>2. \A t \in Streams : pc'[t] = IF t = r THEN "top" ELSE pc[t]
    BY <2>1 DEF LoopTypes
  <2>3. Requests \subseteq Streams
    BY DEF Streams
  <2> QED  BY <2>1, <2>2, <2>3 DEF RequestStreams, QuietLoop
<1>8. CASE OpenListener
  <2>1. /\ pc' = [pc EXCEPT ![Listener] = "top"]
        /\ sources' = sources \cup {Listener}
    BY <1>8 DEF OpenListener, Goto
  <2>2. \A r \in Requests : pc'[r] = pc[r] /\ (r \in sources' => r \in sources)
    BY <2>1, StreamableAssumption DEF LoopTypes, Streams
  <2> QED  BY <2>2 DEF RequestStreams
<1>9. ASSUME NEW r \in Requests,
             \/ SendRequest(r) \/ PostDone(r) \/ Receive(r)
             \/ CancelRequest(r) \/ Unregister(r) \/ CloseChan(r)
      PROVE  RequestStreams'
  BY <1>1, <1>9 DEF SendRequest, PostDone, Receive, CancelRequest, Unregister,
     CloseChan
<1>10. ASSUME NEW s \in Streams, CancelContext(s)  PROVE RequestStreams'
  BY <1>1, <1>10 DEF CancelContext
<1>11. ASSUME NEW k \in readers,
              \/ ReaderEnds(k) \/ CloseEvent(k)
              \/ \E r \in Requests : ReadAnswer(k, r)
       PROVE  RequestStreams'
  BY <1>1, <1>11 DEF ReaderEnds, CloseEvent, ReadAnswer
<1>12. CASE CoolDown \/ Start \/ StopBegin \/ StopStreams \/ UNCHANGED vars
  BY <1>1, <1>12 DEF CoolDown, Start, StopBegin, StopStreams, vars
<1> QED
  BY <1>2, <1>3, <1>4, <1>5, <1>6, <1>7, <1>8, <1>9, <1>10, <1>11, <1>12
  DEF Next, Process, Finish

\* eventSources holds the stream of a request only while its loop runs: the
\* deferred function of processEventSource removes it
\* (streamable_http.go:1015-1023), and the loop cannot die in a delivery
\* because the stream of a request never connects again.
THEOREM StreamsDoNotLeak == Spec => []NoLeakedStream
<1>1. Init => RequestStreams
  BY DEF Init, RequestStreams, Streams
<1>2. IInv /\ RequestStreams /\ [Next]_vars => RequestStreams'
  BY NextRequestStreams
<1>3. RequestStreams => NoLeakedStream
  BY DEF RequestStreams, NoLeakedStream, QuietLoop, Loop
<1> QED  BY <1>1, <1>2, <1>3, StreamsInductive, PTL DEF Spec
=============================================================================
