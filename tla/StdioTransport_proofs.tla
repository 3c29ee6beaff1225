------------------------ MODULE StdioTransport_proofs ------------------------
(***************************************************************************)
(* Theorems of one stdio endpoint, for any callers, batchers, batch ids    *)
(* and bounds.  The inductive invariant IInv says, beside the types:       *)
(*   Registered       what an entry of pendingRequests stands for;         *)
(*   IdsOfOne         an id is wanted by one call at a time;               *)
(*   RequestsOwned    so is an id that is still on its way to the peer or  *)
(*                    back: no other call will ever want it;               *)
(*   DeliveredToOwner a response in a channel or returned to a caller      *)
(*                    answers a request of that same call;                 *)
(*   OpenUntilStop    before Cleanup no waiting call has a closed channel. *)
(***************************************************************************)
EXTENDS StdioTransport, TLAPS

USE DEF callVars, chanVars, readerVars, Goto

\* The domains of the functions, as the proofs use them.
LEMMA Domains ==
  /\ Procs = Singles \cup Batchers
  /\ Singles \subseteq Procs
  /\ Batchers \subseteq Procs
  /\ Reader \in Singles
  /\ Singles \cap Batchers = {}
  /\ None \notin Procs
  /\ MaxID \in Nat
  /\ 1..MaxID \subseteq Ids
  /\ \A b \in Batchers : IdsOf[b] \subseteq Ids /\ IdsOf[b] \cap Int = {}
  BY StdioAssumption DEF Singles, Procs, Ids, GenIds

\* Two batches have no id in common.
LEMMA BatchIdsDisjoint ==
  \A a, b \in Batchers : \A id \in IdsOf[a] : id \in IdsOf[b] => a = b
  BY StdioAssumption

\* What the head and the tail of a nonempty sequence are.
LEMMA HeadTail ==
  ASSUME NEW S, NEW s \in Seq(S), s # << >>
  PROVE  /\ Head(s) \in S
         /\ Tail(s) \in Seq(S)
         /\ Head(s) = s[1] /\ 1 \in 1..Len(s)
         /\ \A i \in 1..Len(Tail(s)) :
              i + 1 \in 1..Len(s) /\ Tail(s)[i] = s[i + 1]
         /\ Len(s) # 1 => Tail(s) # << >>
<1>1. /\ Head(s) \in S /\ Tail(s) \in Seq(S)
      /\ Head(s) = s[1] /\ 1 \in 1..Len(s)
      /\ \A i \in 1..Len(Tail(s)) :
           i + 1 \in 1..Len(s) /\ Tail(s)[i] = s[i + 1]
      /\ Len(s) \in Nat \ {0} /\ Len(Tail(s)) = Len(s) - 1
  OBVIOUS
<1>2. Len(<< >>) = 0  OBVIOUS
<1>3. ASSUME Len(s) # 1, Tail(s) = << >>  PROVE FALSE
  <2>1. Len(Tail(s)) = 0  BY <1>2, <1>3
  <2> QED  BY <2>1, <1>1, <1>3
<1> QED  BY <1>1, <1>3

-----------------------------------------------------------------------------
(* The inductive invariant *)

CallTypes ==
  /\ nextID \in 1..(MaxID + 1)
  /\ pc \in [Procs -> PcState]
  /\ want \in [Procs -> SUBSET Ids]
  /\ got \in [Procs -> SUBSET (Procs \X Ids)]

ChanTypes ==
  /\ pending \in [Ids -> Procs \cup {None}]
  /\ chan \in [Procs -> [Ids -> {"none", "open", "closed"}]]
  /\ buf \in [Procs -> [Ids -> SUBSET Procs]]

LineTypes ==
  /\ atPeer \in SUBSET (Procs \X Ids)
  /\ inbox \in Seq(Line)
  /\ reader \in {"scan", "deliver", "handler", "exited"}
  /\ cur \in Seq(Procs \X Ids)
  /\ reader = "deliver" => cur # << >>
  /\ input \in {"open", "eof", "cancelled", "gone"}
  /\ stop \in {"no", "signalled", "cleaned"}

Typed == CallTypes /\ ChanTypes /\ LineTypes

Registered ==
  \A id \in Ids : pending[id] # None =>
    /\ chan[pending[id]][id] = "open"
    /\ buf[pending[id]][id] = {}
    /\ id \in want[pending[id]]
    /\ pc[pending[id]] \in {"register", "send", "wait", "unregister"}
    /\ pending[id] \in Singles => pc[pending[id]] \in {"wait", "unregister"}

IdsOfOne ==
  /\ \A p \in Singles : /\ want[p] \subseteq 1..(nextID - 1)
                        /\ \A i, j \in want[p] : i = j
  /\ \A b \in Batchers : want[b] \subseteq IdsOf[b]
  /\ \A p, q \in Procs : \A id \in want[p] : id \in want[q] => p = q

\* With wants w and next id n, no call but its own wants the id of request r.
Own(r, w, n) ==
  /\ \A p \in Procs : r[2] \in w[p] => r[1] = p
  /\ r[1] \in Singles => r[2] \in 1..(n - 1)
  /\ r[1] \in Batchers => r[2] \in IdsOf[r[1]]

InTransit(r) ==
  \/ r \in atPeer
  \/ \E i \in 1..Len(cur) : cur[i] = r
  \/ \E i \in 1..Len(inbox) : \E j \in 1..Len(inbox[i].of) : inbox[i].of[j] = r

RequestsOwned ==
  \A r \in Procs \X Ids : InTransit(r) => Own(r, want, nextID)

DeliveredToOwner ==
  /\ \A p \in Procs : \A id \in Ids : buf[p][id] \subseteq {p}
  /\ ReplyIsOwn

OpenUntilStop ==
  stop # "cleaned" =>
    /\ \A p \in Procs : pc[p] # "panicked" /\ pc[p] # Recovered
    /\ \A p \in Singles : \A id \in Ids : chan[p][id] # "closed"
    /\ \A b \in Batchers : pc[b] \in {"idle"} \cup InFlight =>
         \A id \in Ids : chan[b][id] # "closed"

IInv ==
  /\ Typed
  /\ Registered
  /\ IdsOfOne
  /\ RequestsOwned
  /\ DeliveredToOwner
  /\ OpenUntilStop

\* The initial state satisfies the invariant.
LEMMA InitIInv == Init => IInv
<1> SUFFICES ASSUME Init PROVE IInv
  OBVIOUS
<1>1. CallTypes /\ ChanTypes
  BY Domains DEF Init, CallTypes, ChanTypes, PcState, Idle
<1>2. LineTypes
  BY DEF Init, LineTypes
<1>3. Registered /\ IdsOfOne
  BY Domains DEF Init, Registered, IdsOfOne
<1>4. ASSUME NEW r  PROVE ~InTransit(r)
  <2>1. Len(<< >>) = 0  OBVIOUS
  <2> QED  BY <2>1 DEF Init, InTransit
<1>5. DeliveredToOwner /\ OpenUntilStop
  BY Domains DEF Init, DeliveredToOwner, ReplyIsOwn, OpenUntilStop, Recovered
<1> QED
  BY <1>1, <1>2, <1>3, <1>4, <1>5 DEF IInv, Typed, RequestsOwned

-----------------------------------------------------------------------------
(* Types are kept *)

\* What the scanner finds at the head of the line in hand and of the inbox.
LEMMA CurHead ==
  ASSUME LineTypes, reader = "deliver"
  PROVE  /\ Head(cur) \in Procs \X Ids
         /\ Head(cur)[1] \in Procs
         /\ Head(cur)[2] \in Ids
         /\ Tail(cur) \in Seq(Procs \X Ids)
         /\ Len(cur) # 1 => Tail(cur) # << >>
<1>1. cur \in Seq(Procs \X Ids) /\ cur # << >>  BY DEF LineTypes
<1>2. /\ Head(cur) \in Procs \X Ids
      /\ Tail(cur) \in Seq(Procs \X Ids)
      /\ Len(cur) # 1 => Tail(cur) # << >>
  BY <1>1, HeadTail
<1> QED  BY <1>2

LEMMA InboxHead ==
  ASSUME LineTypes, inbox # << >>
  PROVE  /\ Tail(inbox) \in Seq(Line)
         /\ Head(inbox).of \in Seq(Procs \X Ids)
         /\ Head(inbox).kind = "responses" => Head(inbox).of # << >>
<1>1. inbox \in Seq(Line)  BY DEF LineTypes
<1>2. Head(inbox) \in Line /\ Tail(inbox) \in Seq(Line)  BY <1>1
<1>3. << >> \in Seq(Requests)  OBVIOUS
<1>4. /\ Head(inbox).of \in Seq(Requests)
      /\ Head(inbox).kind = "responses" => Head(inbox).of # << >>
  BY <1>2, <1>3 DEF Line
<1> QED  BY <1>2, <1>4 DEF Requests

\* The goroutines' own state.
LEMMA CallTypesStep == Typed /\ [Next]_vars => CallTypes'
<1> SUFFICES ASSUME Typed, [Next]_vars PROVE CallTypes'
  OBVIOUS
<1> USE Domains DEF Typed, CallTypes, ChanTypes, PcState, InFlight, Idle, Recovered
<1>1. ASSUME NEW p \in Singles, GenerateID(p)  PROVE CallTypes'
  BY <1>1 DEF GenerateID
<1>2. ASSUME NEW p \in Singles, Send(p) \/ SendError(p) \/ WaitRegister(p)
      PROVE  CallTypes'
  BY <1>2 DEF Send, SendError, WaitRegister
<1>3. ASSUME NEW p \in Singles, Receive(p)  PROVE CallTypes'
  BY <1>3 DEF Receive
<1>4. ASSUME NEW p \in Singles,
             ReceiveClosed(p) \/ GiveUp(p) \/ WaitUnregister(p)
      PROVE  CallTypes'
  BY <1>4 DEF ReceiveClosed, GiveUp, WaitUnregister
<1>5. ASSUME NEW b \in Batchers, BatchStart(b)  PROVE CallTypes'
  BY <1>5 DEF BatchStart
<1>6. ASSUME NEW b \in Batchers, BatchRegister(b)  PROVE CallTypes'
  BY <1>6 DEF BatchRegister
<1>7. ASSUME NEW b \in Batchers, BatchCollect(b)  PROVE CallTypes'
  BY <1>7 DEF BatchCollect
<1>8. ASSUME NEW b \in Batchers,
             \/ BatchSend(b) \/ BatchSendError(b) \/ BatchGiveUp(b)
             \/ BatchUnregister(b) \/ BatchClose(b)
      PROVE  CallTypes'
  BY <1>8 DEF BatchSend, BatchSendError, BatchGiveUp, BatchUnregister, BatchClose
<1>9. ASSUME HandlerReturns  PROVE CallTypes'
  BY <1>9 DEF HandlerReturns
<1>10. ASSUME \/ ReadLine \/ HandleResponse \/ ReaderExit
              \/ StopSignal \/ Cleanup \/ CancelStart \/ Peer
              \/ UNCHANGED vars
       PROVE  CallTypes'
  BY <1>10 DEF ReadLine, HandleResponse, ReaderExit, StopSignal, Cleanup,
               CancelStart, Peer, PeerAnswer, PeerAnswerBatch, PeerRequest,
               PeerExit, vars
<1> QED
  BY <1>1, <1>2, <1>3, <1>4, <1>5, <1>6, <1>7, <1>8, <1>9, <1>10
  DEF Next, SendRequest, SendBatchRequest, Scanner, Stop

\* The map and the channels.
LEMMA ChanTypesStep == Typed /\ [Next]_vars => ChanTypes'
<1> SUFFICES ASSUME Typed, [Next]_vars PROVE ChanTypes'
  OBVIOUS
<1>1. UNCHANGED chanVars => ChanTypes'
  BY DEF Typed, ChanTypes
<1>2. ASSUME NEW p \in Singles, WaitRegister(p)  PROVE ChanTypes'
  BY <1>2, Domains DEF WaitRegister, Register, Typed, ChanTypes, CallTypes
<1>3. ASSUME NEW p \in Singles, Receive(p)  PROVE ChanTypes'
  BY <1>3, Domains DEF Receive, Typed, ChanTypes, CallTypes
<1>4. ASSUME NEW p \in Singles, WaitUnregister(p)  PROVE ChanTypes'
  BY <1>4, Domains DEF WaitUnregister, Typed, ChanTypes, CallTypes
<1>5. ASSUME NEW b \in Batchers, BatchRegister(b)  PROVE ChanTypes'
  BY <1>5, Domains DEF BatchRegister, Register, Typed, ChanTypes, CallTypes
<1>6. ASSUME NEW b \in Batchers, BatchCollect(b)  PROVE ChanTypes'
  BY <1>6, Domains DEF BatchCollect, Typed, ChanTypes, CallTypes
<1>7. ASSUME NEW b \in Batchers, BatchUnregister(b)  PROVE ChanTypes'
  BY <1>7, Domains DEF BatchUnregister, Typed, ChanTypes, CallTypes
<1>8. ASSUME NEW b \in Batchers, BatchClose(b)  PROVE ChanTypes'
  BY <1>8, Domains DEF BatchClose, Typed, ChanTypes, CallTypes
<1>9. ASSUME HandleResponse, ~UNCHANGED chanVars  PROVE ChanTypes'
  <2> DEFINE id == Head(cur)[2]
             p  == pending[id]
  <2>1. Head(cur)[1] \in Procs /\ id \in Ids
    BY <1>9, CurHead DEF HandleResponse, Typed
  <2>2. p \in Procs
    BY <1>9, <2>1 DEF HandleResponse, Typed, ChanTypes
  <2>3. /\ buf' = [buf EXCEPT ![p][id] = {Head(cur)[1]}]
        /\ pending' = [pending EXCEPT ![id] = None]
        /\ UNCHANGED chan
    BY <1>9 DEF HandleResponse
  <2>4. buf' \in [Procs -> [Ids -> SUBSET Procs]]
    BY <2>1, <2>2, <2>3 DEF Typed, ChanTypes
  <2>5. pending' \in [Ids -> Procs \cup {None}]
    BY <2>1, <2>3 DEF Typed, ChanTypes
  <2> QED  BY <2>3, <2>4, <2>5 DEF Typed, ChanTypes
<1>10. ASSUME Cleanup  PROVE ChanTypes'
  BY <1>10, Domains DEF Cleanup, Typed, ChanTypes
<1>11. ASSUME NEW p \in Singles,
              \/ GenerateID(p) \/ Send(p) \/ SendError(p)
              \/ ReceiveClosed(p) \/ GiveUp(p)
       PROVE  UNCHANGED chanVars
  BY <1>11 DEF GenerateID, Send, SendError, ReceiveClosed, GiveUp
<1>12. ASSUME NEW b \in Batchers,
              BatchStart(b) \/ BatchSend(b) \/ BatchSendError(b) \/ BatchGiveUp(b)
       PROVE  UNCHANGED chanVars
  BY <1>12 DEF BatchStart, BatchSend, BatchSendError, BatchGiveUp
<1>13. ASSUME \/ ReadLine \/ HandlerReturns \/ ReaderExit \/ StopSignal
              \/ CancelStart \/ Peer \/ UNCHANGED vars
       PROVE  UNCHANGED chanVars
  BY <1>13 DEF ReadLine, HandlerReturns, ReaderExit, StopSignal, CancelStart,
               Peer, PeerAnswer, PeerAnswerBatch, PeerRequest, PeerExit, vars
<1> QED
  BY <1>1, <1>2, <1>3, <1>4, <1>5, <1>6, <1>7, <1>8, <1>9, <1>10, <1>11,
     <1>12, <1>13
  DEF Next, SendRequest, SendBatchRequest, Scanner, Stop

\* A line of the peer that is appended to the inbox.
LEMMA PeerLine ==
  ASSUME PeerAnswer \/ PeerAnswerBatch \/ PeerRequest
  PROVE  /\ UNCHANGED <<callVars, chanVars, readerVars, stop>>
         /\ atPeer' \subseteq atPeer
         /\ \E m : /\ inbox' = Append(inbox, m)
                   /\ m.of \in Seq(atPeer)
                   /\ (atPeer \subseteq Requests => m \in Line)
<1>1. ASSUME PeerAnswer
      PROVE  /\ atPeer' \subseteq atPeer
             /\ \E m : /\ inbox' = Append(inbox, m)
                       /\ m.of \in Seq(atPeer)
                       /\ (atPeer \subseteq Requests => m \in Line)
  <2>1. PICK r \in Answerable, keep \in BOOLEAN, k \in {"responses", "null"} :
          /\ inbox' = Append(inbox, [kind |-> k,
                               of |-> IF k = "null" THEN << >> ELSE <<r>>])
          /\ atPeer' = IF keep THEN atPeer ELSE atPeer \ {r}
    BY <1>1 DEF PeerAnswer
  <2>2. r \in atPeer  BY DEF Answerable
  <2> DEFINE m == [kind |-> k, of |-> IF k = "null" THEN << >> ELSE <<r>>]
  <2>3. m.of \in Seq(atPeer)  BY <2>2
  <2>4. ASSUME atPeer \subseteq Requests  PROVE m \in Line
    <3>1. CASE k = "null"  BY <3>1 DEF Line
    <3>2. CASE k = "responses"
      <4>1. <<r>> \in Seq(Requests) /\ <<r>> # << >>  BY <2>2, <2>4
      <4> QED  BY <3>2, <4>1 DEF Line
    <3> QED  BY <3>1, <3>2
  <2>5. inbox' = Append(inbox, m) /\ atPeer' \subseteq atPeer  BY <2>1
  <2> HIDE DEF m
  <2> QED  BY <2>3, <2>4, <2>5
<1>2. ASSUME PeerAnswerBatch
      PROVE  /\ atPeer' \subseteq atPeer
             /\ \E m : /\ inbox' = Append(inbox, m)
                       /\ m.of \in Seq(atPeer)
                       /\ (atPeer \subseteq Requests => m \in Line)
  <2>1. PICK r \in Answerable, s \in Answerable :
          /\ inbox' = Append(inbox, [kind |-> "responses", of |-> <<r, s>>])
          /\ atPeer' = atPeer \ {r, s}
    BY <1>2 DEF PeerAnswerBatch
  <2>2. r \in atPeer /\ s \in atPeer  BY DEF Answerable
  <2> DEFINE m == [kind |-> "responses", of |-> <<r, s>>]
  <2>3. m.of \in Seq(atPeer)  BY <2>2
  <2>4. ASSUME atPeer \subseteq Requests  PROVE m \in Line
    <3>1. <<r, s>> \in Seq(Requests) /\ <<r, s>> # << >>  BY <2>2, <2>4
    <3> QED  BY <3>1 DEF Line
  <2>5. inbox' = Append(inbox, m) /\ atPeer' \subseteq atPeer  BY <2>1
  <2> HIDE DEF m
  <2> QED  BY <2>3, <2>4, <2>5
<1>3. ASSUME PeerRequest
      PROVE  /\ atPeer' \subseteq atPeer
             /\ \E m : /\ inbox' = Append(inbox, m)
                       /\ m.of \in Seq(atPeer)
                       /\ (atPeer \subseteq Requests => m \in Line)
  <2> DEFINE m == [kind |-> "request", of |-> << >>]
  <2>1. m.of \in Seq(atPeer) /\ m \in Line  BY DEF Line
  <2>2. inbox' = Append(inbox, m) /\ atPeer' \subseteq atPeer
    BY <1>3 DEF PeerRequest
  <2> HIDE DEF m
  <2> QED  BY <2>1, <2>2
<1>4. UNCHANGED <<callVars, chanVars, readerVars, stop>>
  BY DEF PeerAnswer, PeerAnswerBatch, PeerRequest
<1> QED  BY <1>1, <1>2, <1>3, <1>4

\* The lines in both directions and the scanner.
LEMMA LineTypesStep == Typed /\ [Next]_vars => LineTypes'
<1> SUFFICES ASSUME Typed, [Next]_vars PROVE LineTypes'
  OBVIOUS
<1>1. ASSUME NEW p \in Singles, GenerateID(p) \/ SendRequest(p)
      PROVE  LineTypes'
  BY <1>1, Domains DEF GenerateID, SendRequest, Send, SendError, WaitRegister,
     Receive, ReceiveClosed, GiveUp, WaitUnregister, Typed, LineTypes, CallTypes
<1>2. ASSUME NEW b \in Batchers, BatchStart(b) \/ SendBatchRequest(b)
      PROVE  LineTypes'
  BY <1>2, Domains DEF SendBatchRequest, BatchStart, BatchRegister, BatchSend,
     BatchSendError, BatchCollect, BatchGiveUp, BatchUnregister, BatchClose,
     Typed, LineTypes, CallTypes
<1>3. ASSUME ReadLine  PROVE LineTypes'
  <2>1. /\ Tail(inbox) \in Seq(Line)
        /\ Head(inbox).of \in Seq(Procs \X Ids)
        /\ Head(inbox).kind = "responses" => Head(inbox).of # << >>
    BY <1>3, InboxHead DEF ReadLine, Typed
  <2>2. /\ reader' \in {"scan", "deliver", "handler"}
        /\ reader' = "deliver" => Head(inbox).kind = "responses"
        /\ cur' = Head(inbox).of
        /\ inbox' = Tail(inbox)
        /\ UNCHANGED <<atPeer, input, stop>>
    BY <1>3 DEF ReadLine
  <2> QED  BY <2>1, <2>2 DEF Typed, LineTypes
<1>4. ASSUME HandleResponse  PROVE LineTypes'
  <2>1. /\ Tail(cur) \in Seq(Procs \X Ids)
        /\ Len(cur) # 1 => Tail(cur) # << >>
    BY <1>4, CurHead DEF HandleResponse, Typed
  <2>2. /\ cur' = Tail(cur)
        /\ reader' = IF Len(cur) = 1 THEN "scan" ELSE "deliver"
        /\ UNCHANGED <<atPeer, inbox, input, stop>>
    BY <1>4 DEF HandleResponse
  <2> QED  BY <2>1, <2>2 DEF Typed, LineTypes
<1>5. ASSUME HandlerReturns \/ ReaderExit \/ StopSignal \/ Cleanup
             \/ CancelStart \/ PeerExit \/ UNCHANGED vars
      PROVE  LineTypes'
  BY <1>5 DEF HandlerReturns, ReaderExit, StopSignal, Cleanup, CancelStart,
              PeerExit, vars, Typed, LineTypes
<1>6. ASSUME PeerAnswer \/ PeerAnswerBatch \/ PeerRequest  PROVE LineTypes'
  <2>1. atPeer \subseteq Requests  BY DEF Requests, Typed, LineTypes
  <2>2. /\ UNCHANGED <<readerVars, stop>>
        /\ atPeer' \subseteq atPeer
        /\ \E m \in Line : inbox' = Append(inbox, m)
    BY <1>6, <2>1, PeerLine
  <2>3. inbox' \in Seq(Line)  BY <2>2 DEF Typed, LineTypes
  <2> QED  BY <2>2, <2>3 DEF Typed, LineTypes
<1> QED
  BY <1>1, <1>2, <1>3, <1>4, <1>5, <1>6 DEF Next, Scanner, Stop, Peer

-----------------------------------------------------------------------------
(* Registrations *)

\* Every step keeps the meaning of the entries of pendingRequests.
LEMMA RegisteredStep ==
  Typed /\ IdsOfOne /\ Registered /\ [Next]_vars => Registered'
<1> SUFFICES ASSUME Typed, IdsOfOne, Registered, [Next]_vars
             PROVE  Registered'
  OBVIOUS
<1> USE Domains DEF Typed, CallTypes, ChanTypes, IdsOfOne, Registered
<1>1. ASSUME NEW p \in Singles, GenerateID(p)  PROVE Registered'
  BY <1>1 DEF GenerateID, Idle
<1>2. ASSUME NEW p \in Singles, Send(p) \/ SendError(p)  PROVE Registered'
  BY <1>2 DEF Send, SendError
<1>3. ASSUME NEW p \in Singles, WaitRegister(p)  PROVE Registered'
  BY <1>3 DEF WaitRegister, Register
<1>4. ASSUME NEW p \in Singles, Receive(p)  PROVE Registered'
  BY <1>4 DEF Receive
<1>5. ASSUME NEW p \in Singles, ReceiveClosed(p)  PROVE Registered'
  BY <1>5 DEF ReceiveClosed
<1>6. ASSUME NEW p \in Singles, GiveUp(p)  PROVE Registered'
  BY <1>6 DEF GiveUp
<1>7. ASSUME NEW p \in Singles, WaitUnregister(p)  PROVE Registered'
  BY <1>7 DEF WaitUnregister
<1>8. ASSUME NEW b \in Batchers, BatchStart(b)  PROVE Registered'
  BY <1>8 DEF BatchStart
<1>9. ASSUME NEW b \in Batchers, BatchRegister(b)  PROVE Registered'
  BY <1>9 DEF BatchRegister, Register
<1>10. ASSUME NEW b \in Batchers,
              BatchSend(b) \/ BatchSendError(b) \/ BatchGiveUp(b)
       PROVE  Registered'
  BY <1>10 DEF BatchSend, BatchSendError, BatchGiveUp
<1>11. ASSUME NEW b \in Batchers, BatchCollect(b)  PROVE Registered'
  BY <1>11 DEF BatchCollect
<1>12. ASSUME NEW b \in Batchers, BatchUnregister(b)  PROVE Registered'
  BY <1>12 DEF BatchUnregister
<1>13. ASSUME NEW b \in Batchers, BatchClose(b)  PROVE Registered'
  BY <1>13 DEF BatchClose
<1>14. ASSUME HandleResponse  PROVE Registered'
  <2>1. Head(cur)[1] \in Procs /\ Head(cur)[2] \in Ids
    BY <1>14, CurHead DEF HandleResponse
  <2>2. ASSUME NEW id \in Ids, pending'[id] # None
        PROVE  /\ pending'[id] = pending[id]
               /\ chan'[pending[id]][id] = chan[pending[id]][id]
               /\ buf'[pending[id]][id] = buf[pending[id]][id]
    <3>1. /\ pending'[id] = pending[id]
          /\ pending[Head(cur)[2]] # None => id # Head(cur)[2]
      BY <1>14, <2>1, <2>2 DEF HandleResponse
    <3>2. buf'[pending[id]][id] = buf[pending[id]][id]
      BY <1>14, <2>1, <2>2, <3>1 DEF HandleResponse
    <3> QED  BY <1>14, <3>1, <3>2 DEF HandleResponse
  <2> QED  BY <1>14, <2>2 DEF HandleResponse
<1>15. ASSUME HandlerReturns  PROVE Registered'
  BY <1>15 DEF HandlerReturns, Idle, Recovered
<1>16. ASSUME Cleanup  PROVE Registered'
  BY <1>16 DEF Cleanup
<1>17. ASSUME \/ ReadLine \/ ReaderExit \/ StopSignal \/ CancelStart
              \/ Peer \/ UNCHANGED vars
       PROVE  Registered'
  BY <1>17 DEF ReadLine, ReaderExit, StopSignal, CancelStart, Peer, PeerAnswer,
               PeerAnswerBatch, PeerRequest, PeerExit, vars
<1> QED
  BY <1>1, <1>2, <1>3, <1>4, <1>5, <1>6, <1>7, <1>8, <1>9, <1>10, <1>11,
     <1>12, <1>13, <1>14, <1>15, <1>16, <1>17
  DEF Next, SendRequest, SendBatchRequest, Scanner, Stop

-----------------------------------------------------------------------------
(* Ids and requests in transit *)

\* Only two actions make a call want a new id.
LEMMA WantShrinks ==
  ASSUME Typed, [Next]_vars,
         \A p \in Singles : ~GenerateID(p),
         \A b \in Batchers : ~BatchRegister(b)
  PROVE  (\A q \in Procs : want'[q] \subseteq want[q]) /\ nextID' = nextID
<1>1. ASSUME NEW p \in Singles, SendRequest(p)
      PROVE  (\A q \in Procs : want'[q] \subseteq want[q]) /\ nextID' = nextID
  BY <1>1 DEF Typed, CallTypes, SendRequest, Send, SendError, WaitRegister,
              Receive, ReceiveClosed, GiveUp, WaitUnregister
<1>2. ASSUME NEW b \in Batchers,
             \/ BatchStart(b) \/ BatchSend(b) \/ BatchSendError(b)
             \/ BatchCollect(b) \/ BatchGiveUp(b) \/ BatchUnregister(b)
             \/ BatchClose(b)
      PROVE  (\A q \in Procs : want'[q] \subseteq want[q]) /\ nextID' = nextID
  BY <1>2 DEF Typed, CallTypes, BatchStart, BatchSend, BatchSendError,
              BatchCollect, BatchGiveUp, BatchUnregister, BatchClose
<1>3. ASSUME Scanner \/ Stop \/ CancelStart \/ Peer \/ UNCHANGED vars
      PROVE  (\A q \in Procs : want'[q] \subseteq want[q]) /\ nextID' = nextID
  BY <1>3 DEF Scanner, ReadLine, HandleResponse, HandlerReturns, ReaderExit,
              Stop, StopSignal, Cleanup, CancelStart, Peer, PeerAnswer,
              PeerAnswerBatch, PeerRequest, PeerExit, vars
<1> QED  BY <1>1, <1>2, <1>3 DEF Next, SendBatchRequest

\* The id that GenerateID takes next is nobody's.
LEMMA NextIDFresh ==
  ASSUME Typed, IdsOfOne, NEW q \in Procs
  PROVE  nextID \notin want[q]
<1>1. nextID \in Int  BY Domains DEF Typed, CallTypes
<1>2. CASE q \in Singles
  <2>1. want[q] \subseteq 1..(nextID - 1)  BY <1>2 DEF IdsOfOne
  <2> QED  BY <1>1, <2>1
<1>3. CASE q \in Batchers
  <2>1. want[q] \cap Int = {}  BY <1>3, Domains DEF IdsOfOne
  <2> QED  BY <1>1, <2>1
<1> QED  BY <1>2, <1>3, Domains

\* Every step keeps the wanted ids apart.
LEMMA IdsOfOneStep == Typed /\ IdsOfOne /\ [Next]_vars => IdsOfOne'
<1> SUFFICES ASSUME Typed, IdsOfOne, [Next]_vars PROVE IdsOfOne'
  OBVIOUS
<1>1. ASSUME NEW p \in Singles, GenerateID(p)  PROVE IdsOfOne'
  <2>1. \A q \in Procs : want'[q] = IF q = p THEN {nextID} ELSE want[q]
    BY <1>1 DEF GenerateID, Typed, CallTypes
  <2>2. nextID' = nextID + 1 /\ nextID \in Nat /\ nextID >= 1
    BY <1>1, Domains DEF GenerateID, Typed, CallTypes
  <2>3. ASSUME NEW q \in Singles
        PROVE  /\ want'[q] \subseteq 1..(nextID' - 1)
               /\ \A i, j \in want'[q] : i = j
    <3>1. CASE q = p
      <4>1. want'[q] = {nextID}  BY <2>1, <3>1, Domains
      <4> QED  BY <4>1, <2>2
    <3>2. CASE q # p
      <4>1. want'[q] = want[q]  BY <2>1, <3>2, Domains
      <4>2. /\ want[q] \subseteq 1..(nextID - 1)
            /\ \A i, j \in want[q] : i = j
        BY DEF IdsOfOne
      <4> QED  BY <4>1, <4>2, <2>2
    <3> QED  BY <3>1, <3>2
  <2>4. \A b \in Batchers : want'[b] \subseteq IdsOf[b]
    BY <2>1, Domains DEF IdsOfOne
  <2>5. \A q1, q2 \in Procs : \A id \in want'[q1] : id \in want'[q2] => q1 = q2
    BY <2>1, NextIDFresh DEF IdsOfOne
  <2> QED  BY <2>3, <2>4, <2>5 DEF IdsOfOne
<1>2. ASSUME NEW b \in Batchers, BatchRegister(b)  PROVE IdsOfOne'
  <2>1. PICK id \in IdsOf[b] \ want[b] :
          want' = [want EXCEPT ![b] = want[b] \cup {id}]
    BY <1>2 DEF BatchRegister
  <2>2. \A q \in Procs :
          want'[q] = IF q = b THEN want[b] \cup {id} ELSE want[q]
    BY <2>1 DEF Typed, CallTypes
  <2>3. ASSUME NEW q \in Procs, q # b  PROVE id \notin want[q]
    <3>1. CASE q \in Singles
      <4>1. want[q] \subseteq Int
        BY <3>1, Domains DEF IdsOfOne, Typed, CallTypes
      <4> QED  BY <4>1, Domains
    <3>2. CASE q \in Batchers
      BY <2>3, <3>2, BatchIdsDisjoint DEF IdsOfOne
    <3> QED  BY <3>1, <3>2, Domains
  <2>4. nextID' = nextID  BY <1>2 DEF BatchRegister
  <2>5. \A q \in Singles : want'[q] = want[q]  BY <2>2, Domains
  <2>6. \A c \in Batchers : want'[c] \subseteq IdsOf[c]
    BY <2>1, <2>2, Domains DEF IdsOfOne
  <2>7. \A q1, q2 \in Procs : \A i \in want'[q1] : i \in want'[q2] => q1 = q2
    BY <2>2, <2>3 DEF IdsOfOne
  <2> QED  BY <2>4, <2>5, <2>6, <2>7 DEF IdsOfOne
<1>3. ASSUME (\A q \in Procs : want'[q] \subseteq want[q]) /\ nextID' = nextID
      PROVE  IdsOfOne'
  <2>1. \A p \in Singles : want'[p] \subseteq want[p]  BY <1>3, Domains
  <2>2. \A b \in Batchers : want'[b] \subseteq want[b]  BY <1>3, Domains
  <2>3. \A p \in Singles : /\ want'[p] \subseteq 1..(nextID' - 1)
                           /\ \A i, j \in want'[p] : i = j
    BY <1>3, <2>1 DEF IdsOfOne
  <2> QED  BY <1>3, <2>2, <2>3 DEF IdsOfOne
<1> QED  BY <1>1, <1>2, <1>3, WantShrinks

\* A request that is its caller's own stays so.
LEMMA OwnStep ==
  ASSUME Typed, IdsOfOne, [Next]_vars,
         NEW r \in Procs \X Ids, Own(r, want, nextID)
  PROVE  Own(r, want', nextID')
<1>0. nextID \in Nat /\ 1..(nextID - 1) \subseteq Int
  BY Domains DEF Typed, CallTypes
<1>1. ASSUME NEW p \in Singles, GenerateID(p)
      PROVE  Own(r, want', nextID')
  <2>1. want' = [want EXCEPT ![p] = {nextID}] /\ nextID' = nextID + 1
    BY <1>1 DEF GenerateID
  <2>2. r[2] # nextID
    <3>1. CASE r[1] \in Singles  BY <3>1, <1>0 DEF Own
    <3>2. CASE r[1] \in Batchers  BY <3>2, <1>0, Domains DEF Own
    <3> QED  BY <3>1, <3>2, Domains
  <2>3. \A q \in Procs : r[2] \in want'[q] => r[1] = q
    BY <2>1, <2>2 DEF Own, Typed, CallTypes
  <2>4. r[1] \in Singles => r[2] \in 1..(nextID' - 1)
    BY <1>0, <2>1 DEF Own
  <2> QED  BY <2>3, <2>4 DEF Own
<1>2. ASSUME NEW b \in Batchers, BatchRegister(b)
      PROVE  Own(r, want', nextID')
  <2>1. PICK id \in IdsOf[b] \ want[b] :
          want' = [want EXCEPT ![b] = want[b] \cup {id}]
    BY <1>2 DEF BatchRegister
  <2>2. nextID' = nextID  BY <1>2 DEF BatchRegister
  <2>3. r[2] = id => r[1] = b
    <3>1. CASE r[1] \in Singles  BY <3>1, <2>1, <1>0, Domains DEF Own
    <3>2. CASE r[1] \in Batchers  BY <3>2, <2>1, BatchIdsDisjoint DEF Own
    <3> QED  BY <3>1, <3>2, Domains
  <2>4. \A q \in Procs : r[2] \in want'[q] => r[1] = q
    BY <2>1, <2>3 DEF Own, Typed, CallTypes
  <2> QED  BY <2>2, <2>4 DEF Own
<1>3. (\A q \in Procs : want'[q] \subseteq want[q]) /\ nextID' = nextID
        => Own(r, want', nextID')
  BY DEF Own
<1> QED  BY <1>1, <1>2, <1>3, WantShrinks

\* Only a call that sends puts a request into transit.
LEMMA TransitShrinks ==
  ASSUME Typed, [Next]_vars,
         \A p \in Singles : ~Send(p),
         \A b \in Batchers : ~BatchSend(b),
         NEW r, InTransit(r)'
  PROVE  InTransit(r)
<1>1. ASSUME NEW p \in Singles, GenerateID(p) \/ SendRequest(p)
      PROVE  InTransit(r)
  BY <1>1 DEF InTransit, GenerateID, SendRequest, SendError,
     WaitRegister, Receive, ReceiveClosed, GiveUp, WaitUnregister
<1>2. ASSUME NEW b \in Batchers, BatchStart(b) \/ SendBatchRequest(b)
      PROVE  InTransit(r)
  BY <1>2 DEF InTransit, SendBatchRequest, BatchStart, BatchRegister,
     BatchSendError, BatchCollect, BatchGiveUp, BatchUnregister, BatchClose
<1>3. ASSUME ReadLine  PROVE InTransit(r)
  <2>1. /\ inbox # << >> /\ inbox \in Seq(Line) /\ inbox' = Tail(inbox)
        /\ cur' = Head(inbox).of /\ atPeer' = atPeer
    BY <1>3 DEF ReadLine, Typed, LineTypes
  <2>2. /\ Head(inbox) = inbox[1] /\ 1 \in 1..Len(inbox)
        /\ \A i \in 1..Len(inbox') :
             i + 1 \in 1..Len(inbox) /\ inbox'[i] = inbox[i + 1]
    BY <2>1, HeadTail
  <2>3. CASE \E i \in 1..Len(cur') : cur'[i] = r
    BY <2>1, <2>2, <2>3 DEF InTransit
  <2>4. CASE \E i \in 1..Len(inbox') :
               \E j \in 1..Len(inbox'[i].of) : inbox'[i].of[j] = r
    <3>1. PICK i \in 1..Len(inbox') :
            \E j \in 1..Len(inbox'[i].of) : inbox'[i].of[j] = r
      BY <2>4
    <3>2. i + 1 \in 1..Len(inbox) /\ inbox'[i] = inbox[i + 1]  BY <2>2
    <3>3. \E j \in 1..Len(inbox[i + 1].of) : inbox[i + 1].of[j] = r
      BY <3>1, <3>2
    <3> QED  BY <3>2, <3>3 DEF InTransit
  <2> QED  BY <2>1, <2>3, <2>4 DEF InTransit
<1>4. ASSUME HandleResponse  PROVE InTransit(r)
  <2>1. /\ cur # << >> /\ cur \in Seq(Procs \X Ids) /\ cur' = Tail(cur)
        /\ UNCHANGED <<atPeer, inbox>>
    BY <1>4 DEF HandleResponse, Typed, LineTypes
  <2>2. \A i \in 1..Len(cur') : i + 1 \in 1..Len(cur) /\ cur'[i] = cur[i + 1]
    BY <2>1, HeadTail
  <2> QED  BY <2>1, <2>2 DEF InTransit
<1>5. ASSUME HandlerReturns \/ ReaderExit \/ Stop \/ CancelStart \/ PeerExit
             \/ UNCHANGED vars
      PROVE  InTransit(r)
  BY <1>5 DEF HandlerReturns, ReaderExit, Stop, StopSignal, Cleanup,
              CancelStart, PeerExit, vars, InTransit
<1>6. ASSUME PeerAnswer \/ PeerAnswerBatch \/ PeerRequest
      PROVE  InTransit(r)
  <2>1. /\ cur' = cur /\ atPeer' \subseteq atPeer
        /\ \E m : inbox' = Append(inbox, m) /\ m.of \in Seq(atPeer)
    BY <1>6, PeerLine
  <2>2. PICK m : inbox' = Append(inbox, m) /\ m.of \in Seq(atPeer)
    BY <2>1
  <2>3. inbox \in Seq(Line)  BY DEF Typed, LineTypes
  <2>4. /\ Len(inbox) \in Nat /\ Len(inbox') = Len(inbox) + 1
        /\ inbox'[Len(inbox) + 1] = m
        /\ \A i \in 1..Len(inbox) : inbox'[i] = inbox[i]
    BY <2>2, <2>3
  <2>5. ASSUME NEW i \in 1..Len(inbox'), NEW j \in 1..Len(inbox'[i].of),
               inbox'[i].of[j] = r
        PROVE  InTransit(r)
    <3>1. CASE i = Len(inbox) + 1
      BY <2>2, <2>4, <2>5, <3>1 DEF InTransit
    <3>2. CASE i \in 1..Len(inbox)
      BY <2>4, <2>5, <3>2 DEF InTransit
    <3> QED  BY <2>4, <3>1, <3>2
  <2> QED  BY <2>1, <2>5 DEF InTransit
<1> QED
  BY <1>1, <1>2, <1>3, <1>4, <1>5, <1>6 DEF Next, Scanner, Peer

\* A request comes into transit only from the call that wants its answer.
LEMMA TransitStep ==
  ASSUME Typed, [Next]_vars, NEW r \in Procs \X Ids, InTransit(r)'
  PROVE  InTransit(r) \/ \E p \in Procs : r \in {p} \X want[p]
<1>1. ASSUME NEW p \in Singles, Send(p)
      PROVE  InTransit(r) \/ r \in {p} \X want[p]
  BY <1>1 DEF InTransit, Send
<1>2. ASSUME NEW b \in Batchers, BatchSend(b)
      PROVE  InTransit(r) \/ r \in {b} \X want[b]
  BY <1>2 DEF InTransit, BatchSend
<1> QED  BY <1>1, <1>2, TransitShrinks, Domains

LEMMA RequestsOwnedStep ==
  Typed /\ IdsOfOne /\ RequestsOwned /\ [Next]_vars => RequestsOwned'
<1> SUFFICES ASSUME Typed, IdsOfOne, RequestsOwned, [Next]_vars,
                    NEW r \in Procs \X Ids, InTransit(r)'
             PROVE  Own(r, want', nextID')
  BY DEF RequestsOwned, Own, Procs, Singles, Ids, GenIds
<1>1. CASE InTransit(r)
  BY <1>1, OwnStep DEF RequestsOwned
<1>2. ASSUME NEW p \in Procs, r \in {p} \X want[p]
      PROVE  Own(r, want', nextID')
  <2>1. r[1] = p /\ r[2] \in want[p]  BY <1>2
  <2>2. Own(r, want, nextID)
    BY <2>1 DEF Own, IdsOfOne
  <2> QED  BY <2>2, OwnStep
<1> QED  BY <1>1, <1>2, TransitStep

-----------------------------------------------------------------------------
(* Deliveries and closed channels *)

\* Every step puts responses only where they belong.
LEMMA DeliveredToOwnerStep ==
  Typed /\ Registered /\ RequestsOwned /\ DeliveredToOwner /\ [Next]_vars
    => DeliveredToOwner'
<1> SUFFICES ASSUME Typed, Registered, RequestsOwned, DeliveredToOwner,
                    [Next]_vars
             PROVE  DeliveredToOwner'
  OBVIOUS
<1> USE Domains DEF Typed, CallTypes, ChanTypes, DeliveredToOwner, ReplyIsOwn
<1>1. ASSUME NEW p \in Singles, GenerateID(p)  PROVE DeliveredToOwner'
  BY <1>1 DEF GenerateID
<1>2. ASSUME NEW p \in Singles, WaitRegister(p)  PROVE DeliveredToOwner'
  BY <1>2 DEF WaitRegister, Register
<1>3. ASSUME NEW p \in Singles, Receive(p)  PROVE DeliveredToOwner'
  BY <1>3 DEF Receive
<1>4. ASSUME NEW p \in Singles,
             \/ Send(p) \/ SendError(p) \/ ReceiveClosed(p) \/ GiveUp(p)
             \/ WaitUnregister(p)
      PROVE  DeliveredToOwner'
  BY <1>4 DEF Send, SendError, ReceiveClosed, GiveUp, WaitUnregister
<1>5. ASSUME NEW b \in Batchers, BatchStart(b)  PROVE DeliveredToOwner'
  BY <1>5 DEF BatchStart
<1>6. ASSUME NEW b \in Batchers, BatchRegister(b)  PROVE DeliveredToOwner'
  BY <1>6 DEF BatchRegister, Register
<1>7. ASSUME NEW b \in Batchers, BatchCollect(b)  PROVE DeliveredToOwner'
  BY <1>7 DEF BatchCollect
<1>8. ASSUME NEW b \in Batchers,
             \/ BatchSend(b) \/ BatchSendError(b) \/ BatchGiveUp(b)
             \/ BatchUnregister(b) \/ BatchClose(b)
      PROVE  DeliveredToOwner'
  BY <1>8 DEF BatchSend, BatchSendError, BatchGiveUp, BatchUnregister,
              BatchClose
<1>9. ASSUME HandleResponse  PROVE DeliveredToOwner'
  <2> DEFINE id == Head(cur)[2]
             p  == pending[id]
  <2>1. /\ Head(cur) \in Procs \X Ids
        /\ Head(cur)[1] \in Procs /\ id \in Ids
    BY <1>9, CurHead DEF HandleResponse
  <2>2. InTransit(Head(cur))
    BY <1>9, HeadTail DEF HandleResponse, LineTypes, InTransit
  <2>3. ASSUME p # None  PROVE Head(cur)[1] = p
    <3>1. Own(Head(cur), want, nextID)
      BY <2>1, <2>2 DEF RequestsOwned
    <3>2. p \in Procs /\ id \in want[p]
      BY <2>1, <2>3 DEF Registered
    <3> QED  BY <3>1, <3>2 DEF Own
  <2>4. got' = got  BY <1>9 DEF HandleResponse
  <2>5. CASE p = None
    BY <1>9, <2>4, <2>5 DEF HandleResponse
  <2>6. CASE p # None
    <3>1. buf' = [buf EXCEPT ![p][id] = {p}] /\ p \in Procs
      BY <1>9, <2>1, <2>3, <2>6 DEF HandleResponse
    <3> QED  BY <2>1, <2>4, <3>1
  <2> QED  BY <2>5, <2>6
<1>10. ASSUME \/ ReadLine \/ HandlerReturns \/ ReaderExit \/ Stop
              \/ CancelStart \/ Peer \/ UNCHANGED vars
       PROVE  DeliveredToOwner'
  BY <1>10 DEF ReadLine, HandlerReturns, ReaderExit, Stop, StopSignal, Cleanup,
     CancelStart, Peer, PeerAnswer, PeerAnswerBatch, PeerRequest, PeerExit, vars
<1> QED
  BY <1>1, <1>2, <1>3, <1>4, <1>5, <1>6, <1>7, <1>8, <1>9, <1>10
  DEF Next, SendRequest, SendBatchRequest, Scanner

\* Every step other than Cleanup leaves the waiting calls' channels open.
LEMMA OpenUntilStopStep ==
  Typed /\ IdsOfOne /\ OpenUntilStop /\ [Next]_vars => OpenUntilStop'
<1> SUFFICES ASSUME Typed, IdsOfOne, OpenUntilStop, [Next]_vars
             PROVE  OpenUntilStop'
  OBVIOUS
<1> USE Domains
    DEF Typed, CallTypes, ChanTypes, OpenUntilStop, InFlight, Recovered
<1>1. ASSUME NEW p \in Singles,
             GenerateID(p) \/ Send(p) \/ SendError(p)
      PROVE  OpenUntilStop'
  BY <1>1 DEF GenerateID, Send, SendError
<1>2. ASSUME NEW p \in Singles, WaitRegister(p)  PROVE OpenUntilStop'
  BY <1>2 DEF WaitRegister, Register
<1>3. ASSUME NEW p \in Singles, Receive(p) \/ ReceiveClosed(p)
      PROVE  OpenUntilStop'
  BY <1>3 DEF Receive, ReceiveClosed
<1>4. ASSUME NEW p \in Singles, GiveUp(p) \/ WaitUnregister(p)
      PROVE  OpenUntilStop'
  BY <1>4 DEF GiveUp, WaitUnregister
<1>5. ASSUME NEW b \in Batchers, BatchStart(b)  PROVE OpenUntilStop'
  BY <1>5 DEF BatchStart
<1>6. ASSUME NEW b \in Batchers, BatchRegister(b)  PROVE OpenUntilStop'
  BY <1>6 DEF BatchRegister, Register
<1>7. ASSUME NEW b \in Batchers,
             \/ BatchSend(b) \/ BatchSendError(b) \/ BatchCollect(b)
             \/ BatchGiveUp(b) \/ BatchUnregister(b)
      PROVE  OpenUntilStop'
  BY <1>7 DEF BatchSend, BatchSendError, BatchCollect, BatchGiveUp,
              BatchUnregister
<1>8. ASSUME NEW b \in Batchers, BatchClose(b)  PROVE OpenUntilStop'
  BY <1>8 DEF BatchClose
<1>9. ASSUME HandlerReturns  PROVE OpenUntilStop'
  BY <1>9 DEF HandlerReturns
<1>10. ASSUME \/ ReadLine \/ HandleResponse \/ ReaderExit \/ Stop
              \/ CancelStart \/ Peer \/ UNCHANGED vars
       PROVE  OpenUntilStop'
  BY <1>10 DEF ReadLine, HandleResponse, ReaderExit, Stop, StopSignal, Cleanup,
     CancelStart, Peer, PeerAnswer, PeerAnswerBatch, PeerRequest, PeerExit, vars
<1> QED
  BY <1>1, <1>2, <1>3, <1>4, <1>5, <1>6, <1>7, <1>8, <1>9, <1>10
  DEF Next, SendRequest, SendBatchRequest, Scanner

-----------------------------------------------------------------------------
(* Theorems *)

\* IInv holds in every reachable state.
THEOREM InductiveInvariant == Spec => []IInv
<1>1. IInv /\ [Next]_vars => IInv'
  BY CallTypesStep, ChanTypesStep, LineTypesStep, RegisteredStep,
     IdsOfOneStep, RequestsOwnedStep, DeliveredToOwnerStep, OpenUntilStopStep
  DEF IInv, Typed
<1> QED  BY InitIInv, <1>1, PTL DEF Spec

\* The state of the endpoint keeps its type: generated ids never wrap, lines
\* and registrations name real calls (stdio.go, transport.go).
THEOREM TypeCorrect == Spec => []TypeOK
<1>1. IInv => TypeOK
  BY DEF IInv, Typed, CallTypes, ChanTypes, LineTypes, TypeOK, Requests
<1> QED  BY <1>1, InductiveInvariant, PTL

\* HandleResponse, which sends with the mutex held (transport.go:397), never
\* blocks on a full channel and never sends on a closed one.
THEOREM ChannelReady == Spec => []RegisteredChannelReady
<1>1. IInv => RegisteredChannelReady
  BY DEF IInv, Registered, RegisteredChannelReady
<1> QED  BY <1>1, InductiveInvariant, PTL

\* Calls return only answers to their own requests.
THEOREM RepliesAreOwn == Spec => []ReplyIsOwn
<1>1. IInv => ReplyIsOwn
  BY DEF IInv, DeliveredToOwner
<1> QED  BY <1>1, InductiveInvariant, PTL

\* Every entry of pendingRequests belongs to a call that will remove it.
THEOREM NoLeak == Spec => []NoLeakedRegistration
<1>1. IInv => NoLeakedRegistration
  BY DEF IInv, Registered, NoLeakedRegistration
<1> QED  BY <1>1, InductiveInvariant, PTL

\* Without a Stop no caller's goroutine panics.
THEOREM PanicOnlyByStop == Spec => []CrashOnlyByStop
<1>1. IInv => CrashOnlyByStop
  BY DEF IInv, OpenUntilStop, CrashOnlyByStop, Crashed
<1> QED  BY <1>1, InductiveInvariant, PTL

\* One step never removes another call's registration.
LEMMA StableStep ==
  ASSUME Typed, Registered, IdsOfOne, [Next]_vars,
         NEW id \in Ids, pending[id] # None, pending'[id] # pending[id]
  PROVE  \/ buf'[pending[id]][id] # {}
         \/ chan'[pending[id]][id] = "closed"
         \/ pc[pending[id]] = "unregister"
<1> DEFINE q == pending[id]
<1>1. /\ q \in Procs /\ id \in want[q]
      /\ q \in Singles => pc[q] \in {"wait", "unregister"}
  BY DEF Typed, ChanTypes, Registered
<1>2. ASSUME NEW p \in Procs, id \in want[p]  PROVE p = q
  BY <1>1, <1>2 DEF IdsOfOne
<1>3. ASSUME NEW p \in Singles, WaitRegister(p)  PROVE FALSE
  BY <1>1, <1>2, <1>3, Domains
  DEF WaitRegister, Register, Typed, CallTypes, ChanTypes
<1>4. ASSUME NEW b \in Batchers, BatchRegister(b)  PROVE FALSE
  <2>1. PICK i \in IdsOf[b] \ want[b] : pending' = [pending EXCEPT ![i] = b]
    BY <1>4 DEF BatchRegister, Register
  <2>2. i = id  BY <2>1 DEF Typed, ChanTypes
  <2>3. CASE q \in Batchers
    BY <1>1, <2>1, <2>2, <2>3, BatchIdsDisjoint DEF IdsOfOne
  <2>4. CASE q \in Singles
    BY <1>1, <2>1, <2>2, <2>4, Domains DEF IdsOfOne, Typed, CallTypes
  <2> QED  BY <1>1, <2>3, <2>4, Domains
<1>5. ASSUME NEW p \in Singles, WaitUnregister(p)  PROVE pc[q] = "unregister"
  BY <1>2, <1>5, Domains DEF WaitUnregister
<1>6. ASSUME NEW b \in Batchers, BatchUnregister(b)  PROVE pc[q] = "unregister"
  BY <1>2, <1>6, Domains DEF BatchUnregister
<1>7. ASSUME HandleResponse  PROVE buf'[q][id] # {}
  <2>1. /\ Head(cur)[2] = id
        /\ buf' = [buf EXCEPT ![q][id] = {Head(cur)[1]}]
    BY <1>7, CurHead DEF HandleResponse, Typed, ChanTypes
  <2> QED  BY <1>1, <2>1 DEF Typed, ChanTypes
<1>8. ASSUME Cleanup  PROVE chan'[q][id] = "closed"
  BY <1>1, <1>8 DEF Cleanup
<1>9. ASSUME NEW p \in Singles,
             \/ GenerateID(p) \/ Send(p) \/ SendError(p) \/ Receive(p)
             \/ ReceiveClosed(p) \/ GiveUp(p)
      PROVE  FALSE
  BY <1>9 DEF GenerateID, Send, SendError, Receive, ReceiveClosed, GiveUp
<1>10. ASSUME NEW b \in Batchers,
              \/ BatchStart(b) \/ BatchSend(b) \/ BatchSendError(b)
              \/ BatchCollect(b) \/ BatchGiveUp(b) \/ BatchClose(b)
       PROVE  FALSE
  BY <1>10 DEF BatchStart, BatchSend, BatchSendError, BatchCollect,
               BatchGiveUp, BatchClose
<1>11. ASSUME \/ ReadLine \/ HandlerReturns \/ ReaderExit \/ StopSignal
              \/ CancelStart \/ Peer \/ UNCHANGED vars
       PROVE  FALSE
  BY <1>11 DEF ReadLine, HandlerReturns, ReaderExit, StopSignal, CancelStart,
               Peer, PeerAnswer, PeerAnswerBatch, PeerRequest, PeerExit, vars
<1> QED
  BY <1>3, <1>4, <1>5, <1>6, <1>7, <1>8, <1>9, <1>10, <1>11
  DEF Next, SendRequest, SendBatchRequest, Scanner, Stop

\* A registration disappears only by its answer, by Stop, or by its own
\* call: the clean-up of one call never touches another's
\* (stdio.go:488, transport.go:428).
THEOREM RegistrationsStable == Spec => RegistrationStable
<1>1. IInv /\ [Next]_vars =>
        [\A id \in Ids : pending[id] # None /\ pending'[id] # pending[id] =>
           \/ buf'[pending[id]][id] # {}
           \/ chan'[pending[id]][id] = "closed"
           \/ pc[pending[id]] = "unregister"]_vars
  BY StableStep DEF IInv
<1> QED  BY <1>1, InductiveInvariant, PTL DEF Spec, RegistrationStable
-----------------------------------------------------------------------------
(* Refinement: the endpoint is a RequestReply *)

\* What a call waits for at each of its steps.
SinglesAsk ==
  \A p \in Singles : pc[p] \in InFlight => want[p] # {} /\ got[p] = {}

BatchesAsk ==
  \A b \in Batchers :
    /\ pc[b] = "idle" => /\ want[b] = {}
                         /\ \A r \in Procs \X Ids : InTransit(r) => r[1] # b
    /\ pc[b] = "register" => want[b] # IdsOf[b] /\ IdsOf[b] # {}
    /\ pc[b] \in {"send", "wait"} => want[b] # {}

AskInv == IInv /\ SinglesAsk /\ BatchesAsk

LEMMA SinglesAskStep ==
  IInv /\ SinglesAsk /\ [Next]_vars => SinglesAsk'
<1> SUFFICES ASSUME IInv, SinglesAsk, [Next]_vars  PROVE SinglesAsk'
  OBVIOUS
<1> USE Domains DEF IInv, Typed, CallTypes, SinglesAsk, InFlight
<1>1. ASSUME NEW p \in Singles, GenerateID(p)  PROVE SinglesAsk'
  BY <1>1 DEF GenerateID
<1>2. ASSUME NEW p \in Singles, Receive(p)  PROVE SinglesAsk'
  BY <1>2 DEF Receive
<1>3. ASSUME NEW p \in Singles,
             \/ Send(p) \/ SendError(p) \/ WaitRegister(p)
             \/ ReceiveClosed(p) \/ GiveUp(p) \/ WaitUnregister(p)
      PROVE  SinglesAsk'
  BY <1>3 DEF Send, SendError, WaitRegister, ReceiveClosed, GiveUp,
              WaitUnregister, Recovered
<1>4. ASSUME NEW b \in Batchers, BatchStart(b) \/ SendBatchRequest(b)
      PROVE  \A p \in Singles : UNCHANGED <<pc[p], want[p], got[p]>>
  BY <1>4 DEF BatchStart, SendBatchRequest, BatchRegister, BatchSend, BatchSendError,
              BatchCollect, BatchGiveUp, BatchUnregister, BatchClose
<1>5. ASSUME HandlerReturns  PROVE SinglesAsk'
  BY <1>5 DEF HandlerReturns
<1>6. ASSUME \/ ReadLine \/ HandleResponse \/ ReaderExit \/ Stop
             \/ CancelStart \/ Peer \/ UNCHANGED vars
      PROVE  UNCHANGED <<pc, want, got>>
  BY <1>6 DEF ReadLine, HandleResponse, ReaderExit, Stop, StopSignal, Cleanup,
     CancelStart, Peer, PeerAnswer, PeerAnswerBatch, PeerRequest, PeerExit, vars
<1>7. (\A p \in Singles : UNCHANGED <<pc[p], want[p], got[p]>>) => SinglesAsk'
  OBVIOUS
<1> QED
  BY <1>1, <1>2, <1>3, <1>4, <1>5, <1>6, <1>7
  DEF Next, SendRequest, Scanner

LEMMA BatchesAskStep ==
  IInv /\ BatchesAsk /\ [Next]_vars => BatchesAsk'
<1> SUFFICES ASSUME IInv, BatchesAsk, [Next]_vars  PROVE BatchesAsk'
  OBVIOUS
<1> USE Domains DEF IInv, Typed, CallTypes
\* Nobody asks for a batch that has not begun.
<1>0. ASSUME NEW b \in Batchers, pc[b] = "idle",
             NEW r \in Procs \X Ids, InTransit(r)'
      PROVE  r[1] # b
  <2>1. CASE InTransit(r)  BY <1>0, <2>1 DEF BatchesAsk
  <2>2. CASE \E p \in Procs : r \in {p} \X want[p]
    BY <1>0, <2>2 DEF BatchesAsk
  <2> QED  BY <1>0, <2>1, <2>2, TransitStep
<1>1. ASSUME NEW b \in Batchers, BatchStart(b) \/ BatchRegister(b)
      PROVE  BatchesAsk'
  <2>1. /\ pc' = [pc EXCEPT ![b] = pc'[b]] /\ want' = [want EXCEPT ![b] = want'[b]]
        /\ pc'[b] # "idle"
    BY <1>1 DEF BatchStart, BatchRegister
  <2>2. /\ pc'[b] = "register" => want'[b] # IdsOf[b] /\ IdsOf[b] # {}
        /\ pc'[b] \in {"send", "wait"} => want'[b] # {}
    BY <1>1 DEF BatchStart, BatchRegister, BatchesAsk
  <2>3. \A c \in Batchers : c # b => pc'[c] = pc[c] /\ want'[c] = want[c]
    BY <2>1
  <2> QED  BY <1>0, <2>1, <2>2, <2>3 DEF BatchesAsk
<1>2. ASSUME NEW b \in Batchers, BatchCollect(b)  PROVE BatchesAsk'
  <2>1. \A c \in Batchers : c # b => pc'[c] = pc[c] /\ want'[c] = want[c]
    BY <1>2 DEF BatchCollect
  <2>2. pc'[b] \in {"wait", "unregister"} /\ (pc'[b] = "wait" => want'[b] # {})
    BY <1>2 DEF BatchCollect
  <2> QED  BY <1>0, <2>1, <2>2 DEF BatchesAsk
<1>3. ASSUME NEW b \in Batchers,
             \/ BatchSend(b) \/ BatchSendError(b) \/ BatchGiveUp(b)
             \/ BatchUnregister(b) \/ BatchClose(b)
      PROVE  BatchesAsk'
  <2>1. \A c \in Batchers : c # b => pc'[c] = pc[c]
    BY <1>3 DEF BatchSend, BatchSendError, BatchGiveUp, BatchUnregister, BatchClose
  <2>2. want' = want
    BY <1>3 DEF BatchSend, BatchSendError, BatchGiveUp, BatchUnregister, BatchClose
  <2>3. /\ pc'[b] \notin {"idle", "register", "send"}
        /\ pc'[b] = "wait" => pc[b] = "send"
    BY <1>3 DEF BatchSend, BatchSendError, BatchGiveUp, BatchUnregister, BatchClose
  <2> QED  BY <1>0, <2>1, <2>2, <2>3 DEF BatchesAsk
<1>4. ASSUME NEW p \in Singles, GenerateID(p) \/ SendRequest(p)
      PROVE  \A b \in Batchers : UNCHANGED <<pc[b], want[b]>>
  BY <1>4 DEF GenerateID, SendRequest, Send, SendError, WaitRegister, Receive,
              ReceiveClosed, GiveUp, WaitUnregister
<1>5. ASSUME \/ Scanner \/ Stop \/ CancelStart \/ Peer \/ UNCHANGED vars
      PROVE  \A b \in Batchers : UNCHANGED <<pc[b], want[b]>>
  BY <1>5 DEF Scanner, ReadLine, HandleResponse, HandlerReturns, ReaderExit, Stop,
     StopSignal, Cleanup, CancelStart, Peer, PeerAnswer, PeerAnswerBatch,
     PeerRequest, PeerExit, vars
<1>6. (\A b \in Batchers : UNCHANGED <<pc[b], want[b]>>) => BatchesAsk'
  BY <1>0 DEF BatchesAsk
<1> QED
  BY <1>1, <1>2, <1>3, <1>4, <1>5, <1>6 DEF Next, SendBatchRequest

\* The invariant of the refinement holds in every reachable state.
LEMMA AskInvariant == Spec => []AskInv
<1>1. Init => AskInv
  <2> SUFFICES ASSUME Init  PROVE AskInv
    OBVIOUS
  <2>1. \A p \in Procs : pc[p] = "idle" /\ want[p] = {}  BY DEF Init
  <2>2. SinglesAsk  BY <2>1, Domains DEF SinglesAsk, InFlight
  <2>3. ASSUME NEW r  PROVE ~InTransit(r)
    <3>1. Len(<< >>) = 0  OBVIOUS
    <3> QED  BY <3>1 DEF Init, InTransit
  <2>4. BatchesAsk  BY <2>1, <2>3, Domains DEF BatchesAsk
  <2> QED  BY <2>2, <2>4, InitIInv DEF AskInv
<1>2. IInv /\ [Next]_vars => IInv'
  BY CallTypesStep, ChanTypesStep, LineTypesStep, RegisteredStep,
     IdsOfOneStep, RequestsOwnedStep, DeliveredToOwnerStep, OpenUntilStopStep
  DEF IInv, Typed
<1>3. AskInv /\ [Next]_vars => AskInv'
  BY <1>2, SinglesAskStep, BatchesAskStep DEF AskInv
<1> QED  BY <1>1, <1>3, PTL DEF Spec

\* The values of the mapped phase.
LEMMA PhaseIs ==
  ASSUME NEW p \in Procs
  PROVE  /\ pc[p] \in Idle => Phase(p) = pc[p]
         /\ pc[p] = "send" => Phase(p) = "asking"
         /\ pc[p] = "wait" => Phase(p) = "waiting"
         /\ pc[p] = "register" =>
              Phase(p) = IF p \in Batchers THEN "asking" ELSE "waiting"
         /\ pc[p] \in {"unregister", "close"} =>
              Phase(p) = IF want[p] = {} THEN "replied" ELSE "failed"
         /\ pc[p] \in {"panicked", Recovered} => Phase(p) = "failed"
  BY Domains DEF Phase, Idle, Recovered

\* ... and after a step.
LEMMA PhaseIsNext ==
  ASSUME NEW p \in Procs
  PROVE  /\ pc'[p] \in Idle => Phase(p)' = pc'[p]
         /\ pc'[p] = "send" => Phase(p)' = "asking"
         /\ pc'[p] = "wait" => Phase(p)' = "waiting"
         /\ pc'[p] = "register" =>
              Phase(p)' = IF p \in Batchers THEN "asking" ELSE "waiting"
         /\ pc'[p] \in {"unregister", "close"} =>
              Phase(p)' = IF want'[p] = {} THEN "replied" ELSE "failed"
         /\ pc'[p] \in {"panicked", Recovered} => Phase(p)' = "failed"
  BY Domains DEF Phase, Idle, Recovered

\* A call that does not move looks the same.
LEMMA SameCall ==
  ASSUME NEW q, pc'[q] = pc[q], want'[q] = want[q]
  PROVE  UNCHANGED <<Phase(q), Waiting(q)>>
  BY DEF Phase, Waiting

\* What is out is in transit or in the channel of its call ...
LEMMA OutIs ==
  ASSUME LineTypes, NEW r
  PROVE  r \in Out <=> \/ InTransit(r)
                        \/ \E p \in Procs : \E id \in Delivered(p) : r = <<p, id>>
<1>1. cur \in Seq(Procs \X Ids) /\ inbox \in Seq(Line)  BY DEF LineTypes
<1>2. DOMAIN cur = 1..Len(cur) /\ DOMAIN inbox = 1..Len(inbox)  BY <1>1
<1>3. \A i \in DOMAIN inbox : DOMAIN inbox[i].of = 1..Len(inbox[i].of)
  <2> SUFFICES ASSUME NEW i \in DOMAIN inbox
               PROVE  DOMAIN inbox[i].of = 1..Len(inbox[i].of)
    OBVIOUS
  <2>1. inbox[i] \in Line  BY <1>1
  <2>2. << >> \in Seq(Requests)  OBVIOUS
  <2>3. inbox[i].of \in Seq(Requests)  BY <2>1, <2>2 DEF Line
  <2> QED  BY <2>3
<1>4. r \in Out <=>
        \/ r \in atPeer
        \/ \E i \in DOMAIN cur : cur[i] = r
        \/ \E i \in DOMAIN inbox : \E j \in DOMAIN inbox[i].of : inbox[i].of[j] = r
        \/ \E p \in Procs : r \in {p} \X Delivered(p)
  <2> DEFINE C == {cur[i] : i \in DOMAIN cur}
             L == UNION {{inbox[i].of[j] : j \in DOMAIN inbox[i].of} : i \in DOMAIN inbox}
             D == UNION {{p} \X Delivered(p) : p \in Procs}
  <2>1. r \in C <=> \E i \in DOMAIN cur : cur[i] = r
    OBVIOUS
  <2>2. r \in L <=> \E i \in DOMAIN inbox :
                     \E j \in DOMAIN inbox[i].of : inbox[i].of[j] = r
    OBVIOUS
  <2>3. r \in D <=> \E p \in Procs : r \in {p} \X Delivered(p)
    OBVIOUS
  <2>4. Out = atPeer \cup C \cup L \cup D  BY DEF Out
  <2> HIDE DEF C, L, D
  <2> QED  BY <2>1, <2>2, <2>3, <2>4
<1>5. \A p \in Procs : r \in {p} \X Delivered(p) <=> \E id \in Delivered(p) : r = <<p, id>>
  OBVIOUS
<1> QED  BY <1>2, <1>3, <1>4, <1>5 DEF InTransit

\* ... and so after a step.
LEMMA OutIsNext ==
  ASSUME LineTypes', NEW r
  PROVE  r \in Out' <=> \/ InTransit(r)'
                        \/ \E p \in Procs : \E id \in Delivered(p)' : r = <<p, id>>
<1>1. cur' \in Seq(Procs \X Ids) /\ inbox' \in Seq(Line)  BY DEF LineTypes
<1>2. DOMAIN cur' = 1..Len(cur') /\ DOMAIN inbox' = 1..Len(inbox')  BY <1>1
<1>3. \A i \in DOMAIN inbox' : DOMAIN inbox'[i].of = 1..Len(inbox'[i].of)
  <2> SUFFICES ASSUME NEW i \in DOMAIN inbox'
               PROVE  DOMAIN inbox'[i].of = 1..Len(inbox'[i].of)
    OBVIOUS
  <2>1. inbox'[i] \in Line  BY <1>1
  <2>2. << >> \in Seq(Requests)  OBVIOUS
  <2>3. inbox'[i].of \in Seq(Requests)  BY <2>1, <2>2 DEF Line
  <2> QED  BY <2>3
<1>4. r \in Out' <=>
        \/ r \in atPeer'
        \/ \E i \in DOMAIN cur' : cur'[i] = r
        \/ \E i \in DOMAIN inbox' : \E j \in DOMAIN inbox'[i].of : inbox'[i].of[j] = r
        \/ \E p \in Procs : r \in {p} \X Delivered(p)'
  <2> DEFINE C == {cur'[i] : i \in DOMAIN cur'}
             L == UNION {{inbox'[i].of[j] : j \in DOMAIN inbox'[i].of} : i \in DOMAIN inbox'}
             D == UNION {{p} \X Delivered(p)' : p \in Procs}
  <2>1. r \in C <=> \E i \in DOMAIN cur' : cur'[i] = r
    OBVIOUS
  <2>2. r \in L <=> \E i \in DOMAIN inbox' :
                     \E j \in DOMAIN inbox'[i].of : inbox'[i].of[j] = r
    OBVIOUS
  <2>3. r \in D <=> \E p \in Procs : r \in {p} \X Delivered(p)'
    OBVIOUS
  <2>4. Out' = atPeer' \cup C \cup L \cup D  BY DEF Out
  <2> HIDE DEF C, L, D
  <2> QED  BY <2>1, <2>2, <2>3, <2>4
<1>5. \A p \in Procs : r \in {p} \X Delivered(p)' <=> \E id \in Delivered(p)' : r = <<p, id>>
  OBVIOUS
<1> QED  BY <1>2, <1>3, <1>4, <1>5 DEF InTransit

\* A response comes into the channel of a call from a line.
LEMMA DeliveredStep ==
  ASSUME Typed, IdsOfOne, [Next]_vars, NEW q \in Procs, NEW id \in Delivered(q)'
  PROVE  id \in Delivered(q) \/ InTransit(<<q, id>>)
<1> USE Domains DEF Typed, CallTypes, ChanTypes
<1>0. id \in Ids  BY LineTypesStep, CallTypesStep DEF Delivered
<1>1. ASSUME NEW p \in Singles,
             \/ GenerateID(p) \/ Send(p) \/ SendError(p) \/ Receive(p)
             \/ ReceiveClosed(p) \/ GiveUp(p) \/ WaitUnregister(p)
      PROVE  id \in Delivered(q)
  <2>1. CASE q = p
    <3>1. pc'[q] # "wait"
      BY <1>1, <2>1 DEF GenerateID, Send, SendError, Receive, ReceiveClosed, GiveUp,
                        WaitUnregister, Recovered
    <3> QED  BY <2>1, <3>1 DEF Delivered
  <2>2. CASE q # p
    <3>1. UNCHANGED <<pc[q], want[q], buf[q]>>
      BY <1>1, <2>2 DEF GenerateID, Send, SendError, Receive, ReceiveClosed, GiveUp,
                        WaitUnregister
    <3> QED  BY <3>1 DEF Delivered
  <2> QED  BY <2>1, <2>2
<1>2. ASSUME NEW p \in Singles, WaitRegister(p)  PROVE id \in Delivered(q)
  <2>1. PICK i \in want[p] : buf' = [buf EXCEPT ![p][i] = {}]
    BY <1>2 DEF WaitRegister, Register
  <2>2. pc' = [pc EXCEPT ![p] = "wait"] /\ want' = want  BY <1>2 DEF WaitRegister
  <2>3. CASE q = p
    <3>1. \A j \in want[p] : j = i  BY <2>1 DEF IdsOfOne
    <3>2. id = i  BY <2>2, <2>3, <3>1 DEF Delivered
    <3>3. buf'[q][id] = {}  BY <2>1, <2>3, <3>2
    <3> QED  BY <3>3 DEF Delivered
  <2>4. CASE q # p
    <3>1. UNCHANGED <<pc[q], want[q], buf[q]>>  BY <2>1, <2>2, <2>4
    <3> QED  BY <3>1 DEF Delivered
  <2> QED  BY <2>3, <2>4
<1>3. ASSUME NEW b \in Batchers, BatchRegister(b)  PROVE id \in Delivered(q)
  <2>1. PICK i \in IdsOf[b] \ want[b] :
          /\ buf' = [buf EXCEPT ![b][i] = {}]
          /\ want' = [want EXCEPT ![b] = @ \cup {i}]
    BY <1>3 DEF BatchRegister, Register
  <2>2. pc' = [pc EXCEPT ![b] = pc'[b]]  BY <1>3 DEF BatchRegister
  <2>3. CASE q = b
    <3>1. b \notin Singles  BY Domains
    <3>2. id \in want'[q] /\ q \in buf'[q][id]  BY <2>3, <3>1 DEF Delivered
    <3>3. id # i  BY <2>1, <2>3, <3>2
    <3>4. id \in want[q] /\ q \in buf[q][id]  BY <2>1, <2>3, <3>2, <3>3
    <3> QED  BY <2>3, <3>1, <3>4 DEF Delivered
  <2>4. CASE q # b
    <3>1. UNCHANGED <<pc[q], want[q], buf[q]>>  BY <2>1, <2>2, <2>4
    <3> QED  BY <3>1 DEF Delivered
  <2> QED  BY <2>3, <2>4
<1>4. ASSUME NEW b \in Batchers, BatchCollect(b)  PROVE id \in Delivered(q)
  <2>1. PICK i \in want[b] :
          /\ buf' = [buf EXCEPT ![b][i] = {}]
          /\ want' = [want EXCEPT ![b] = @ \ {i}]
    BY <1>4 DEF BatchCollect
  <2>2. pc' = [pc EXCEPT ![b] = pc'[b]]  BY <1>4 DEF BatchCollect
  <2>3. CASE q = b
    <3>1. b \notin Singles  BY Domains
    <3>2. id \in want'[q] /\ q \in buf'[q][id]  BY <2>3, <3>1 DEF Delivered
    <3>3. id # i /\ id \in want[q]  BY <2>1, <2>3, <3>2
    <3>4. q \in buf[q][id]  BY <2>1, <2>3, <3>2, <3>3
    <3> QED  BY <2>3, <3>1, <3>3, <3>4 DEF Delivered
  <2>4. CASE q # b
    <3>1. UNCHANGED <<pc[q], want[q], buf[q]>>  BY <2>1, <2>2, <2>4
    <3> QED  BY <3>1 DEF Delivered
  <2> QED  BY <2>3, <2>4
<1>5. ASSUME NEW b \in Batchers,
             \/ BatchStart(b) \/ BatchSend(b) \/ BatchSendError(b) \/ BatchGiveUp(b)
             \/ BatchUnregister(b) \/ BatchClose(b)
      PROVE  id \in Delivered(q)
  <2>1. UNCHANGED <<want, buf>> /\ \A s \in Singles : pc'[s] = pc[s]
    BY <1>5 DEF BatchStart, BatchSend, BatchSendError, BatchGiveUp, BatchUnregister,
                BatchClose
  <2> QED  BY <2>1 DEF Delivered
<1>6. ASSUME HandleResponse  PROVE id \in Delivered(q) \/ InTransit(<<q, id>>)
  <2>1. UNCHANGED <<pc, want>>  BY <1>6 DEF HandleResponse
  <2>2. CASE q \in buf[q][id]  BY <2>1, <2>2 DEF Delivered
  <2>3. CASE q \notin buf[q][id]
    <3>1. q \in buf'[q][id]  BY DEF Delivered
    <3>2. /\ Head(cur)[1] \in Procs /\ Head(cur)[2] \in Ids
          /\ Head(cur) \in Procs \X Ids
      BY <1>6, CurHead DEF HandleResponse
    <3>3. pending[Head(cur)[2]] \in Procs
          /\ buf' = [buf EXCEPT ![pending[Head(cur)[2]]][Head(cur)[2]] = {Head(cur)[1]}]
      BY <1>6, <2>3, <3>1, <3>2 DEF HandleResponse
    <3>4. Head(cur)[1] = q /\ Head(cur)[2] = id
      BY <1>0, <2>3, <3>1, <3>2, <3>3
    <3>5. InTransit(Head(cur))
      BY <1>6, HeadTail DEF HandleResponse, LineTypes, InTransit
    <3>6. Head(cur) = <<q, id>>  BY <3>2, <3>4
    <3> QED  BY <3>5, <3>6
  <2> QED  BY <2>2, <2>3
<1>7. ASSUME HandlerReturns  PROVE id \in Delivered(q)
  <2>1. UNCHANGED <<want, buf>> /\ (\A s \in Singles : pc'[s] = "wait" => pc[s] = "wait")
    BY <1>7 DEF HandlerReturns
  <2> QED  BY <2>1 DEF Delivered
<1>8. ASSUME \/ ReadLine \/ ReaderExit \/ Stop \/ CancelStart \/ Peer \/ UNCHANGED vars
      PROVE  id \in Delivered(q)
  <2>1. UNCHANGED <<pc, want, buf>>
    BY <1>8 DEF ReadLine, ReaderExit, Stop, StopSignal, Cleanup, CancelStart, Peer,
       PeerAnswer, PeerAnswerBatch, PeerRequest, PeerExit, vars
  <2> QED  BY <2>1 DEF Delivered
<1> QED
  BY <1>1, <1>2, <1>3, <1>4, <1>5, <1>6, <1>7, <1>8
  DEF Next, SendRequest, SendBatchRequest, Scanner

\* Nothing gets out but what a call sends.
LEMMA OutShrinks ==
  ASSUME IInv, [Next]_vars,
         \A p \in Singles : ~Send(p),
         \A b \in Batchers : ~BatchSend(b)
  PROVE  Out' \subseteq Out
<1> SUFFICES ASSUME NEW r \in Out'  PROVE r \in Out
  OBVIOUS
<1>0. Typed /\ LineTypes /\ LineTypes' /\ IdsOfOne
  BY LineTypesStep DEF IInv, Typed
<1>1. CASE InTransit(r)'
  BY <1>0, <1>1, TransitShrinks, OutIs
<1>2. ASSUME NEW p \in Procs, NEW id \in Delivered(p)', r = <<p, id>>
      PROVE  r \in Out
  BY <1>0, <1>2, DeliveredStep, OutIs
<1> QED  BY <1>0, <1>1, <1>2, OutIsNext

LEMMA OutAsked ==
  ASSUME Typed, NEW p \in Procs,
         (p \in Singles /\ Send(p)) \/ (p \in Batchers /\ BatchSend(p))
  PROVE  Out' = Out \cup ({p} \X want[p])
<1>1. atPeer' = atPeer \cup ({p} \X want[p]) /\ UNCHANGED <<cur, inbox, want, buf>>
  BY DEF Send, BatchSend
<1>2. \A q \in Procs : Delivered(q)' = Delivered(q)
  <2> SUFFICES ASSUME NEW q \in Procs  PROVE Delivered(q)' = Delivered(q)
    OBVIOUS
  <2>1. q \in Singles => (pc'[q] = "wait" <=> pc[q] = "wait")
    BY Domains DEF Send, BatchSend, Typed, CallTypes
  <2> QED  BY <1>1, <2>1 DEF Delivered
<1> QED  BY <1>1, <1>2 DEF Out

\* Others(p): only the call p moves.
Others(p) == \A q \in Procs : q # p => UNCHANGED <<Phase(q), Waiting(q), got[q]>>

LEMMA OthersStay ==
  ASSUME NEW p, \A q \in Procs : q # p => UNCHANGED <<pc[q], want[q], got[q]>>
  PROVE  Others(p)
  BY SameCall DEF Others

\* The abstract actions, of the call that moves and of what is out.
LEMMA Begins ==
  ASSUME NEW p \in Procs, Others(p), CallTypes, CallTypes', NEW ids,
         ids \subseteq Ids, ids # {},
         Phase(p) \in Idle, Phase(p)' = "asking", Waiting(p)' = ids, got'[p] = {},
         \A id \in ids : \A q \in Procs : id \notin Waiting(q) /\ <<q, id>> \notin Out,
         Out' \subseteq Out
  PROVE  Abstract!Begin(p)
<1>1. [q \in Procs |-> Phase(q)]' = [[q \in Procs |-> Phase(q)] EXCEPT ![p] = "asking"]
  BY DEF Others
<1>2. [q \in Procs |-> Waiting(q)]' = [[q \in Procs |-> Waiting(q)] EXCEPT ![p] = ids]
  BY DEF Others
<1>3. got' = [got EXCEPT ![p] = {}]
  BY DEF Others, CallTypes
<1>4. ASSUME NEW id \in ids  PROVE Abstract!Free(id)
  <2>1. \A q \in Procs : [x \in Procs |-> Waiting(x)][q] = Waiting(q)  OBVIOUS
  <2>2. \A q \in Procs : id \notin Waiting(q) /\ <<q, id>> \notin Out  OBVIOUS
  <2> QED  BY <2>1, <2>2, Zenon DEF Abstract!Free
<1>5. [q \in Procs |-> Phase(q)][p] \in Abstract!Over
  BY DEF Abstract!Over, Idle
<1> QED  BY <1>1, <1>2, <1>3, <1>4, <1>5 DEF Abstract!Begin

LEMMA Asks ==
  ASSUME NEW p \in Procs, Others(p), CallTypes, CallTypes',
         Phase(p) = "asking", Phase(p)' = "waiting", UNCHANGED <<Waiting(p), got[p]>>,
         Out' = Out \cup ({p} \X Waiting(p))
  PROVE  Abstract!Ask(p)
<1>1. [q \in Procs |-> Phase(q)]' = [[q \in Procs |-> Phase(q)] EXCEPT ![p] = "waiting"]
  BY DEF Others
<1>2. UNCHANGED [q \in Procs |-> Waiting(q)]
  BY DEF Others
<1>3. got' = got
  BY DEF Others, CallTypes
<1> QED  BY <1>1, <1>2, <1>3 DEF Abstract!Ask

LEMMA Takes ==
  ASSUME NEW p \in Procs, Others(p), CallTypes, CallTypes',
         NEW id \in Waiting(p), <<p, id>> \in Out,
         Phase(p) = "waiting",
         Phase(p)' = IF Waiting(p)' = {} THEN "replied" ELSE "waiting",
         Waiting(p)' = Waiting(p) \ {id}, got'[p] = got[p] \cup {<<p, id>>},
         Out' \subseteq Out
  PROVE  Abstract!Take(p)
<1>1. [q \in Procs |-> Phase(q)]' =
        [[q \in Procs |-> Phase(q)] EXCEPT
           ![p] = IF [q \in Procs |-> Waiting(q)]'[p] = {} THEN "replied" ELSE @]
  BY DEF Others
<1>2. [q \in Procs |-> Waiting(q)]' = [[q \in Procs |-> Waiting(q)] EXCEPT ![p] = @ \ {id}]
  BY DEF Others
<1>3. got' = [got EXCEPT ![p] = @ \cup {<<p, id>>}]
  BY DEF Others, CallTypes
<1> QED  BY <1>1, <1>2, <1>3 DEF Abstract!Take

LEMMA Fails ==
  ASSUME NEW p \in Procs, Others(p), CallTypes, CallTypes',
         Phase(p) \in {"asking", "waiting"}, Phase(p)' = "failed",
         UNCHANGED <<Waiting(p), got[p]>>, Out' \subseteq Out
  PROVE  Abstract!Fail(p)
<1>1. [q \in Procs |-> Phase(q)]' = [[q \in Procs |-> Phase(q)] EXCEPT ![p] = "failed"]
  BY DEF Others
<1>2. UNCHANGED [q \in Procs |-> Waiting(q)]
  BY DEF Others
<1>3. got' = got
  BY DEF Others, CallTypes
<1> QED  BY <1>1, <1>2, <1>3 DEF Abstract!Fail

LEMMA Loses ==
  ASSUME \A q \in Procs : UNCHANGED <<Phase(q), Waiting(q)>>, UNCHANGED got,
         Out' \subseteq Out
  PROVE  Abstract!Lose
<1>1. UNCHANGED <<[q \in Procs |-> Phase(q)], [q \in Procs |-> Waiting(q)]>>
  OBVIOUS
<1> QED  BY <1>1 DEF Abstract!Lose

LEMMA SinglesImplement ==
  ASSUME AskInv, AskInv', [Next]_vars, NEW p \in Singles, GenerateID(p) \/ SendRequest(p)
  PROVE  Abstract!Next
<1> USE DEF AskInv, IInv, Typed
<1>0. p \in Procs /\ p \notin Batchers /\ CallTypes /\ CallTypes' /\ Typed
  BY Domains
<1>1. Others(p)
  <2>1. \A q \in Procs : q # p => UNCHANGED <<pc[q], want[q], got[q]>>
    BY <1>0 DEF GenerateID, SendRequest, Send, SendError, WaitRegister, Receive,
       ReceiveClosed, GiveUp, WaitUnregister, CallTypes
  <2> QED  BY <2>1, OthersStay
<1>2. Waiting(p) = want[p] /\ Waiting(p)' = want'[p]
  BY <1>0 DEF Waiting
<1>3. ASSUME ~Send(p)  PROVE Out' \subseteq Out
  <2>1. \A q \in Singles : ~Send(q)
    <3> SUFFICES ASSUME NEW q \in Singles, Send(q)  PROVE FALSE
      OBVIOUS
    <3>1. pc[q] = "send" /\ pc'[q] = "register"
      BY <1>0, Domains DEF Send, CallTypes
    <3>2. q = p  BY <1>1, <3>1, PhaseIs, PhaseIsNext, Domains DEF Others
    <3>3. pc[p] = "send" /\ pc'[p] = "register"  BY <3>1, <3>2
    <3> QED
      BY <1>0, <1>3, <3>3 DEF GenerateID, SendRequest, SendError, WaitRegister, Receive,
         ReceiveClosed, GiveUp, WaitUnregister, CallTypes, Recovered
  <2>2. \A b \in Batchers : ~BatchSend(b)
    <3> SUFFICES ASSUME NEW b \in Batchers, BatchSend(b)  PROVE FALSE
      OBVIOUS
    <3>1. pc[b] = "send" /\ pc'[b] = "wait"
      BY <1>0, Domains DEF BatchSend, CallTypes
    <3>2. b \in Procs /\ b # p  BY <1>0, Domains
    <3> QED  BY <1>1, <3>1, <3>2, PhaseIs, PhaseIsNext DEF Others
  <2> QED  BY <2>1, <2>2, OutShrinks
<1>4. CASE GenerateID(p)
  <2>1. ~Send(p)  BY <1>4, <1>0 DEF GenerateID, Send, Idle
  <2>2. Phase(p) \in Idle /\ Phase(p)' = "asking"
    BY <1>4, <1>0, PhaseIs, PhaseIsNext DEF GenerateID, CallTypes
  <2>3. Waiting(p)' = {nextID} /\ got'[p] = {} /\ {nextID} \subseteq Ids
    BY <1>4, <1>0, <1>2, Domains DEF GenerateID, CallTypes
  <2>4. ASSUME NEW q \in Procs  PROVE nextID \notin Waiting(q) /\ <<q, nextID>> \notin Out
    <3>0. nextID \in Int  BY Domains DEF CallTypes
    <3>1. nextID \notin want[q]  BY NextIDFresh
    <3>2. nextID \notin Waiting(q)
      BY <3>0, <3>1, Domains DEF Waiting
    <3>3. <<q, nextID>> \in Procs \X Ids  BY <2>3
    <3>4. ~InTransit(<<q, nextID>>)
      <4> SUFFICES ASSUME InTransit(<<q, nextID>>)  PROVE FALSE
        OBVIOUS
      <4>1. Own(<<q, nextID>>, want, nextID)  BY <3>3 DEF RequestsOwned
      <4>2. q \in Singles => nextID \in 1..(nextID - 1)  BY <4>1 DEF Own
      <4>3. q \in Batchers => nextID \in IdsOf[q]  BY <4>1 DEF Own
      <4> QED  BY <3>0, <4>2, <4>3, Domains
    <3>5. nextID \notin Delivered(q)  BY <3>1 DEF Delivered
    <3>6. \A r \in Procs : \A id \in Delivered(r) : <<q, nextID>> = <<r, id>> => nextID \in Delivered(q)
      OBVIOUS
    <3> QED  BY <3>2, <3>4, <3>5, <3>6, OutIs
  <2>5. Out' \subseteq Out  BY <1>3, <2>1
  <2>6. Abstract!Begin(p)
    BY <1>0, <1>1, <2>2, <2>3, <2>4, <2>5, Begins
  <2> QED  BY <1>0, <2>6 DEF Abstract!Next
<1>5. CASE Send(p)
  <2>1. Phase(p) = "asking" /\ Phase(p)' = "waiting"
    BY <1>5, <1>0, PhaseIs, PhaseIsNext DEF Send, CallTypes
  <2>2. UNCHANGED <<want[p], got[p]>>  BY <1>5 DEF Send
  <2>3. Out' = Out \cup ({p} \X want[p])  BY <1>0, <1>5, OutAsked
  <2>4. Abstract!Ask(p)  BY <1>0, <1>1, <1>2, <2>1, <2>2, <2>3, Asks
  <2> QED  BY <1>0, <2>4 DEF Abstract!Next
<1>6. CASE Receive(p)
  <2>1. pc[p] = "wait" /\ pc'[p] = "replied" /\ want'[p] = {}
    BY <1>0, <1>6 DEF Receive, CallTypes
  <2>2. PICK id \in want[p], q \in Procs :
          q \in buf[p][id] /\ got' = [got EXCEPT ![p] = {<<q, id>>}]
    BY <1>6 DEF Receive
  <2>3. id \in Ids /\ q = p
    BY <1>0, <2>2 DEF DeliveredToOwner, CallTypes
  <2>4. id \in Delivered(p)  BY <2>1, <2>2, <2>3 DEF Delivered
  <2>5. <<p, id>> \in Out  BY <1>0, <2>4, OutIs
  <2>6. got[p] = {} /\ got'[p] = got[p] \cup {<<p, id>>}
    BY <1>0, <2>1, <2>2, <2>3 DEF SinglesAsk, InFlight, CallTypes
  <2>7. Waiting(p)' = Waiting(p) \ {id} /\ Waiting(p)' = {} /\ id \in Waiting(p)
    BY <1>2, <2>1, <2>2 DEF IdsOfOne
  <2>8. Phase(p) = "waiting" /\ Phase(p)' = "replied"
    BY <1>0, <2>1, PhaseIs, PhaseIsNext DEF Idle
  <2>9. Out' \subseteq Out  BY <1>3, <2>1, <1>0 DEF Send
  <2>10. Abstract!Take(p)
    BY <1>0, <1>1, <2>5, <2>6, <2>7, <2>8, <2>9, Takes
  <2> QED  BY <1>0, <2>10 DEF Abstract!Next
<1>7. CASE SendError(p) \/ ReceiveClosed(p) \/ GiveUp(p)
  <2>1. /\ pc[p] \in {"send", "wait"}
        /\ pc'[p] \in {"failed", Recovered, "panicked", "unregister"}
        /\ UNCHANGED <<want[p], got[p]>>
    BY <1>0, <1>7 DEF SendError, ReceiveClosed, GiveUp, CallTypes
  <2>2. want'[p] # {}
    BY <1>0, <2>1 DEF SinglesAsk, InFlight
  <2>3. Phase(p) \in {"asking", "waiting"} /\ Phase(p)' = "failed"
    BY <1>0, <2>1, <2>2, PhaseIs, PhaseIsNext DEF Idle
  <2>4. Out' \subseteq Out
    BY <1>0, <1>3, <1>7 DEF Send, SendError, ReceiveClosed, GiveUp, CallTypes, Recovered
  <2>5. Abstract!Fail(p)  BY <1>0, <1>1, <1>2, <2>1, <2>3, <2>4, Fails
  <2> QED  BY <1>0, <2>5 DEF Abstract!Next
<1>8. CASE WaitRegister(p) \/ WaitUnregister(p)
  <2>1. /\ \/ pc[p] = "register" /\ pc'[p] = "wait"
           \/ pc[p] = "unregister" /\ pc'[p] = "failed"
        /\ UNCHANGED <<want[p], got>>
    BY <1>0, <1>8 DEF WaitRegister, WaitUnregister, CallTypes
  <2>2. want[p] # {}  BY <2>1 DEF SinglesAsk, InFlight
  <2>3. Phase(p)' = Phase(p)
    BY <1>0, <2>1, <2>2, PhaseIs, PhaseIsNext DEF Idle
  <2>4. Out' \subseteq Out
    BY <1>0, <1>3, <2>1 DEF Send
  <2>5. Abstract!Lose  BY <1>1, <1>2, <2>1, <2>3, <2>4, Loses DEF Others
  <2> QED  BY <2>5 DEF Abstract!Next
<1> QED  BY <1>4, <1>5, <1>6, <1>7, <1>8 DEF SendRequest

LEMMA BatchesImplement ==
  ASSUME AskInv, AskInv', [Next]_vars, NEW b \in Batchers,
         BatchStart(b) \/ SendBatchRequest(b)
  PROVE  Abstract!Next
<1> USE DEF AskInv, IInv, Typed
<1>0. b \in Procs /\ b \notin Singles /\ CallTypes /\ CallTypes' /\ Typed
  BY Domains
<1>1. Others(b)
  <2>1. \A q \in Procs : q # b => UNCHANGED <<pc[q], want[q], got[q]>>
    BY <1>0 DEF BatchStart, SendBatchRequest, BatchRegister, BatchSend, BatchSendError,
       BatchCollect, BatchGiveUp, BatchUnregister, BatchClose, CallTypes
  <2> QED  BY <2>1, OthersStay
<1>2. /\ Waiting(b) = IF pc[b] = "register" THEN IdsOf[b] ELSE want[b]
      /\ Waiting(b)' = IF pc'[b] = "register" THEN IdsOf[b] ELSE want'[b]
  BY DEF Waiting
<1>3. ASSUME ~BatchSend(b)  PROVE Out' \subseteq Out
  <2>1. \A q \in Singles : ~Send(q)
    <3> SUFFICES ASSUME NEW q \in Singles, Send(q)  PROVE FALSE
      OBVIOUS
    <3>1. pc[q] = "send" /\ pc'[q] = "register" /\ q \in Procs /\ q # b /\ q \notin Batchers
      BY <1>0, Domains DEF Send, CallTypes
    <3> QED  BY <1>1, <3>1, PhaseIs, PhaseIsNext DEF Others
  <2>2. \A c \in Batchers : ~BatchSend(c)
    <3> SUFFICES ASSUME NEW c \in Batchers, BatchSend(c)  PROVE FALSE
      OBVIOUS
    <3>1. pc[c] = "send" /\ pc'[c] = "wait" /\ c \in Procs
      BY <1>0, Domains DEF BatchSend, CallTypes
    <3>2. c = b  BY <1>1, <3>1, PhaseIs, PhaseIsNext DEF Others
    <3> QED  BY <1>3, <3>2
  <2> QED  BY <2>1, <2>2, OutShrinks
<1>4. CASE BatchStart(b)
  <2>1. pc[b] = "idle" /\ pc'[b] = "register" /\ want[b] = {} /\ got'[b] = {}
    BY <1>0, <1>4 DEF BatchStart, CallTypes, BatchesAsk
  <2>2. Phase(b) \in Idle /\ Phase(b)' = "asking"
    BY <1>0, <2>1, PhaseIs, PhaseIsNext DEF Idle
  <2>3. Waiting(b)' = IdsOf[b] /\ IdsOf[b] # {} /\ IdsOf[b] \subseteq Ids
    BY <1>2, <1>4, <2>1, Domains DEF BatchStart
  <2>4. ASSUME NEW id \in IdsOf[b], NEW q \in Procs
        PROVE  id \notin Waiting(q) /\ <<q, id>> \notin Out
    <3>1. /\ \A r \in Singles : want[r] \subseteq Int
          /\ id \notin Int
      BY Domains DEF IdsOfOne, CallTypes
    <3>2. \A c \in Batchers : c # b => id \notin IdsOf[c]
      BY BatchIdsDisjoint
    <3>3. id \notin Waiting(q) /\ id \notin want[q]
      <4>1. CASE q \in Singles  BY <3>1, <4>1, Domains DEF Waiting
      <4>2. CASE q \in Batchers /\ q # b  BY <3>2, <4>2 DEF Waiting, IdsOfOne
      <4>3. CASE q = b  BY <1>2, <2>1, <4>3
      <4> QED  BY <4>1, <4>2, <4>3, Domains
    <3>4. ~InTransit(<<q, id>>)
      <4> SUFFICES ASSUME InTransit(<<q, id>>)  PROVE FALSE
        OBVIOUS
      <4>0. <<q, id>> \in Procs \X Ids /\ <<q, id>>[1] = q /\ <<q, id>>[2] = id
        BY <2>3
      <4>1. Own(<<q, id>>, want, nextID)  BY <4>0 DEF RequestsOwned
      <4>2. /\ q \in Singles => id \in 1..(nextID - 1)
            /\ q \in Batchers => id \in IdsOf[q]
        BY <4>1 DEF Own
      <4>3. q = b
        BY <3>1, <3>2, <4>2, Domains DEF CallTypes
      <4> QED  BY <2>1, <4>0, <4>3 DEF BatchesAsk
    <3>5. id \notin Delivered(q)  BY <3>3 DEF Delivered
    <3>6. \A r \in Procs : \A i \in Delivered(r) : <<q, id>> = <<r, i>> => id \in Delivered(q)
      OBVIOUS
    <3> QED  BY <3>3, <3>4, <3>5, <3>6, OutIs
  <2>5. Out' \subseteq Out  BY <1>0, <1>3, <2>1 DEF BatchSend
  <2>6. Abstract!Begin(b)
    BY <1>0, <1>1, <2>1, <2>2, <2>3, <2>4, <2>5, Begins
  <2> QED  BY <1>0, <2>6 DEF Abstract!Next
<1>5. CASE BatchRegister(b)
  <2>1. PICK id \in IdsOf[b] \ want[b] : want' = [want EXCEPT ![b] = @ \cup {id}]
    BY <1>5 DEF BatchRegister
  <2>2. /\ pc[b] = "register" /\ UNCHANGED got
        /\ pc'[b] = IF want'[b] = IdsOf[b] THEN "send" ELSE "register"
    BY <1>0, <1>5 DEF BatchRegister, CallTypes
  <2>3. Phase(b)' = Phase(b)  BY <1>0, <2>2, PhaseIs, PhaseIsNext
  <2>4. Waiting(b)' = Waiting(b)  BY <1>2, <2>2
  <2>5. Out' \subseteq Out  BY <1>0, <1>3, <2>2 DEF BatchSend
  <2>6. Abstract!Lose  BY <1>1, <2>2, <2>3, <2>4, <2>5, Loses DEF Others
  <2> QED  BY <2>6 DEF Abstract!Next
<1>6. CASE BatchSend(b)
  <2>1. pc[b] = "send" /\ pc'[b] = "wait" /\ UNCHANGED <<want[b], got[b]>>
    BY <1>0, <1>6 DEF BatchSend, CallTypes
  <2>2. Phase(b) = "asking" /\ Phase(b)' = "waiting"
    BY <1>0, <2>1, PhaseIs, PhaseIsNext
  <2>3. Waiting(b)' = Waiting(b) /\ Waiting(b) = want[b]  BY <1>2, <2>1
  <2>4. Out' = Out \cup ({b} \X want[b])  BY <1>0, <1>6, OutAsked
  <2>5. Abstract!Ask(b)  BY <1>0, <1>1, <2>1, <2>2, <2>3, <2>4, Asks
  <2> QED  BY <1>0, <2>5 DEF Abstract!Next
<1>7. CASE BatchCollect(b)
  <2>1. PICK id \in want[b], q \in Procs :
          /\ q \in buf[b][id]
          /\ got' = [got EXCEPT ![b] = @ \cup {<<q, id>>}]
          /\ want' = [want EXCEPT ![b] = @ \ {id}]
    BY <1>7 DEF BatchCollect
  <2>2. /\ pc[b] = "wait"
        /\ pc'[b] = IF want'[b] = {} THEN "unregister" ELSE "wait"
    BY <1>0, <1>7 DEF BatchCollect, CallTypes
  <2>3. id \in Ids /\ q = b
    BY <1>0, <2>1 DEF DeliveredToOwner, CallTypes
  <2>4. id \in Delivered(b)  BY <1>0, <2>1, <2>3 DEF Delivered
  <2>5. <<b, id>> \in Out  BY <1>0, <2>4, OutIs
  <2>6. got'[b] = got[b] \cup {<<b, id>>} /\ want'[b] = want[b] \ {id}
    BY <1>0, <2>1, <2>3 DEF CallTypes
  <2>7. Waiting(b) = want[b] /\ Waiting(b)' = want'[b]  BY <1>2, <2>2
  <2>8. /\ Phase(b) = "waiting"
        /\ Phase(b)' = IF want'[b] = {} THEN "replied" ELSE "waiting"
    BY <1>0, <2>2, PhaseIs, PhaseIsNext
  <2>9. Out' \subseteq Out  BY <1>0, <1>3, <2>2 DEF BatchSend
  <2>10. id \in Waiting(b)  BY <2>1, <2>7
  <2>11. Waiting(b)' = Waiting(b) \ {id}  BY <2>6, <2>7
  <2>12. Phase(b)' = IF Waiting(b)' = {} THEN "replied" ELSE "waiting"  BY <2>7, <2>8
  <2>13. Abstract!Take(b)
    BY <1>0, <1>1, <2>5, <2>6, <2>8, <2>9, <2>10, <2>11, <2>12, Takes
  <2> QED  BY <1>0, <2>13 DEF Abstract!Next
<1>8. CASE BatchSendError(b) \/ BatchGiveUp(b)
  <2>1. /\ pc[b] \in {"send", "wait"} /\ pc'[b] = "unregister"
        /\ UNCHANGED <<want[b], got[b]>>
    BY <1>0, <1>8 DEF BatchSendError, BatchGiveUp, CallTypes
  <2>2. want'[b] # {}  BY <2>1 DEF BatchesAsk
  <2>3. Phase(b) \in {"asking", "waiting"} /\ Phase(b)' = "failed"
    BY <1>0, <2>1, <2>2, PhaseIs, PhaseIsNext
  <2>4. UNCHANGED <<Waiting(b), got[b]>>  BY <1>2, <2>1
  <2>5. Out' \subseteq Out
    <3>1. BatchSend(b) => pc'[b] = "wait"  BY <1>0 DEF BatchSend, CallTypes
    <3> QED  BY <1>3, <2>1, <3>1
  <2>6. Abstract!Fail(b)  BY <1>0, <1>1, <2>3, <2>4, <2>5, Fails
  <2> QED  BY <1>0, <2>6 DEF Abstract!Next
<1>9. CASE BatchUnregister(b) \/ BatchClose(b)
  <2>1. /\ pc[b] \in {"unregister", "close"}
        /\ \/ pc'[b] = "close"
           \/ pc'[b] = "replied" /\ want[b] = {}
           \/ pc'[b] \in {"failed", "panicked"} /\ want[b] # {}
        /\ UNCHANGED <<want[b], got>>
    BY <1>0, <1>9 DEF BatchUnregister, BatchClose, CallTypes
  <2>2. Phase(b)' = Phase(b)
    BY <1>0, <2>1, PhaseIs, PhaseIsNext DEF Idle
  <2>3. Waiting(b)' = Waiting(b)  BY <1>2, <2>1
  <2>4. Out' \subseteq Out  BY <1>0, <1>3, <2>1 DEF BatchSend
  <2>5. Abstract!Lose  BY <1>1, <2>1, <2>2, <2>3, <2>4, Loses DEF Others
  <2> QED  BY <2>5 DEF Abstract!Next
<1> QED  BY <1>4, <1>5, <1>6, <1>7, <1>8, <1>9 DEF SendBatchRequest

\* The steps of the scanner, of Stop and of the peer change no call; a handler
\* that returns lets the reader make calls again.
LEMMA OthersImplement ==
  ASSUME AskInv, AskInv', [Next]_vars,
         \/ Scanner \/ Stop \/ CancelStart \/ Peer \/ UNCHANGED vars
  PROVE  Abstract!Next
<1> USE DEF AskInv, IInv, Typed
<1>1. Out' \subseteq Out
  <2>1. atPeer' \subseteq atPeer
    <3>1. ASSUME PeerAnswer \/ PeerAnswerBatch \/ PeerRequest  PROVE atPeer' \subseteq atPeer
      BY <3>1, PeerLine
    <3> QED
      BY <3>1 DEF Scanner, ReadLine, HandleResponse, HandlerReturns, ReaderExit, Stop,
         StopSignal, Cleanup, CancelStart, Peer, PeerExit, vars
  <2>2. (\A q \in Procs : pc'[q] = pc[q]) \/ HandlerReturns
    BY DEF Scanner, ReadLine, HandleResponse, ReaderExit, Stop, StopSignal, Cleanup,
       CancelStart, Peer, PeerAnswer, PeerAnswerBatch, PeerRequest, PeerExit, vars
  <2>3. \A q \in Singles : ~Send(q)
    <3> SUFFICES ASSUME NEW q \in Singles, Send(q)  PROVE FALSE
      OBVIOUS
    <3>1. pc[q] = "send" /\ pc'[q] = "register"
      BY Domains DEF Send, CallTypes
    <3>2. HandlerReturns => pc'[q] \in {"idle", pc[q]}
      BY Domains DEF HandlerReturns, CallTypes
    <3> QED  BY <2>2, <3>1, <3>2, Domains
  <2>4. \A b \in Batchers : ~BatchSend(b)
    <3> SUFFICES ASSUME NEW b \in Batchers, BatchSend(b)  PROVE FALSE
      OBVIOUS
    <3>1. pc[b] = "send" /\ pc'[b] = "wait"
      BY Domains DEF BatchSend, CallTypes
    <3>2. HandlerReturns => pc'[b] = pc[b]
      BY Domains DEF HandlerReturns, CallTypes
    <3> QED  BY <2>2, <3>1, <3>2, Domains
  <2> QED  BY <2>3, <2>4, OutShrinks
<1>2. CASE UNCHANGED <<pc, want, got>>
  <2>1. \A q \in Procs : UNCHANGED <<Phase(q), Waiting(q)>>
    BY <1>2, SameCall
  <2>2. Abstract!Lose  BY <1>1, <1>2, <2>1, Loses
  <2> QED  BY <2>2 DEF Abstract!Next
<1>3. CASE HandlerReturns
  <2>1. Reader \in Procs /\ Reader \notin Batchers /\ CallTypes  BY Domains
  <2>2. /\ pc[Reader] \in Idle \cup {Recovered}
        /\ pc' = [pc EXCEPT ![Reader] = "idle"]
        /\ UNCHANGED <<want, got, buf, atPeer, cur, inbox>>
    BY <1>3 DEF HandlerReturns
  <2>3. Phase(Reader) \in Idle /\ Phase(Reader)' = "idle"
    BY <2>1, <2>2, PhaseIs, PhaseIsNext DEF Idle, CallTypes
  <2>4. Others(Reader)
    BY <2>1, <2>2, OthersStay DEF CallTypes
  <2>5. [q \in Procs |-> Phase(q)]' = [[q \in Procs |-> Phase(q)] EXCEPT ![Reader] = "idle"]
    BY <2>1, <2>3, <2>4 DEF Others
  <2>6. UNCHANGED [q \in Procs |-> Waiting(q)]
    <3>1. Waiting(Reader)' = Waiting(Reader)  BY <2>1, <2>2 DEF Waiting
    <3> QED  BY <2>4, <3>1 DEF Others
  <2>7. Out' = Out
    <3>1. \A q \in Singles : pc'[q] = "wait" <=> pc[q] = "wait"
      BY <2>1, <2>2, Domains DEF CallTypes, Idle, Recovered
    <3>2. \A q \in Procs : Delivered(q)' = Delivered(q)
      BY <2>2, <3>1 DEF Delivered
    <3> QED  BY <2>2, <3>2 DEF Out
  <2>8. [q \in Procs |-> Phase(q)][Reader] \in Abstract!Over
    BY <2>1, <2>3 DEF Abstract!Over, Idle
  <2>9. Abstract!Rest(Reader)
    BY <2>2, <2>5, <2>6, <2>7, <2>8 DEF Abstract!Rest
  <2> QED  BY <2>1, <2>9 DEF Abstract!Next
<1> QED
  BY <1>2, <1>3 DEF Scanner, ReadLine, HandleResponse, ReaderExit, Stop, StopSignal,
     Cleanup, CancelStart, Peer, PeerAnswer, PeerAnswerBatch, PeerRequest, PeerExit, vars

\* An endpoint that has just been made has no calls.
LEMMA InitImplements == Init => Abstract!Init
<1> SUFFICES ASSUME Init  PROVE Abstract!Init
  OBVIOUS
<1>1. \A q \in Procs : Phase(q) = "idle" /\ Waiting(q) = {}
  BY PhaseIs DEF Init, Waiting, Idle
<1>2. Out = {}
  <2> SUFFICES ASSUME NEW r \in Out  PROVE FALSE
    OBVIOUS
  <2>1. LineTypes  BY InitIInv DEF IInv, Typed
  <2>2. ~InTransit(r)
    <3>1. Len(<< >>) = 0  OBVIOUS
    <3> QED  BY <3>1 DEF Init, InTransit
  <2>3. \A p \in Procs : Delivered(p) = {}  BY DEF Init, Delivered
  <2> QED  BY <2>1, <2>2, <2>3, OutIs
<1>3. got = [q \in Procs |-> {}]  BY DEF Init
<1> QED  BY <1>1, <1>2, <1>3 DEF Abstract!Init

\* Whatever the order of answers, deadlines, batches and Stop, an endpoint that
\* finds the waiting call by the id alone (transport.go:397-405) does what
\* RequestReply does, where a call takes the answers to its own requests.
THEOREM Correlation == Spec => ImplementsRequestReply
<1>1. AskInv /\ AskInv' /\ [Next]_vars => [Abstract!Next]_(Abstract!replyvars)
  BY SinglesImplement, BatchesImplement, OthersImplement DEF Next
<1> QED
  BY InitImplements, <1>1, AskInvariant, PTL DEF Spec, ImplementsRequestReply, Abstract!Spec
=============================================================================
