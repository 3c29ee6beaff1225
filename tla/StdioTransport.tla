--------------------------- MODULE StdioTransport ---------------------------
(***************************************************************************)
(* Request/response correlation of one StdioTransport endpoint             *)
(* (pkg/transport/stdio.go over the BaseTransport of transport.go).        *)
(*                                                                         *)
(* Caller goroutines run SendRequest, batcher goroutines run               *)
(* SendBatchRequest, one scanner goroutine (the reader) runs               *)
(* processMessage for each line, and Stop runs once.  They share the       *)
(* pendingRequests map and its channels.  Every section under the          *)
(* BaseTransport mutex, every channel operation and every write of a line  *)
(* is one action.  The peer process at the other end of the pipes is       *)
(* external: it may answer in any order, more than once, or never, may     *)
(* answer with a null result, may send requests and may close its end.     *)
(***************************************************************************)
EXTENDS Integers, FiniteSets, Sequences

CONSTANTS
  Callers,      \* goroutines that call SendRequest
  Batchers,     \* goroutines that call SendBatchRequest
  Reader,       \* the scanner goroutine, also the caller of nested requests
  None,         \* "no channel registered"
  BatchIds,     \* request ids the applications put in batches
  IdsOf,        \* IdsOf[b]: the ids of the batch that b sends
  MaxID,        \* bound on nextID
  MaxInbox,     \* bound on unread lines from the peer
  Nested,       \* may a request handler itself call SendRequest?
  Closable      \* does closing the reader make a waiting Scan return?

Singles == Callers \cup {Reader}
Procs   == Singles \cup Batchers
GenIds  == 1..MaxID
Ids     == GenIds \cup BatchIds

(***************************************************************************)
(* Ids of a batch are chosen by the application; requests outstanding at   *)
(* the same time are expected to carry different ids, and none of them     *)
(* looks like a generated "req_N".                                         *)
(***************************************************************************)
ASSUME StdioAssumption ==
  /\ MaxID \in Nat /\ MaxInbox \in Nat
  /\ Nested \in BOOLEAN /\ Closable \in BOOLEAN
  /\ None \notin Procs
  /\ Reader \notin Callers \cup Batchers
  /\ Callers \cap Batchers = {}
  /\ BatchIds \cap Int = {}
  /\ IdsOf \in [Batchers -> SUBSET BatchIds]
  /\ \A a, b \in Batchers : a # b => IdsOf[a] \cap IdsOf[b] = {}

VARIABLES
  nextID,   \* BaseTransport.nextID
  pc,       \* where each goroutine is in SendRequest / SendBatchRequest
  want,     \* ids the call still waits for (id, or the keys of responseMap)
  got,      \* the requests whose responses the call has received
  pending,  \* pendingRequests: id -> owner of the registered channel
  chan,     \* the channel process p made for an id: "none", "open", "closed"
  buf,      \* its one-slot buffer: the requester that a response answers
  atPeer,   \* requests written to the pipe and not yet forgotten by the peer
  inbox,    \* lines from the peer that Scan has not returned yet
  reader,   \* the scanner goroutine: "scan", "deliver", "handler", "exited"
  cur,      \* responses of the line in hand still to be dispatched
  input,    \* "open", "eof" (peer closed), "cancelled" (Start's context), "gone" (both)
  stop      \* Stop: "no", "signalled" (done is closed), "cleaned"

vars == <<nextID, pc, want, got, pending, chan, buf, atPeer, inbox,
          reader, cur, input, stop>>

callVars   == <<nextID, pc, want, got>>
chanVars   == <<pending, chan, buf>>
readerVars == <<reader, cur, input>>

Requests == Procs \X Ids           \* <<requester, id>>
Line == [kind : {"responses"}, of : Seq(Requests) \ {<< >>}]
          \cup [kind : {"null", "request"}, of : {<< >>}]

Idle     == {"idle", "replied", "failed"}
InFlight == {"send", "register", "wait", "unregister", "close"}
Recovered == "recovered"           \* a panic that HandleRequest recovered
PcState  == Idle \cup InFlight \cup {"panicked", Recovered}

(***************************************************************************)
(* A panic outside the reader is not recovered and ends the process.       *)
(***************************************************************************)
Crashed == \E p \in Procs : pc[p] = "panicked"

done == stop # "no"                \* the done channel is closed

TypeOK ==
  /\ nextID \in 1..(MaxID + 1)
  /\ pc \in [Procs -> PcState]
  /\ want \in [Procs -> SUBSET Ids]
  /\ got \in [Procs -> SUBSET Requests]
  /\ pending \in [Ids -> Procs \cup {None}]
  /\ chan \in [Procs -> [Ids -> {"none", "open", "closed"}]]
  /\ buf \in [Procs -> [Ids -> SUBSET Procs]]
  /\ atPeer \in SUBSET Requests
  /\ inbox \in Seq(Line)
  /\ reader \in {"scan", "deliver", "handler", "exited"}
  /\ cur \in Seq(Requests)
  /\ input \in {"open", "eof", "cancelled", "gone"}
  /\ stop \in {"no", "signalled", "cleaned"}

Init ==
  /\ nextID = 1
  /\ pc = [p \in Procs |-> "idle"]
  /\ want = [p \in Procs |-> {}]
  /\ got = [p \in Procs |-> {}]
  /\ pending = [i \in Ids |-> None]
  /\ chan = [p \in Procs |-> [i \in Ids |-> "none"]]
  /\ buf = [p \in Procs |-> [i \in Ids |-> {}]]
  /\ atPeer = {}
  /\ inbox = << >>
  /\ reader = "scan"
  /\ cur = << >>
  /\ input = "open"
  /\ stop = "no"

Goto(p, from, to) == pc[p] = from /\ pc' = [pc EXCEPT ![p] = to]

\* A channel is made for p and id and stored in pendingRequests.
Register(p, id) ==
  /\ pending' = [pending EXCEPT ![id] = p]
  /\ chan' = [chan EXCEPT ![p][id] = "open"]
  /\ buf' = [buf EXCEPT ![p][id] = {}]

-----------------------------------------------------------------------------
(* SendRequest *)

\* Mutant of GenerateID: nextID is read but not advanced.
RepeatID(p) ==
  /\ nextID <= MaxID
  /\ pc[p] \in Idle
  /\ p = Reader => reader = "handler"
  /\ pc' = [pc EXCEPT ![p] = "send"]
  /\ want' = [want EXCEPT ![p] = {nextID}]
  /\ got' = [got EXCEPT ![p] = {}]
  /\ UNCHANGED <<nextID, chanVars, atPeer, inbox, readerVars, stop>>

\* GenerateID: the id is taken under the lock.  The reader calls SendRequest
\* only from inside a request handler, with context.Background().
GenerateID(p) ==
  /\ nextID <= MaxID
  /\ pc[p] \in Idle
  /\ p = Reader => reader = "handler"
  /\ pc' = [pc EXCEPT ![p] = "send"]
  /\ want' = [want EXCEPT ![p] = {nextID}]
  /\ got' = [got EXCEPT ![p] = {}]
  /\ nextID' = nextID + 1
  /\ UNCHANGED <<chanVars, atPeer, inbox, readerVars, stop>>

\* The line is written and flushed: the peer can see it from now on.
Send(p) ==
  /\ Goto(p, "send", "register")
  /\ atPeer' = atPeer \cup ({p} \X want[p])
  /\ UNCHANGED <<nextID, want, got, chanVars, inbox, readerVars, stop>>

SendError(p) ==
  /\ Goto(p, "send", "failed")
  /\ UNCHANGED <<nextID, want, got, chanVars, atPeer, inbox,
                 readerVars, stop>>

\* The first half of WaitForResponse.
WaitRegister(p) ==
  /\ Goto(p, "register", "wait")
  /\ \E id \in want[p] : Register(p, id)
  /\ UNCHANGED <<nextID, want, got, atPeer, inbox, readerVars, stop>>

\* select: a response is in the channel.
Receive(p) ==
  /\ Goto(p, "wait", "replied")
  /\ \E id \in want[p], q \in Procs :
        /\ q \in buf[p][id]
        /\ got' = [got EXCEPT ![p] = {<<q, id>>}]
        /\ buf' = [buf EXCEPT ![p][id] = {}]
  /\ want' = [want EXCEPT ![p] = {}]
  /\ UNCHANGED <<nextID, pending, chan, atPeer, inbox, readerVars, stop>>

\* select: the channel was closed by Cleanup.  WaitForResponse returns
\* (nil, nil) and SendRequest dereferences pResp.Error.
ReceiveClosed(p) ==
  /\ Goto(p, "wait", IF p = Reader THEN Recovered ELSE "panicked")
  /\ \E id \in want[p] : chan[p][id] = "closed"
  /\ UNCHANGED <<nextID, want, got, chanVars, atPeer, inbox,
                 readerVars, stop>>

\* Mutant of GiveUp: the select has no ctx.Done() case.
NeverGiveUp(p) == FALSE

\* select: ctx.Done().  The context may be done at any time.
GiveUp(p) ==
  /\ Goto(p, "wait", "unregister")
  /\ UNCHANGED <<nextID, want, got, chanVars, atPeer, inbox,
                 readerVars, stop>>

\* Mutant of WaitUnregister: the entry stays in the map.
ForgetUnregister(p) ==
  /\ Goto(p, "unregister", "failed")
  /\ UNCHANGED <<nextID, want, got, chanVars, atPeer, inbox, readerVars, stop>>

\* The deferred delete after ctx.Done(), under the lock.
WaitUnregister(p) ==
  /\ Goto(p, "unregister", "failed")
  /\ pending' = [i \in Ids |-> IF i \in want[p] THEN None ELSE pending[i]]
  /\ UNCHANGED <<nextID, want, got, chan, buf, atPeer, inbox,
                 readerVars, stop>>
-----------------------------------------------------------------------------
(* SendBatchRequest: register every id, send, poll, then clean up. *)

\* One batch per goroutine.  A batch of notifications only registers nothing
\* and waits for nothing; it is left out.
BatchStart(b) ==
  /\ pc[b] = "idle"
  /\ IdsOf[b] # {}
  /\ pc' = [pc EXCEPT ![b] = "register"]
  /\ got' = [got EXCEPT ![b] = {}]
  /\ UNCHANGED <<nextID, want, chanVars, atPeer, inbox, readerVars, stop>>

\* One iteration of the registration loop; its last one leads to Send.
BatchRegister(b) ==
  /\ pc[b] = "register"
  /\ \E id \in IdsOf[b] \ want[b] :
        /\ Register(b, id)
        /\ want' = [want EXCEPT ![b] = @ \cup {id}]
        /\ pc' = [pc EXCEPT ![b] = IF want'[b] = IdsOf[b] THEN "send" ELSE @]
  /\ UNCHANGED <<nextID, got, atPeer, inbox, readerVars, stop>>

BatchSend(b) ==
  /\ Goto(b, "send", "wait")
  /\ atPeer' = atPeer \cup ({b} \X want[b])
  /\ UNCHANGED <<nextID, want, got, chanVars, inbox, readerVars, stop>>

BatchSendError(b) ==
  /\ Goto(b, "send", "unregister")
  /\ UNCHANGED <<nextID, want, got, chanVars, atPeer, inbox,
                 readerVars, stop>>

\* A poll finds a response; a closed channel yields nil and is skipped.
BatchCollect(b) ==
  /\ pc[b] = "wait"
  /\ \E id \in want[b], q \in Procs :
        /\ q \in buf[b][id]
        /\ got' = [got EXCEPT ![b] = @ \cup {<<q, id>>}]
        /\ buf' = [buf EXCEPT ![b][id] = {}]
        /\ want' = [want EXCEPT ![b] = @ \ {id}]
  /\ pc' = [pc EXCEPT ![b] = IF want'[b] = {} THEN "unregister" ELSE @]
  /\ UNCHANGED <<nextID, pending, chan, atPeer, inbox, readerVars, stop>>

\* ctx.Done() or the 30 second timer.
BatchGiveUp(b) ==
  /\ Goto(b, "wait", "unregister")
  /\ UNCHANGED <<nextID, want, got, chanVars, atPeer, inbox,
                 readerVars, stop>>

\* Mutant of BatchUnregister: the whole map is cleared.
BatchClearMap(b) ==
  /\ Goto(b, "unregister", "close")
  /\ pending' = [i \in Ids |-> None]
  /\ UNCHANGED <<nextID, want, got, chan, buf, atPeer, inbox, readerVars, stop>>

\* The deferred clean-up, first part: delete the remaining ids under the lock.
BatchUnregister(b) ==
  /\ Goto(b, "unregister", "close")
  /\ pending' = [i \in Ids |-> IF i \in want[b] THEN None ELSE pending[i]]
  /\ UNCHANGED <<nextID, want, got, chan, buf, atPeer, inbox,
                 readerVars, stop>>

\* Second part, without the lock: close the remaining channels.  Closing a
\* channel that Cleanup closed already panics.
BatchClose(b) ==
  /\ pc[b] = "close"
  /\ pc' = [pc EXCEPT ![b] =
              IF \E id \in want[b] : chan[b][id] = "closed" THEN "panicked"
              ELSE IF want[b] = {} THEN "replied" ELSE "failed"]
  /\ chan' = [chan EXCEPT ![b] =
                [i \in Ids |-> IF i \in want[b] THEN "closed" ELSE chan[b][i]]]
  /\ UNCHANGED <<nextID, want, got, pending, buf, atPeer, inbox,
                 readerVars, stop>>
-----------------------------------------------------------------------------
(* The scanner goroutine *)

\* Scan returns a line and neither done nor the group context is set.
ReadLine ==
  /\ reader = "scan"
  /\ ~done
  /\ input \in {"open", "eof"}
  /\ inbox # << >>
  /\ LET line == Head(inbox)
     IN /\ reader' = CASE line.kind = "responses" -> "deliver"
                       [] line.kind = "request" /\ Nested -> "handler"
                       [] OTHER -> "scan"   \* error handler, or a plain reply
        /\ cur' = line.of
  /\ inbox' = Tail(inbox)
  /\ UNCHANGED <<callVars, chanVars, atPeer, input, stop>>

\* Mutant of HandleResponse: the entry is not deleted after the send.
HandleResponseKeep ==
  /\ reader = "deliver"
  /\ LET p == pending[Head(cur)[2]]
     IN IF p = None THEN UNCHANGED chanVars
        ELSE /\ buf' = [buf EXCEPT ![p][Head(cur)[2]] = {Head(cur)[1]}]
             /\ UNCHANGED <<pending, chan>>
  /\ cur' = Tail(cur)
  /\ reader' = IF Len(cur) = 1 THEN "scan" ELSE "deliver"
  /\ UNCHANGED <<callVars, atPeer, inbox, input, stop>>

\* BaseTransport.HandleResponse for the next response of the line.  The send
\* happens under the lock, so it must find the channel open and empty.
HandleResponse ==
  /\ reader = "deliver"
  /\ LET from == Head(cur)[1]
         id   == Head(cur)[2]
         p    == pending[id]
     IN \/ /\ p = None
           /\ UNCHANGED chanVars
        \/ /\ p # None
           /\ chan[p][id] = "open" /\ buf[p][id] = {}
           /\ buf' = [buf EXCEPT ![p][id] = {from}]
           /\ pending' = [pending EXCEPT ![id] = None]
           /\ UNCHANGED chan
  /\ cur' = Tail(cur)
  /\ reader' = IF Len(cur) = 1 THEN "scan" ELSE "deliver"
  /\ UNCHANGED <<callVars, atPeer, inbox, input, stop>>

\* The handler returns (or its panic is recovered) and its reply is sent.
HandlerReturns ==
  /\ reader = "handler"
  /\ pc[Reader] \in Idle \cup {Recovered}
  /\ reader' = "scan"
  /\ pc' = [pc EXCEPT ![Reader] = "idle"]
  /\ UNCHANGED <<nextID, want, got, chanVars, atPeer, inbox, cur,
                 input, stop>>

\* Scan has a line or the end of the input, or its reader was closed: by the
\* monitor goroutine, if it is an io.Closer at all, and even then the Close of
\* an os.File such as os.Stdin need not reach a Read that is waiting.
ScanReturns == Closable \/ inbox # << >> \/ input \in {"eof", "gone"}

\* Scan returns and finds the input at its end, or done or the group context
\* set; the line it may have read is dropped.
ReaderExit ==
  /\ reader = "scan"
  /\ \/ done \/ input \in {"cancelled", "gone"}
     \/ input = "eof" /\ inbox = << >>
  /\ ScanReturns
  /\ reader' = "exited"
  /\ UNCHANGED <<callVars, chanVars, atPeer, inbox, cur, input, stop>>

\* Mutant of CancelStart: the monitor goroutine closes the waiters' channels.
CancelStartCleanup ==
  /\ input \in {"open", "eof"}
  /\ input' = IF input = "open" THEN "cancelled" ELSE "gone"
  /\ chan' = [p \in Procs |-> [i \in Ids |->
                IF pending[i] = p THEN "closed" ELSE chan[p][i]]]
  /\ pending' = [i \in Ids |-> None]
  /\ UNCHANGED <<callVars, buf, atPeer, inbox, reader, cur, stop>>

\* Start's context is cancelled: the monitor goroutine closes the reader, if
\* it can.
CancelStart ==
  /\ input \in {"open", "eof"}
  /\ input' = IF input = "open" THEN "cancelled" ELSE "gone"
  /\ UNCHANGED <<callVars, chanVars, atPeer, inbox, reader, cur, stop>>
-----------------------------------------------------------------------------
(* Stop *)

StopSignal ==
  /\ stop = "no"
  /\ stop' = "signalled"
  /\ UNCHANGED <<callVars, chanVars, atPeer, inbox, readerVars>>

\* Cleanup: close every registered channel, replace the map.
Cleanup ==
  /\ stop = "signalled"
  /\ stop' = "cleaned"
  /\ chan' = [p \in Procs |-> [i \in Ids |->
                IF pending[i] = p THEN "closed" ELSE chan[p][i]]]
  /\ pending' = [i \in Ids |-> None]
  /\ UNCHANGED <<callVars, buf, atPeer, inbox, readerVars>>
-----------------------------------------------------------------------------
(* The peer (external) *)

\* The peer's end is open, and nobody closed the reader.
PeerWrites == input = "open" \/ (input = "cancelled" /\ ~Closable)

Answerable == {r \in atPeer : Len(inbox) < MaxInbox}

\* Answer one request; keep it to answer it again, perhaps.
PeerAnswer ==
  /\ PeerWrites
  /\ \E r \in Answerable, keep \in BOOLEAN, k \in {"responses", "null"} :
        /\ inbox' = Append(inbox, [kind |-> k,
                             of |-> IF k = "null" THEN << >> ELSE <<r>>])
        /\ atPeer' = IF keep THEN atPeer ELSE atPeer \ {r}
  /\ UNCHANGED <<callVars, chanVars, readerVars, stop>>

\* Answer two requests of a batch in one line.
PeerAnswerBatch ==
  /\ PeerWrites
  /\ \E r, s \in Answerable :
        /\ r # s /\ r[1] = s[1]
        /\ inbox' = Append(inbox, [kind |-> "responses", of |-> <<r, s>>])
        /\ atPeer' = atPeer \ {r, s}
  /\ UNCHANGED <<callVars, chanVars, readerVars, stop>>

PeerRequest ==
  /\ PeerWrites
  /\ Len(inbox) < MaxInbox
  /\ inbox' = Append(inbox, [kind |-> "request", of |-> << >>])
  /\ UNCHANGED <<callVars, chanVars, atPeer, readerVars, stop>>

PeerExit ==
  /\ PeerWrites
  /\ input' = IF input = "open" THEN "eof" ELSE "gone"
  /\ UNCHANGED <<callVars, chanVars, atPeer, inbox, reader, cur, stop>>
-----------------------------------------------------------------------------
SendRequest(p) ==
  \/ Send(p) \/ SendError(p) \/ WaitRegister(p)
  \/ Receive(p) \/ ReceiveClosed(p) \/ GiveUp(p) \/ WaitUnregister(p)

SendBatchRequest(b) ==
  \/ BatchRegister(b) \/ BatchSend(b) \/ BatchSendError(b) \/ BatchCollect(b)
  \/ BatchGiveUp(b) \/ BatchUnregister(b) \/ BatchClose(b)

Scanner == ReadLine \/ HandleResponse \/ HandlerReturns \/ ReaderExit

Stop == StopSignal \/ Cleanup

Peer == PeerAnswer \/ PeerAnswerBatch \/ PeerRequest \/ PeerExit

Next ==
  /\ ~Crashed
  /\ \/ \E p \in Singles : GenerateID(p) \/ SendRequest(p)
     \/ \E b \in Batchers : BatchStart(b) \/ SendBatchRequest(b)
     \/ Scanner
     \/ Stop
     \/ CancelStart
     \/ Peer

Spec == Init /\ [][Next]_vars

(***************************************************************************)
(* Goroutines keep running (the Go scheduler is fair to runnable ones), a  *)
(* context given to SendRequest has a deadline and a batch has its timer;  *)
(* the context that processMessage gives to request handlers, and they to  *)
(* their own requests, is context.Background() and never done.  Nothing is *)
(* assumed of the peer, of Stop being called, nor of new calls.            *)
(***************************************************************************)
Fairness ==
  /\ \A p \in Callers : WF_vars(~Crashed /\ SendRequest(p))
  /\ WF_vars(~Crashed /\ SendRequest(Reader) /\ ~GiveUp(Reader))
  /\ \A b \in Batchers : WF_vars(~Crashed /\ SendBatchRequest(b))
  /\ WF_vars(~Crashed /\ Scanner)
  /\ WF_vars(~Crashed /\ Cleanup)

FairSpec == Spec /\ Fairness
-----------------------------------------------------------------------------
(* Properties *)

\* A channel in pendingRequests is open and empty.  HandleResponse sends into
\* it while it holds the mutex: a full channel would block the reader with
\* the lock held, a closed one would panic with the lock held, and either
\* would stop every later call (transport.go:397).
RegisteredChannelReady ==
  \A id \in Ids : pending[id] # None =>
     /\ chan[pending[id]][id] = "open"
     /\ buf[pending[id]][id] = {}

\* A call returns only answers the peer gave to requests of that same call,
\* however calls, batches, repeated answers and retries of ids interleave.
ReplyIsOwn ==
  \A p \in Procs : \A r \in got[p] : r[1] = p

\* An entry of pendingRequests belongs to a call that is still waiting for
\* that id and will remove it: nothing leaks when calls time out or fail.
NoLeakedRegistration ==
  \A id \in Ids : pending[id] # None =>
     /\ id \in want[pending[id]]
     /\ pc[pending[id]] \in {"register", "send", "wait", "unregister"}

\* No interleaving of calls, batches, answers and deadlines panics in a
\* caller's goroutine, as long as the transport is not being stopped.
CrashOnlyByStop == Crashed => stop = "cleaned"

\* A registration disappears only because its answer was put in its channel,
\* its channel was closed by Stop, or its own call is unregistering it: the
\* clean-up of one call never removes the entry of another.
RegistrationStable ==
  [][\A id \in Ids : pending[id] # None /\ pending'[id] # pending[id] =>
       \/ buf'[pending[id]][id] # {}
       \/ chan'[pending[id]][id] = "closed"
       \/ pc[pending[id]] = "unregister"]_vars

\* Every call returns, whatever the peer does, once its deadline passes
\* (or the process has crashed in Stop).
CallsReturn ==
  \A p \in Callers \cup Batchers :
     pc[p] \in InFlight ~> (pc[p] \notin InFlight \/ Crashed)

\* A handler on the scanner goroutine waits for the answer to a request of its
\* own after Cleanup.  If it registered after Cleanup nothing closes its
\* channel, its context is context.Background() (stdio.go:301) and the only
\* goroutine that could bring the answer is the one that waits.
NestedWaits == reader = "handler" /\ pc[Reader] = "wait" /\ stop = "cleaned"

\* Scan waits for a line in a reader that cannot be closed under it.
ScanWaits ==
  /\ ~Closable /\ reader = "scan"
  /\ inbox = << >> /\ input \in {"open", "cancelled"}

\* After Stop the scanner goroutine ends, in whatever line Stop caught it, so
\* that Start's errgroup can return (stdio.go:85, 127-131), unless it stays in
\* one of these two waits for ever.
StopEndsReader ==
  done ~> (reader = "exited" \/ Crashed \/ []NestedWaits \/ []ScanWaits)

\* stdio.go:386 promises that the id is in pendingRequests before the request
\* is sent; then an answer that the reader dispatches while its call is
\* under way, and not yet answered, finds the call's channel registered.
AnswerFindsItsCall ==
  reader = "deliver" /\ ~done =>
    LET p  == Head(cur)[1]
        id == Head(cur)[2]
    IN pc[p] \in {"register", "wait"} /\ id \in want[p] /\ buf[p][id] = {}
         => pending[id] = p
-----------------------------------------------------------------------------
(* The endpoint as a RequestReply: no two calls are told apart by more than  *)
(* their ids, and yet each takes the answers to its own requests.            *)

\* The outcome of a call is decided before its clean-up.
Phase(p) ==
  CASE pc[p] \in Idle -> pc[p]
    [] pc[p] = "send" \/ (p \in Batchers /\ pc[p] = "register") -> "asking"
    [] pc[p] = "wait" \/ (p \in Singles /\ pc[p] = "register") -> "waiting"
    [] pc[p] \in {"unregister", "close"} /\ want[p] = {} -> "replied"
    [] OTHER -> "failed"

\* A batch registers one id after the other and has them all to ask for.
Waiting(p) == IF p \in Batchers /\ pc[p] = "register" THEN IdsOf[p] ELSE want[p]

\* Answers that wait in the channels of a call.
Delivered(p) ==
  IF p \in Singles /\ pc[p] # "wait" THEN {} ELSE {id \in want[p] : p \in buf[p][id]}

\* The peer has the request, or its answer is in a line, or in the channel.
Out ==
  atPeer \cup {cur[i] : i \in DOMAIN cur}
    \cup (UNION {{inbox[i].of[j] : j \in DOMAIN inbox[i].of} : i \in DOMAIN inbox})
    \cup (UNION {{p} \X Delivered(p) : p \in Procs})

Abstract == INSTANCE RequestReply WITH
  Callers <- Procs,
  phase   <- [p \in Procs |-> Phase(p)],
  waiting <- [p \in Procs |-> Waiting(p)],
  answers <- got,
  out     <- Out

\* The correlation by id alone is a correlation of requests: an endpoint with
\* late, repeated and reordered answers, deadlines, batches and Stop never
\* does what RequestReply does not (transport.go:397, stdio.go:382, 461).
ImplementsRequestReply == Abstract!Spec
=============================================================================
