------------------------------- MODULE HTTPBatch -------------------------------
(***************************************************************************)
(* Batches over the streamable HTTP transport: SendBatchRequest, and the   *)
(* handling of the messages that carry their responses                     *)
(* (pkg/transport/streamable_http.go).                                     *)
(*                                                                         *)
(* Callers choose the ids of the requests in a batch.  Responses come as   *)
(* arrays, in the answer to the POST or on a stream that another goroutine *)
(* reads; the server may split them, lose them or answer late.  A response *)
(* remembers the batch whose request it answers.  The thirty seconds of    *)
(* the timer and the ten milliseconds of polling are left out.             *)
(***************************************************************************)
EXTENDS Naturals, Sequences, FiniteSets, SequencesExt

CONSTANTS
  Batches,   \* calls of SendBatchRequest, each from a goroutine of its own
  Listener,  \* the goroutine that reads the listener's stream
  IDs,
  Contents,  \* what the batches may hold: functions from Batches to sequences of IDs
  NoBatch

ASSUME BatchAssumption ==
  /\ Contents \subseteq [Batches -> Seq(IDs)]
  /\ NoBatch \notin Batches /\ Listener \notin Batches

Participants == Batches \cup {Listener}

VARIABLES
  content,   \* the ids of the requests of each batch, in order
  at,        \* where each call is
  handlers,  \* responseHandlers: id -> the batch whose channel the handler has
  chans,     \* responseMap and its channels: [batch, id] -> "none", "open",
             \* "removed" (received, and deleted from responseMap) or "closed"
  box,       \* the response in each channel: at most one
  responses, \* what each call has collected
  result,    \* what it has returned
  due,       \* responses of the server that are under way: [of, id]
  mail,      \* the responses of the message that a goroutine handles
  hand,      \* the batch whose handler it has taken, and runs
  ran,       \* goroutines that have run the handler, and are to delete it
  dead       \* a goroutine has sent on a closed channel: the process is dead

batchvars == <<content, at, handlers, chans, box, responses, result, due, mail,
               hand, ran, dead>>

Ids(b) == ToSet(content[b])
Response == [of : Batches, id : IDs]

BatchTypeOK ==
  /\ content \in Contents
  /\ at \in [Batches -> {"idle", "post", "read", "collect", "cleanup", "close", "done"}]
  /\ handlers \in [IDs -> Batches \cup {NoBatch}]
  /\ chans \in [Batches \X IDs -> {"none", "open", "removed", "closed"}]
  /\ \A x \in Batches \X IDs : box[x] \in Seq(Response) /\ Len(box[x]) <= 1
  /\ responses \in [Batches -> Seq(Response)]
  /\ due \subseteq Response
  /\ mail \in [Participants -> Seq(Response)]
  /\ hand \in [Participants -> Batches \cup {NoBatch}]
  /\ ran \subseteq Participants /\ dead \in BOOLEAN

BatchInit ==
  /\ content \in Contents
  /\ at = [b \in Batches |-> "idle"]
  /\ handlers = [i \in IDs |-> NoBatch]
  /\ chans = [x \in Batches \X IDs |-> "none"]
  /\ box = [x \in Batches \X IDs |-> <<>>]
  /\ responses = [b \in Batches |-> <<>>]
  /\ result = [b \in Batches |-> <<>>]
  /\ due = {}
  /\ mail = [g \in Participants |-> <<>>]
  /\ hand = [g \in Participants |-> NoBatch]
  /\ ran = {}
  /\ dead = FALSE

GoFrom(b, from, to) == at[b] = from /\ at' = [at EXCEPT ![b] = to]

-----------------------------------------------------------------------------
(* SendBatchRequest *)

\* A channel and a handler for each id, under one lock.  A handler that is
\* there already is replaced.
Register(b) ==
  /\ GoFrom(b, "idle", "post")
  /\ handlers' = [i \in IDs |-> IF i \in Ids(b) THEN b ELSE handlers[i]]
  /\ chans' = [x \in Batches \X IDs |->
                 IF x[1] = b /\ x[2] \in Ids(b) THEN "open" ELSE chans[x]]
  /\ UNCHANGED <<content, box, responses, result, due, mail, hand, ran, dead>>

\* sendHTTPRequest: the server takes the batch and answers with nothing, or
\* with an array of responses, which the call handles itself.
PostAnswered(b) ==
  /\ GoFrom(b, "post", "read")
  /\ \E now \in SUBSET Ids(b) :
       /\ mail' = [mail EXCEPT ![b] = SetToSeq({[of |-> b, id |-> i] : i \in now})]
       /\ due' = due \cup {[of |-> b, id |-> i] : i \in Ids(b) \ now}
  /\ UNCHANGED <<content, handlers, chans, box, responses, result, hand, ran, dead>>

\* The POST fails, before or after the server has taken the batch.
PostFails(b) ==
  /\ GoFrom(b, "post", "cleanup")
  /\ due' \in {due, due \cup {[of |-> b, id |-> i] : i \in Ids(b)}}
  /\ UNCHANGED <<content, handlers, chans, box, responses, result, mail, hand, ran, dead>>

\* The answer to the POST has been handled.  A batch of notifications only
\* returns an empty response.
PostDone(b) ==
  /\ mail[b] = <<>>
  /\ GoFrom(b, "read", IF content[b] = <<>> THEN "cleanup" ELSE "collect")
  /\ UNCHANGED <<content, handlers, chans, box, responses, result, due, mail, hand, ran, dead>>

\* Mutant of Collect: the channel stays in responseMap.
CollectKeeps(b) ==
  \E i \in Ids(b) :
    /\ at[b] = "collect"
    /\ Len(responses[b]) < Len(content[b])
    /\ box[<<b, i>>] # <<>>
    /\ responses' = [responses EXCEPT ![b] = @ \o box[<<b, i>>]]
    /\ UNCHANGED <<content, at, handlers, chans, box, result, due, mail, hand, ran, dead>>

\* A response is taken from a channel, and the channel from responseMap.
Collect(b) ==
  \E i \in Ids(b) :
    /\ at[b] = "collect"
    /\ Len(responses[b]) < Len(content[b])
    /\ chans[<<b, i>>] = "open" /\ box[<<b, i>>] # <<>>
    /\ responses' = [responses EXCEPT ![b] = @ \o box[<<b, i>>]]
    /\ box' = [box EXCEPT ![<<b, i>>] = <<>>]
    /\ chans' = [chans EXCEPT ![<<b, i>>] = "removed"]
    /\ UNCHANGED <<content, at, handlers, result, due, mail, hand, ran, dead>>

\* The responses in the order of the requests: for each the first that has its
\* id, if there is one.
First(b, i) ==
  LET found == {n \in DOMAIN responses[b] : responses[b][n].id = i}
  IN IF found = {} THEN <<>> ELSE <<responses[b][Min(found)]>>

Ordered(b) ==
  LET with[k \in 0..Len(content[b])] ==
        IF k = 0 THEN <<>> ELSE with[k - 1] \o First(b, content[b][k])
  IN with[Len(content[b])]

Collected(b) ==
  /\ Len(responses[b]) = Len(content[b])
  /\ GoFrom(b, "collect", "cleanup")
  /\ result' = [result EXCEPT ![b] = Ordered(b)]
  /\ UNCHANGED <<content, handlers, chans, box, responses, due, mail, hand, ran, dead>>

\* The timer or the context.
GiveUp(b) ==
  /\ GoFrom(b, "collect", "cleanup")
  /\ UNCHANGED <<content, handlers, chans, box, responses, result, due, mail, hand, ran, dead>>

\* The deferred function: the handlers of the batch's ids are deleted, whose
\* ever they are, then the channels that responseMap still holds are closed.
DeleteHandlers(b) ==
  /\ GoFrom(b, "cleanup", "close")
  /\ handlers' = [i \in IDs |-> IF i \in Ids(b) THEN NoBatch ELSE handlers[i]]
  /\ UNCHANGED <<content, chans, box, responses, result, due, mail, hand, ran, dead>>

CloseChannels(b) ==
  /\ GoFrom(b, "close", "done")
  /\ chans' = [x \in Batches \X IDs |->
                 IF x[1] = b /\ chans[x] = "open" THEN "closed" ELSE chans[x]]
  /\ UNCHANGED <<content, handlers, box, responses, result, due, mail, hand, ran, dead>>

-----------------------------------------------------------------------------
(* handleBatchMessage and HandleResponse *)

\* A message with some of the responses arrives on the stream.
MessageArrives ==
  /\ mail[Listener] = <<>>
  /\ \E rs \in (SUBSET due) \ {{}} :
       /\ mail' = [mail EXCEPT ![Listener] = SetToSeq(rs)]
       /\ due' = due \ rs
  /\ UNCHANGED <<content, at, handlers, chans, box, responses, result, hand, ran, dead>>

\* HandleResponse finds the handler under the lock ...
FindHandler(g) ==
  /\ mail[g] # <<>> /\ hand[g] = NoBatch /\ g \notin ran
  /\ IF handlers[Head(mail[g]).id] = NoBatch
     THEN mail' = [mail EXCEPT ![g] = Tail(@)] /\ UNCHANGED hand
     ELSE hand' = [hand EXCEPT ![g] = handlers[Head(mail[g]).id]] /\ UNCHANGED mail
  /\ UNCHANGED <<content, at, handlers, chans, box, responses, result, due, ran, dead>>

\* ... calls it without, which panics when the channel has been closed and
\* drops the response when there is one already ...
CallHandler(g) ==
  LET x == <<hand[g], Head(mail[g]).id>>
  IN /\ hand[g] # NoBatch
     /\ hand' = [hand EXCEPT ![g] = NoBatch]
     /\ IF chans[x] = "closed"
        THEN dead' = TRUE /\ UNCHANGED <<box, ran>>
        ELSE /\ box' = [box EXCEPT ![x] = IF @ = <<>> THEN <<Head(mail[g])>> ELSE @]
             /\ ran' = ran \cup {g}
             /\ UNCHANGED dead
     /\ UNCHANGED <<content, at, handlers, chans, responses, result, due, mail>>

\* ... and deletes the handler of the id, whose ever it is by now.
ForgetHandler(g) ==
  /\ g \in ran
  /\ ran' = ran \ {g}
  /\ handlers' = [handlers EXCEPT ![Head(mail[g]).id] = NoBatch]
  /\ mail' = [mail EXCEPT ![g] = Tail(@)]
  /\ UNCHANGED <<content, at, chans, box, responses, result, due, hand, dead>>

BatchNext ==
  /\ ~dead
  /\ \/ \E b \in Batches :
          \/ Register(b) \/ PostAnswered(b) \/ PostFails(b) \/ PostDone(b)
          \/ Collect(b) \/ Collected(b) \/ GiveUp(b)
          \/ DeleteHandlers(b) \/ CloseChannels(b)
     \/ MessageArrives
     \/ \E g \in Participants : FindHandler(g) \/ CallHandler(g) \/ ForgetHandler(g)

BatchSpec == BatchInit /\ [][BatchNext]_batchvars

-----------------------------------------------------------------------------
\* A batch that returns has a response to each of its requests, in their order
\* (which one with an id that is twice in the batch can never have), and they
\* are the answers to this batch when no other has used its ids.
BatchAnswersOwn ==
  \A b \in Batches :
    result[b] # <<>> =>
      /\ [k \in DOMAIN result[b] |-> result[b][k].id] = content[b]
      /\ \/ \E c \in Batches \ {b} : at[c] # "idle" /\ Ids(c) \cap Ids(b) # {}
         \/ \A k \in DOMAIN result[b] : result[b][k].of = b

\* A response whose channel "is full or closed" is dropped with a warning.
LateResponseIsDropped == ~dead
=============================================================================
