---------------------------- MODULE Subscriptions ----------------------------
(***************************************************************************)
(* ResourceSubscriptionManager (pkg/server/subscriptions.go) and the       *)
(* wrapper SubscribableResourcesProvider.                                  *)
(*                                                                         *)
(* Handlers subscribe and unsubscribe under the manager's mutex, providers *)
(* queue changes without waiting, and one goroutine, the worker, takes the *)
(* changes from the queue, keeps those that match a subscription, and at   *)
(* every tick hands what it has kept to the notifier, for a copy of the    *)
(* subscriptions.  Start and Stop are called once, in this order.          *)
(*                                                                         *)
(* A change is "told" to a subscription when the notifier is called with   *)
(* it.  The order in which Go visits a map is a choice; the order of the   *)
(* changes of different resources inside one slice is not modelled.        *)
(* What is told is told per subscription: a resource that two of them      *)
(* cover is told to each, and an update then reaches the notifier twice.   *)
(* Changes without a Resource or Contents are taken and never told; they   *)
(* are left out, as is LastUpdate, which nothing reads.                    *)
(***************************************************************************)
EXTENDS Integers, Sequences, SequencesExt

CONSTANTS
  URIs,        \* resources
  Kinds,       \* of the changes that are reported (ResourceChangeType)
  Children,    \* pairs <<child, parent>>: isChildResource(child, parent)
  Capacity,    \* of the changes channel (100 in the code)
  MaxChanges   \* bound on the changes that are reported

ASSUME SubscriptionsAssumption ==
  /\ Children \subseteq URIs \X URIs
  /\ Kinds \subseteq {"added", "modified", "removed", "updated"}
  /\ Capacity \in Nat \ {0}
  /\ MaxChanges \in Nat

VARIABLES
  subs,     \* subscriptions: "none", "exact" or "recursive" for each URI
  last,     \* number of the last change that was reported
  queue,    \* the changes channel
  worker,   \* processChanges: "off", "select", "flush" or "ended"
  batch,    \* batchedChanges, in the order of arrival
  copy,     \* the copy of the subscriptions made by a flush
  visits,   \* pairs of a resource and a subscription still to be visited
  groups,   \* subscriptions whose grouped notification is still to be sent
  told,     \* the notifications sent for each subscription so far
  ctx,      \* the context given to Start: "live" or "cancelled"
  stop,     \* Stop: "no", "signalled" (done is closed), "closed" (changes is)
  crashed   \* has a send on the closed channel ended the process?

flushVars == <<copy, visits, groups>>
vars == <<subs, last, queue, worker, batch, copy, visits, groups, told, ctx,
          stop, crashed>>

\* Changes that are no updates share one ResourcesChanged notification that has
\* a slice for each kind; an update has a ResourceUpdated one of its own.
Changes == [n : 1..MaxChanges, uri : URIs, kind : Kinds]

\* A call of NotifyResourcesChanged, with its slices Added, Modified and
\* Removed, or a run of calls of NotifyResourceUpdated, in the slice "updated".
Notifications ==
  {m \in [Kinds -> Seq(Changes)] :
     \A k \in Kinds : \A a \in DOMAIN m[k] : m[k][a].kind = k}
SubKind == {"none", "exact", "recursive"}

TypeOK ==
  /\ subs \in [URIs -> SubKind]
  /\ last \in 0..MaxChanges
  /\ queue \in Seq(Changes) /\ Len(queue) <= Capacity
  /\ worker \in {"off", "select", "flush", "ended"}
  /\ batch \in Seq(Changes)
  /\ copy \in [URIs -> SubKind]
  /\ visits \subseteq URIs \X URIs
  /\ groups \subseteq URIs
  /\ told \in [URIs -> Seq(Notifications)]
  /\ ctx \in {"live", "cancelled"}
  /\ stop \in {"no", "signalled", "closed"}
  /\ crashed \in BOOLEAN

NoSubs == [u \in URIs |-> "none"]

Init ==
  /\ subs = NoSubs /\ copy = NoSubs
  /\ last = 0
  /\ queue = << >> /\ batch = << >>
  /\ worker = "off"
  /\ visits = {} /\ groups = {}
  /\ told = [u \in URIs |-> << >>]
  /\ ctx = "live" /\ stop = "no" /\ crashed = FALSE

\* Does the subscription to s, if there is one, cover resource u?
Covers(S, s, u) ==
  \/ S[s] # "none" /\ u = s
  \/ S[s] = "recursive" /\ <<u, s>> \in Children

Running == worker \in {"select", "flush"}
-----------------------------------------------------------------------------
(* Handlers and providers *)

\* A second Subscribe of a URI changes nothing, whatever its recursive flag.
Subscribe(u, kind) ==
  /\ subs[u] = "none"
  /\ subs' = [subs EXCEPT ![u] = kind]
  /\ UNCHANGED <<last, queue, worker, batch, flushVars, told, ctx, stop, crashed>>

Unsubscribe(u) ==
  /\ subs[u] # "none"
  /\ subs' = [subs EXCEPT ![u] = "none"]
  /\ UNCHANGED <<last, queue, worker, batch, flushVars, told, ctx, stop, crashed>>

\* Mutant of Enqueue: the channel is never full.
EnqueueAlways(c) == queue' = Append(queue, c)

\* The select of NotifyResourceChange: a change that finds the channel full
\* is dropped.
Enqueue(c) ==
  queue' = IF Len(queue) < Capacity THEN Append(queue, c) ELSE queue

\* A send on the closed channel panics in the provider's goroutine.
NotifyResourceChange(u, kind) ==
  /\ last < MaxChanges
  /\ last' = last + 1
  /\ IF stop = "closed"
     THEN crashed' = TRUE /\ UNCHANGED queue
     ELSE Enqueue([n |-> last', uri |-> u, kind |-> kind]) /\ UNCHANGED crashed
  /\ UNCHANGED <<subs, worker, batch, flushVars, told, ctx, stop>>
-----------------------------------------------------------------------------
(* The worker: processChanges and sendBatchedNotifications *)

Start ==
  /\ worker = "off" /\ stop = "no"
  /\ worker' = "select"
  /\ UNCHANGED <<subs, last, queue, batch, flushVars, told, ctx, stop, crashed>>

\* Mutant of shouldNotify: only exact matches.
shouldNotifyExact(u) == subs[u] # "none"

shouldNotify(u) == \E s \in URIs : Covers(subs, s, u)

ReceiveChange ==
  /\ worker = "select"
  /\ queue # << >>
  /\ queue' = Tail(queue)
  /\ batch' = IF shouldNotify(Head(queue).uri) THEN Append(batch, Head(queue))
              ELSE batch
  /\ UNCHANGED <<subs, last, worker, flushVars, told, ctx, stop, crashed>>

\* A tick with changes in the batch: the subscriptions are copied.
FlushStart ==
  /\ worker = "select"
  /\ batch # << >>
  /\ worker' = "flush"
  /\ copy' = subs
  /\ visits' = {<<c.uri, s>> : c \in Range(batch), s \in URIs}
                 \cap {v \in URIs \X URIs : Covers(subs, v[2], v[1])}
  /\ groups' = {s \in URIs : \E c \in Range(batch) :
                   c.kind # "updated" /\ Covers(subs, s, c.uri)}
  /\ UNCHANGED <<subs, last, queue, batch, told, ctx, stop, crashed>>

\* The elements of a sequence that are in S, in their order.
Selected(seq, S) ==
  LET upTo[i \in 0..Len(seq)] ==
        IF i = 0 THEN << >>
        ELSE IF seq[i] \in S THEN Append(upTo[i - 1], seq[i]) ELSE upTo[i - 1]
  IN upTo[Len(seq)]

\* The changes of the batch that are in S, each in the slice of its kind: the
\* order between changes of different kinds is lost.
Slices(S) == [k \in Kinds |-> Selected(batch, {c \in S : c.kind = k})]

\* The notifier is called with the changes S of the batch, if there are any.
Tell(s, S) ==
  told' = IF S = {} THEN told ELSE [told EXCEPT ![s] = Append(@, Slices(S))]

\* A resource and a subscription: the updates are told at once, one by one.
VisitPair(u, s) ==
  /\ worker = "flush"
  /\ <<u, s>> \in visits
  /\ visits' = visits \ {<<u, s>>}
  /\ Tell(s, {c \in Range(batch) : c.uri = u /\ c.kind = "updated"})
  /\ UNCHANGED <<subs, last, queue, worker, batch, copy, groups, ctx, stop, crashed>>

SendGroup(s) ==
  /\ worker = "flush" /\ visits = {}
  /\ s \in groups
  /\ groups' = groups \ {s}
  /\ Tell(s, {c \in Range(batch) : c.kind # "updated" /\ Covers(copy, s, c.uri)})
  /\ UNCHANGED <<subs, last, queue, worker, batch, copy, visits, ctx, stop, crashed>>

\* Mutant of FlushEnd: the batch is kept.
FlushEndKeepsBatch ==
  /\ worker = "flush" /\ visits = {} /\ groups = {}
  /\ worker' = "select"
  /\ copy' = NoSubs
  /\ UNCHANGED <<subs, last, queue, batch, visits, groups, told, ctx, stop, crashed>>

FlushEnd ==
  /\ worker = "flush" /\ visits = {} /\ groups = {}
  /\ worker' = "select"
  /\ batch' = << >>
  /\ copy' = NoSubs
  /\ UNCHANGED <<subs, last, queue, visits, groups, told, ctx, stop, crashed>>

Flush == (\E u, s \in URIs : VisitPair(u, s)) \/ (\E s \in URIs : SendGroup(s))
           \/ FlushEnd

\* Mutant of WorkerExit: the select has no case for done.
WorkerExitOnCancel ==
  /\ worker = "select"
  /\ ctx = "cancelled"
  /\ worker' = "ended"
  /\ UNCHANGED <<subs, last, queue, batch, flushVars, told, ctx, stop, crashed>>

\* What is still in the batch or in the queue is lost.
WorkerExit ==
  /\ worker = "select"
  /\ ctx = "cancelled" \/ stop # "no"
  /\ worker' = "ended"
  /\ UNCHANGED <<subs, last, queue, batch, flushVars, told, ctx, stop, crashed>>

CancelStart ==
  /\ ctx = "live"
  /\ ctx' = "cancelled"
  /\ UNCHANGED <<subs, last, queue, worker, batch, flushVars, told, stop, crashed>>
-----------------------------------------------------------------------------
(* Stop *)

StopSignal ==
  /\ stop = "no"
  /\ stop' = "signalled"
  /\ UNCHANGED <<subs, last, queue, worker, batch, flushVars, told, ctx, crashed>>

\* Mutant of StopClose: the worker is not waited for.
StopCloseAtOnce ==
  /\ stop = "signalled"
  /\ stop' = "closed"
  /\ UNCHANGED <<subs, last, queue, worker, batch, flushVars, told, ctx, crashed>>

\* wg.Wait returns when no worker runs, and the channel is closed.
StopClose ==
  /\ stop = "signalled"
  /\ ~Running
  /\ stop' = "closed"
  /\ UNCHANGED <<subs, last, queue, worker, batch, flushVars, told, ctx, crashed>>
-----------------------------------------------------------------------------
Next ==
  /\ ~crashed
  /\ \/ \E u \in URIs, kind \in {"exact", "recursive"} : Subscribe(u, kind)
     \/ \E u \in URIs : Unsubscribe(u)
     \/ \E u \in URIs, kind \in Kinds : NotifyResourceChange(u, kind)
     \/ Start \/ ReceiveChange \/ FlushStart \/ Flush \/ WorkerExit
     \/ CancelStart \/ StopSignal \/ StopClose

Spec == Init /\ [][Next]_vars

(***************************************************************************)
(* The worker runs, its notifier returns, and Go's select picks every case *)
(* that stays ready sooner or later.  Stop runs on once called.            *)
(***************************************************************************)
Fairness ==
  /\ SF_vars(~crashed /\ ReceiveChange)
  /\ SF_vars(~crashed /\ FlushStart)
  /\ WF_vars(~crashed /\ Flush)
  /\ SF_vars(~crashed /\ WorkerExit)
  /\ WF_vars(~crashed /\ StopClose)

FairSpec == Spec /\ Fairness
-----------------------------------------------------------------------------
(* Properties *)

\* Whatever is subscribed, unsubscribed, batched and flushed meanwhile, a
\* subscription is told of a change at most once, and of the changes of one
\* resource in the order in which they were queued: from one notification to
\* the next and inside a slice.  What is lost is the order between the slices
\* of one notification, which does not say whether a resource was removed and
\* then added or added and then removed, and between it and the updates, which
\* the flush sends first.  It is told for a subscription, not to a subscriber:
\* NotifyResourceUpdated carries none, so an update that two subscriptions
\* cover is sent twice (subscriptions.go:256).
ToldOnceInOrder ==
  \A s \in URIs : \A i, j \in DOMAIN told[s], k, l \in Kinds :
    \A a \in DOMAIN told[s][i][k], b \in DOMAIN told[s][j][l] :
       /\ i < j \/ (i = j /\ k = l /\ a < b)
       /\ (k = "updated") = (l = "updated")
       /\ told[s][i][k][a].uri = told[s][j][l][b].uri
       => told[s][i][k][a].n < told[s][j][l][b].n

\* After Stop has returned no notification is sent and nothing is taken from
\* the channel it closed: Stop waits for a flush under way.
SilentAfterStop == [][stop = "closed" => UNCHANGED <<told, queue>>]_vars

\* Has subscription s been told of change n?
ToldOf(s, n) ==
  \E i \in DOMAIN told[s], k \in Kinds : \E c \in Range(told[s][i][k]) : c.n = n

\* A change that was queued reaches every subscription that covers it, unless
\* the subscription goes away or the manager ends first.
QueuedIsTold ==
  \A s \in URIs, n \in 1..MaxChanges :
     /\ Running /\ stop = "no" /\ ctx = "live"
     /\ \E c \in Range(queue) : c.n = n /\ Covers(subs, s, c.uri)
     ~> \/ ToldOf(s, n)
        \/ subs[s] = "none" \/ stop # "no" \/ ctx = "cancelled"

\* Stop returns, however many changes keep the worker busy.
StopReturns == stop = "signalled" ~> stop = "closed"
=============================================================================
