--------------------------- MODULE TransportMetrics ---------------------------
(***************************************************************************)
(* The observability middleware of the transport package: what it counts   *)
(* around each call and each incoming message, and the snapshot that       *)
(* GetMetrics takes (pkg/transport/observability_middleware.go).           *)
(*                                                                         *)
(* A counter is an object that the maps of transportMetrics point to.      *)
(* Finding it, creating it and adding to it are three steps: the first     *)
(* under the read lock, the second under the write lock, the third an      *)
(* atomic addition under no lock at all.  objects[k, c] are all the        *)
(* objects ever created for counter c of kind k; the map holds the last.   *)
(*                                                                         *)
(* A kind stands for one family of counters and one method in it.  Every   *)
(* duration is one unit.  Logging is left out.                             *)
(***************************************************************************)
EXTENDS Integers, Sequences, FiniteSets

CONSTANTS
  Goroutines,   \* callers and the goroutines that handle incoming messages
  Workloads,    \* bound: sets of kinds, the calls made are all of one of them
  MaxBegun      \* bound: calls begun

Kinds == {"request", "notification", "batch", "incoming", "incomingNotification"}
Counters == {"total", "success", "errors", "duration"}

ASSUME MetricsAssumption == IsFiniteSet(Goroutines) /\ MaxBegun \in Nat

VARIABLES
  objects,   \* counters and duration trackers, in order of creation
  doing,     \* where each goroutine is: the counter it updates, or "idle", "inner"
  step,      \* and how far it is with it
  held,      \* the object it found or made
  method,    \* the kind of its call
  begun,     \* calls begun so far
  snap       \* the snapshot being taken

metricvars == <<objects, doing, step, held, method, begun, snap>>

NoSnap    == [on |-> FALSE, todo |-> {}, of |-> "request", read |-> <<>>]
NewObject == [n |-> 0, ns |-> 0]

\* The counter in the map, 0 while there is none.
Count(k, c) == IF objects[k, c] = <<>> THEN 0
               ELSE objects[k, c][Len(objects[k, c])].n
DurationSum(k) ==
  LET trackers == objects[<<k, "duration">>]
  IN IF trackers = <<>> THEN 0 ELSE trackers[Len(trackers)].ns

MetricsTypeOK ==
  /\ objects \in [Kinds \X Counters -> Seq([n : Nat, ns : Nat])]
  /\ doing \in [Goroutines -> Counters \cup {"idle", "inner"}]
  /\ step \in [Goroutines -> {"lookup", "create", "add", "sum"}]
  /\ held \in [Goroutines -> Nat]
  /\ method \in [Goroutines -> Kinds]
  /\ begun \in 0..MaxBegun
  /\ snap.on \in BOOLEAN /\ snap.todo \subseteq Kinds /\ snap.read \in Seq(Nat)

MetricsInit ==
  /\ objects = [x \in Kinds \X Counters |-> <<>>]
  /\ doing = [g \in Goroutines |-> "idle"]
  /\ step = [g \in Goroutines |-> "lookup"]
  /\ held = [g \in Goroutines |-> 0]
  /\ method = [g \in Goroutines |-> "request"]
  /\ begun = 0
  /\ snap = NoSnap

Proceed(g, a, s) ==
  /\ doing' = [doing EXCEPT ![g] = a]
  /\ step' = [step EXCEPT ![g] = s]

-----------------------------------------------------------------------------
(* getOrCreateInt64Counter, getOrCreateDurationTracker, Add, observe        *)

\* The lookup under the read lock.
Lookup(g) ==
  LET made == Len(objects[method[g], doing[g]])
  IN /\ doing[g] \in Counters
     /\ step[g] = "lookup"
     /\ Proceed(g, doing[g], IF made > 0 THEN "add" ELSE "create")
     /\ held' = [held EXCEPT ![g] = made]
     /\ UNCHANGED <<objects, method, begun, snap>>

\* Mutant of Create: the map is not looked at again under the write lock.
CreateUnchecked(g) ==
  LET x == <<method[g], doing[g]>>
  IN /\ doing[g] \in Counters
     /\ step[g] = "create"
     /\ ~snap.on
     /\ objects' = [objects EXCEPT ![x] = Append(@, NewObject)]
     /\ held' = [held EXCEPT ![g] = Len(objects'[x])]
     /\ Proceed(g, doing[g], "add")
     /\ UNCHANGED <<method, begun, snap>>

\* The second look and the creation, under the write lock, which waits for a
\* snapshot to release its read lock.
Create(g) ==
  LET x == <<method[g], doing[g]>>
  IN /\ doing[g] \in Counters
     /\ step[g] = "create"
     /\ ~snap.on
     /\ objects' = IF objects[x] = <<>>
                   THEN [objects EXCEPT ![x] = <<NewObject>>] ELSE objects
     /\ held' = [held EXCEPT ![g] = Len(objects'[x])]
     /\ Proceed(g, doing[g], "add")
     /\ UNCHANGED <<method, begun, snap>>

After(c) == CASE c = "total" -> "inner"
              [] c \in {"success", "errors"} -> "duration"

\* Add(1) on the counter that was found.
AddOne(g) ==
  /\ doing[g] \in Counters \ {"duration"}
  /\ step[g] = "add"
  /\ objects' = [objects EXCEPT ![<<method[g], doing[g]>>][held[g]].n = @ + 1]
  /\ Proceed(g, After(doing[g]), "lookup")
  /\ UNCHANGED <<held, method, begun, snap>>

\* observe: the count first, then the sum (and minimum and maximum, which
\* have a mutex of their own).
ObserveCount(g) ==
  /\ doing[g] = "duration"
  /\ step[g] = "add"
  /\ objects' = [objects EXCEPT ![<<method[g], "duration">>][held[g]].n = @ + 1]
  /\ Proceed(g, "duration", "sum")
  /\ UNCHANGED <<held, method, begun, snap>>

ObserveSum(g) ==
  /\ doing[g] = "duration"
  /\ step[g] = "sum"
  /\ objects' = [objects EXCEPT ![<<method[g], "duration">>][held[g]].ns = @ + 1]
  /\ Proceed(g, "idle", "lookup")
  /\ UNCHANGED <<held, method, begun, snap>>

-----------------------------------------------------------------------------
(* The wrapped operations                                                   *)

Occurring ==
  {k \in Kinds : objects[k, "total"] # <<>> \/ \E g \in Goroutines : doing[g] # "idle" /\ method[g] = k}

\* Each wrapper counts the call before it makes it.
Enter(g, k) ==
  /\ \E w \in Workloads : Occurring \cup {k} \subseteq w
  /\ doing[g] = "idle"
  /\ begun < MaxBegun
  /\ begun' = begun + 1
  /\ method' = [method EXCEPT ![g] = k]
  /\ Proceed(g, "total", "lookup")
  /\ UNCHANGED <<objects, held, snap>>

SendRequest(g)        == Enter(g, "request")
SendNotification(g)   == Enter(g, "notification")
\* A batch is one request of the method "batch", whatever it holds.
SendBatchRequest(g)   == Enter(g, "batch")
HandleRequest(g)      == Enter(g, "incoming")
HandleNotification(g) == Enter(g, "incomingNotification")

\* The wrapped transport returns, with a result or an error.
Leave(g) ==
  /\ doing[g] = "inner"
  /\ \E c \in {"success", "errors"} : Proceed(g, c, "lookup")
  /\ UNCHANGED <<objects, held, method, begun, snap>>

-----------------------------------------------------------------------------
(* snapshot, under the read lock from start to end                          *)

SnapshotBegin ==
  /\ ~snap.on
  /\ snap' = [NoSnap EXCEPT !.on = TRUE,
                            !.todo = {k \in Kinds : objects[k, "total"] # <<>>}]
  /\ UNCHANGED <<objects, doing, step, held, method, begun>>

\* The next method of the range loop.
SnapshotMethod ==
  /\ snap.on
  /\ Len(snap.read) \in {0, 5}
  /\ \E k \in snap.todo :
       snap' = [on |-> TRUE, todo |-> snap.todo \ {k}, of |-> k,
                read |-> <<Count(k, "total")>>]
  /\ UNCHANGED <<objects, doing, step, held, method, begun>>

\* What is loaded of a method, one after the other: total, success, errors,
\* then the number of durations and their sum (stats).
Loads(k) ==
  <<Count(k, "total"), Count(k, "success"), Count(k, "errors"),
    Count(k, "duration"), DurationSum(k)>>

SnapshotLoad ==
  /\ snap.on
  /\ Len(snap.read) \in 1..4
  /\ snap' = [snap EXCEPT !.read = Append(@, Loads(snap.of)[Len(@) + 1])]
  /\ UNCHANGED <<objects, doing, step, held, method, begun>>

\* The deferred unlock.
SnapshotEnd ==
  /\ snap.on
  /\ Len(snap.read) \in {0, 5}
  /\ snap.todo = {}
  /\ snap' = NoSnap
  /\ UNCHANGED <<objects, doing, step, held, method, begun>>

-----------------------------------------------------------------------------
MetricsNext ==
  \/ \E g \in Goroutines :
       \/ SendRequest(g) \/ SendNotification(g) \/ SendBatchRequest(g)
       \/ HandleRequest(g) \/ HandleNotification(g)
       \/ Lookup(g) \/ Create(g) \/ AddOne(g)
       \/ ObserveCount(g) \/ ObserveSum(g) \/ Leave(g)
  \/ SnapshotBegin \/ SnapshotMethod \/ SnapshotLoad \/ SnapshotEnd

MetricsSpec == MetricsInit /\ [][MetricsNext]_metricvars

-----------------------------------------------------------------------------
(* Properties *)

\* Goroutines whose call of kind k is counted in total and not as an outcome.
Undecided(k) ==
  {g \in Goroutines :
     /\ method[g] = k
     /\ doing[g] \in {"inner", "success", "errors"}}

\* Goroutines whose call has an outcome and no duration yet.
Untimed(k) == {g \in Goroutines : method[g] = k /\ doing[g] = "duration" /\ step[g] # "sum"}

\* No count is lost although counters are created on demand by goroutines
\* that race for them (getOrCreateInt64Counter): the counters of the live maps
\* differ by exactly the calls that are under way.
CountsAddUp ==
  \A k \in Kinds :
    LET decided == Count(k, "success") + Count(k, "errors")
    IN /\ Count(k, "total") = decided + Cardinality(Undecided(k))
       /\ decided = Count(k, "duration") + Cardinality(Untimed(k))

\* "TransportMetricsSnapshot represents a point-in-time view of transport
\* metrics": there is a time at which no more calls had ended than had begun.
PointInTime ==
  Len(snap.read) >= 3 => snap.read[2] + snap.read[3] <= snap.read[1]
=============================================================================
