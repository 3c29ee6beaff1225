------------------------- MODULE Subscriptions_proofs -------------------------
(***************************************************************************)
(* Theorems of the subscription manager, for any resources, any relation   *)
(* of parents and children and any capacity of the channel.  A change      *)
(* moves from the channel to the batch and from there to the               *)
(* subscriptions; the inductive invariant says that the numbers grow along *)
(* this way, and what of a batch a flush has told already.                 *)
(***************************************************************************)
EXTENDS Subscriptions, WellFoundedInduction, TLAPS

-----------------------------------------------------------------------------
(* The inductive invariant *)

\* The numbers grow along a sequence of changes.
Growing(seq) == \A i, j \in DOMAIN seq : i < j => seq[i].n < seq[j].n

\* Every change of one sequence is older than every one of the other.
Older(seq, later) == \A i \in DOMAIN seq, j \in DOMAIN later : seq[i].n < later[j].n

\* The channel and the batch are in the order of the reports, the batch is
\* what was taken from the channel before.
InOrder ==
  /\ Growing(queue) /\ Growing(batch) /\ Older(batch, queue)
  /\ \A i \in DOMAIN queue : queue[i].n <= last
  /\ \A i \in DOMAIN batch : batch[i].n <= last

\* What a subscription was told of is older than what it may still be told of:
\* than the channel at any time, and than the batch except for the parts that
\* the flush under way has dealt with.
ToldBefore ==
  \A s \in URIs : \A i \in DOMAIN told[s], k \in Kinds : \A a \in DOMAIN told[s][i][k] :
    LET c == told[s][i][k][a]
    IN /\ c.n <= last
       /\ \A j \in DOMAIN queue : c.n < queue[j].n
       /\ \/ worker # "flush"
          \/ k = "updated" /\ <<c.uri, s>> \in visits
          \/ k # "updated" /\ s \in groups
          => \A j \in DOMAIN batch : c.n < batch[j].n

\* StopClose waits for the worker, and Stop comes after Start.
ClosedIsStill == stop = "closed" => ~Running

IInv == TypeOK /\ InOrder /\ ToldBefore /\ ToldOnceInOrder /\ ClosedIsStill

USE DEF flushVars

LEMMA InitIInv == Init => IInv
<1> SUFFICES ASSUME Init PROVE IInv
  OBVIOUS
<1>1. TypeOK
  <2>1. crashed \in BOOLEAN
    BY DEF Init
  <2>2. subs \in [URIs -> SubKind] /\ copy \in [URIs -> SubKind]
    BY DEF Init, NoSubs, SubKind
  <2>3. last \in 0..MaxChanges /\ Len(queue) <= Capacity
    BY SubscriptionsAssumption DEF Init
  <2>4. told \in [URIs -> Seq(Notifications)] /\ queue \in Seq(Changes) /\ batch \in Seq(Changes)
    BY DEF Init
  <2> QED
    BY <2>1, <2>2, <2>3, <2>4 DEF Init, TypeOK
<1>2. InOrder /\ ToldBefore /\ ToldOnceInOrder
  BY DEF Init, InOrder, Growing, Older, ToldBefore, ToldOnceInOrder
<1>3. ClosedIsStill
  BY DEF Init, ClosedIsStill
<1> QED
  BY <1>1, <1>2, <1>3 DEF IInv

-----------------------------------------------------------------------------
(* What Selected computes *)

\* A set of natural numbers has a least element: induction over sequences is
\* by the least counterexample.
LEMMA LeastElement ==
  ASSUME NEW T, T \subseteq Nat, T # {}
  PROVE  \E x \in T : \A y \in T : x <= y
<1>1. IsWellFoundedOn(OpToRel(<, Nat), Nat)
  BY NatLessThanWellFounded
<1>2. PICK x \in T : \A y \in T : <<y, x>> \notin OpToRel(<, Nat)
  BY <1>1, WFMin
<1>3. \A y \in T : ~(y < x)
  BY <1>2 DEF OpToRel
<1> QED
  BY <1>3

\* The equation of the recursive function in Selected, up to n.
Selects(f, seq, S, n) ==
  f = [i \in 0..n |-> IF i = 0 THEN << >>
                      ELSE IF seq[i] \in S THEN Append(f[i - 1], seq[i])
                      ELSE f[i - 1]]

\* A function that satisfies it exists.
LEMMA SelectsExists ==
  ASSUME NEW seq, NEW S, NEW n \in Nat
  PROVE  \E f : Selects(f, seq, S, n)
<1> DEFINE Bad == {m \in Nat : ~ \E f : Selects(f, seq, S, m)}
<1> SUFFICES ASSUME Bad # {} PROVE FALSE
  OBVIOUS
<1>1. PICK m \in Bad : \A y \in Bad : m <= y
  BY LeastElement
<1>2. m # 0
  <2> DEFINE f == [i \in 0..0 |-> << >>]
  <2>1. Selects(f, seq, S, 0)
    BY DEF Selects
  <2> QED
    BY <2>1
<1>3. m \in Nat /\ m - 1 \in Nat /\ m - 1 \notin Bad
  BY <1>1, <1>2
<1>4. PICK g : Selects(g, seq, S, m - 1)
  BY <1>3
<1> DEFINE f == [i \in 0..m |-> IF i < m THEN g[i]
                                ELSE IF seq[i] \in S THEN Append(g[i - 1], seq[i])
                                ELSE g[i - 1]]
<1>5. Selects(f, seq, S, m)
  <2> DEFINE d(i) == IF i = 0 THEN << >>
                     ELSE IF seq[i] \in S THEN Append(f[i - 1], seq[i]) ELSE f[i - 1]
  <2>1. ASSUME NEW i \in 0..m PROVE f[i] = d(i)
    <3>1. CASE i = m
      BY <1>2, <1>3, <3>1
    <3>2. CASE i < m
      <4>1. i \in 0..(m - 1) /\ (i # 0 => i - 1 \in 0..(m - 1))
        BY <1>3, <3>2
      <4>2. g[i] = IF i = 0 THEN << >>
                   ELSE IF seq[i] \in S THEN Append(g[i - 1], seq[i]) ELSE g[i - 1]
        BY <1>4, <4>1 DEF Selects
      <4> QED
        BY <1>3, <3>2, <4>1, <4>2
    <3> QED
      BY <1>3, <3>1, <3>2
  <2> QED
    BY <2>1 DEF Selects
<1> QED
  BY <1>1, <1>5

\* r picks elements of S out of the first k elements of seq, in their order.
IsSelection(r, seq, S, k) ==
  \E h \in [1..Len(r) -> 1..k] :
    /\ \A i \in 1..Len(r) : r[i] = seq[h[i]] /\ seq[h[i]] \in S
    /\ \A i, j \in 1..Len(r) : i < j => h[i] < h[j]

LEMMA EmptySelection ==
  ASSUME NEW seq, NEW S PROVE IsSelection(<< >>, seq, S, 0)
<1> DEFINE h == [i \in 1..0 |-> 1]
<1>1. h \in [1..Len(<< >>) -> 1..0]
  OBVIOUS
<1>2. \A i \in 1..Len(<< >>) : FALSE
  OBVIOUS
<1> QED
  BY <1>1, <1>2 DEF IsSelection

LEMMA SelectionGrows ==
  ASSUME NEW X, NEW r \in Seq(X), NEW seq, NEW S, NEW m \in Nat \ {0},
         IsSelection(r, seq, S, m - 1)
  PROVE  /\ IsSelection(r, seq, S, m)
         /\ seq[m] \in S /\ seq[m] \in X => IsSelection(Append(r, seq[m]), seq, S, m)
<1>1. PICK h \in [1..Len(r) -> 1..(m - 1)] :
        /\ \A i \in 1..Len(r) : r[i] = seq[h[i]] /\ seq[h[i]] \in S
        /\ \A i, j \in 1..Len(r) : i < j => h[i] < h[j]
  BY DEF IsSelection
<1>2. IsSelection(r, seq, S, m)
  <2>1. h \in [1..Len(r) -> 1..m]
    OBVIOUS
  <2> QED
    BY <1>1, <2>1 DEF IsSelection
<1>3. ASSUME seq[m] \in S, seq[m] \in X
      PROVE IsSelection(Append(r, seq[m]), seq, S, m)
  <2> DEFINE new == Append(r, seq[m])
             g == [i \in 1..(Len(r) + 1) |-> IF i = Len(r) + 1 THEN m ELSE h[i]]
  <2>1. /\ Len(new) = Len(r) + 1 /\ Len(r) \in Nat
        /\ \A i \in 1..Len(r) : new[i] = r[i]
        /\ new[Len(r) + 1] = seq[m]
    BY <1>3
  <2> HIDE DEF new
  <2>2. g \in [1..Len(new) -> 1..m]
    BY <2>1
  <2>3. \A i \in 1..Len(new) : new[i] = seq[g[i]] /\ seq[g[i]] \in S
    BY <1>1, <1>3, <2>1
  <2>4. \A i, j \in 1..Len(new) : i < j => g[i] < g[j]
    BY <1>1, <2>1
  <2> HIDE DEF g
  <2>5. IsSelection(new, seq, S, m)
    BY <2>2, <2>3, <2>4 DEF IsSelection
  <2> QED
    BY <2>5 DEF new
<1> QED
  BY <1>2, <1>3

\* Selected returns a subsequence of seq, made of elements of S.
LEMMA SelectedIsSelection ==
  ASSUME NEW X, NEW seq \in Seq(X), NEW S
  PROVE  /\ Selected(seq, S) \in Seq(X)
         /\ IsSelection(Selected(seq, S), seq, S, Len(seq))
<1> DEFINE n == Len(seq)
           f == CHOOSE f : Selects(f, seq, S, n)
           Bad == {k \in 0..n : ~ (f[k] \in Seq(X) /\ IsSelection(f[k], seq, S, k))}
<1>1. n \in Nat
  OBVIOUS
<1>2. Selects(f, seq, S, n)
  BY <1>1, SelectsExists
<1>3. Selected(seq, S) = f[n]
  BY DEF Selected, Selects
<1> HIDE DEF f
<1>4. ASSUME Bad # {} PROVE FALSE
  <2>1. PICK m \in Bad : \A y \in Bad : m <= y
    <3>1. Bad \subseteq Nat
      OBVIOUS
    <3> HIDE DEF Bad
    <3> QED
      BY <1>4, <3>1, LeastElement
  <2>2. m \in 0..n
    OBVIOUS
  <2>3. CASE m = 0
    <3>1. f[0] = << >>
      BY <1>1, <1>2 DEF Selects
    <3>2. f[0] \in Seq(X) /\ IsSelection(f[0], seq, S, 0)
      BY <3>1, EmptySelection
    <3> QED
      BY <2>3, <3>2
  <2>4. CASE m # 0
    <3>1. m \in 1..n /\ m - 1 \in 0..n /\ m \in Nat \ {0} /\ m - 1 \notin Bad
      BY <1>1, <2>1, <2>2, <2>4
    <3>2. f[m - 1] \in Seq(X) /\ IsSelection(f[m - 1], seq, S, m - 1)
      BY <3>1
    <3>3. f[m] = IF seq[m] \in S THEN Append(f[m - 1], seq[m]) ELSE f[m - 1]
      BY <1>1, <1>2, <2>4, <3>1 DEF Selects
    <3>4. seq[m] \in X
      BY <3>1
    <3>5. f[m] \in Seq(X)
      BY <3>2, <3>3, <3>4
    <3>6. IsSelection(f[m], seq, S, m)
      BY <3>1, <3>2, <3>3, <3>4, SelectionGrows
    <3> QED
      BY <2>1, <3>5, <3>6
  <2> QED
    BY <2>3, <2>4
<1>5. n \in 0..n
  BY <1>1
<1> QED
  BY <1>3, <1>4, <1>5
-----------------------------------------------------------------------------
(* The steps *)

\* Each slice of a notification picks changes of the batch, in their order.
LEMMA SliceIsSelection ==
  ASSUME TypeOK, NEW S, NEW k \in Kinds
  PROVE  /\ Slices(S)[k] \in Seq(Changes)
         /\ IsSelection(Slices(S)[k], batch, {c \in S : c.kind = k}, Len(batch))
<1>1. batch \in Seq(Changes)
  BY DEF TypeOK
<1>2. Slices(S)[k] = Selected(batch, {c \in S : c.kind = k})
  BY DEF Slices
<1> QED
  BY <1>1, <1>2, SelectedIsSelection

\* What a slice of a notification is made of.
LEMMA SliceDescribed ==
  ASSUME TypeOK, Growing(batch), NEW S, NEW k \in Kinds
  PROVE  /\ \A a \in DOMAIN Slices(S)[k] :
              /\ Slices(S)[k][a] \in S /\ Slices(S)[k][a].kind = k
              /\ \E x \in DOMAIN batch : Slices(S)[k][a] = batch[x]
         /\ \A a, b \in DOMAIN Slices(S)[k] : a < b => Slices(S)[k][a].n < Slices(S)[k][b].n
<1> DEFINE sel == Slices(S)[k]
           T == {c \in S : c.kind = k}
<1>1. sel \in Seq(Changes) /\ IsSelection(sel, batch, T, Len(batch))
  BY SliceIsSelection
<1>2. batch \in Seq(Changes) /\ DOMAIN batch = 1..Len(batch)
  BY DEF TypeOK
<1>3. DOMAIN sel = 1..Len(sel)
  BY <1>1
<1> HIDE DEF sel, T
<1>4. PICK h \in [1..Len(sel) -> 1..Len(batch)] :
        /\ \A a \in 1..Len(sel) : sel[a] = batch[h[a]] /\ batch[h[a]] \in T
        /\ \A a, b \in 1..Len(sel) : a < b => h[a] < h[b]
  BY <1>1 DEF IsSelection
<1>5. ASSUME NEW a \in DOMAIN sel
      PROVE  /\ sel[a] \in S /\ sel[a].kind = k
             /\ \E x \in DOMAIN batch : sel[a] = batch[x]
  BY <1>2, <1>3, <1>4 DEF T
<1>6. ASSUME NEW a \in DOMAIN sel, NEW b \in DOMAIN sel, a < b
      PROVE  sel[a].n < sel[b].n
  <2>1. h[a] \in DOMAIN batch /\ h[b] \in DOMAIN batch /\ h[a] < h[b]
    BY <1>2, <1>3, <1>4, <1>6
  <2> QED
    BY <1>3, <1>4, <2>1 DEF Growing
<1> QED
  BY <1>5, <1>6 DEF sel

LEMMA SlicesType ==
  ASSUME TypeOK, NEW S PROVE Slices(S) \in Notifications
<1>1. Slices(S) \in [Kinds -> Seq(Changes)]
  <2>1. \A k \in Kinds : Slices(S)[k] \in Seq(Changes)
    BY SliceIsSelection
  <2> QED
    BY <2>1 DEF Slices
<1>2. ASSUME NEW k \in Kinds, NEW a \in DOMAIN Slices(S)[k]
      PROVE  Slices(S)[k][a].kind = k
  <2> DEFINE sel == Slices(S)[k]
             T == {c \in S : c.kind = k}
  <2>1. sel \in Seq(Changes) /\ IsSelection(sel, batch, T, Len(batch))
    BY SliceIsSelection
  <2>2. a \in 1..Len(sel)
    BY <2>1, <1>2
  <2> HIDE DEF sel
  <2>3. sel[a] \in T
    BY <2>1, <2>2 DEF IsSelection
  <2> QED
    BY <2>3 DEF sel
<1> QED
  BY <1>1, <1>2 DEF Notifications

LEMMA TellTypes ==
  ASSUME TypeOK, NEW s \in URIs, NEW S, Tell(s, S)
  PROVE  told' \in [URIs -> Seq(Notifications)]
<1>1. told \in [URIs -> Seq(Notifications)] /\ told[s] \in Seq(Notifications)
  BY DEF TypeOK
<1>2. Append(told[s], Slices(S)) \in Seq(Notifications)
  BY <1>1, SlicesType
<1> QED
  BY <1>1, <1>2 DEF Tell

\* What a report does to the channel: c is added to it, or it is as it was.
Queued(c) ==
  /\ c.n = last + 1 /\ last' = last + 1
  /\ queue' = queue \/ (queue' = Append(queue, c) /\ Len(queue) < Capacity)

LEMMA NotifyEffect ==
  ASSUME TypeOK, NEW u \in URIs, NEW kind \in Kinds,
         NotifyResourceChange(u, kind)
  PROVE  \E c \in Changes : Queued(c)
<1> DEFINE c == [n |-> last + 1, uri |-> u, kind |-> kind]
<1>1. last \in 0..MaxChanges /\ last < MaxChanges /\ last' = last + 1
  BY DEF TypeOK, NotifyResourceChange
<1>2. c \in Changes
  BY <1>1, SubscriptionsAssumption DEF Changes
<1>3. queue' = queue \/ (queue' = Append(queue, c) /\ Len(queue) < Capacity)
  <2>1. CASE stop = "closed"
    BY <2>1 DEF NotifyResourceChange
  <2>2. CASE stop # "closed"
    <3>1. Enqueue([n |-> last', uri |-> u, kind |-> kind])
      BY <2>2 DEF NotifyResourceChange
    <3>2. Enqueue(c)
      BY <1>1, <3>1
    <3> HIDE DEF c
    <3> QED
      BY <3>2 DEF Enqueue
  <2> QED
    BY <2>1, <2>2
<1>4. c.n = last + 1
  OBVIOUS
<1> QED
  BY <1>1, <1>2, <1>3, <1>4 DEF Queued

LEMMA NextTypes == TypeOK /\ [Next]_vars => TypeOK'
<1> SUFFICES ASSUME TypeOK, [Next]_vars PROVE TypeOK'
  OBVIOUS
<1> USE SubscriptionsAssumption DEF TypeOK, SubKind
<1>1. ASSUME NEW u \in URIs, NEW kind \in {"exact", "recursive"}, Subscribe(u, kind)
      PROVE TypeOK'
  BY <1>1 DEF Subscribe
<1>2. ASSUME NEW u \in URIs, Unsubscribe(u) PROVE TypeOK'
  BY <1>2 DEF Unsubscribe
<1>3. ASSUME NEW u \in URIs, NEW kind \in Kinds,
             NotifyResourceChange(u, kind)
      PROVE TypeOK'
  <2>1. PICK c \in Changes : Queued(c)
    BY <1>3, NotifyEffect
  <2>2. queue' \in Seq(Changes) /\ Len(queue') <= Capacity
    <3> HIDE DEF TypeOK
    <3>1. queue \in Seq(Changes) /\ Len(queue) <= Capacity
      BY DEF TypeOK
    <3>2. CASE queue' = queue
      BY <3>1, <3>2
    <3>3. CASE queue' = Append(queue, c) /\ Len(queue) < Capacity
      <4>1. Append(queue, c) \in Seq(Changes) /\ Len(Append(queue, c)) = Len(queue) + 1
        BY <3>1
      <4> QED
        BY <3>1, <3>3, <4>1
    <3> QED
      BY <2>1, <3>2, <3>3 DEF Queued
  <2>3. crashed' \in BOOLEAN
    BY <1>3 DEF NotifyResourceChange
  <2>4. last' \in 0..MaxChanges
    BY <1>3 DEF NotifyResourceChange
  <2>5. UNCHANGED <<subs, worker, batch, copy, visits, groups, told, ctx, stop>>
    BY <1>3 DEF NotifyResourceChange
  <2> QED
    BY <2>2, <2>3, <2>4, <2>5
<1>4. CASE Start \/ WorkerExit \/ CancelStart \/ StopSignal \/ StopClose
  BY <1>4 DEF Start, WorkerExit, CancelStart, StopSignal, StopClose
<1>5. CASE ReceiveChange
  <2>1. Head(queue) \in Changes /\ Tail(queue) \in Seq(Changes)
        /\ Len(Tail(queue)) <= Capacity
    BY <1>5 DEF ReceiveChange
  <2> QED
    BY <1>5, <2>1 DEF ReceiveChange
<1>6. CASE FlushStart
  BY <1>6 DEF FlushStart
<1>7. ASSUME NEW u \in URIs, NEW s \in URIs, VisitPair(u, s) PROVE TypeOK'
  <2>1. told' \in [URIs -> Seq(Notifications)]
    <3>1. \E S : Tell(s, S)
      BY <1>7 DEF VisitPair
    <3> QED
      BY <3>1, TellTypes
  <2> QED
    BY <1>7, <2>1 DEF VisitPair
<1>8. ASSUME NEW s \in URIs, SendGroup(s) PROVE TypeOK'
  <2>1. told' \in [URIs -> Seq(Notifications)]
    <3>1. \E S : Tell(s, S)
      BY <1>8 DEF SendGroup
    <3> QED
      BY <3>1, TellTypes
  <2> QED
    BY <1>8, <2>1 DEF SendGroup
<1>9. CASE FlushEnd
  BY <1>9 DEF FlushEnd, NoSubs
<1>10. CASE UNCHANGED vars
  BY <1>10 DEF vars
<1> QED
  BY <1>1, <1>2, <1>3, <1>4, <1>5, <1>6, <1>7, <1>8, <1>9, <1>10 DEF Next, Flush

LEMMA NextClosed == ClosedIsStill /\ [Next]_vars => ClosedIsStill'
<1> SUFFICES ASSUME ClosedIsStill, [Next]_vars PROVE ClosedIsStill'
  OBVIOUS
<1> USE DEF ClosedIsStill, Running
<1>1. ASSUME \/ \E u \in URIs : Unsubscribe(u)
             \/ \E u \in URIs, kind \in {"exact", "recursive"} : Subscribe(u, kind)
             \/ \E u \in URIs, kind \in Kinds :
                   NotifyResourceChange(u, kind)
             \/ ReceiveChange \/ CancelStart \/ UNCHANGED vars
      PROVE UNCHANGED <<worker, stop>>
  BY <1>1 DEF Subscribe, Unsubscribe, NotifyResourceChange, ReceiveChange, CancelStart,
       vars
<1>2. CASE Start \/ WorkerExit \/ StopSignal \/ StopClose
  BY <1>2 DEF Start, WorkerExit, StopSignal, StopClose
<1>3. CASE FlushStart \/ Flush
  <2>1. CASE FlushStart
    BY <2>1 DEF FlushStart
  <2>2. ASSUME NEW u \in URIs, NEW s \in URIs, VisitPair(u, s)
        PROVE worker = "flush" /\ UNCHANGED stop
    BY <2>2 DEF VisitPair
  <2>3. ASSUME NEW s \in URIs, SendGroup(s) PROVE worker = "flush" /\ UNCHANGED stop
    BY <2>3 DEF SendGroup
  <2>4. CASE FlushEnd
    BY <2>4 DEF FlushEnd
  <2> QED
    BY <1>3, <2>1, <2>2, <2>3, <2>4 DEF Flush
<1> QED
  BY <1>1, <1>2, <1>3 DEF Next


LEMMA NextInOrder == TypeOK /\ InOrder /\ [Next]_vars => InOrder'
<1> SUFFICES ASSUME TypeOK, InOrder, [Next]_vars PROVE InOrder'
  OBVIOUS
<1> USE DEF InOrder, Growing, Older
<1>0. /\ queue \in Seq(Changes) /\ batch \in Seq(Changes) /\ last \in Nat
      /\ \A c \in Changes : c.n \in Nat
  BY SubscriptionsAssumption DEF TypeOK, Changes
<1>1. ASSUME NEW u \in URIs, NEW kind \in Kinds,
             NotifyResourceChange(u, kind)
      PROVE InOrder'
  <2>1. PICK c \in Changes : Queued(c)
    BY <1>1, NotifyEffect
  <2>2. UNCHANGED batch
    BY <1>1 DEF NotifyResourceChange
  <2>3. CASE queue' = queue
    BY <1>0, <2>1, <2>2, <2>3 DEF Queued
  <2>4. CASE queue' = Append(queue, c)
    <3>1. /\ Len(queue) \in Nat /\ DOMAIN queue' = 1..(Len(queue) + 1)
          /\ DOMAIN queue = 1..Len(queue)
          /\ \A i \in 1..Len(queue) : queue'[i] = queue[i]
          /\ queue'[Len(queue) + 1] = c
      BY <1>0, <2>4
    <3>2. \A i \in 1..Len(queue) : queue[i].n \in Nat /\ queue[i].n < last + 1
      <4>1. \A i \in DOMAIN queue : queue[i] \in Changes /\ queue[i].n <= last
        BY <1>0
      <4> QED
        BY <1>0, <3>1, <4>1
    <3>3. \A i \in DOMAIN batch : batch[i].n \in Nat /\ batch[i].n < last + 1
      <4>1. \A i \in DOMAIN batch : batch[i] \in Changes /\ batch[i].n <= last
        BY <1>0
      <4> QED
        BY <1>0, <4>1
    <3>4. c.n = last + 1 /\ last' = last + 1
      BY <2>1 DEF Queued
    <3>5. \A i \in DOMAIN queue' : queue'[i].n <= last'
      BY <1>0, <3>1, <3>2, <3>4
    <3>6. Growing(queue')
      <4>1. ASSUME NEW i \in DOMAIN queue', NEW j \in DOMAIN queue', i < j
            PROVE queue'[i].n < queue'[j].n
        <5>1. CASE j \in DOMAIN queue
          BY <3>1, <4>1, <5>1
        <5>2. CASE j = Len(queue) + 1
          BY <3>1, <3>2, <3>4, <4>1, <5>2
        <5> QED
          BY <3>1, <5>1, <5>2
      <4> QED
        BY <4>1
    <3>7. Older(batch, queue')
      <4>1. ASSUME NEW i \in DOMAIN batch, NEW j \in DOMAIN queue'
            PROVE batch[i].n < queue'[j].n
        <5>1. CASE j \in DOMAIN queue
          BY <3>1, <5>1
        <5>2. CASE j = Len(queue) + 1
          BY <3>1, <3>3, <3>4, <5>2
        <5> QED
          BY <3>1, <5>1, <5>2
      <4> QED
        BY <2>2, <4>1
    <3>8. Growing(batch') /\ Older(batch', queue')
          /\ \A i \in DOMAIN batch' : batch'[i].n <= last'
      BY <1>0, <2>2, <3>3, <3>4, <3>7
    <3> QED
      BY <3>5, <3>6, <3>8
  <2> QED
    BY <2>1, <2>3, <2>4 DEF Queued
<1>2. CASE ReceiveChange
  <2>1. /\ queue # << >> /\ queue' = Tail(queue) /\ UNCHANGED last
        /\ batch' = batch \/ batch' = Append(batch, Head(queue))
    BY <1>2 DEF ReceiveChange
  <2>2. /\ Len(queue) \in Nat \ {0} /\ DOMAIN queue' = 1..(Len(queue) - 1)
        /\ \A i \in DOMAIN queue' : queue'[i] = queue[i + 1] /\ i + 1 \in DOMAIN queue
        /\ Head(queue) = queue[1] /\ 1 \in DOMAIN queue /\ DOMAIN queue = 1..Len(queue)
    BY <1>0, <2>1
  <2>3. Growing(queue') /\ \A i \in DOMAIN queue' : queue'[i].n <= last
    BY <2>2
  <2>4. \A i \in DOMAIN queue' : queue[1].n < queue'[i].n
    BY <2>2
  <2>5. Older(batch, queue')
    BY <2>2
  <2>6. CASE batch' = batch
    BY <2>1, <2>3, <2>5, <2>6
  <2>7. CASE batch' = Append(batch, Head(queue))
    <3>1. /\ Len(batch) \in Nat /\ DOMAIN batch' = 1..(Len(batch) + 1)
          /\ DOMAIN batch = 1..Len(batch)
          /\ \A i \in 1..Len(batch) : batch'[i] = batch[i]
          /\ batch'[Len(batch) + 1] = queue[1]
      BY <1>0, <2>2, <2>7
    <3>2. Growing(batch')
      BY <2>2, <3>1
    <3>3. Older(batch', queue')
      BY <2>4, <2>5, <3>1
    <3>4. \A i \in DOMAIN batch' : batch'[i].n <= last
      BY <2>2, <3>1
    <3> QED
      BY <2>1, <2>3, <3>2, <3>3, <3>4
  <2> QED
    BY <2>1, <2>6, <2>7
<1>3. CASE FlushEnd
  BY <1>3 DEF FlushEnd
<1>4. ASSUME UNCHANGED <<queue, batch, last>> PROVE InOrder'
  BY <1>4
<1>5. ASSUME \/ \E u \in URIs : Unsubscribe(u)
             \/ \E u \in URIs, kind \in {"exact", "recursive"} : Subscribe(u, kind)
             \/ Start \/ FlushStart \/ WorkerExit \/ CancelStart \/ StopSignal
             \/ StopClose \/ UNCHANGED vars
      PROVE UNCHANGED <<queue, batch, last>>
  BY <1>5 DEF Subscribe, Unsubscribe, Start, FlushStart, WorkerExit, CancelStart,
       StopSignal, StopClose, vars
<1>6. ASSUME NEW u \in URIs, NEW s \in URIs, VisitPair(u, s)
      PROVE UNCHANGED <<queue, batch, last>>
  BY <1>6 DEF VisitPair
<1>7. ASSUME NEW s \in URIs, SendGroup(s) PROVE UNCHANGED <<queue, batch, last>>
  BY <1>7 DEF SendGroup
<1> HIDE DEF InOrder
<1> QED
  BY <1>1, <1>2, <1>3, <1>4, <1>5, <1>6, <1>7 DEF Next, Flush

\* After Tell(s, S) a subscription has its old notifications and, behind them, s
\* has at most one more, with the slices of S.
LEMMA TellDescribed ==
  ASSUME TypeOK, NEW s \in URIs, NEW S, Tell(s, S)
  PROVE  \A t \in URIs : \A i \in DOMAIN told'[t] :
           \/ i \in DOMAIN told[t] /\ told'[t][i] = told[t][i]
           \/ /\ t = s /\ told'[t][i] = Slices(S)
              /\ \A j \in DOMAIN told'[t] :
                   j # i => j < i /\ j \in DOMAIN told[t] /\ told'[t][j] = told[t][j]
<1>1. told \in [URIs -> Seq(Notifications)] /\ told[s] \in Seq(Notifications)
  BY DEF TypeOK
<1>2. CASE told' = told
  BY <1>2
<1>3. CASE told' = [told EXCEPT ![s] = Append(told[s], Slices(S))]
  <2>1. \A t \in URIs : t # s => told'[t] = told[t]
    BY <1>1, <1>3
  <2>2. told'[s] = Append(told[s], Slices(S))
    BY <1>1, <1>3
  <2>3. /\ Len(told[s]) \in Nat /\ DOMAIN told[s] = 1..Len(told[s])
        /\ DOMAIN told'[s] = 1..(Len(told[s]) + 1)
        /\ \A i \in 1..Len(told[s]) : told'[s][i] = told[s][i]
        /\ told'[s][Len(told[s]) + 1] = Slices(S)
    BY <1>1, <2>2
  <2> QED
    BY <2>1, <2>3
<1> QED
  BY <1>2, <1>3 DEF Tell

\* A notification that ends the part of the flush it belongs to: what it tells
\* is newer than what its subscription was told of the same resource before.
LEMMA TellInOrder ==
  ASSUME TypeOK, InOrder, ToldBefore, ToldOnceInOrder, worker = "flush",
         NEW s \in URIs, NEW S, Tell(s, S),
         UNCHANGED <<last, queue, batch, worker>>,
         visits' \subseteq visits, groups' \subseteq groups,
         \A c \in S : \/ /\ c.kind = "updated"
                         /\ <<c.uri, s>> \in visits /\ <<c.uri, s>> \notin visits'
                      \/ c.kind # "updated" /\ s \in groups /\ s \notin groups'
  PROVE  ToldBefore' /\ ToldOnceInOrder'
<1>0. Growing(batch) /\ Older(batch, queue) /\ \A x \in DOMAIN batch : batch[x].n <= last
  BY DEF InOrder
<1>1. ASSUME NEW t \in URIs, NEW i \in DOMAIN told'[t]
      PROVE  \/ i \in DOMAIN told[t] /\ told'[t][i] = told[t][i]
             \/ /\ t = s /\ told'[t][i] = Slices(S)
                /\ \A j \in DOMAIN told'[t] :
                     j # i => j < i /\ j \in DOMAIN told[t] /\ told'[t][j] = told[t][j]
  BY TellDescribed
<1>2. ASSUME NEW k \in Kinds
      PROVE  /\ \A a \in DOMAIN Slices(S)[k] :
                  /\ Slices(S)[k][a] \in S /\ Slices(S)[k][a].kind = k
                  /\ \E x \in DOMAIN batch : Slices(S)[k][a] = batch[x]
             /\ \A a, b \in DOMAIN Slices(S)[k] :
                  a < b => Slices(S)[k][a].n < Slices(S)[k][b].n
  BY <1>0, SliceDescribed
<1>3. ASSUME NEW t \in URIs, NEW i \in DOMAIN told'[t], NEW k \in Kinds,
             NEW a \in DOMAIN told'[t][i][k]
      PROVE  LET c == told'[t][i][k][a]
             IN /\ c.n <= last
                /\ \A j \in DOMAIN queue : c.n < queue[j].n
                /\ \/ k = "updated" /\ <<c.uri, t>> \in visits'
                   \/ k # "updated" /\ t \in groups'
                   => \A j \in DOMAIN batch : c.n < batch[j].n
  <2>1. CASE i \in DOMAIN told[t] /\ told'[t][i] = told[t][i]
    BY <1>3, <2>1 DEF ToldBefore
  <2>2. CASE t = s /\ told'[t][i] = Slices(S)
    <3>1. PICK x \in DOMAIN batch : told'[t][i][k][a] = batch[x]
      BY <1>2, <1>3, <2>2
    <3>2. batch[x].n <= last /\ \A j \in DOMAIN queue : batch[x].n < queue[j].n
      BY <1>0 DEF Older
    <3>3. batch[x] \in S /\ batch[x].kind = k
      BY <1>2, <1>3, <2>2, <3>1
    <3> QED
      BY <2>2, <3>1, <3>2, <3>3
  <2> QED
    BY <1>1, <2>1, <2>2
<1>4. ToldBefore'
  <2> SUFFICES ASSUME NEW t \in URIs, NEW i \in DOMAIN told'[t], NEW k \in Kinds,
                      NEW a \in DOMAIN told'[t][i][k]
               PROVE  LET c == told'[t][i][k][a]
                      IN /\ c.n <= last'
                         /\ \A j \in DOMAIN queue' : c.n < queue'[j].n
                         /\ \/ worker' # "flush"
                            \/ k = "updated" /\ <<c.uri, t>> \in visits'
                            \/ k # "updated" /\ t \in groups'
                            => \A j \in DOMAIN batch' : c.n < batch'[j].n
    BY DEF ToldBefore
  <2> QED
    BY <1>3
<1>5. ASSUME NEW t \in URIs, NEW i \in DOMAIN told'[t], NEW j \in DOMAIN told'[t],
             NEW k \in Kinds, NEW l \in Kinds,
             NEW a \in DOMAIN told'[t][i][k], NEW b \in DOMAIN told'[t][j][l],
             i < j \/ (i = j /\ k = l /\ a < b),
             (k = "updated") = (l = "updated"),
             told'[t][i][k][a].uri = told'[t][j][l][b].uri
      PROVE  told'[t][i][k][a].n < told'[t][j][l][b].n
  <2>0. i \in Nat /\ j \in Nat
    <3>1. told'[t] \in Seq(Notifications)
      BY TellTypes
    <3> QED
      BY <3>1
  <2>1. CASE /\ i \in DOMAIN told[t] /\ told'[t][i] = told[t][i]
             /\ j \in DOMAIN told[t] /\ told'[t][j] = told[t][j]
    BY <1>5, <2>1 DEF ToldOnceInOrder
  <2>2. CASE /\ t = s /\ told'[t][i] = Slices(S)
             /\ \A x \in DOMAIN told'[t] : x # i => x < i
    <3>1. i = j /\ k = l /\ a < b
      BY <1>5, <2>0, <2>2
    <3> QED
      BY <1>2, <1>5, <2>2, <3>1
  <2>3. CASE /\ i # j /\ i \in DOMAIN told[t] /\ told'[t][i] = told[t][i]
             /\ t = s /\ told'[t][j] = Slices(S)
    <3>1. /\ told'[t][j][l][b] \in S /\ told'[t][j][l][b].kind = l
          /\ \E x \in DOMAIN batch : told'[t][j][l][b] = batch[x]
      BY <1>2, <1>5, <2>3
    <3>2. \/ k = "updated" /\ <<told[t][i][k][a].uri, t>> \in visits
          \/ k # "updated" /\ t \in groups
      BY <1>5, <2>3, <3>1
    <3>3. \A x \in DOMAIN batch : told[t][i][k][a].n < batch[x].n
      BY <1>5, <2>3, <3>2 DEF ToldBefore
    <3> QED
      BY <2>3, <3>1, <3>3
  <2>4. CASE i = j /\ k = l /\ a < b
    BY <1>1, <2>1, <2>2, <2>4
  <2>5. CASE i < j
    <3>1. i # j
      BY <2>0, <2>5
    <3> QED
      BY <1>1, <2>1, <2>2, <2>3, <3>1
  <2> QED
    BY <1>5, <2>4, <2>5
<1>6. ToldOnceInOrder'
  BY <1>5 DEF ToldOnceInOrder
<1> QED
  BY <1>4, <1>6

LEMMA NextTold == TypeOK /\ InOrder /\ ToldBefore /\ ToldOnceInOrder /\ [Next]_vars
                    => ToldBefore' /\ ToldOnceInOrder'
<1> SUFFICES ASSUME TypeOK, InOrder, ToldBefore, ToldOnceInOrder, [Next]_vars
             PROVE  ToldBefore' /\ ToldOnceInOrder'
  OBVIOUS
<1>1. ASSUME NEW u \in URIs, NEW s \in URIs, VisitPair(u, s)
      PROVE ToldBefore' /\ ToldOnceInOrder'
  <2> DEFINE S == {c \in Range(batch) : c.uri = u /\ c.kind = "updated"}
  <2>1. /\ worker = "flush" /\ Tell(s, S) /\ <<u, s>> \in visits
        /\ visits' = visits \ {<<u, s>>}
        /\ UNCHANGED <<last, queue, batch, worker, groups>>
    BY <1>1 DEF VisitPair
  <2>2. \A c \in S : c.kind = "updated" /\ c.uri = u
    OBVIOUS
  <2> HIDE DEF S
  <2> QED
    BY <2>1, <2>2, TellInOrder
<1>2. ASSUME NEW s \in URIs, SendGroup(s) PROVE ToldBefore' /\ ToldOnceInOrder'
  <2> DEFINE S == {c \in Range(batch) : c.kind # "updated" /\ Covers(copy, s, c.uri)}
  <2>1. /\ worker = "flush" /\ Tell(s, S) /\ s \in groups /\ groups' = groups \ {s}
        /\ UNCHANGED <<last, queue, batch, worker, visits>>
    BY <1>2 DEF SendGroup
  <2>2. \A c \in S : c.kind # "updated"
    OBVIOUS
  <2> HIDE DEF S
  <2> QED
    BY <2>1, <2>2, TellInOrder
<1>3. ASSUME UNCHANGED told, ToldBefore' PROVE ToldBefore' /\ ToldOnceInOrder'
  BY <1>3 DEF ToldOnceInOrder
<1>4. /\ queue \in Seq(Changes) /\ batch \in Seq(Changes) /\ last \in Nat
      /\ told \in [URIs -> Seq(Notifications)] /\ \A c \in Changes : c.n \in Nat
  <2>1. \A c \in Changes : c.n \in Nat
    BY SubscriptionsAssumption DEF Changes
  <2> QED
    BY <2>1, SubscriptionsAssumption DEF TypeOK
<1>5. ASSUME NEW u \in URIs, NEW kind \in Kinds,
             NotifyResourceChange(u, kind)
      PROVE UNCHANGED told /\ ToldBefore'
  <2>1. PICK c \in Changes : Queued(c)
    BY <1>5, NotifyEffect
  <2>2. UNCHANGED <<batch, worker, visits, groups, told>>
    BY <1>5 DEF NotifyResourceChange
  <2>3. ASSUME NEW s \in URIs, NEW i \in DOMAIN told[s], NEW k \in Kinds,
               NEW a \in DOMAIN told[s][i][k]
        PROVE  /\ told[s][i][k][a].n <= last'
               /\ \A j \in DOMAIN queue' : told[s][i][k][a].n < queue'[j].n
    <3> DEFINE c0 == told[s][i][k][a]
    <3>1. /\ c0 \in Changes /\ c0.n <= last
          /\ \A j \in DOMAIN queue : c0.n < queue[j].n
      <4>1. told[s][i] \in Notifications
        BY <1>4
      <4>2. told[s][i][k] \in Seq(Changes)
        BY <4>1 DEF Notifications
      <4>3. c0 \in Changes
        BY <4>2, <2>3
      <4>4. c0.n <= last /\ \A j \in DOMAIN queue : c0.n < queue[j].n
        BY <2>3 DEF ToldBefore
      <4> QED
        BY <4>3, <4>4
    <3> HIDE DEF c0
    <3>2. c0.n \in Nat /\ last' = last + 1 /\ c.n = last + 1
      BY <1>4, <2>1, <3>1 DEF Queued
    <3>3. ASSUME queue' = Append(queue, c)
          PROVE  c0.n <= last' /\ \A j \in DOMAIN queue' : c0.n < queue'[j].n
      <4>1. /\ DOMAIN queue = 1..Len(queue) /\ DOMAIN queue' = 1..(Len(queue) + 1)
            /\ Len(queue) \in Nat /\ queue'[Len(queue) + 1] = c
            /\ \A j \in 1..Len(queue) : queue'[j] = queue[j]
        BY <1>4, <3>3
      <4>2. ASSUME NEW j \in DOMAIN queue' PROVE c0.n < queue'[j].n
        <5>1. CASE j \in DOMAIN queue
          <6>1. queue'[j] = queue[j]
            BY <4>1, <5>1
          <6> QED
            BY <3>1, <5>1, <6>1
        <5>2. CASE j = Len(queue) + 1
          <6>1. queue'[j] = c
            BY <4>1, <5>2
          <6>2. c0.n <= last /\ last \in Nat
            BY <1>4, <3>1
          <6> QED
            BY <3>2, <6>1, <6>2
        <5> QED
          BY <4>1, <5>1, <5>2
      <4> QED
        BY <1>4, <3>1, <3>2, <4>2
    <3>4. c0.n <= last' /\ \A j \in DOMAIN queue' : c0.n < queue'[j].n
      BY <1>4, <2>1, <3>1, <3>2, <3>3 DEF Queued
    <3> QED
      BY <3>4 DEF c0
  <2> QED
    BY <2>2, <2>3 DEF ToldBefore
<1>6. CASE ReceiveChange
  <2>1. /\ worker = "select" /\ queue # << >> /\ queue' = Tail(queue)
        /\ batch' = batch \/ batch' = Append(batch, Head(queue))
        /\ UNCHANGED <<last, told>>
    BY <1>6 DEF ReceiveChange
  <2>2. /\ \A j \in DOMAIN queue' : queue'[j] = queue[j + 1] /\ j + 1 \in DOMAIN queue
        /\ Head(queue) = queue[1] /\ 1 \in DOMAIN queue
    BY <1>4, <2>1
  <2>3. \A j \in DOMAIN batch' :
          \/ batch'[j] = queue[1]
          \/ j \in DOMAIN batch /\ batch'[j] = batch[j]
    <3>1. CASE batch' = Append(batch, queue[1])
      <4>1. /\ Len(batch) \in Nat /\ DOMAIN batch = 1..Len(batch)
            /\ DOMAIN batch' = 1..(Len(batch) + 1)
            /\ batch'[Len(batch) + 1] = queue[1]
            /\ \A j \in 1..Len(batch) : batch'[j] = batch[j]
        BY <1>4, <3>1
      <4> QED
        BY <4>1
    <3> QED
      BY <2>1, <2>2, <3>1
  <2>4. ASSUME NEW s \in URIs, NEW i \in DOMAIN told[s], NEW k \in Kinds,
               NEW a \in DOMAIN told[s][i][k]
        PROVE  LET c == told[s][i][k][a]
               IN /\ c.n <= last
                  /\ \A j \in DOMAIN queue' : c.n < queue'[j].n
                  /\ \A j \in DOMAIN batch' : c.n < batch'[j].n
    <3>1. LET c == told[s][i][k][a]
          IN /\ c.n <= last
             /\ \A j \in DOMAIN queue : c.n < queue[j].n
             /\ \A j \in DOMAIN batch : c.n < batch[j].n
      BY <2>1, <2>4 DEF ToldBefore
    <3> QED
      BY <2>2, <2>3, <3>1
  <2>5. ToldBefore'
    BY <2>1, <2>4 DEF ToldBefore
  <2> QED
    BY <2>1, <2>5, <1>3
<1>7. CASE FlushStart
  <2>1. worker = "select" /\ UNCHANGED <<last, queue, batch, told>>
    BY <1>7 DEF FlushStart
  <2> QED
    BY <2>1, <1>3 DEF ToldBefore
<1>8. CASE FlushEnd
  <2>1. worker' = "select" /\ visits = {} /\ groups = {} /\ batch' = << >>
        /\ UNCHANGED <<last, queue, told>>
    BY <1>8 DEF FlushEnd
  <2>2. ToldBefore'
    BY <2>1 DEF ToldBefore
  <2> QED
    BY <2>1, <2>2, <1>3
<1>9. CASE Start \/ WorkerExit
  <2>1. worker # "flush" /\ UNCHANGED <<last, queue, batch, told>>
    BY <1>9 DEF Start, WorkerExit
  <2> QED
    BY <2>1, <1>3 DEF ToldBefore
<1>10. ASSUME \/ \E u \in URIs : Unsubscribe(u)
              \/ \E u \in URIs, kind \in {"exact", "recursive"} : Subscribe(u, kind)
              \/ CancelStart \/ StopSignal \/ StopClose \/ UNCHANGED vars
       PROVE UNCHANGED <<last, queue, batch, worker, visits, groups, told>>
  BY <1>10 DEF Subscribe, Unsubscribe, CancelStart, StopSignal, StopClose, vars
<1>11. ASSUME UNCHANGED <<last, queue, batch, worker, visits, groups, told>>
       PROVE ToldBefore' /\ ToldOnceInOrder'
  BY <1>11, <1>3 DEF ToldBefore
<1> QED
  BY <1>1, <1>2, <1>3, <1>5, <1>6, <1>7, <1>8, <1>9, <1>10, <1>11 DEF Next, Flush
-----------------------------------------------------------------------------
(* The theorems *)

\* The numbers of the changes grow from the subscriptions over the batch to
\* the channel, in every reachable state: NotifyResourceChange, processChanges
\* and sendBatchedNotifications never let a newer change overtake an older one.
THEOREM SubscriptionsInductive == Spec => []IInv
<1>1. IInv /\ [Next]_vars => IInv'
  BY NextTypes, NextInOrder, NextTold, NextClosed DEF IInv
<1> QED
  BY <1>1, InitIInv, PTL DEF Spec

\* Every variable keeps its type: the channel holds Capacity changes at most.
THEOREM SubscriptionsTypeCorrect == Spec => []TypeOK
BY SubscriptionsInductive, PTL DEF IInv

\* A subscription is told of a change at most once, and of the changes of one
\* resource in the order in which they were reported, from one notification to
\* the next and inside a slice of sendBatchedNotifications, whatever is
\* subscribed and unsubscribed while a flush is under way.
THEOREM ToldInOrder == Spec => []ToldOnceInOrder
BY SubscriptionsInductive, PTL DEF IInv

\* Once Stop has closed the channel nothing is told and nothing is taken.
THEOREM StopSilences == Spec => SilentAfterStop
<1>1. IInv /\ [Next]_vars => [stop = "closed" => UNCHANGED <<told, queue>>]_vars
  <2> SUFFICES ASSUME ClosedIsStill, [Next]_vars, stop = "closed"
               PROVE  UNCHANGED <<told, queue>>
    BY DEF IInv
  <2>1. worker \notin {"select", "flush"}
    BY DEF ClosedIsStill, Running
  <2>2. ASSUME NEW u \in URIs, NEW kind \in Kinds,
               NotifyResourceChange(u, kind)
        PROVE UNCHANGED <<told, queue>>
    BY <2>2 DEF NotifyResourceChange
  <2>3. ASSUME \/ \E u \in URIs : Unsubscribe(u)
               \/ \E u \in URIs, kind \in {"exact", "recursive"} : Subscribe(u, kind)
               \/ Start \/ CancelStart \/ StopSignal \/ StopClose \/ UNCHANGED vars
        PROVE UNCHANGED <<told, queue>>
    BY <2>3 DEF Subscribe, Unsubscribe, Start, CancelStart, StopSignal, StopClose, vars
  <2>4. ~ReceiveChange /\ ~FlushStart /\ ~WorkerExit
    BY <2>1 DEF ReceiveChange, FlushStart, WorkerExit
  <2>5. ~Flush
    BY <2>1 DEF Flush, VisitPair, SendGroup, FlushEnd
  <2> QED
    BY <2>2, <2>3, <2>4, <2>5 DEF Next
<1> QED
  BY <1>1, SubscriptionsInductive, PTL DEF Spec, SilentAfterStop
=============================================================================
