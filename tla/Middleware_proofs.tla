--------------------------- MODULE Middleware_proofs ---------------------------
(***************************************************************************)
(* The middleware of MC_Middleware, for all values of its constants: the   *)
(* limiter keeps its budget, the cache of tokens neither invents a token   *)
(* nor keeps one alive, and the variables of every part keep their types.  *)
(*                                                                         *)
(* The budget is not inductive by itself: what a key may still be granted  *)
(* also depends on its bucket and on the senders that hold a bucket which  *)
(* is not the key's any more.  Owed relates the three.  That the clean-up  *)
(* does not break it (it replaces a bucket by a full one) needs Repaid: a  *)
(* bucket that has been idle for so long has nothing owed any more.        *)
(***************************************************************************)
EXTENDS MC_Middleware, MiddlewareChain_proofs, FiniteSetTheorems, TLAPS

-----------------------------------------------------------------------------
(* RateLimiter                                                              *)

Of(k) == {s \in Senders : key[s] = k}

\* Senders that will take from a bucket that has been deleted.
Outdated(k) == {s \in Of(k) : at[s] = "take" /\ held[s] # buckets[k]}

\* What the key's bucket would grant now; one that is made is full.
Level(k) == IF buckets[k] = None THEN BurstSize ELSE Refilled(buckets[k])

\* A sender holds a bucket between the two halves of Allow.
HeldAtTake == \A s \in Senders : held[s] # None <=> at[s] = "take"

\* Who wants a token has a request that needs it.
LeftForRequests == \A s \in Senders : at[s] \in {"find", "take"} => left[s] > 0

\* A bucket is the bucket of one key, and of its senders.
BucketsApart ==
  \A k \in RLKeys :
    buckets[k] # None =>
      /\ \A l \in RLKeys : buckets[l] = buckets[k] => l = k
      /\ \A s \in Senders : held[s] = buckets[k] => key[s] = k

\* No tick passes while somebody holds a bucket that has been deleted.
FreshWhileStale ==
  \A k \in RLKeys : Outdated(k) # {} /\ buckets[k] # None => idle[buckets[k]] = 0

\* A bucket is ahead of the ideal one by no more than the senders of the key
\* that have taken, or may take, from a deleted one.
Owed ==
  \A k \in RLKeys : Level(k) - ideal[k] + Cardinality(Outdated(k)) <= Cardinality(Of(k))

\* Every tick pays one token back.
Repaid ==
  \A k \in RLKeys :
    buckets[k] # None =>
      ideal[k] >= Min2(BurstSize, idle[buckets[k]] - Cardinality(Of(k)))

LimiterTyped == LimiterTypeOK /\ HeldAtTake /\ LeftForRequests

LimiterInv ==
  /\ LimiterTyped
  /\ BucketsApart
  /\ FreshWhileStale
  /\ Owed
  /\ Repaid

-----------------------------------------------------------------------------
(* Sizes of sets                                                            *)

\* A set of senders is finite, and so is the number of them.
LEMMA SendersFinite ==
  ASSUME NEW U \in SUBSET Senders, NEW T \in SUBSET U
  PROVE  /\ IsFiniteSet(T)
         /\ Cardinality(T) \in Nat /\ Cardinality(U) \in Nat
         /\ Cardinality(Senders) \in Nat
         /\ Cardinality(T) <= Cardinality(U)
         /\ Cardinality(U) <= Cardinality(Senders)
<1>1. IsFiniteSet(Senders) BY LimiterAssumption
<1>2. IsFiniteSet(U) /\ Cardinality(U) <= Cardinality(Senders)
  BY <1>1, FS_Subset
<1>3. IsFiniteSet(T) /\ Cardinality(T) <= Cardinality(U)
  BY <1>2, FS_Subset
<1> QED BY <1>1, <1>2, <1>3, FS_CardinalityType

\* A function has no more values than arguments.
LEMMA ImageSize ==
  ASSUME NEW S, IsFiniteSet(S), NEW f
  PROVE  /\ IsFiniteSet({f[x] : x \in S})
         /\ Cardinality({f[x] : x \in S}) <= Cardinality(S)
<1> DEFINE T == {f[x] : x \in S}
           g == [x \in S |-> f[x]]
<1>1. g \in Surjection(S, T) BY DEF Surjection
<1> QED BY <1>1, FS_Surjection

\* Find always has a number for the bucket that it makes: its sender holds
\* none, and its key has none.
LEMMA FreeBucket ==
  ASSUME LimiterTypeOK, NEW s \in Senders,
         held[s] = None, buckets[key[s]] = None
  PROVE  LET b == CHOOSE b \in Buckets : b \notin InUse
         IN  b \in Buckets /\ b \notin InUse
<1> DEFINE K == RLKeys \ {key[s]}
           R == Senders \ {s}
           A == {buckets[k] : k \in K}
           B == {held[t] : t \in R}
<1>1. /\ IsFiniteSet(RLKeys) /\ IsFiniteSet(Senders)
      /\ Cardinality(RLKeys) \in Nat /\ Cardinality(Senders) \in Nat
  BY LimiterAssumption, FS_CardinalityType
<1>2. /\ IsFiniteSet(K) /\ Cardinality(K) = Cardinality(RLKeys) - 1
      /\ IsFiniteSet(R) /\ Cardinality(R) = Cardinality(Senders) - 1
  BY <1>1, FS_RemoveElement DEF LimiterTypeOK
<1>3. /\ IsFiniteSet(A) /\ Cardinality(A) <= Cardinality(K)
      /\ IsFiniteSet(B) /\ Cardinality(B) <= Cardinality(R)
  BY <1>2, ImageSize
<1>4. /\ IsFiniteSet(A \cup B)
      /\ Cardinality(A \cup B) <= Cardinality(A) + Cardinality(B)
      /\ Cardinality(A \cup B) \in Nat /\ Cardinality(A) \in Nat /\ Cardinality(B) \in Nat
  <2>1. /\ Cardinality(A \cup B) = Cardinality(A) + Cardinality(B) - Cardinality(A \cap B)
        /\ IsFiniteSet(A \cup B)
    BY <1>3, FS_Union
  <2>2. IsFiniteSet(A \cap B) BY <1>3, FS_Subset
  <2>3. /\ Cardinality(A \cap B) \in Nat /\ Cardinality(A) \in Nat
        /\ Cardinality(B) \in Nat /\ Cardinality(A \cup B) \in Nat
    BY <1>3, <2>1, <2>2, FS_CardinalityType
  <2> QED BY <2>1, <2>3
<1>5. InUse \subseteq A \cup B BY DEF InUse
<1>6. Cardinality(Buckets) = Cardinality(RLKeys) + Cardinality(Senders)
  <2>1. /\ 1 \in Int /\ Cardinality(RLKeys) + Cardinality(Senders) \in Int
        /\ ~ 1 > Cardinality(RLKeys) + Cardinality(Senders)
    <3>1. Cardinality(Senders) # 0 BY <1>1, FS_EmptySet
    <3> QED BY <1>1, <3>1
  <2> QED BY <1>1, <2>1, FS_Interval DEF Buckets
<1>7. ~ Buckets \subseteq InUse
  <2> SUFFICES ASSUME Buckets \subseteq InUse PROVE FALSE OBVIOUS
  <2>1. Cardinality(Buckets) <= Cardinality(A \cup B) BY <1>4, <1>5, FS_Subset
  <2> HIDE DEF A, B, K, R
  <2> QED BY <1>1, <1>2, <1>3, <1>4, <1>6, <2>1
<1> QED BY <1>7

-----------------------------------------------------------------------------
(* The steps                                                                *)

\* The types of what the budget is computed from.
LEMMA BudgetTypes ==
  ASSUME LimiterTypeOK, NEW k \in RLKeys
  PROVE  /\ Level(k) \in 0..BurstSize /\ ideal[k] \in Int
         /\ Of(k) \in SUBSET Senders /\ Outdated(k) \in SUBSET Of(k)
         /\ Cardinality(Of(k)) \in Nat /\ Cardinality(Outdated(k)) \in Nat
         /\ Cardinality(Outdated(k)) <= Cardinality(Of(k))
<1>1. /\ BurstSize \in Nat /\ IdleLimit \in Nat /\ None \notin Buckets
  BY LimiterAssumption
<1>2. Of(k) \in SUBSET Senders /\ Outdated(k) \in SUBSET Of(k) BY DEF Of, Outdated
<1>3. Level(k) \in 0..BurstSize
  BY <1>1 DEF LimiterTypeOK, Level, Refilled, Min2
<1> QED BY <1>2, <1>3, SendersFinite DEF LimiterTypeOK

\* The types do not depend on the budget.
LEMMA LimiterTypesKept == ASSUME LimiterTyped, [LimiterNext]_limitervars PROVE LimiterTyped'
<1> USE LimiterAssumption DEF LimiterTyped
<1>1. ASSUME NEW s \in Senders, NEW n \in BatchesOf[s], NEW admitted,
             BeginCall(s, n, admitted)
      PROVE LimiterTyped'
  <2>1. n \in Nat /\ n > 0 OBVIOUS
  <2> QED BY <1>1, <2>1 DEF BeginCall, LimiterTypeOK, HeldAtTake, LeftForRequests
<1>2. ASSUME NEW s \in Senders, Find(s) PROVE LimiterTyped'
  <2>0. key[s] \in RLKeys /\ held[s] = None
    BY <1>2 DEF Find, LimiterTypeOK, HeldAtTake
  <2>1. CASE buckets[key[s]] # None
    BY <1>2, <2>0, <2>1 DEF Find, LimiterTypeOK, HeldAtTake, LeftForRequests
  <2>2. CASE buckets[key[s]] = None
    <3> DEFINE b == CHOOSE b \in Buckets : b \notin InUse
    <3>1. b \in Buckets BY <2>0, <2>2, FreeBucket
    <3>2. /\ at' = [at EXCEPT ![s] = "take"] /\ held' = [held EXCEPT ![s] = b]
          /\ buckets' = [buckets EXCEPT ![key[s]] = b]
          /\ tokens' = [tokens EXCEPT ![b] = BurstSize] /\ idle' = [idle EXCEPT ![b] = 0]
          /\ UNCHANGED <<key, left, ideal>> /\ at[s] = "find"
      BY <1>2, <2>2 DEF Find
    <3> HIDE DEF b
    <3> QED BY <2>0, <3>1, <3>2 DEF LimiterTypeOK, HeldAtTake, LeftForRequests
  <2> QED BY <2>1, <2>2
<1>3. ASSUME NEW s \in Senders, Take(s) PROVE LimiterTyped'
  <2> DEFINE full == Refilled(held[s])
  <2>1. /\ key[s] \in RLKeys /\ held[s] \in Buckets /\ at[s] = "take" /\ left[s] > 0
    BY <1>3 DEF Take, LimiterTypeOK, HeldAtTake, LeftForRequests
  <2>2. full \in 0..BurstSize BY <2>1 DEF LimiterTypeOK, Refilled, Min2
  <2>3. /\ held' = [held EXCEPT ![s] = None] /\ idle' = [idle EXCEPT ![held[s]] = 0]
        /\ tokens' = [tokens EXCEPT ![held[s]] = IF full > 0 THEN full - 1 ELSE full]
        /\ left' = [left EXCEPT ![s] = IF full > 0 THEN left[s] - 1 ELSE left[s]]
        /\ at' = [at EXCEPT ![s] = IF full = 0 THEN "refused"
                                   ELSE IF left'[s] = 0 THEN "forwarded" ELSE "find"]
        /\ ideal' = [ideal EXCEPT ![key[s]] = IF full > 0 THEN ideal[key[s]] - 1
                                              ELSE ideal[key[s]]]
        /\ UNCHANGED <<buckets, key>>
    BY <1>3 DEF Take
  <2> HIDE DEF full
  <2> QED BY <2>1, <2>2, <2>3 DEF LimiterTypeOK, HeldAtTake, LeftForRequests
<1>4. ASSUME NEW k \in RLKeys, Reset(k) PROVE LimiterTyped'
  BY <1>4 DEF Reset, LimiterTypeOK, HeldAtTake, LeftForRequests
<1>5. CASE cleanup
  BY <1>5 DEF cleanup, LimiterTypeOK, HeldAtTake, LeftForRequests
<1>6. CASE Elapse
  BY <1>6 DEF Elapse, LimiterTypeOK, HeldAtTake, LeftForRequests, Min2
<1>7. CASE UNCHANGED limitervars
  BY <1>7 DEF limitervars, LimiterTypeOK, HeldAtTake, LeftForRequests
<1>8. ASSUME NEW s \in Senders, SendRequest(s) \/ SendNotification(s) \/ HandleRequest(s)
      PROVE LimiterTyped'
  <2>1. BeginCall(s, 1, TRUE) /\ 1 \in BatchesOf[s]
    BY <1>8 DEF SendRequest, SendNotification, HandleRequest, BeginCall
  <2> QED BY <1>1, <2>1
<1>9. ASSUME NEW s \in Senders, SendBatchRequest(s) PROVE LimiterTyped'
  <2>1. PICK n \in BatchesOf[s] : BeginCall(s, n, GetRemainingTokens(key[s]) >= n)
    BY <1>9 DEF SendBatchRequest
  <2> QED BY <1>1, <2>1
<1> QED
  BY <1>2, <1>3, <1>4, <1>5, <1>6, <1>7, <1>8, <1>9 DEF LimiterNext

LEMMA InitLimiterInv == LimiterInit => LimiterInv
<1> SUFFICES ASSUME LimiterInit PROVE LimiterInv OBVIOUS
<1> USE LimiterAssumption DEF LimiterInit
<1>1. LimiterTypeOK BY DEF LimiterTypeOK
<1>2. HeldAtTake /\ LeftForRequests /\ BucketsApart /\ FreshWhileStale /\ Repaid
  BY DEF HeldAtTake, LeftForRequests, BucketsApart, FreshWhileStale, Repaid
<1>3. Owed
  <2> SUFFICES ASSUME NEW k \in RLKeys
               PROVE Level(k) - ideal[k] + Cardinality(Outdated(k)) <= Cardinality(Of(k))
    BY DEF Owed
  <2>1. Level(k) = BurstSize /\ ideal[k] = BurstSize BY DEF Level
  <2> QED BY <1>1, <2>1, BudgetTypes
<1> QED BY <1>1, <1>2, <1>3 DEF LimiterInv, LimiterTyped

\* A call begins: it has no bucket, and needs as many tokens as requests.
LEMMA BeginCallKeeps ==
  ASSUME LimiterInv, LimiterTyped', NEW s \in Senders, NEW n, NEW admitted, BeginCall(s, n, admitted)
  PROVE  LimiterInv'
<1> USE DEF LimiterInv, LimiterTyped
<1>3. BucketsApart' BY DEF BeginCall, BucketsApart
<1>4. \A k \in RLKeys : Of(k)' = Of(k) /\ Outdated(k)' = Outdated(k) /\ Level(k)' = Level(k)
  BY DEF BeginCall, LimiterTypeOK, HeldAtTake, Of, Outdated, Level, Refilled
<1>5. FreshWhileStale' /\ Owed' /\ Repaid'
  BY <1>4 DEF BeginCall, FreshWhileStale, Owed, Repaid
<1> QED BY <1>3, <1>5

\* Find gives the sender a bucket of its own key; one that it makes is full,
\* as the ideal one of a key without a bucket is assumed to be by Level.
LEMMA FindKeeps == ASSUME LimiterInv, LimiterTyped', NEW s \in Senders, Find(s) PROVE LimiterInv'
<1> USE LimiterAssumption DEF LimiterInv, LimiterTyped
<1> DEFINE k == key[s]
           b == CHOOSE b \in Buckets : b \notin InUse
<1>0. k \in RLKeys /\ held[s] = None
  BY DEF Find, LimiterTypeOK, HeldAtTake
<1>1. CASE buckets[k] # None
  <2>1. /\ at' = [at EXCEPT ![s] = "take"] /\ held' = [held EXCEPT ![s] = buckets[k]]
        /\ UNCHANGED <<buckets, tokens, idle, key, left, ideal>> /\ at[s] = "find"
    BY <1>1 DEF Find
  <2>3. BucketsApart' BY <1>0, <1>1, <2>1 DEF LimiterTypeOK, BucketsApart
  <2>4. \A l \in RLKeys : Of(l)' = Of(l) /\ Outdated(l)' = Outdated(l) /\ Level(l)' = Level(l)
    BY <2>1 DEF LimiterTypeOK, Of, Outdated, Level, Refilled
  <2>5. FreshWhileStale' /\ Owed' /\ Repaid'
    BY <2>1, <2>4 DEF FreshWhileStale, Owed, Repaid
  <2> QED BY <2>3, <2>5
<1>2. CASE buckets[k] = None
  <2>0. b \in Buckets /\ b \notin InUse BY <1>0, <1>2, FreeBucket
  <2>1. /\ at' = [at EXCEPT ![s] = "take"] /\ held' = [held EXCEPT ![s] = b]
        /\ buckets' = [buckets EXCEPT ![k] = b]
        /\ tokens' = [tokens EXCEPT ![b] = BurstSize] /\ idle' = [idle EXCEPT ![b] = 0]
        /\ UNCHANGED <<key, left, ideal>> /\ at[s] = "find"
    BY <1>2 DEF Find
  <2> HIDE DEF b
  <2>4. /\ b # None
        /\ \A l \in RLKeys : buckets[l] # b
        /\ \A t \in Senders : held[t] # b
    BY <2>0 DEF InUse
  <2>5. BucketsApart' BY <1>0, <2>1, <2>4 DEF LimiterTypeOK, BucketsApart
  <2>6. \A l \in RLKeys : Of(l)' = Of(l) /\ Outdated(l)' = Outdated(l)
    BY <1>0, <1>2, <2>1, <2>4 DEF LimiterTypeOK, HeldAtTake, Of, Outdated
  <2>7. \A l \in RLKeys \ {k} : buckets'[l] = buckets[l] /\ Level(l)' = Level(l)
    BY <2>1, <2>4 DEF LimiterTypeOK, Level, Refilled
  <2>8. Level(k) = BurstSize /\ Level(k)' = BurstSize /\ buckets'[k] = b /\ idle'[b] = 0
    BY <1>0, <1>2, <2>0, <2>1, <2>4 DEF LimiterTypeOK, Level, Refilled, Min2
  <2>9. FreshWhileStale'
    BY <2>1, <2>4, <2>6, <2>7, <2>8 DEF FreshWhileStale, LimiterTypeOK
  <2>10. Owed' BY <2>1, <2>6, <2>7, <2>8 DEF Owed
  <2>11. Repaid'
    <3> SUFFICES ASSUME NEW l \in RLKeys, buckets'[l] # None
                 PROVE ideal'[l] >= Min2(BurstSize, idle'[buckets'[l]] - Cardinality(Of(l))')
      BY DEF Repaid
    <3>1. CASE l # k
      BY <2>1, <2>4, <2>6, <2>7, <3>1 DEF Repaid, LimiterTypeOK
    <3>2. CASE l = k
      <4>1. ideal[k] >= BurstSize - Cardinality(Of(k))
        BY <1>0, <2>8, BudgetTypes DEF Owed
      <4> QED BY <1>0, <2>1, <2>6, <2>8, <3>2, <4>1, BudgetTypes DEF Min2
    <3> QED BY <3>1, <3>2
  <2> QED BY <2>5, <2>9, <2>10, <2>11
<1> QED BY <1>1, <1>2

\* Take lowers the bucket of the key and the ideal one by the same amount, or
\* the sender was stale and is not any more.
LEMMA TakeKeeps == ASSUME LimiterInv, LimiterTyped', NEW s \in Senders, Take(s) PROVE LimiterInv'
<1> USE LimiterAssumption DEF LimiterInv, LimiterTyped
<1> PICK k \in RLKeys : k = key[s] BY DEF LimiterTypeOK
<1> DEFINE b == held[s]
           full == Refilled(b)
           spent == IF full > 0 THEN 1 ELSE 0
<1>0. /\ k \in RLKeys /\ b \in Buckets /\ b # None /\ at[s] = "take" /\ left[s] > 0
      /\ full \in 0..BurstSize
  <2>1. k \in RLKeys /\ b \in Buckets /\ b # None /\ at[s] = "take" /\ left[s] > 0
    BY DEF Take, LimiterTypeOK, HeldAtTake, LeftForRequests
  <2> QED BY <2>1 DEF LimiterTypeOK, Refilled, Min2
<1>1. /\ held' = [held EXCEPT ![s] = None]
      /\ idle' = [idle EXCEPT ![b] = 0]
      /\ tokens' = [tokens EXCEPT ![b] = full - spent]
      /\ left' = [left EXCEPT ![s] = @ - spent]
      /\ at' = [at EXCEPT ![s] = IF full = 0 THEN "refused"
                                 ELSE IF left'[s] = 0 THEN "forwarded" ELSE "find"]
      /\ ideal' = [ideal EXCEPT ![k] = @ - spent]
      /\ UNCHANGED <<buckets, key>>
  <2>1. /\ held' = [held EXCEPT ![s] = None] /\ idle' = [idle EXCEPT ![b] = 0]
        /\ tokens' = [tokens EXCEPT ![b] = IF full > 0 THEN full - 1 ELSE full]
        /\ left' = [left EXCEPT ![s] = IF full > 0 THEN left[s] - 1 ELSE left[s]]
        /\ at' = [at EXCEPT ![s] = IF full = 0 THEN "refused"
                                   ELSE IF left'[s] = 0 THEN "forwarded" ELSE "find"]
        /\ ideal' = [ideal EXCEPT ![k] = IF full > 0 THEN ideal[k] - 1 ELSE ideal[k]]
        /\ UNCHANGED <<buckets, key>>
    BY DEF Take
  <2>2. left[s] \in Int /\ ideal[k] \in Int BY <1>0 DEF LimiterTypeOK
  <2>3. full > 0 \/ ~ full > 0 OBVIOUS
  <2> HIDE DEF full
  <2>4. /\ full - spent = IF full > 0 THEN full - 1 ELSE full
        /\ left[s] - spent = IF full > 0 THEN left[s] - 1 ELSE left[s]
        /\ ideal[k] - spent = IF full > 0 THEN ideal[k] - 1 ELSE ideal[k]
    BY <1>0, <2>2, <2>3
  <2> HIDE DEF spent
  <2> QED BY <2>1, <2>4
<1> spent \in {0, 1} /\ (spent = 0 <=> full = 0) BY <1>0
<1> HIDE DEF full, spent
<1>a. /\ Level(k) \in 0..BurstSize /\ ideal[k] \in Int
      /\ Outdated(k) \in SUBSET Of(k) /\ Of(k) \in SUBSET Senders
      /\ Cardinality(Of(k)) \in Nat /\ Cardinality(Outdated(k)) \in Nat
      /\ IsFiniteSet(Outdated(k))
  BY <1>0, BudgetTypes, SendersFinite
<1>3. BucketsApart'
  BY <1>0, <1>1 DEF LimiterTypeOK, HeldAtTake, BucketsApart
<1>5. \A l \in RLKeys \ {k} : buckets[l] # b
  BY <1>0 DEF BucketsApart
<1>6. \A l \in RLKeys : Of(l)' = Of(l)
  BY <1>1 DEF Of
<1>7. \A l \in RLKeys \ {k} : Outdated(l)' = Outdated(l) /\ Level(l)' = Level(l)
  BY <1>0, <1>1, <1>5 DEF LimiterTypeOK, Of, Outdated, Level, Refilled
<1>8. /\ Outdated(k)' = Outdated(k) \ {s}
      /\ s \in Outdated(k) <=> buckets[k] # b
  BY <1>0, <1>1 DEF LimiterTypeOK, Of, Outdated
<1>9. Cardinality(Outdated(k)') = Cardinality(Outdated(k)) - IF s \in Outdated(k) THEN 1 ELSE 0
  <2>1. Cardinality(Outdated(k) \ {s}) =
          IF s \in Outdated(k) THEN Cardinality(Outdated(k)) - 1 ELSE Cardinality(Outdated(k))
    BY <1>a, FS_RemoveElement
  <2> QED BY <1>8, <1>a, <2>1
<1>10. Level(k)' = Level(k) - IF s \in Outdated(k) THEN 0 ELSE spent
  <2>1. CASE buckets[k] # b
    <3>1. Level(k)' = Level(k)
      BY <1>0, <1>1, <2>1 DEF LimiterTypeOK, Level, Refilled
    <3> QED BY <1>8, <1>a, <2>1, <3>1
  <2>2. CASE buckets[k] = b
    <3>1. Level(k) = full BY <1>0, <2>2 DEF Level, full
    <3>2. Level(k)' = full - spent
      BY <1>0, <1>1, <2>2 DEF LimiterTypeOK, Level, Refilled, Min2
    <3> QED BY <1>8, <2>2, <3>1, <3>2
  <2> QED BY <2>1, <2>2
<1>11. Owed'
  <2> SUFFICES ASSUME NEW l \in RLKeys
               PROVE Level(l)' - ideal'[l] + Cardinality(Outdated(l)') <= Cardinality(Of(l)')
    BY DEF Owed
  <2>1. CASE l # k
    BY <1>0, <1>1, <1>6, <1>7, <2>1 DEF Owed, LimiterTypeOK
  <2>2. CASE l = k
    <3>1. ideal'[k] = ideal[k] - spent BY <1>0, <1>1 DEF LimiterTypeOK
    <3>2. Level(k) - ideal[k] + Cardinality(Outdated(k)) <= Cardinality(Of(k))
      BY <1>0 DEF Owed
    <3>3. Of(k)' = Of(k) BY <1>6
    <3>4. spent \in Int /\ (s \notin Outdated(k) \/ s \in Outdated(k)) OBVIOUS
    <3>5. Level(k)' - ideal'[k] + Cardinality(Outdated(k)') <= Cardinality(Of(k)')
      BY <1>9, <1>10, <1>a, <3>1, <3>2, <3>3, <3>4
    <3> QED BY <2>2, <3>5
  <2> QED BY <2>1, <2>2
<1>12. buckets[k] # None => idle'[buckets[k]] = 0
  <2>1. CASE buckets[k] = b BY <1>0, <1>1, <2>1 DEF LimiterTypeOK
  <2>2. CASE buckets[k] # b
    BY <1>0, <1>1, <1>8, <2>2 DEF FreshWhileStale, LimiterTypeOK
  <2> QED BY <2>1, <2>2
<1>13. \A l \in RLKeys \ {k} : buckets[l] # None => idle'[buckets[l]] = idle[buckets[l]]
  BY <1>0, <1>1, <1>5 DEF LimiterTypeOK
<1>14. FreshWhileStale'
  BY <1>1, <1>7, <1>12, <1>13 DEF FreshWhileStale
<1>15. Repaid'
  <2> SUFFICES ASSUME NEW l \in RLKeys, buckets[l] # None
               PROVE ideal'[l] >= Min2(BurstSize, idle'[buckets[l]] - Cardinality(Of(l)'))
    BY <1>1 DEF Repaid
  <2>1. CASE l # k
    BY <1>0, <1>1, <1>6, <1>13, <2>1 DEF Repaid, LimiterTypeOK
  <2>2. CASE l = k
    <3>1. /\ Level(k)' \in Nat /\ Cardinality(Outdated(k)') \in Nat
          /\ Cardinality(Of(k)) \in Nat /\ ideal'[k] \in Int
      <4>1. /\ Level(k)' \in 0..BurstSize
        BY <1>0, <1>1 DEF LimiterTypeOK, Level, Refilled, Min2
      <4>2. Of(k)' \in SUBSET Senders /\ Outdated(k)' \in SUBSET Of(k)'
        BY DEF Of, Outdated
      <4>3. Cardinality(Outdated(k)') \in Nat BY <4>2, SendersFinite
      <4>4. ideal'[k] \in Int BY <1>0 DEF LimiterTypeOK
      <4> QED BY <1>a, <4>1, <4>3, <4>4
    <3>2. ideal'[k] >= -Cardinality(Of(k))
      BY <1>0, <1>6, <1>11, <3>1 DEF Owed
    <3> QED BY <1>0, <1>6, <1>12, <2>2, <3>1, <3>2 DEF Min2
  <2> QED BY <2>1, <2>2
<1> QED BY <1>3, <1>11, <1>14, <1>15

\* Nobody can be stale already when a bucket has been idle for so long, and
\* its key owes nothing: IdleLimit is enough to pay everything back.
LEMMA CleanupKeeps ==
  ASSUME BurstSize + Cardinality(Senders) <= IdleLimit + 1, LimiterInv, LimiterTyped', cleanup
  PROVE  LimiterInv'
<1> USE LimiterAssumption DEF LimiterInv, LimiterTyped
<1>1. /\ buckets' = [k \in RLKeys |-> IF Idle(k) THEN None ELSE buckets[k]]
      /\ UNCHANGED <<tokens, idle, key, at, held, left, ideal>>
  BY DEF cleanup
<1>2. BucketsApart' BY <1>1 DEF BucketsApart
<1>3. \A k \in RLKeys : Of(k)' = Of(k) BY <1>1 DEF Of
<1>4. ASSUME NEW k \in RLKeys, ~Idle(k)
      PROVE  buckets'[k] = buckets[k] /\ Outdated(k)' = Outdated(k) /\ Level(k)' = Level(k)
  BY <1>1, <1>4 DEF Of, Outdated, Level, Refilled
<1>5. ASSUME NEW k \in RLKeys, Idle(k)
      PROVE  /\ buckets'[k] = None
             /\ Level(k)' - ideal'[k] + Cardinality(Outdated(k)') <= Cardinality(Of(k)')
  <2>1. buckets'[k] = None BY <1>1, <1>5
  <2>2. Level(k)' = BurstSize BY <2>1 DEF Level
  <2>3. /\ Cardinality(Of(k)) \in Nat /\ Cardinality(Senders) \in Nat
        /\ Cardinality(Of(k)) <= Cardinality(Senders) /\ ideal[k] \in Int
    BY BudgetTypes, SendersFinite
  <2>4. ideal[k] >= BurstSize
    <3>1. /\ buckets[k] # None /\ idle[buckets[k]] > IdleLimit
          /\ idle[buckets[k]] \in Nat
      BY <1>5 DEF Idle, LimiterTypeOK
    <3>2. ideal[k] >= Min2(BurstSize, idle[buckets[k]] - Cardinality(Of(k)))
      BY <3>1 DEF Repaid
    <3> QED BY <2>3, <3>1, <3>2 DEF Min2
  <2>5. /\ Cardinality(Outdated(k)') <= Cardinality(Of(k)')
        /\ Cardinality(Outdated(k)') \in Nat /\ Cardinality(Of(k)') \in Nat
    <3>1. Of(k)' \in SUBSET Senders /\ Outdated(k)' \in SUBSET Of(k)' BY DEF Of, Outdated
    <3> QED BY <3>1, SendersFinite
  <2>6. ideal'[k] = ideal[k] BY <1>1
  <2> QED BY <2>1, <2>2, <2>3, <2>4, <2>5, <2>6
<1>6. FreshWhileStale' BY <1>1, <1>4, <1>5 DEF FreshWhileStale
<1>7. Owed'
  <2> SUFFICES ASSUME NEW k \in RLKeys
               PROVE Level(k)' - ideal'[k] + Cardinality(Outdated(k)') <= Cardinality(Of(k)')
    BY DEF Owed
  <2>1. CASE Idle(k) BY <1>5, <2>1
  <2>2. CASE ~Idle(k) BY <1>1, <1>3, <1>4, <2>2 DEF Owed
  <2> QED BY <2>1, <2>2
<1>8. Repaid' BY <1>1, <1>3, <1>4, <1>5 DEF Repaid
<1> QED BY <1>2, <1>6, <1>7, <1>8

\* Reset gives the ideal bucket a full burst, too: nothing is owed.
LEMMA ResetKeeps == ASSUME LimiterInv, LimiterTyped', NEW r \in RLKeys, Reset(r) PROVE LimiterInv'
<1> USE LimiterAssumption DEF LimiterInv, LimiterTyped
<1>1. /\ buckets' = [buckets EXCEPT ![r] = None] /\ ideal' = [ideal EXCEPT ![r] = BurstSize]
      /\ UNCHANGED <<tokens, idle, key, at, held, left>>
  BY DEF Reset
<1>2. BucketsApart' BY <1>1 DEF BucketsApart, LimiterTypeOK
<1>3. \A k \in RLKeys : Of(k)' = Of(k) BY <1>1 DEF Of
<1>4. \A k \in RLKeys \ {r} :
        buckets'[k] = buckets[k] /\ Outdated(k)' = Outdated(k) /\ Level(k)' = Level(k)
  BY <1>1 DEF LimiterTypeOK, Of, Outdated, Level, Refilled
<1>5. buckets'[r] = None /\ Level(r)' = BurstSize /\ ideal'[r] = BurstSize
  BY <1>1 DEF LimiterTypeOK, Level
<1>6. FreshWhileStale' BY <1>1, <1>4, <1>5 DEF FreshWhileStale
<1>7. Owed'
  <2> SUFFICES ASSUME NEW k \in RLKeys
               PROVE Level(k)' - ideal'[k] + Cardinality(Outdated(k)') <= Cardinality(Of(k)')
    BY DEF Owed
  <2>1. CASE k = r
    <3>1. Of(r)' \in SUBSET Senders /\ Outdated(r)' \in SUBSET Of(r)' BY DEF Of, Outdated
    <3>2. /\ Cardinality(Outdated(r)') <= Cardinality(Of(r)')
          /\ Cardinality(Outdated(r)') \in Nat /\ Cardinality(Of(r)') \in Nat
      BY <3>1, SendersFinite
    <3>3. Level(r)' - ideal'[r] + Cardinality(Outdated(r)') <= Cardinality(Of(r)')
      BY <1>5, <3>2
    <3> QED BY <2>1, <3>3
  <2>2. CASE k # r BY <1>1, <1>3, <1>4, <2>2 DEF Owed, LimiterTypeOK
  <2> QED BY <2>1, <2>2
<1>8. Repaid' BY <1>1, <1>3, <1>4, <1>5 DEF Repaid, LimiterTypeOK
<1> QED BY <1>2, <1>6, <1>7, <1>8

\* A tick gives the ideal bucket a token at least when it gives the key's one.
LEMMA ElapseKeeps == ASSUME LimiterInv, LimiterTyped', Elapse PROVE LimiterInv'
<1> USE LimiterAssumption DEF LimiterInv, LimiterTyped
<1>1. /\ idle' = [b \in Buckets |-> IF b \in InUse /\ idle[b] <= IdleLimit
                                  THEN idle[b] + 1 ELSE idle[b]]
      /\ ideal' = [k \in RLKeys |-> Min2(ideal[k] + 1, BurstSize)]
      /\ UNCHANGED <<buckets, tokens, key, at, held, left>>
      /\ \A s \in Senders : at[s] # "take"
  BY DEF Elapse
<1>2. BucketsApart' BY <1>1 DEF BucketsApart
<1>3. \A k \in RLKeys : /\ Of(k)' = Of(k)
                        /\ Outdated(k) = {} /\ Outdated(k)' = {}
  BY <1>1 DEF Of, Outdated
<1>4. \A k \in RLKeys :
        buckets[k] # None => idle'[buckets[k]] \in {idle[buckets[k]], idle[buckets[k]] + 1}
  BY <1>1 DEF LimiterTypeOK
<1>5. FreshWhileStale' BY <1>3 DEF FreshWhileStale
<1>6. ASSUME NEW k \in RLKeys
      PROVE  /\ Level(k) \in Nat /\ ideal[k] \in Int /\ Cardinality(Of(k)) \in Nat
             /\ Level(k)' \in 0..BurstSize /\ Level(k)' <= Level(k) + 1
             /\ ideal'[k] = IF ideal[k] + 1 <= BurstSize THEN ideal[k] + 1 ELSE BurstSize
  <2>1. Level(k) \in Nat /\ ideal[k] \in Int /\ Cardinality(Of(k)) \in Nat
    BY BudgetTypes
  <2>2. Level(k)' \in 0..BurstSize /\ Level(k)' <= Level(k) + 1
    BY <1>1, <1>4 DEF LimiterTypeOK, Level, Refilled, Min2
  <2> QED BY <1>1, <2>1, <2>2 DEF Min2
<1>7. Owed'
  <2> SUFFICES ASSUME NEW k \in RLKeys
               PROVE Level(k)' - ideal'[k] + Cardinality(Outdated(k)') <= Cardinality(Of(k)')
    BY DEF Owed
  <2>1. Level(k) - ideal[k] + Cardinality(Outdated(k)) <= Cardinality(Of(k)) BY DEF Owed
  <2>2. Cardinality({}) = 0 BY FS_EmptySet
  <2>3. /\ Cardinality(Outdated(k)) = 0 /\ Cardinality(Outdated(k)') = 0
        /\ Cardinality(Of(k)') = Cardinality(Of(k))
    BY <1>3, <2>2
  <2> QED BY <1>6, <2>1, <2>3
<1>8. Repaid'
  <2> SUFFICES ASSUME NEW k \in RLKeys, buckets[k] # None
               PROVE ideal'[k] >= Min2(BurstSize, idle'[buckets[k]] - Cardinality(Of(k)'))
    BY <1>1 DEF Repaid
  <2>1. ideal[k] >= Min2(BurstSize, idle[buckets[k]] - Cardinality(Of(k))) BY DEF Repaid
  <2>2. idle[buckets[k]] \in Nat BY DEF LimiterTypeOK
  <2>3. Cardinality(Of(k)') = Cardinality(Of(k)) BY <1>3
  <2> QED BY <1>4, <1>6, <2>1, <2>2, <2>3 DEF Min2
<1> QED BY <1>2, <1>5, <1>7, <1>8

-----------------------------------------------------------------------------
(* The theorems                                                             *)

\* Every variable keeps its type (RateLimiter, tokenBucket), for any number of
\* senders and keys, any burst and any time of idleness.
THEOREM LimiterTypeCorrect == LimiterSpec => []LimiterTypeOK
<1>1. LimiterInit => LimiterTyped BY InitLimiterInv DEF LimiterInv
<1>2. LimiterTyped /\ [LimiterNext]_limitervars => LimiterTyped' BY LimiterTypesKept
<1> QED BY <1>1, <1>2, PTL DEF LimiterSpec, LimiterTyped

\* However buckets are made, cleaned up, reset and found again, a key is never
\* granted more than an ideal bucket would grant and one token for each of its
\* senders, if the ten minutes of the clean-up (ratelimit.go:148) are enough to
\* refill a bucket and that many tokens more.
THEOREM BudgetHolds ==
  ASSUME BurstSize + Cardinality(Senders) <= IdleLimit + 1
  PROVE  LimiterSpec => []WithinBudget
<1>1. LimiterInv /\ [LimiterNext]_limitervars => LimiterInv'
  <2> SUFFICES ASSUME LimiterInv, [LimiterNext]_limitervars PROVE LimiterInv' OBVIOUS
  <2>0. LimiterTyped' BY LimiterTypesKept DEF LimiterInv
  <2>1. ASSUME NEW s \in Senders, SendRequest(s) \/ SendNotification(s) \/ HandleRequest(s)
        PROVE LimiterInv'
    BY <2>0, <2>1, BeginCallKeeps DEF SendRequest, SendNotification, HandleRequest
  <2>2. ASSUME NEW s \in Senders, SendBatchRequest(s) PROVE LimiterInv'
    BY <2>0, <2>2, BeginCallKeeps DEF SendBatchRequest
  <2>3. ASSUME NEW s \in Senders, Find(s) PROVE LimiterInv' BY <2>0, <2>3, FindKeeps
  <2>4. ASSUME NEW s \in Senders, Take(s) PROVE LimiterInv' BY <2>0, <2>4, TakeKeeps
  <2>5. ASSUME NEW k \in RLKeys, Reset(k) PROVE LimiterInv' BY <2>0, <2>5, ResetKeeps
  <2>6. CASE cleanup BY <2>0, <2>6, CleanupKeeps
  <2>7. CASE Elapse BY <2>0, <2>7, ElapseKeeps
  <2>8. CASE UNCHANGED limitervars
    <3>1. \A k \in RLKeys : Of(k)' = Of(k) /\ Outdated(k)' = Outdated(k) /\ Level(k)' = Level(k)
      BY <2>8 DEF limitervars, Of, Outdated, Level, Refilled
    <3> QED
      BY <2>0, <2>8, <3>1
      DEF limitervars, LimiterInv, BucketsApart, FreshWhileStale, Owed, Repaid
  <2> QED BY <2>1, <2>2, <2>3, <2>4, <2>5, <2>6, <2>7, <2>8 DEF LimiterNext
<1>2. LimiterInv => WithinBudget
  <2> SUFFICES ASSUME LimiterInv, NEW k \in RLKeys PROVE ideal[k] >= -Cardinality(Of(k))
    BY DEF WithinBudget, Of
  <2>1. LimiterTypeOK /\ Level(k) - ideal[k] + Cardinality(Outdated(k)) <= Cardinality(Of(k))
    BY DEF LimiterInv, LimiterTyped, Owed
  <2>2. /\ Level(k) \in 0..BurstSize /\ ideal[k] \in Int /\ BurstSize \in Nat
        /\ Cardinality(Of(k)) \in Nat /\ Cardinality(Outdated(k)) \in Nat
    BY <2>1, BudgetTypes, LimiterAssumption
  <2> QED BY <2>1, <2>2
<1> QED BY <1>1, <1>2, InitLimiterInv, PTL DEF LimiterSpec
-----------------------------------------------------------------------------
(* TokenValidation                                                          *)

\* A call that has begun has a token.
Serving == {"cache", "find", "check", "store", "permission"}
Carried == \A c \in Clients : doing[c] \in Serving => token[c] \in Tokens

CacheInv == ValidationTypeOK /\ Carried /\ NeverInvented

LEMMA InitCacheInv == ValidationInit => CacheInv
BY DEF ValidationInit, CacheInv, ValidationTypeOK, Carried, Serving, NeverInvented,
       Entries, Issued, Methods, Absent

\* What a step of the provider does to the keys, and leaves of everything else.
LEMMA ProviderKeeps ==
  ASSUME CacheInv, Issued \subseteq Issued',
         keys' \subseteq Keys, dead' \subseteq Keys, expired' \subseteq Keys,
         UNCHANGED <<cache, doing, token, wanted>>
  PROVE  CacheInv'
BY DEF CacheInv, ValidationTypeOK, Carried, Serving, NeverInvented, KeyOf, Entries, Methods,
       Absent, Stale

\* What a step of a call does to the client's variables.
LEMMA GoMoves ==
  ASSUME ValidationTypeOK, NEW c \in Clients, NEW from, NEW to, Go(c, from, to)
  PROVE  /\ doing[c] = from /\ doing' = [doing EXCEPT ![c] = to] /\ doing'[c] = to
         /\ to \notin {"forwarded", "refused"} => token'[c] = token[c]
         /\ token'[c] \in {token[c], NoToken}
         /\ \A d \in Clients \ {c} : doing'[d] = doing[d] /\ token'[d] = token[d]
         /\ token' \in [Clients -> Tokens \cup {NoToken}]
         /\ wanted' \in [Clients -> SUBSET Methods]
<1>1. CASE to \in {"forwarded", "refused"}
  BY <1>1 DEF Go, ValidationTypeOK
<1>2. CASE to \notin {"forwarded", "refused"}
  BY <1>2 DEF Go, ValidationTypeOK
<1> QED BY <1>1, <1>2

\* A client goes from one place to another with its token, and the cache stays.
LEMMA GoKeeps ==
  ASSUME CacheInv, NEW c \in Clients, NEW from, NEW to \in Serving \cup {"forwarded", "refused"},
         Go(c, from, to), from \in Serving,
         to \in {"check", "store", "permission"} => KeyOf(c) \in Issued,
         UNCHANGED <<keys, dead, expired, cache>>
  PROVE  CacheInv'
<1>0. ValidationTypeOK
  BY DEF CacheInv
<1>1. /\ doing' = [doing EXCEPT ![c] = to] /\ doing[c] = from
      /\ Issued' = Issued /\ Entries' = Entries /\ Methods' = Methods
  BY DEF Go, Issued, Entries, Methods, Absent
<1>2. /\ doing'[c] = to /\ (to \in Serving => token'[c] = token[c])
      /\ \A d \in Clients \ {c} : doing'[d] = doing[d] /\ token'[d] = token[d]
  BY <1>0, GoMoves DEF Serving
<1>3. ValidationTypeOK'
  <2>1. doing' \in [Clients -> Serving \cup {"idle", "forwarded", "refused"}]
    BY <1>0, <1>1 DEF ValidationTypeOK, Serving
  <2> QED BY <1>0, <1>1, <2>1, GoMoves DEF ValidationTypeOK, Serving, Methods, Absent, Stale
<1>4. Carried'
  <2> SUFFICES ASSUME NEW d \in Clients, doing'[d] \in Serving PROVE token'[d] \in Tokens
    BY DEF Carried, Serving
  <2> QED BY <1>1, <1>2 DEF CacheInv, Carried
<1>5. NeverInvented'
  <2>1. ASSUME NEW d \in Clients, doing'[d] \in {"check", "store", "permission"}
        PROVE  KeyOf(d)' \in Issued'
    <3>1. token'[d] = token[d]
      BY <1>2, <2>1 DEF Serving
    <3>2. KeyOf(d) \in Issued
      BY <1>2, <2>1 DEF CacheInv, NeverInvented
    <3> QED BY <1>1, <3>1, <3>2 DEF KeyOf
  <2> QED BY <1>1, <2>1 DEF CacheInv, NeverInvented
<1> QED BY <1>3, <1>4, <1>5 DEF CacheInv

LEMMA EnterKeeps ==
  ASSUME CacheInv, NEW c \in Clients, NEW ms, NEW anonymous, Enter(c, ms, anonymous)
  PROVE  CacheInv'
<1>1. PICK t \in Tokens \cup {NoToken} :
        /\ token' = [token EXCEPT ![c] = t]
        /\ wanted' = [wanted EXCEPT ![c] = IF t = NoToken THEN {}
                                           ELSE ms \cap DOMAIN Permissions]
        /\ doing' = [doing EXCEPT ![c] = IF t # NoToken THEN "cache"
                                        ELSE IF Required /\ ~anonymous THEN "refused"
                                        ELSE "forwarded"]
  BY DEF Enter
<1>2. /\ UNCHANGED <<keys, dead, expired, cache>>
      /\ Issued' = Issued /\ Entries' = Entries
  BY DEF Enter, Issued, Entries, Absent
<1>3. ms \cap DOMAIN Permissions \in SUBSET Methods
  BY DEF Methods
<1>4. doing'[c] \in {"cache", "refused", "forwarded"} /\ token'[c] = t
  BY <1>1 DEF CacheInv, ValidationTypeOK
<1>5. \A d \in Clients \ {c} : doing'[d] = doing[d] /\ token'[d] = token[d]
  BY <1>1 DEF CacheInv, ValidationTypeOK
<1>6. doing'[c] = "cache" => t \in Tokens
  BY <1>1, <1>4 DEF CacheInv, ValidationTypeOK
<1>7. ValidationTypeOK'
  BY <1>1, <1>2, <1>3 DEF CacheInv, ValidationTypeOK, Methods, Absent, Stale
<1>8. Carried'
  BY <1>4, <1>5, <1>6 DEF CacheInv, Carried, Serving
<1>9. NeverInvented'
  BY <1>2, <1>4, <1>5 DEF CacheInv, NeverInvented, KeyOf
<1> QED BY <1>7, <1>8, <1>9 DEF CacheInv

LEMMA CacheSetKeeps == ASSUME CacheInv, NEW c \in Clients, CacheSet(c) PROVE CacheInv'
<1>1. /\ doing[c] = "store" /\ doing' = [doing EXCEPT ![c] = "permission"]
      /\ UNCHANGED <<keys, dead, expired, token, wanted>>
      /\ Issued' = Issued /\ Methods' = Methods
  BY DEF CacheSet, Go, Issued, Methods
<1>2. token[c] \in Tokens /\ KeyOf(c) \in Issued
  BY <1>1 DEF CacheInv, Carried, Serving, NeverInvented
<1>3. PICK gone : cache' = [t \in Tokens |-> IF t = token[c] THEN CacheTTL
                                             ELSE IF t \in gone THEN Absent ELSE cache[t]]
  BY DEF CacheSet
<1>4. ValidationTypeOK'
  BY <1>1, <1>3, ValidationAssumption DEF CacheInv, ValidationTypeOK, Methods, Absent, Stale
<1>5. Carried'
  BY <1>1, <1>2 DEF CacheInv, ValidationTypeOK, Carried, Serving
<1>6. Entries' \subseteq Entries \cup {token[c]}
  BY <1>3 DEF Entries, Absent
<1>7. NeverInvented'
  <2>1. ASSUME NEW t \in Entries' PROVE TrimSpace[t] \in Issued'
    BY <1>1, <1>2, <1>6, <2>1 DEF CacheInv, NeverInvented, KeyOf
  <2>2. ASSUME NEW d \in Clients, doing'[d] \in {"check", "store", "permission"}
        PROVE  KeyOf(d)' \in Issued'
    BY <1>1, <1>2, <2>2 DEF CacheInv, ValidationTypeOK, NeverInvented, KeyOf
  <2> QED BY <2>1, <2>2 DEF NeverInvented
<1> QED BY <1>4, <1>5, <1>7 DEF CacheInv

\* Entries leave the cache or grow older.
LEMMA CacheAgesKeeps ==
  ASSUME CacheInv, CacheCleanup \/ CacheClock
  PROVE  CacheInv'
<1>1. /\ UNCHANGED <<keys, dead, expired, doing, token, wanted>>
      /\ Issued' = Issued /\ Methods' = Methods
  BY DEF CacheCleanup, CacheClock, Issued, Methods
<1>2. /\ cache' \in [Tokens -> {Absent, Stale} \cup 0..CacheTTL]
      /\ \A t \in Tokens : cache[t] = Absent => cache'[t] = Absent
  <2>1. cache \in [Tokens -> {Absent, Stale} \cup 0..CacheTTL]
    BY DEF CacheInv, ValidationTypeOK
  <2>2. CASE CacheCleanup
    BY <2>1, <2>2, ValidationAssumption DEF CacheCleanup, Absent, Stale
  <2>3. CASE CacheClock
    BY <2>1, <2>3, ValidationAssumption DEF CacheClock, Fresh, Absent, Stale
  <2> QED BY <2>2, <2>3
<1>3. Entries' \subseteq Entries
  BY <1>2 DEF Entries, Absent
<1> QED BY <1>1, <1>2, <1>3 DEF CacheInv, ValidationTypeOK, Carried, NeverInvented, KeyOf, Methods

LEMMA CheckPermissionsKeeps ==
  ASSUME CacheInv, NEW c \in Clients, CheckPermissions(c)
  PROVE  CacheInv'
<1>1. PICK to \in {"forwarded", "refused"} : Go(c, "permission", to)
  BY DEF CheckPermissions
<1>2. UNCHANGED <<keys, dead, expired, cache>>
  BY DEF CheckPermissions
<1> QED BY <1>1, <1>2, GoKeeps DEF Serving

LEMMA NextCacheInv == ASSUME CacheInv, [ValidationNext]_cachevars PROVE CacheInv'
<1>1. ASSUME NEW c \in Clients,
             \/ AuthSendRequest(c) \/ AuthSendNotification(c) \/ AuthHandleRequest(c)
             \/ AuthSendBatchRequest(c)
      PROVE  CacheInv'
  BY <1>1, EnterKeeps DEF AuthSendRequest, AuthSendNotification, AuthHandleRequest,
                          AuthSendBatchRequest
<1>2. ASSUME NEW c \in Clients, CacheGet(c) PROVE CacheInv'
  <2>1. /\ Go(c, "cache", IF Fresh(token[c]) THEN "permission" ELSE "find")
        /\ UNCHANGED <<keys, dead, expired, cache>>
    BY <1>2 DEF CacheGet
  <2>2. CASE Fresh(token[c])
    <3>1. Go(c, "cache", "permission")
      BY <2>1, <2>2
    <3>2. token[c] \in Tokens
      BY <3>1 DEF Go, CacheInv, Carried, Serving
    <3>3. KeyOf(c) \in Issued
      BY <2>2, <3>2 DEF CacheInv, NeverInvented, Entries, Fresh, Absent, KeyOf
    <3> QED BY <2>1, <3>1, <3>3, GoKeeps DEF Serving
  <2>3. CASE ~Fresh(token[c])
    <3>1. Go(c, "cache", "find")
      BY <2>1, <2>3
    <3> QED BY <2>1, <3>1, GoKeeps DEF Serving
  <2> QED BY <2>2, <2>3
<1>3. ASSUME NEW c \in Clients, ValidateLookup(c) PROVE CacheInv'
  <2>1. /\ Go(c, "find", IF KeyOf(c) \in keys THEN "check" ELSE "refused")
        /\ UNCHANGED <<keys, dead, expired, cache>>
    BY <1>3 DEF ValidateLookup
  <2>2. CASE KeyOf(c) \in keys
    <3>1. Go(c, "find", "check") /\ KeyOf(c) \in Issued
      BY <2>1, <2>2 DEF Issued
    <3> QED BY <2>1, <3>1, GoKeeps DEF Serving
  <2>3. CASE KeyOf(c) \notin keys
    <3>1. Go(c, "find", "refused")
      BY <2>1, <2>3
    <3> QED BY <2>1, <3>1, GoKeeps DEF Serving
  <2> QED BY <2>2, <2>3
<1>4. ASSUME NEW c \in Clients, ValidateCheck(c) PROVE CacheInv'
  <2>1. PICK to \in {"refused", "store"} : Go(c, "check", to)
    BY <1>4 DEF ValidateCheck
  <2>2. UNCHANGED <<keys, dead, expired, cache>> /\ KeyOf(c) \in Issued
    BY <1>4 DEF ValidateCheck, Go, CacheInv, NeverInvented
  <2> QED BY <2>1, <2>2, GoKeeps DEF Serving
<1>5. ASSUME NEW k \in Keys, CreateAPIKey(k) \/ Revoke(k) \/ Expire(k) PROVE CacheInv'
  <2>1. /\ keys' \subseteq Keys /\ dead' \subseteq Keys /\ expired' \subseteq Keys
        /\ Issued \subseteq Issued' /\ UNCHANGED <<cache, doing, token, wanted>>
    BY <1>5 DEF CreateAPIKey, Revoke, Expire, Issued, CacheInv, ValidationTypeOK
  <2> QED BY <2>1, ProviderKeeps
<1>6. CASE CleanupExpired
  <2>1. /\ keys' \subseteq Keys /\ dead' \subseteq Keys /\ expired' \subseteq Keys
        /\ Issued \subseteq Issued' /\ UNCHANGED <<cache, doing, token, wanted>>
    BY <1>6 DEF CleanupExpired, Issued, CacheInv, ValidationTypeOK
  <2> QED BY <2>1, ProviderKeeps
<1>7. CASE UNCHANGED cachevars
  BY <1>7 DEF cachevars, CacheInv, ValidationTypeOK, Carried, Serving, NeverInvented, Entries,
              KeyOf, Issued, Methods, Absent, Stale
<1> QED
  BY <1>1, <1>2, <1>3, <1>4, <1>5, <1>6, <1>7, CacheSetKeeps, CheckPermissionsKeeps,
     CacheAgesKeeps DEF ValidationNext, Serve

\* Steps that put nothing into the cache, and bring nobody there with the token.
LEMMA NothingStored ==
  ASSUME CacheInv, CacheInv', NEW t \in Tokens,
         \A c \in Clients : doing'[c] = "store" /\ token'[c] = t =>
                             doing[c] = "store" /\ token[c] = t,
         cache'[t] <= cache[t]
  PROVE  Storing(t)' \subseteq Storing(t) /\ ~(cache'[t] > cache[t])
<1>1. cache[t] \in Int /\ cache'[t] \in Int
  BY ValidationAssumption DEF CacheInv, ValidationTypeOK, Absent, Stale
<1>2. Storing(t)' \subseteq Storing(t)
  BY DEF Storing
<1> QED BY <1>1, <1>2

LEMMA NextWindsDown ==
  ASSUME CacheInv, CacheInv', [ValidationNext]_cachevars
  PROVE  WindsDown
<1> SUFFICES ASSUME NEW t \in Tokens, TrimSpace[t] \in dead \cup expired
             PROVE  /\ Storing(t)' \subseteq Storing(t)
                    /\ cache'[t] > cache[t] => Storing(t)' # Storing(t)
  BY DEF WindsDown
<1>0. /\ cache[t] \in Int /\ cache'[t] \in Int /\ cache[t] <= cache[t]
      /\ doing \in [Clients -> Serving \cup {"idle", "forwarded", "refused"}]
      /\ token \in [Clients -> Tokens \cup {NoToken}] /\ ValidationTypeOK
  BY ValidationAssumption DEF CacheInv, ValidationTypeOK, Absent, Stale, Serving
<1>1. ASSUME NEW c \in Clients, NEW ms, NEW anonymous, Enter(c, ms, anonymous)
      PROVE  Storing(t)' \subseteq Storing(t) /\ ~(cache'[t] > cache[t])
  BY <1>0, <1>1, NothingStored DEF Enter
<1>2. ASSUME NEW c \in Clients, CacheGet(c) \/ ValidateLookup(c) \/ CheckPermissions(c)
      PROVE  Storing(t)' \subseteq Storing(t) /\ ~(cache'[t] > cache[t])
  <2>1. PICK from, to : Go(c, from, to) /\ to # "store" /\ cache' = cache
    BY <1>2 DEF CacheGet, ValidateLookup, CheckPermissions
  <2>2. /\ doing'[c] # "store" /\ cache' = cache
        /\ \A d \in Clients \ {c} : doing'[d] = doing[d] /\ token'[d] = token[d]
    BY <1>0, <2>1, GoMoves
  <2> QED BY <1>0, <2>2, NothingStored
<1>3. ASSUME NEW c \in Clients, ValidateCheck(c)
      PROVE  Storing(t)' \subseteq Storing(t) /\ ~(cache'[t] > cache[t])
  <2>1. PICK to \in {"refused", "store"} :
          Go(c, "check", to) /\ (to = "store" => KeyOf(c) \notin dead \cup expired)
    BY <1>3 DEF ValidateCheck
  <2>2. /\ cache' = cache /\ (doing'[c] = "store" => token'[c] # t)
        /\ \A d \in Clients \ {c} : doing'[d] = doing[d] /\ token'[d] = token[d]
    BY <1>0, <1>3, <2>1, GoMoves DEF ValidateCheck, KeyOf
  <2> QED BY <1>0, <2>2, NothingStored
<1>4. ASSUME NEW c \in Clients, CacheSet(c)
      PROVE  /\ Storing(t)' \subseteq Storing(t)
             /\ cache'[t] > cache[t] => Storing(t)' # Storing(t)
  <2>1. PICK gone : cache' = [u \in Tokens |-> IF u = token[c] THEN CacheTTL
                                               ELSE IF u \in gone THEN Absent ELSE cache[u]]
    BY <1>4 DEF CacheSet
  <2>2. /\ doing[c] = "store" /\ doing' = [doing EXCEPT ![c] = "permission"]
        /\ token' = token
    BY <1>4 DEF CacheSet, Go
  <2>3. Storing(t)' \subseteq Storing(t)
    BY <1>0, <2>2 DEF Storing
  <2>4. CASE token[c] = t
    <3>1. c \in Storing(t) /\ c \notin Storing(t)'
      BY <1>0, <2>2, <2>4 DEF Storing
    <3> QED BY <2>3, <3>1
  <2>5. CASE token[c] # t
    <3>1. cache'[t] \in {Absent, cache[t]}
      BY <1>0, <2>1, <2>5
    <3>2. Absent <= cache[t]
      BY <1>0, ValidationAssumption DEF ValidationTypeOK, Absent, Stale
    <3> QED BY <1>0, <2>3, <3>1, <3>2 DEF Absent
  <2> QED BY <2>4, <2>5
<1>5. ASSUME CacheCleanup \/ CacheClock
      PROVE  Storing(t)' \subseteq Storing(t) /\ ~(cache'[t] > cache[t])
  <2>1. cache'[t] <= cache[t]
    BY <1>0, <1>5, ValidationAssumption
       DEF CacheCleanup, CacheClock, Fresh, ValidationTypeOK, Absent, Stale
  <2>2. doing' = doing /\ token' = token
    BY <1>5 DEF CacheCleanup, CacheClock
  <2> QED BY <2>1, <2>2, NothingStored
<1>6. ASSUME \/ \E k \in Keys : CreateAPIKey(k) \/ Revoke(k) \/ Expire(k)
             \/ CleanupExpired \/ UNCHANGED cachevars
      PROVE  Storing(t)' \subseteq Storing(t) /\ ~(cache'[t] > cache[t])
  <2>1. UNCHANGED <<cache, doing, token>>
    BY <1>6 DEF CreateAPIKey, Revoke, Expire, CleanupExpired, cachevars
  <2> QED BY <1>0, <2>1, NothingStored
<1> QED
  BY <1>1, <1>2, <1>3, <1>4, <1>5, <1>6
     DEF ValidationNext, Serve, AuthSendRequest, AuthSendNotification, AuthHandleRequest,
         AuthSendBatchRequest

LEMMA NextShut ==
  ASSUME CacheInv, CacheInv', [ValidationNext]_cachevars, NEW k \in Keys, Shut(k)
  PROVE  Shut(k)'
<1>0. /\ k \in dead \cup expired /\ LetInBy(k) = {} /\ ValidationTypeOK
      /\ \A t \in Tokens : TrimSpace[t] = k =>
           cache[t] \in Int /\ cache'[t] \in Int /\ cache[t] < 0 /\ ~Fresh(t)
      /\ doing \in [Clients -> Serving \cup {"idle", "forwarded", "refused"}]
      /\ token \in [Clients -> Tokens \cup {NoToken}]
  BY ValidationAssumption DEF CacheInv, ValidationTypeOK, Absent, Stale, Serving, Shut, Fresh
<1>1. dead \subseteq dead' /\ expired \subseteq expired'
  BY DEF ValidationNext, Serve, AuthSendRequest, AuthSendNotification, AuthHandleRequest,
         AuthSendBatchRequest, Enter, CacheGet, ValidateLookup, ValidateCheck, CacheSet,
         CheckPermissions, CreateAPIKey, Revoke, Expire, CleanupExpired, CacheCleanup,
         CacheClock, cachevars
<1>2. ASSUME NEW t \in Tokens, TrimSpace[t] = k
      PROVE  Storing(t) = {} /\ Storing(t)' = {} /\ ~(cache'[t] > cache[t])
  <2>1. Storing(t) = {}
    BY <1>0, <1>2 DEF Storing, LetInBy, KeyOf
  <2> QED BY <1>0, <1>2, <2>1, NextWindsDown DEF WindsDown
<1>3. \A t \in Tokens : TrimSpace[t] = k => ~Fresh(t)'
  BY <1>0, <1>2 DEF Fresh
<1>4. ASSUME NEW c \in Clients, doing'[c] \in {"store", "permission"}, KeyOf(c)' = k
      PROVE  FALSE
  <2>1. /\ doing[c] \in {"store", "permission"} => TrimSpace[token[c]] # k
        /\ TrimSpace[token'[c]] = k /\ token'[c] \in Tokens
    BY <1>0, <1>4 DEF LetInBy, KeyOf, CacheInv, Carried, Serving
  <2>2. CASE doing'[c] = "store"
    BY <1>2, <2>1, <2>2 DEF Storing
  <2>3. CASE doing'[c] = "permission"
    <3>1. ASSUME NEW d \in Clients, NEW ms, NEW anonymous, Enter(d, ms, anonymous) PROVE FALSE
      BY <1>0, <2>1, <2>3, <3>1 DEF Enter
    <3>2. ASSUME NEW d \in Clients, NEW from, NEW to, Go(d, from, to),
                 to = "permission" => from = "store" \/ Fresh(token[d])
          PROVE  FALSE
      <4>1. /\ doing[d] = from /\ doing'[d] = to
            /\ to = "permission" => token'[d] = token[d]
            /\ \A e \in Clients \ {d} : doing'[e] = doing[e] /\ token'[e] = token[e]
        BY <1>0, <3>2, GoMoves
      <4> QED BY <1>0, <2>1, <2>3, <3>2, <4>1
    <3>3. ASSUME NEW d \in Clients, Serve(d) PROVE FALSE
      <4>1. PICK from, to : /\ Go(d, from, to)
                            /\ to = "permission" => from = "store" \/ Fresh(token[d])
        BY <3>3 DEF Serve, CacheGet, ValidateLookup, ValidateCheck, CacheSet, CheckPermissions
      <4> QED BY <3>2, <4>1
    <3>4. ASSUME UNCHANGED <<doing, token>> PROVE FALSE
      BY <2>1, <2>3, <3>4
    <3> QED
      BY <3>1, <3>3, <3>4
         DEF ValidationNext, AuthSendRequest, AuthSendNotification, AuthHandleRequest,
             AuthSendBatchRequest, CreateAPIKey, Revoke, Expire, CleanupExpired, CacheCleanup,
             CacheClock, cachevars
  <2> QED BY <1>4, <2>2, <2>3
<1>5. LetInBy(k)' = {}
  BY <1>4 DEF LetInBy
<1> QED BY <1>0, <1>1, <1>3, <1>5 DEF Shut

\* Every variable of the middleware, its cache and its provider keeps its type,
\* for any clients, keys, permissions and sizes of the cache
\* (middleware.go:37, apikey.go:20).
THEOREM ValidationTypeCorrect == ValidationSpec => []ValidationTypeOK
<1>1. CacheInv => ValidationTypeOK
  BY DEF CacheInv
<1> QED BY <1>1, InitCacheInv, NextCacheInv, PTL DEF ValidationSpec

\* Whatever the interleaving of lookups, checks, stores and evictions, the
\* cache holds and a call goes on to its permissions with no token but one
\* that is a key the provider issued once TrimSpace has been applied to it;
\* the token itself, as it is cached, may be padded (validateToken,
\* middleware.go:299; Validate, apikey.go:137).
THEOREM TokensAreIssued == ValidationSpec => []NeverInvented
<1>1. CacheInv => NeverInvented
  BY DEF CacheInv
<1> QED BY <1>1, InitCacheInv, NextCacheInv, PTL DEF ValidationSpec

\* After a key is revoked or expires, the cache entries it has under its
\* paddings are written at most once by each validation that was past the provider by then, and never renewed
\* (validateToken, middleware.go:299; TokenCache, middleware.go:372).
THEOREM RevokedKeysWindDown == ValidationSpec => RevocationWindsDown
<1>1. CacheInv /\ [ValidationNext]_cachevars => [WindsDown]_cachevars
  BY NextCacheInv, NextWindsDown
<1> QED
  BY <1>1, InitCacheInv, NextCacheInv, PTL DEF ValidationSpec, RevocationWindsDown

\* A key that is revoked or expired, and has run out of the cache under every
\* padding and of the calls under way, is never accepted again (validateToken, middleware.go:299).
THEOREM RefusedKeysStayRefused == ValidationSpec => RefusedForGood
<1> DEFINE Stays == \A k \in Keys : Shut(k) => Shut(k)'
<1>1. CacheInv /\ [ValidationNext]_cachevars => [Stays]_cachevars
  BY NextCacheInv, NextShut
<1> QED
  BY <1>1, InitCacheInv, NextCacheInv, PTL DEF ValidationSpec, RefusedForGood

-----------------------------------------------------------------------------
(* MC_Middleware: the part that moves keeps its own invariant, and the       *)
(* others stay as they are.                                                  *)

PartInv ==
  /\ part \in {"breaker", "chain", "limiter", "validation"}
  /\ part \in {"breaker", "chain"} => ChainInv
  /\ part = "limiter" => LimiterTyped
  /\ part = "validation" => CacheInv

LEMMA InitPartInv == MCInit => PartInv
BY ChainInitInv, InitLimiterInv, InitCacheInv DEF MCInit, PartInv, LimiterInv

\* The breaker by itself, the layers around it at rest.
LEMMA BreakerAlone ==
  ASSUME ChainInv, Next, UNCHANGED <<layer, way, result, layervars, calls, cred, tries, blamed>>
  PROVE  ChainInv'
<1>1. IInv'
  BY NextIInv DEF ChainInv
<1>2. CallTypes' /\ CountTypes'
  BY DEF ChainInv, CallTypes, CountTypes, layervars, Base
<1> QED BY <1>1, <1>2 DEF ChainInv

LEMMA NextPartInv == ASSUME PartInv, [MCNext]_partvars PROVE PartInv'
<1>1. part' = part
  BY DEF MCNext, partvars
<1>2. CASE part \in {"breaker", "chain"}
  <2>1. ChainInv
    BY <1>2 DEF PartInv
  <2>2. \/ Next /\ UNCHANGED <<layer, way, result, layervars, calls, cred, tries, blamed>>
        \/ [ChainNext]_allvars
    BY <1>2 DEF MCNext, partvars
  <2>3. ChainInv'
    BY <2>1, <2>2, BreakerAlone, ChainNextInv
  <2> QED BY <1>1, <1>2, <2>3 DEF PartInv
<1>3. CASE part = "limiter"
  <2>1. LimiterTyped /\ [LimiterNext]_limitervars
    BY <1>3 DEF PartInv, MCNext, partvars
  <2>2. LimiterTyped'
    BY <2>1, LimiterTypesKept
  <2> QED BY <1>1, <1>3, <2>2 DEF PartInv
<1>4. CASE part = "validation"
  <2>1. CacheInv /\ [ValidationNext]_cachevars
    BY <1>4 DEF PartInv, MCNext, partvars
  <2>2. CacheInv'
    BY <2>1, NextCacheInv
  <2> QED BY <1>1, <1>4, <2>2 DEF PartInv
<1> QED BY <1>2, <1>3, <1>4 DEF PartInv

\* Whichever part moves, its variables keep their types: the breaker with and
\* without the chain around it, the limiter, the validation of tokens, for all
\* values of their constants (reliability_middleware.go, middleware.go,
\* ratelimit.go, apikey.go).
THEOREM PartsTypeCorrect == MCSpec => []TypesOK
<1>1. PartInv => TypesOK
  BY DEF PartInv, TypesOK, ChainInv, IInv, CallTypes, CountTypes, ChainTypeOK, LimiterTyped,
         CacheInv
<1> QED BY <1>1, InitPartInv, NextPartInv, PTL DEF MCSpec

=============================================================================
