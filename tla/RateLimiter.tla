----------------------------- MODULE RateLimiter -----------------------------
(***************************************************************************)
(* The rate limiting middleware and its token buckets                      *)
(* (pkg/auth/ratelimit.go).                                                *)
(*                                                                         *)
(* Allow finds the bucket of its key under the limiter's lock and takes a  *)
(* token from it under the bucket's own, later: in between the bucket may  *)
(* have been deleted by the clean-up or by Reset, and another may be in    *)
(* use.  A batch reads what is left before it takes its tokens one at a    *)
(* time, and what it reads is not refilled first.                          *)
(*                                                                         *)
(* A tick refills one token (RequestsPerMinute / 60 tokens a second);      *)
(* tokens are whole.  Buckets are numbered as they are made; a bucket that *)
(* nobody can reach any more is used again.                                *)
(***************************************************************************)
EXTENDS Integers, FiniteSets

CONSTANTS
  Senders,    \* goroutines that call the middleware
  RLKeys,     \* rate limit keys: "user:..", "token:..", "global"
  Contexts,   \* the assignments of keys to senders that are looked at
  BatchesOf,  \* the sizes of the batches each sends; 1 is a single request
  BurstSize,  \* config.BurstSize
  IdleLimit,  \* 10 minutes, in ticks
  None

Buckets == 1..(Cardinality(RLKeys) + Cardinality(Senders))

ASSUME LimiterAssumption ==
  /\ IsFiniteSet(Senders) /\ IsFiniteSet(RLKeys)
  /\ Contexts \subseteq [Senders -> RLKeys]
  /\ \A s \in Senders : BatchesOf[s] \subseteq Nat \ {0}
  /\ BurstSize \in Nat /\ IdleLimit \in Nat
  /\ None \notin Buckets

VARIABLES
  buckets,  \* the limiter's map: key -> bucket, or None
  tokens,   \* the tokens of each bucket
  idle,     \* ticks since lastRefill, up to IdleLimit + 1
  key,      \* the key of each sender's context
  at,       \* where each sender is
  held,     \* the bucket it has found
  left,     \* requests of its call for which it has no token yet
  ideal     \* history: a bucket that is refilled all the time, per key

limitervars == <<buckets, tokens, idle, key, at, held, left, ideal>>

LimiterTypeOK ==
  /\ buckets \in [RLKeys -> Buckets \cup {None}]
  /\ tokens \in [Buckets -> 0..BurstSize]
  /\ idle \in [Buckets -> 0..(IdleLimit + 1)]
  /\ key \in [Senders -> RLKeys]
  /\ at \in [Senders -> {"idle", "find", "take", "forwarded", "refused"}]
  /\ held \in [Senders -> Buckets \cup {None}]
  /\ left \in [Senders -> Nat]
  /\ ideal \in [RLKeys -> Int]

LimiterInit ==
  /\ buckets = [k \in RLKeys |-> None]
  /\ tokens = [b \in Buckets |-> 0]
  /\ idle = [b \in Buckets |-> 0]
  /\ key \in Contexts
  /\ at = [s \in Senders |-> "idle"]
  /\ held = [s \in Senders |-> None]
  /\ left = [s \in Senders |-> 0]
  /\ ideal = [k \in RLKeys |-> BurstSize]

Min2(a, b) == IF a <= b THEN a ELSE b

\* Buckets that the map or a sender still points to.
InUse == ({buckets[k] : k \in RLKeys} \cup {held[s] : s \in Senders}) \ {None}

-----------------------------------------------------------------------------
(* RateLimiter                                                              *)

\* GetRemainingTokens: what the bucket held when it was last used.
GetRemainingTokens(k) == IF buckets[k] = None THEN BurstSize ELSE tokens[buckets[k]]

\* Allow, first half: the bucket of the key, made when there is none.
Find(s) ==
  LET k == key[s]
  IN /\ at[s] = "find"
     /\ at' = [at EXCEPT ![s] = "take"]
     /\ IF buckets[k] # None
        THEN /\ held' = [held EXCEPT ![s] = buckets[k]]
             /\ UNCHANGED <<buckets, tokens, idle>>
        ELSE LET b == CHOOSE b \in Buckets : b \notin InUse
             IN /\ buckets' = [buckets EXCEPT ![k] = b]
                /\ tokens' = [tokens EXCEPT ![b] = BurstSize]
                /\ idle' = [idle EXCEPT ![b] = 0]
                /\ held' = [held EXCEPT ![s] = b]
     /\ UNCHANGED <<key, left, ideal>>

Refilled(b) == Min2(tokens[b] + idle[b], BurstSize)

\* Mutant of Take: a token is taken whenever the bucket is not empty before
\* the refill or after it, and the refill counts twice.
TakeRefillsTwice(s) ==
  LET b == held[s]
      full == Min2(tokens[b] + 2 * idle[b], BurstSize)
  IN /\ at[s] = "take"
     /\ held' = [held EXCEPT ![s] = None]
     /\ idle' = [idle EXCEPT ![b] = 0]
     /\ tokens' = [tokens EXCEPT ![b] = IF full > 0 THEN full - 1 ELSE full]
     /\ left' = [left EXCEPT ![s] = IF full > 0 THEN @ - 1 ELSE @]
     /\ at' = [at EXCEPT ![s] = IF full = 0 THEN "refused"
                                ELSE IF left'[s] = 0 THEN "forwarded" ELSE "find"]
     /\ ideal' = [ideal EXCEPT ![key[s]] = IF full > 0 THEN @ - 1 ELSE @]
     /\ UNCHANGED <<buckets, key>>

\* Allow, second half: consume.  A refusal ends the call; the tokens a batch
\* has taken before are lost.
Take(s) ==
  LET b == held[s]
      full == Refilled(b)
  IN /\ at[s] = "take"
     /\ held' = [held EXCEPT ![s] = None]
     /\ idle' = [idle EXCEPT ![b] = 0]
     /\ tokens' = [tokens EXCEPT ![b] = IF full > 0 THEN full - 1 ELSE full]
     /\ left' = [left EXCEPT ![s] = IF full > 0 THEN @ - 1 ELSE @]
     /\ at' = [at EXCEPT ![s] = IF full = 0 THEN "refused"
                                ELSE IF left'[s] = 0 THEN "forwarded" ELSE "find"]
     /\ ideal' = [ideal EXCEPT ![key[s]] = IF full > 0 THEN @ - 1 ELSE @]
     /\ UNCHANGED <<buckets, key>>

Idle(k) == buckets[k] # None /\ idle[buckets[k]] > IdleLimit

\* cleanup, all keys under the limiter's lock.
cleanup ==
  /\ \E k \in RLKeys : Idle(k)
  /\ buckets' = [k \in RLKeys |-> IF Idle(k) THEN None ELSE buckets[k]]
  /\ UNCHANGED <<tokens, idle, key, at, held, left, ideal>>

\* Reset gives the key a new burst, and so it does to the ideal bucket.
Reset(k) ==
  /\ buckets[k] # None
  /\ buckets' = [buckets EXCEPT ![k] = None]
  /\ ideal' = [ideal EXCEPT ![k] = BurstSize]
  /\ UNCHANGED <<tokens, idle, key, at, held, left>>

-----------------------------------------------------------------------------
(* RateLimitMiddleware, enabled                                             *)

BeginCall(s, n, admitted) ==
  /\ at[s] \in {"idle", "forwarded", "refused"}
  /\ n \in BatchesOf[s]
  /\ at' = [at EXCEPT ![s] = IF admitted THEN "find" ELSE "refused"]
  /\ left' = [left EXCEPT ![s] = n]
  /\ UNCHANGED <<buckets, tokens, idle, key, held, ideal>>

SendRequest(s)      == BeginCall(s, 1, TRUE)
SendNotification(s) == BeginCall(s, 1, TRUE)
HandleRequest(s)    == BeginCall(s, 1, TRUE)

\* Mutant of SendBatchRequest: a batch must leave a token over.
SendBatchRequestStrict(s) ==
  \E n \in BatchesOf[s] \ {1} : BeginCall(s, n, GetRemainingTokens(key[s]) > n)

\* A batch is admitted when as many tokens are left as it has requests.
SendBatchRequest(s) ==
  \E n \in BatchesOf[s] \ {1} : BeginCall(s, n, GetRemainingTokens(key[s]) >= n)

\* The clock.  Nobody stops for a whole tick between the two halves of Allow.
Elapse ==
  /\ \A s \in Senders : at[s] # "take"
  /\ \E b \in InUse : idle[b] <= IdleLimit
  /\ idle' = [b \in Buckets |-> IF b \in InUse /\ idle[b] <= IdleLimit
                               THEN idle[b] + 1 ELSE idle[b]]
  /\ ideal' = [k \in RLKeys |-> Min2(ideal[k] + 1, BurstSize)]
  /\ UNCHANGED <<buckets, tokens, key, at, held, left>>

LimiterNext ==
  \/ \E s \in Senders :
       \/ SendRequest(s) \/ SendNotification(s) \/ HandleRequest(s)
       \/ SendBatchRequest(s) \/ Find(s) \/ Take(s)
  \/ \E k \in RLKeys : Reset(k)
  \/ cleanup \/ Elapse

\* Time passes (strongly: its guard is the model's, not the clock's), the
\* clean-up goes round, a call that has begun goes on, and a
\* client that sends batches tries again.
LimiterFairness ==
  /\ SF_limitervars(Elapse)
  /\ WF_limitervars(cleanup)
  /\ \A s \in Senders :
       WF_limitervars(Find(s) \/ Take(s)) /\ WF_limitervars(SendBatchRequest(s))

LimiterSpec == LimiterInit /\ [][LimiterNext]_limitervars /\ LimiterFairness

-----------------------------------------------------------------------------
(* Properties *)

\* Whatever is deleted, reset and found again, a key is never granted more
\* than one bucket that is always refilled would grant, except for the senders
\* that have found a bucket before it was deleted and take from it afterwards,
\* one token each (ratelimit.go:115).
WithinBudget ==
  \A k \in RLKeys : ideal[k] >= -Cardinality({s \in Senders : key[s] = k})

\* A client that sends only batches is refused without being refilled once its
\* bucket holds too little (ratelimit.go:286), but not for ever: the clean-up
\* finds the bucket idle, and the client starts again with a full burst.
BatchServedAgain ==
  \A s \in Senders :
    /\ \A n \in BatchesOf[s] : 1 < n /\ n <= BurstSize
    /\ \A r \in Senders \ {s} : key[r] # key[s]
    => (at[s] = "refused" ~> at[s] = "forwarded")
=============================================================================
