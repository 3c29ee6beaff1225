--------------------------- MODULE MiddlewareChain ---------------------------
(***************************************************************************)
(* The middleware that NewTransport puts around a transport, and the way   *)
(* a call takes through it (pkg/transport/middleware.go, transport.go).    *)
(*                                                                         *)
(* chain[1] is the outermost layer.  A call goes down from layer to layer  *)
(* to the transport itself and comes back up with a result.  The           *)
(* reliability layer is ReliabilityTransport, whose retries send the call  *)
(* down again; of the other layers the model keeps what they do to a call: *)
(* observability counts it on its way down and its result on its way up,   *)
(* authentication forwards or refuses it, for what the caller presents,    *)
(* rate limiting takes a token from the caller's bucket or refuses.        *)
(*                                                                         *)
(* TransportMetrics, TokenValidation and RateLimiter have the steps inside *)
(* these layers.                                                           *)
(***************************************************************************)
EXTENDS ReliabilityTransport, Sequences, SequencesExt

CONSTANTS
  Features,    \* config.Features that are enabled
  AuthRequired,  \* AuthConfig.Required
  AuthAnonymous, \* AuthConfig.AllowAnonymous
  Burst,       \* tokens in a bucket, refilled one a tick
  MaxCalls     \* bound: calls made

\* What a call comes with: a valid token of a user who may call the method, a
\* token that is not valid or whose user may not, or none, with a method that
\* isAnonymousAllowed knows (initialize, ping, health) or another one.
Credentials == {"valid", "refused", "exempt", "none"}

\* NewAuthError: neither an MCPError nor an ErrorObject.
AuthError == [type |-> "other", code |-> "unknown"]

\* Errors are those that come up to the reliability layer: also AuthError.
ASSUME ChainAssumption ==
  /\ AuthError \in Errors
  /\ AuthRequired \in BOOLEAN /\ AuthAnonymous \in BOOLEAN
  /\ Burst \in Nat
  /\ MaxCalls \in Nat

VARIABLES
  layer,   \* the layer a call is at; 0 is the caller, Base the transport
  way,     \* whether it is going "down" or coming "up"
  result,  \* what it comes up with
  counts,  \* the counters of the observability layer
  bucket,  \* tokens that are left under each key
  calls,   \* calls made so far
  cred,    \* the credentials of the call
  tries,   \* history: inner calls that the reliability layer has made
  paid,    \* history: credentials with which a token has been taken
  blamed   \* history: credentials whose refusal has been recorded as a failure

chainvars  == <<layer, way, result, counts, bucket, calls, cred, tries, paid, blamed>>
layervars  == <<counts, bucket, paid>>
allvars    == <<vars, chainvars>>

\* The layers in the order in which Build appends them.
If(f) == IF f \in Features THEN <<f>> ELSE << >>
Build == If("reliability") \o If("observability") \o If("auth") \o If("rateLimit")

\* Mutant of ChainMiddleware: the first middleware is applied first.
ChainMiddlewareForward(ms) == Reverse(ms)

\* ChainMiddleware applies the last first, so that the first is outermost.
ChainMiddleware(ms) == ms

chain == ChainMiddleware(Build)
Base  == Len(chain) + 1

ChainTypeOK ==
  /\ TypeOK
  /\ layer \in [Callers -> 0..Base]
  /\ way \in [Callers -> {"down", "up"}]
  /\ result \in [Callers -> Errors \cup {NoError}]
  /\ counts \in [total : Nat, success : Nat, errors : Nat]
  /\ bucket \in [Callers \cup {"global"} -> 0..Burst]
  /\ calls \in 0..MaxCalls /\ tries \in Nat
  /\ cred \in [Callers -> Credentials]
  /\ paid \subseteq Credentials /\ blamed \subseteq Credentials

\* NewTransport.
ChainInit ==
  /\ Init
  /\ layer = [p \in Callers |-> 0]
  /\ way = [p \in Callers |-> "up"]
  /\ result = [p \in Callers |-> NoError]
  /\ counts = [total |-> 0, success |-> 0, errors |-> 0]
  /\ bucket = [k \in Callers \cup {"global"} |-> Burst]
  /\ calls = 0 /\ tries = 0
  /\ cred = [p \in Callers |-> "none"]
  /\ paid = {} /\ blamed = {}

\* A valid token lets a call pass.  One without a token passes where none is
\* required or its method is open to all.
Forwarded ==
  {"valid"} \cup (IF AuthRequired THEN {} ELSE {"exempt", "none"})
            \cup (IF AuthAnonymous THEN {"exempt"} ELSE {})

At(p, name, dir) ==
  /\ layer[p] \in 1..Len(chain)
  /\ chain[layer[p]] = name
  /\ way[p] = dir

\* The layer calls m.next ...
Descend(p) ==
  /\ layer' = [layer EXCEPT ![p] = @ + 1]
  /\ UNCHANGED <<way, result>>

\* ... or returns, with the result it got or one of its own.
Ascend(p, r) ==
  /\ layer' = [layer EXCEPT ![p] = @ - 1]
  /\ way' = [way EXCEPT ![p] = "up"]
  /\ result' = [result EXCEPT ![p] = r]

-----------------------------------------------------------------------------
Invoke(p) ==
  /\ layer[p] = 0
  /\ calls < MaxCalls
  /\ calls' = calls + 1
  /\ \E c \in Credentials : cred' = [cred EXCEPT ![p] = c]
  /\ layer' = [layer EXCEPT ![p] = 1]
  /\ way' = [way EXCEPT ![p] = "down"]
  /\ result' = [result EXCEPT ![p] = NoError]
  /\ UNCHANGED <<vars, layervars, tries, blamed>>

\* Reliability on the way down: the breaker lets the call in or not.
ReliabilityEnter(p) ==
  /\ At(p, "reliability", "down")
  /\ \/ Begin(p) /\ UNCHANGED <<layer, way, result>>
     \/ Rejected(p) /\ Ascend(p, AuthError)
  /\ UNCHANGED <<layervars, calls, cred, tries, blamed>>

\* Every attempt goes through all the layers inside.
ReliabilityTry(p) ==
  /\ At(p, "reliability", "down")
  /\ Attempt(p)
  /\ Descend(p)
  /\ tries' = tries + 1
  /\ UNCHANGED <<layervars, calls, cred, blamed>>

\* The attempt's result is recorded in the breaker, and the call goes on.
ReliabilityRecord(p) ==
  /\ At(p, "reliability", "up")
  /\ pc[p] = "inner"
  /\ pc' = [pc EXCEPT ![p] = "record"]
  /\ outcome' = [outcome EXCEPT ![p] = result[p]]
  /\ UNCHANGED <<cbvars, age, attempt, chainvars>>

ReliabilityReturn(p) ==
  /\ At(p, "reliability", "up")
  /\ \/ Succeed(p) /\ Ascend(p, NoError) /\ UNCHANGED blamed
     \/ FailFinal(p) /\ Ascend(p, outcome[p]) /\ UNCHANGED blamed
     \/ /\ FailRetry(p)
        /\ way' = [way EXCEPT ![p] = "down"]
        /\ blamed' = IF cred[p] \in Forwarded THEN blamed ELSE blamed \cup {cred[p]}
        /\ UNCHANGED <<layer, result>>
  /\ UNCHANGED <<layervars, calls, cred, tries>>

\* The loop ends without another attempt.
ReliabilityGiveUp(p) ==
  /\ At(p, "reliability", "down")
  /\ Exhausted(p) \/ ContextDone(p)
  /\ Ascend(p, outcome[p])
  /\ UNCHANGED <<layervars, calls, cred, tries, blamed>>

\* Mutant of Observe: the outcome of a refused call is not counted.
ObserveServed(p) ==
  /\ \/ /\ At(p, "observability", "down")
        /\ counts' = [counts EXCEPT !.total = @ + 1]
        /\ Descend(p)
     \/ /\ At(p, "observability", "up")
        /\ counts' = IF result[p] = NoError THEN [counts EXCEPT !.success = @ + 1]
                     ELSE IF result[p] = AuthError THEN counts
                     ELSE [counts EXCEPT !.errors = @ + 1]
        /\ Ascend(p, result[p])
  /\ UNCHANGED <<vars, bucket, paid, calls, cred, tries, blamed>>

Observe(p) ==
  /\ \/ /\ At(p, "observability", "down")
        /\ counts' = [counts EXCEPT !.total = @ + 1]
        /\ Descend(p)
     \/ /\ At(p, "observability", "up")
        /\ counts' = IF result[p] = NoError THEN [counts EXCEPT !.success = @ + 1]
                     ELSE [counts EXCEPT !.errors = @ + 1]
        /\ Ascend(p, result[p])
  /\ UNCHANGED <<vars, bucket, paid, calls, cred, tries, blamed>>

Authenticate(p) ==
  /\ \/ At(p, "auth", "down") /\ cred[p] \in Forwarded /\ Descend(p)
     \/ At(p, "auth", "down") /\ cred[p] \notin Forwarded /\ Ascend(p, AuthError)
     \/ At(p, "auth", "up") /\ Ascend(p, result[p])
  /\ UNCHANGED <<vars, layervars, calls, cred, tries, blamed>>

\* getRateLimitKey: the user or the token, here one for each caller, or "global"
\* for all that come without a token.
RateKey(p) == IF cred[p] \in {"exempt", "none"} THEN "global" ELSE p

Limit(p) ==
  /\ LET k == RateKey(p)
     IN \/ /\ At(p, "rateLimit", "down") /\ bucket[k] > 0
           /\ bucket' = [bucket EXCEPT ![k] = @ - 1]
           /\ paid' = paid \cup {cred[p]}
           /\ Descend(p)
        \/ /\ At(p, "rateLimit", "down") /\ bucket[k] = 0
           /\ Ascend(p, AuthError)
           /\ UNCHANGED <<bucket, paid>>
        \/ /\ At(p, "rateLimit", "up")
           /\ Ascend(p, result[p])
           /\ UNCHANGED <<bucket, paid>>
  /\ UNCHANGED <<vars, counts, calls, cred, tries, blamed>>

\* The transport itself.
Transport(p) ==
  /\ layer[p] = Base
  /\ \E e \in Errors \cup {NoError} : Ascend(p, e)
  /\ UNCHANGED <<vars, layervars, calls, cred, tries, blamed>>

\* The clock: lastError grows older, the buckets are refilled.
ClockTick ==
  /\ ~CooledDown \/ \E k \in DOMAIN bucket : bucket[k] < Burst
  /\ age' = IF CooledDown THEN age ELSE age + 1
  /\ bucket' = [k \in DOMAIN bucket |->
                IF bucket[k] < Burst THEN bucket[k] + 1 ELSE bucket[k]]
  /\ UNCHANGED <<cbvars, callvars, layer, way, result, counts, calls, cred, tries, paid, blamed>>

Step(p) ==
  \/ ReliabilityEnter(p) \/ ReliabilityTry(p) \/ ReliabilityRecord(p)
  \/ ReliabilityReturn(p) \/ ReliabilityGiveUp(p)
  \/ Observe(p) \/ Authenticate(p) \/ Limit(p) \/ Transport(p)

ChainNext == ClockTick \/ \E p \in Callers : Invoke(p) \/ Step(p)

ChainSpec == ChainInit /\ [][ChainNext]_allvars

-----------------------------------------------------------------------------
(* Properties *)

\* Calls that observability has counted and not yet seen the end of.
Observed == {p \in Callers :
               \E i \in DOMAIN chain : /\ chain[i] = "observability"
                                       /\ \/ layer[p] > i
                                          \/ layer[p] = i /\ way[p] = "up"}

\* Observability is inside the retry loop: its requests are attempts, and its
\* errors are failed attempts, which a caller may never hear of.  This is what
\* Build and ChainMiddleware make (middleware.go:29-31, 145-151), whatever the
\* comment between them says ("innermost middleware first", 144), and not what
\* the tests expect: see CallsObserved.
AttemptsObserved ==
  LET waiting == {p \in Callers : At(p, "observability", "down")}
  IN /\ counts.total = counts.success + counts.errors + Cardinality(Observed)
     /\ counts.total + Cardinality(waiting) = tries

\* What middleware_test.go:282-288 expects of a call that needs a retry ("Expected
\* 1 total request"), and TestMiddlewareOrderPreservation of the order ("The
\* outermost layer should be observability", middleware_integration_test.go:430):
\* a request is counted for each call.  It does not hold: retries are counted,
\* and calls that the breaker refuses are not.
CallsObserved ==
  LET waiting == {p \in Callers : At(p, "observability", "down")}
  IN counts.total + Cardinality(waiting) <= calls

\* "Rate limiting should be after authentication" (middleware.go:166): a call that
\* authentication refuses takes no token from any bucket and never reaches the
\* transport, however often it is tried.
RefusedStayOut ==
  /\ paid \subseteq Forwarded
  /\ \A p \in Callers : layer[p] = Base => cred[p] \in Forwarded

\* "Authentication should be one of the outermost layers": what it refuses
\* never reaches the breaker that all callers share.
RefusedIsNotAFailure == blamed = {}
=============================================================================
