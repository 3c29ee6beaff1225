------------------------ MODULE ReliabilityTransport ------------------------
(***************************************************************************)
(* The reliability middleware: the retry loop around SendRequest,          *)
(* SendNotification and SendBatchRequest, and the circuit breaker that all *)
(* calls share (pkg/transport/reliability_middleware.go).  The three       *)
(* operations are the same loop around a different inner call.             *)
(*                                                                         *)
(* Each section under the breaker's mutex is one action; the inner call    *)
(* takes time between its start and its record, so that a call admitted    *)
(* in one state of the breaker may record its outcome in another.          *)
(*                                                                         *)
(* time.Since(lastError) is age, in ticks, and saturates just past the     *)
(* timeout.  failures saturates at the threshold: the code compares it     *)
(* with >= and otherwise only resets it.                                   *)
(***************************************************************************)
EXTENDS Integers, FiniteSets

CONSTANTS
  Callers,            \* goroutines that use the transport
  MaxRetries,         \* config.MaxRetries
  FailureThreshold,   \* config.CircuitBreaker.FailureThreshold
  SuccessThreshold,   \* config.CircuitBreaker.SuccessThreshold
  Timeout,            \* config.CircuitBreaker.Timeout, in ticks
  Errors              \* errors the wrapped transport can return

ErrorType == {"MCPError", "ErrorObject", "Error", "other"}
ErrorCode == {"transient", "client", "serverRange", "unknown"}

ASSUME ReliabilityAssumption ==
  /\ MaxRetries \in Nat
  /\ FailureThreshold \in Nat     \* nothing validates these two: a
  /\ SuccessThreshold \in Nat     \* configuration may leave them 0
  /\ Timeout \in Nat
  /\ Errors \subseteq [type : ErrorType, code : ErrorCode]

VARIABLES
  state,      \* circuitClosed, circuitOpen, circuitHalfOpen
  failures,   \* failures since the last success, up to the threshold
  successes,  \* successes since the circuit went half-open
  age,        \* ticks since lastError, up to Timeout + 1
  pc,         \* where each caller is
  attempt,    \* its loop variable
  outcome     \* the outcome of its last inner call

cbvars   == <<state, failures, successes>>
callvars == <<pc, attempt, outcome>>
vars     == <<state, failures, successes, age, pc, attempt, outcome>>

NoError == [type |-> "none", code |-> "none"]

Returned == {"ok", "rejected", "error", "exhausted", "cancelled"}
Active   == {"loop", "inner", "record"}

TypeOK ==
  /\ state \in {"closed", "open", "halfOpen"}
  /\ failures \in 0..FailureThreshold
  /\ successes \in 0..(SuccessThreshold + 1)
  /\ age \in 0..(Timeout + 1)
  /\ pc \in [Callers -> {"idle"} \cup Active \cup Returned]
  /\ attempt \in [Callers -> 0..(MaxRetries + 1)]
  /\ outcome \in [Callers -> Errors \cup {NoError}]

Init ==
  /\ state = "closed"
  /\ failures = 0
  /\ successes = 0
  /\ age = Timeout + 1      \* lastError is the zero time
  /\ pc = [p \in Callers |-> "idle"]
  /\ attempt = [p \in Callers |-> 0]
  /\ outcome = [p \in Callers |-> NoError]

CooledDown == age > Timeout       \* time.Since(lastError) > Timeout

Goto(p, from, to) == pc[p] = from /\ pc' = [pc EXCEPT ![p] = to]

-----------------------------------------------------------------------------
(* The breaker, each under its mutex *)

\* canMakeCall returned true.
Admit ==
  \/ /\ state \in {"closed", "halfOpen"}
     /\ UNCHANGED <<cbvars, age>>
  \/ /\ state = "open"
     /\ CooledDown
     /\ state' = "halfOpen"
     /\ successes' = 0
     /\ UNCHANGED <<failures, age>>

\* canMakeCall returned false.
Refuse ==
  /\ state = "open"
  /\ ~CooledDown
  /\ UNCHANGED <<cbvars, age>>

\* Mutant of recordSuccess: any success closes the circuit.
RecordSuccessCloses ==
  /\ failures' = 0
  /\ state' = "closed"
  /\ UNCHANGED <<successes, age>>

recordSuccess ==
  /\ failures' = 0
  /\ UNCHANGED age
  /\ IF state = "halfOpen"
     THEN /\ successes' = successes + 1
          /\ state' = IF successes' >= SuccessThreshold THEN "closed" ELSE state
     ELSE UNCHANGED <<state, successes>>

recordFailure ==
  /\ age' = 0
  /\ failures' = IF failures < FailureThreshold THEN failures + 1 ELSE failures
  /\ state' = IF state = "halfOpen" \/ failures' >= FailureThreshold
              THEN "open" ELSE state
  /\ UNCHANGED successes

-----------------------------------------------------------------------------
(* One call of SendRequest, SendNotification or SendBatchRequest *)

\* isRetryableError.  The protocol error it recognises is *ErrorObject, which
\* the HTTP transport returns; the stdio transport returns *protocol.Error,
\* which falls through to the default.
isRetryableError(e) ==
  /\ ~(e.type = "MCPError" /\ e.code = "client")
  /\ ~(e.type = "ErrorObject" /\ e.code = "serverRange")

\* The check before the loop, admitted.
Begin(p) ==
  /\ pc[p] \in {"idle"} \cup Returned
  /\ Admit
  /\ pc' = [pc EXCEPT ![p] = "loop"]
  /\ attempt' = [attempt EXCEPT ![p] = 0]
  /\ outcome' = [outcome EXCEPT ![p] = NoError]

\* The check before the loop, refused: "Circuit breaker is open".
Rejected(p) ==
  /\ pc[p] \in {"idle"} \cup Returned
  /\ Refuse
  /\ pc' = [pc EXCEPT ![p] = "rejected"]
  /\ UNCHANGED <<attempt, outcome>>

\* Mutant of Attempt: the loop runs once too often.
AttemptOffByOne(p) ==
  /\ attempt[p] <= MaxRetries + 1
  /\ Goto(p, "loop", "inner")
  /\ UNCHANGED <<cbvars, age, attempt, outcome>>

\* The loop head, after the context check and the backoff of a retry.  The
\* breaker is not consulted again.
Attempt(p) ==
  /\ attempt[p] < MaxRetries + 1
  /\ Goto(p, "loop", "inner")
  /\ UNCHANGED <<cbvars, age, attempt, outcome>>

\* The context is done at the loop head or during the backoff.
ContextDone(p) ==
  /\ attempt[p] < MaxRetries + 1
  /\ Goto(p, "loop", "cancelled")
  /\ UNCHANGED <<cbvars, age, attempt, outcome>>

\* All retries are used up.
Exhausted(p) ==
  /\ attempt[p] = MaxRetries + 1
  /\ Goto(p, "loop", "exhausted")
  /\ UNCHANGED <<cbvars, age, attempt, outcome>>

\* The wrapped transport returns.
InnerReturns(p) ==
  /\ Goto(p, "inner", "record")
  /\ \E e \in Errors \cup {NoError} : outcome' = [outcome EXCEPT ![p] = e]
  /\ UNCHANGED <<cbvars, age, attempt>>

Succeed(p) ==
  /\ outcome[p] = NoError
  /\ recordSuccess
  /\ Goto(p, "record", "ok")
  /\ UNCHANGED <<attempt, outcome>>

\* A non-retryable error is recorded as a failure and returned.
FailFinal(p) ==
  /\ outcome[p] # NoError
  /\ ~isRetryableError(outcome[p])
  /\ recordFailure
  /\ Goto(p, "record", "error")
  /\ UNCHANGED <<attempt, outcome>>

\* Mutant of FailRetry: the attempt is not counted.
FailRetryUncounted(p) ==
  /\ outcome[p] # NoError
  /\ isRetryableError(outcome[p])
  /\ recordFailure
  /\ Goto(p, "record", "loop")
  /\ UNCHANGED <<attempt, outcome>>

FailRetry(p) ==
  /\ outcome[p] # NoError
  /\ isRetryableError(outcome[p])
  /\ recordFailure
  /\ Goto(p, "record", "loop")
  /\ attempt' = [attempt EXCEPT ![p] = @ + 1]
  /\ UNCHANGED outcome

Call(p) ==
  \/ Attempt(p) \/ ContextDone(p) \/ Exhausted(p) \/ InnerReturns(p)
  \/ Succeed(p) \/ FailFinal(p) \/ FailRetry(p)

Tick ==
  /\ ~CooledDown
  /\ age' = age + 1
  /\ UNCHANGED <<cbvars, callvars>>

Next ==
  \/ \E p \in Callers : Begin(p) \/ Rejected(p) \/ Call(p)
  \/ Tick

Spec == Init /\ [][Next]_vars

(***************************************************************************)
(* Time passes, the wrapped transport returns (it has its own timeouts)    *)
(* and the loop of an admitted call keeps running.  New calls are made for *)
(* ever only where a property says so (CallersKeepTrying).                 *)
(***************************************************************************)
Fairness == WF_vars(Tick) /\ \A p \in Callers : WF_vars(Call(p))

CallersKeepTrying ==
  \A p \in Callers : WF_vars(Begin(p)) /\ WF_vars(Rejected(p))

FairSpec == Spec /\ Fairness /\ CallersKeepTrying
-----------------------------------------------------------------------------
(* Properties *)

\* The call between the loop head and the record of its outcome is at most
\* the MaxRetries-th retry (needed for TypeOK to be inductive).
RetriesBounded ==
  \A p \in Callers : pc[p] \in {"inner", "record"} => attempt[p] <= MaxRetries

\* A closed circuit has seen fewer consecutive failures than the threshold,
\* although late successes and failures of calls admitted before it opened
\* keep changing the counter in every state (reliability_middleware.go:425).
\* With a threshold of 0 it has seen none.
ClosedBelowThreshold ==
  state = "closed" => failures = 0 \/ failures < FailureThreshold

\* A half-open circuit has not yet seen enough successes to close: it never
\* stays half-open with the success threshold already reached.  With a threshold
\* of 0 the first success closes it.
HalfOpenBelowThreshold ==
  state = "halfOpen" => successes = 0 \/ successes < SuccessThreshold

\* The inductive invariant behind the theorems.
IInv ==
  /\ TypeOK
  /\ RetriesBounded
  /\ ClosedBelowThreshold
  /\ HalfOpenBelowThreshold

\* The breaker implements the abstract one: it opens from closed or half-open
\* only, probes only after a full timeout without failures, and closes only
\* through half-open, whatever calls are in flight across the changes.
AbstractBreaker == INSTANCE Breaker WITH cooled <- CooledDown
ImplementsBreaker == AbstractBreaker!Spec

\* Failing retries of calls already admitted extend the open period, but
\* only boundedly: an open circuit is always probed again.
OpenIsProbed == state = "open" ~> state = "halfOpen"

\* Every admitted call returns to its caller after at most MaxRetries
\* retries, whatever the wrapped transport answers.
CallsEnd == \A p \in Callers : pc[p] \in Active ~> pc[p] \in Returned
=============================================================================
