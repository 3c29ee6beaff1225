--------------------- MODULE ReliabilityTransport_proofs ---------------------
(***************************************************************************)
(* Theorems of the reliability middleware, for any number of callers, any  *)
(* thresholds, retries, timeout and error set.  IInv is inductive: the     *)
(* type bounds of successes and attempt need HalfOpenBelowThreshold and    *)
(* RetriesBounded, and those need the types.                               *)
(***************************************************************************)
EXTENDS ReliabilityTransport, TLAPS

USE DEF Active, Returned, Goto, cbvars, callvars, CooledDown

\* The initial state satisfies the inductive invariant.
LEMMA InitIInv == Init => IInv
  BY ReliabilityAssumption
  DEF Init, IInv, TypeOK, RetriesBounded, ClosedBelowThreshold,
      HalfOpenBelowThreshold

\* The mutex sections of the breaker keep its variables in their types and
\* below the thresholds of the state they leave it in.
BreakerInv ==
  /\ state \in {"closed", "open", "halfOpen"}
  /\ failures \in 0..FailureThreshold
  /\ successes \in 0..(SuccessThreshold + 1)
  /\ age \in 0..(Timeout + 1)
  /\ ClosedBelowThreshold
  /\ HalfOpenBelowThreshold

LEMMA AdmitBreakerInv == BreakerInv /\ Admit => BreakerInv'
  BY ReliabilityAssumption
  DEF BreakerInv, Admit, ClosedBelowThreshold, HalfOpenBelowThreshold

LEMMA RecordSuccessBreakerInv == BreakerInv /\ recordSuccess => BreakerInv'
  BY ReliabilityAssumption
  DEF BreakerInv, recordSuccess, ClosedBelowThreshold, HalfOpenBelowThreshold

LEMMA RecordFailureBreakerInv == BreakerInv /\ recordFailure => BreakerInv'
  BY ReliabilityAssumption
  DEF BreakerInv, recordFailure, ClosedBelowThreshold, HalfOpenBelowThreshold

\* The part of the invariant about the calls in flight.
CallInv ==
  /\ pc \in [Callers -> {"idle"} \cup Active \cup Returned]
  /\ attempt \in [Callers -> 0..(MaxRetries + 1)]
  /\ outcome \in [Callers -> Errors \cup {NoError}]
  /\ RetriesBounded

LEMMA IInvParts == IInv <=> BreakerInv /\ CallInv
  BY DEF IInv, TypeOK, BreakerInv, CallInv

\* Every step keeps the inductive invariant.
LEMMA NextIInv == IInv /\ [Next]_vars => IInv'
<1> SUFFICES ASSUME BreakerInv, CallInv, [Next]_vars
             PROVE  BreakerInv' /\ CallInv'
  BY IInvParts DEF IInv, TypeOK, BreakerInv, CallInv, RetriesBounded,
                   ClosedBelowThreshold, HalfOpenBelowThreshold
<1>1. ASSUME NEW p \in Callers, Begin(p)  PROVE BreakerInv' /\ CallInv'
  <2>1. BreakerInv'  BY <1>1, AdmitBreakerInv DEF Begin
  <2>2. CallInv'
    BY <1>1, ReliabilityAssumption DEF Begin, CallInv, RetriesBounded
  <2> QED  BY <2>1, <2>2
<1>2. ASSUME NEW p \in Callers, Rejected(p)  PROVE BreakerInv' /\ CallInv'
  <2>1. BreakerInv'
    BY <1>2 DEF Rejected, Refuse, BreakerInv, ClosedBelowThreshold,
                HalfOpenBelowThreshold
  <2>2. CallInv'
    BY <1>2 DEF Rejected, CallInv, RetriesBounded
  <2> QED  BY <2>1, <2>2
<1>3. ASSUME NEW p \in Callers,
             Attempt(p) \/ ContextDone(p) \/ Exhausted(p) \/ InnerReturns(p)
      PROVE BreakerInv' /\ CallInv'
  <2>1. BreakerInv'
    BY <1>3 DEF Attempt, ContextDone, Exhausted, InnerReturns, BreakerInv,
                ClosedBelowThreshold, HalfOpenBelowThreshold
  <2>2. CASE Attempt(p)
    BY <2>1, <2>2, ReliabilityAssumption DEF Attempt, CallInv, RetriesBounded
  <2>3. CASE ContextDone(p) \/ Exhausted(p)
    BY <2>1, <2>3 DEF ContextDone, Exhausted, CallInv, RetriesBounded
  <2>4. CASE InnerReturns(p)
    BY <2>1, <2>4 DEF InnerReturns, CallInv, RetriesBounded
  <2> QED  BY <1>3, <2>2, <2>3, <2>4
<1>4. ASSUME NEW p \in Callers, Succeed(p)  PROVE BreakerInv' /\ CallInv'
  <2>1. BreakerInv'  BY <1>4, RecordSuccessBreakerInv DEF Succeed
  <2>2. CallInv'  BY <1>4 DEF Succeed, CallInv, RetriesBounded
  <2> QED  BY <2>1, <2>2
<1>5. ASSUME NEW p \in Callers, FailFinal(p)  PROVE BreakerInv' /\ CallInv'
  <2>1. BreakerInv'  BY <1>5, RecordFailureBreakerInv DEF FailFinal
  <2>2. CallInv'  BY <1>5 DEF FailFinal, CallInv, RetriesBounded
  <2> QED  BY <2>1, <2>2
<1>6. ASSUME NEW p \in Callers, FailRetry(p)  PROVE BreakerInv' /\ CallInv'
  <2>1. BreakerInv'  BY <1>6, RecordFailureBreakerInv DEF FailRetry
  <2>2. attempt[p] + 1 \in 0..(MaxRetries + 1)
    BY <1>6, ReliabilityAssumption DEF FailRetry, CallInv, RetriesBounded
  <2>3. CallInv'
    BY <1>6, <2>2, ReliabilityAssumption
    DEF FailRetry, CallInv, RetriesBounded
  <2> QED  BY <2>1, <2>3
<1>7. ASSUME Tick  PROVE BreakerInv' /\ CallInv'
  BY <1>7, ReliabilityAssumption
  DEF Tick, BreakerInv, CallInv, RetriesBounded, ClosedBelowThreshold,
      HalfOpenBelowThreshold
<1>8. ASSUME UNCHANGED vars  PROVE BreakerInv' /\ CallInv'
  BY <1>8 DEF vars, BreakerInv, CallInv, RetriesBounded,
              ClosedBelowThreshold, HalfOpenBelowThreshold
<1> QED
  BY <1>1, <1>2, <1>3, <1>4, <1>5, <1>6, <1>7, <1>8 DEF Next, Call

\* The inductive invariant of the retry loop and the breaker
\* (reliability_middleware.go:53-140, 403-458).
THEOREM InductiveInvariant == Spec => []IInv
  BY InitIInv, NextIInv, PTL DEF Spec

\* The variables keep their types: in particular a call is retried at most
\* MaxRetries times (reliability_middleware.go:75).
THEOREM TypeCorrect == Spec => []TypeOK
<1>1. IInv => TypeOK  BY DEF IInv
<1> QED  BY <1>1, InductiveInvariant, PTL

\* A closed circuit is below the failure threshold (recordFailure opens it
\* in the same critical section, reliability_middleware.go:447).
THEOREM ClosedIsBelowThreshold == Spec => []ClosedBelowThreshold
<1>1. IInv => ClosedBelowThreshold  BY DEF IInv
<1> QED  BY <1>1, InductiveInvariant, PTL

\* A half-open circuit is below the success threshold
\* (recordSuccess closes it at once, reliability_middleware.go:431).
THEOREM HalfOpenIsBelowThreshold == Spec => []HalfOpenBelowThreshold
<1>1. IInv => HalfOpenBelowThreshold  BY DEF IInv
<1> QED  BY <1>1, InductiveInvariant, PTL

-----------------------------------------------------------------------------
(* The middleware's breaker implements the abstract one. *)

LEMMA InitRefines == Init => AbstractBreaker!Init
<1> SUFFICES ASSUME Init PROVE AbstractBreaker!Init
  OBVIOUS
<1>1. age > Timeout  BY ReliabilityAssumption DEF Init
<1>2. state = "closed"  BY DEF Init
<1> QED  BY <1>1, <1>2, Zenon DEF AbstractBreaker!Init

\* What happens to the pair <<state, CooledDown>> in each mutex section.
LEMMA AdmitRefines ==
  Admit => AbstractBreaker!Probe \/ UNCHANGED <<state, age>>
  BY DEF Admit, AbstractBreaker!Probe

LEMMA RecordSuccessRefines ==
  recordSuccess => AbstractBreaker!Recover \/ UNCHANGED <<state, age>>
  BY DEF recordSuccess, AbstractBreaker!Recover

LEMMA RecordFailureRefines ==
  ASSUME BreakerInv, recordFailure
  PROVE  AbstractBreaker!Fail \/ AbstractBreaker!Trip
<1>1. ~(age' > Timeout)  BY ReliabilityAssumption DEF recordFailure
<1>2. (age' > Timeout) = FALSE  BY <1>1
<1>3. CASE state' = state
  <2>1. state # "halfOpen"  BY <1>3 DEF recordFailure
  <2> QED  BY <1>2, <1>3, <2>1 DEF AbstractBreaker!Fail
<1>4. CASE state' # state
  <2>1. state' = "open" /\ state \in {"closed", "halfOpen"}
    BY <1>4 DEF recordFailure, BreakerInv
  <2> QED  BY <1>2, <2>1 DEF AbstractBreaker!Trip
<1> QED  BY <1>3, <1>4

\* Every step maps to a step of the abstract breaker or to a stutter.
LEMMA NextRefines ==
  IInv /\ [Next]_vars => [AbstractBreaker!Next]_(AbstractBreaker!bvars)
<1> SUFFICES ASSUME IInv, [Next]_vars
             PROVE  AbstractBreaker!Next \/ UNCHANGED <<state, CooledDown>>
  BY DEF AbstractBreaker!bvars
<1>0. BreakerInv  BY IInvParts
<1>a. UNCHANGED <<state, age>> => UNCHANGED <<state, CooledDown>>
  OBVIOUS
<1>1. ASSUME NEW p \in Callers, Begin(p)
      PROVE  AbstractBreaker!Next \/ UNCHANGED <<state, CooledDown>>
  BY <1>1, <1>a, AdmitRefines DEF Begin, AbstractBreaker!Next
<1>2. ASSUME NEW p \in Callers, Succeed(p)
      PROVE  AbstractBreaker!Next \/ UNCHANGED <<state, CooledDown>>
  BY <1>2, <1>a, RecordSuccessRefines DEF Succeed, AbstractBreaker!Next
<1>3. ASSUME NEW p \in Callers, FailFinal(p) \/ FailRetry(p)
      PROVE  AbstractBreaker!Next \/ UNCHANGED <<state, CooledDown>>
  BY <1>0, <1>3, RecordFailureRefines
  DEF FailFinal, FailRetry, AbstractBreaker!Next
<1>4. ASSUME Tick
      PROVE  AbstractBreaker!Next \/ UNCHANGED <<state, CooledDown>>
  <2>1. UNCHANGED state  BY <1>4 DEF Tick
  <2>2. CASE age' > Timeout
    <3>1. (age' > Timeout) = TRUE  BY <2>2
    <3> QED  BY <2>1, <3>1 DEF AbstractBreaker!Cool, AbstractBreaker!Next
  <2>3. CASE ~(age' > Timeout)
    <3>1. ~(age > Timeout)  BY <1>4 DEF Tick
    <3>2. (age' > Timeout) = (age > Timeout)  BY <2>3, <3>1
    <3> QED  BY <2>1, <3>2
  <2> QED  BY <2>2, <2>3
<1>5. ASSUME NEW p \in Callers,
             Rejected(p) \/ Attempt(p) \/ ContextDone(p) \/ Exhausted(p)
               \/ InnerReturns(p)
      PROVE  UNCHANGED <<state, age>>
  BY <1>5 DEF Rejected, Refuse, Attempt, ContextDone, Exhausted, InnerReturns
<1>6. ASSUME UNCHANGED vars  PROVE UNCHANGED <<state, age>>
  BY <1>6 DEF vars
<1> QED
  BY <1>a, <1>1, <1>2, <1>3, <1>4, <1>5, <1>6 DEF Next, Call

\* Whatever calls are in flight when the circuit changes, it opens, probes
\* and recovers as the abstract breaker does.
THEOREM Refinement == Spec => ImplementsBreaker
<1>1. ImplementsBreaker
        <=> AbstractBreaker!Init /\ [][AbstractBreaker!Next]_(AbstractBreaker!bvars)
  BY DEF ImplementsBreaker, AbstractBreaker!Spec
<1> QED
  BY <1>1, InitRefines, NextRefines, InductiveInvariant, PTL DEF Spec
=============================================================================
