----------------------- MODULE MiddlewareChain_proofs -----------------------
(***************************************************************************)
(* Theorems of the chain of middleware, for any callers, any enabled       *)
(* features, thresholds and limits.                                        *)
(***************************************************************************)
EXTENDS MiddlewareChain, ReliabilityTransport_proofs, FiniteSetTheorems,
        SequenceTheorems

-----------------------------------------------------------------------------
(* The order of the layers *)

USE DEF cbvars, callvars

Layers == {"reliability", "observability", "auth", "rateLimit"}

LEMMA IfIsSeq == ASSUME NEW S, NEW f \in S PROVE If(f) \in Seq(S)
  BY DEF If

LEMMA TwoLayers ==
  ASSUME NEW S, NEW f \in S, NEW g \in S PROVE If(f) \o If(g) \in Seq(S)
<1>1. If(f) \in Seq(S) /\ If(g) \in Seq(S)
  BY IfIsSeq
<1> QED
  BY <1>1

LEMMA ChainIsSeq == chain \in Seq(Layers)
<1>1. \A f \in Layers : If(f) \in Seq(Layers)
  BY IfIsSeq
<1> QED
  BY <1>1 DEF chain, ChainMiddleware, Build, Layers

\* Where authentication is enabled, rate limiting is inside it.
LEMMA AuthBeforeLimit ==
  ASSUME "auth" \in Features, NEW i \in DOMAIN chain, chain[i] = "rateLimit"
  PROVE  \E j \in DOMAIN chain : j < i /\ chain[j] = "auth"
<1> DEFINE outer == If("reliability") \o If("observability")
           inner == If("rateLimit")
<1>1. outer \in Seq(Layers) /\ inner \in Seq(Layers)
  BY IfIsSeq, TwoLayers DEF Layers
<1>2. chain = (outer \o <<"auth">>) \o inner
  BY DEF chain, ChainMiddleware, Build, If
<1>3. \A j \in DOMAIN outer : outer[j] \in {"reliability", "observability"}
  <2>1. outer \in Seq({"reliability", "observability"})
    BY TwoLayers
  <2> HIDE DEF outer
  <2> QED
    BY <2>1
<1> HIDE DEF outer, inner
<1>4. /\ Len(outer) \in Nat /\ DOMAIN chain = 1..(Len(outer) + 1 + Len(inner))
      /\ chain[Len(outer) + 1] = "auth" /\ Len(inner) \in Nat
      /\ DOMAIN outer = 1..Len(outer)
      /\ \A j \in 1..Len(outer) : chain[j] = outer[j]
  BY <1>1, <1>2
<1> QED
  BY <1>3, <1>4

\* Observability, where both are enabled, is right inside the retry loop.
LEMMA ObservabilityIsSecond ==
  ASSUME "reliability" \in Features, "observability" \in Features
  PROVE  /\ Len(chain) \in Nat /\ Len(chain) >= 2 /\ DOMAIN chain = 1..Len(chain)
         /\ chain[1] = "reliability" /\ chain[2] = "observability"
         /\ \A i \in DOMAIN chain : i > 2 => chain[i] \in {"auth", "rateLimit"}
<1> DEFINE outer == <<"reliability">> \o <<"observability">>
           inner == If("auth") \o If("rateLimit")
<1>1. inner \in Seq({"auth", "rateLimit"})
  BY TwoLayers
<1>2. If("auth") \in Seq(Layers) /\ If("rateLimit") \in Seq(Layers)
      /\ inner \in Seq(Layers)
  BY IfIsSeq, TwoLayers DEF Layers
<1>3. /\ outer \in Seq(Layers) /\ Len(outer) = 2
      /\ outer[1] = "reliability" /\ outer[2] = "observability"
  BY DEF Layers
<1>4. chain = (outer \o If("auth")) \o If("rateLimit")
  BY DEF chain, ChainMiddleware, Build, If
<1> HIDE DEF outer
<1>5. chain = outer \o inner
  <2> DEFINE a == If("auth")
             l == If("rateLimit")
  <2>1. a \in Seq(Layers) /\ l \in Seq(Layers)
    BY <1>2
  <2>2. chain = (outer \o a) \o l /\ inner = a \o l
    BY <1>4
  <2> HIDE DEF a, l, inner
  <2>3. (outer \o a) \o l = outer \o (a \o l)
    <3>1. outer \in Seq(Layers)
      BY <1>3
    <3> QED BY <2>1, <3>1, ConcatAssociative
  <2> QED
    BY <2>2, <2>3
<1> HIDE DEF inner
<1>6. /\ Len(inner) \in Nat /\ DOMAIN chain = 1..(2 + Len(inner))
      /\ Len(chain) = 2 + Len(inner)
      /\ \A i \in 1..2 : chain[i] = outer[i]
      /\ \A i \in 3..(2 + Len(inner)) : chain[i] = inner[i - 2]
  <2>1. outer \in Seq(Layers) /\ Len(outer) = 2 /\ inner \in Seq(Layers)
    BY <1>2, <1>3
  <2>2. /\ outer \o inner \in Seq(Layers)
        /\ Len(outer \o inner) = Len(outer) + Len(inner)
        /\ \A i \in 1..Len(outer) + Len(inner) :
             (outer \o inner)[i] = IF i <= Len(outer) THEN outer[i]
                                   ELSE inner[i - Len(outer)]
    BY <2>1, ConcatProperties
  <2>3. /\ chain \in Seq(Layers) /\ Len(chain) = 2 + Len(inner)
        /\ \A i \in 1..2 + Len(inner) :
             chain[i] = IF i <= 2 THEN outer[i] ELSE inner[i - 2]
    BY <1>5, <2>1, <2>2
  <2>4. Len(inner) \in Nat /\ DOMAIN chain = 1..Len(chain)
    BY <2>1, <2>3
  <2> QED
    BY <2>3, <2>4
<1>7. \A i \in 1..Len(inner) : inner[i] \in {"auth", "rateLimit"}
  BY <1>1
<1> QED
  BY <1>3, <1>6, <1>7

-----------------------------------------------------------------------------
(* The types, and the reliability layer *)

\* ChainTypeOK without the variables of the reliability layer.
CallTypes ==
  /\ layer \in [Callers -> 0..Base]
  /\ way \in [Callers -> {"down", "up"}]
  /\ result \in [Callers -> Errors \cup {NoError}]

CountTypes ==
  /\ counts \in [total : Nat, success : Nat, errors : Nat]
  /\ bucket \in [Callers \cup {"global"} -> 0..Burst]
  /\ calls \in 0..MaxCalls /\ tries \in Nat
  /\ cred \in [Callers -> Credentials]
  /\ paid \subseteq Credentials /\ blamed \subseteq Credentials

\* Every step of the chain is a step of the reliability middleware, whose
\* wrapped transport is the rest of the chain, or leaves it alone.
LEMMA ChainStep == CallTypes /\ [ChainNext]_allvars => [Next]_vars
<1> SUFFICES ASSUME CallTypes, [ChainNext]_allvars PROVE [Next]_vars
  OBVIOUS
<1>1. CASE ClockTick
  <2>1. CASE CooledDown
    BY <1>1, <2>1 DEF ClockTick, vars
  <2>2. CASE ~CooledDown
    BY <1>1, <2>2 DEF ClockTick, Tick, Next
  <2> QED
    BY <2>1, <2>2
<1>2. ASSUME NEW p \in Callers,
             Invoke(p) \/ Observe(p) \/ Authenticate(p) \/ Limit(p) \/ Transport(p)
      PROVE  UNCHANGED vars
  BY <1>2 DEF Invoke, Observe, Authenticate, Limit, Transport
<1>3. ASSUME NEW p \in Callers, ReliabilityEnter(p) PROVE Next
  BY <1>3 DEF ReliabilityEnter, Next
<1>4. ASSUME NEW p \in Callers, ReliabilityTry(p) PROVE Next
  BY <1>4 DEF ReliabilityTry, Next, Call
<1>5. ASSUME NEW p \in Callers, ReliabilityRecord(p) PROVE Next
  <2>1. result[p] \in Errors \cup {NoError}
    BY DEF CallTypes
  <2>2. InnerReturns(p)
    BY <1>5, <2>1 DEF ReliabilityRecord, InnerReturns, Goto
  <2> QED
    BY <2>2 DEF Next, Call
<1>6. ASSUME NEW p \in Callers, ReliabilityReturn(p) \/ ReliabilityGiveUp(p) PROVE Next
  BY <1>6 DEF ReliabilityReturn, ReliabilityGiveUp, Next, Call
<1>7. CASE UNCHANGED allvars
  BY <1>7 DEF allvars
<1> QED
  BY <1>1, <1>2, <1>3, <1>4, <1>5, <1>6, <1>7 DEF ChainNext, Step

LEMMA BaseType == Base \in Nat /\ Base >= 1 /\ Base = Len(chain) + 1
  BY ChainIsSeq DEF Base

LEMMA DescendTypes ==
  ASSUME CallTypes, NEW p \in Callers, NEW name, NEW dir, At(p, name, dir), Descend(p)
  PROVE  CallTypes'
<1>1. layer[p] + 1 \in 0..Base
  BY BaseType DEF At, CallTypes
<1> QED
  BY <1>1 DEF Descend, CallTypes

LEMMA AscendTypes ==
  ASSUME CallTypes, NEW p \in Callers, layer[p] \in 1..Base,
         NEW r \in Errors \cup {NoError}, Ascend(p, r)
  PROVE  CallTypes'
<1>1. layer[p] - 1 \in 0..Base
  BY BaseType DEF CallTypes
<1> QED
  BY <1>1 DEF Ascend, CallTypes

LEMMA AtTypes ==
  ASSUME NEW p \in Callers, NEW name, NEW dir, At(p, name, dir)
  PROVE  layer[p] \in 1..Base
  BY BaseType DEF At

LEMMA NextCallTypes == TypeOK /\ CallTypes /\ [ChainNext]_allvars => CallTypes'
<1> SUFFICES ASSUME TypeOK, CallTypes, [ChainNext]_allvars PROVE CallTypes'
  OBVIOUS
<1>1. ASSUME UNCHANGED <<layer, way, result>> PROVE CallTypes'
  BY <1>1 DEF CallTypes
<1>2. \A p \in Callers : /\ result[p] \in Errors \cup {NoError}
                         /\ outcome[p] \in Errors \cup {NoError}
  BY DEF CallTypes, TypeOK
<1>3. AuthError \in Errors \cup {NoError} /\ NoError \in Errors \cup {NoError}
  BY ChainAssumption
<1>4. ASSUME NEW p \in Callers, NEW name, NEW dir, At(p, name, dir),
             NEW r \in Errors \cup {NoError}, Ascend(p, r)
      PROVE  CallTypes'
  BY <1>4, AtTypes, AscendTypes
<1>5. CASE ClockTick \/ UNCHANGED allvars
  BY <1>1, <1>5 DEF ClockTick, allvars, chainvars
<1>6. ASSUME NEW p \in Callers, Invoke(p) PROVE CallTypes'
  <2>1. 1 \in 0..Base
    BY BaseType
  <2> QED
    BY <1>6, <2>1 DEF Invoke, CallTypes
<1>7. ASSUME NEW p \in Callers, ReliabilityEnter(p) PROVE CallTypes'
  BY <1>1, <1>3, <1>4, <1>7 DEF ReliabilityEnter
<1>8. ASSUME NEW p \in Callers, ReliabilityTry(p) PROVE CallTypes'
  BY <1>8, DescendTypes DEF ReliabilityTry
<1>9. ASSUME NEW p \in Callers, ReliabilityRecord(p) PROVE CallTypes'
  BY <1>1, <1>9 DEF ReliabilityRecord, chainvars
<1>10. ASSUME NEW p \in Callers, ReliabilityReturn(p) PROVE CallTypes'
  <2>1. CASE Ascend(p, NoError) \/ Ascend(p, outcome[p])
    BY <1>2, <1>3, <1>4, <1>10, <2>1 DEF ReliabilityReturn
  <2>2. CASE way' = [way EXCEPT ![p] = "down"] /\ UNCHANGED <<layer, result>>
    BY <2>2 DEF CallTypes
  <2> QED
    BY <1>10, <2>1, <2>2 DEF ReliabilityReturn
<1>11. ASSUME NEW p \in Callers, ReliabilityGiveUp(p) PROVE CallTypes'
  BY <1>2, <1>4, <1>11 DEF ReliabilityGiveUp
<1>12. ASSUME NEW p \in Callers, Observe(p) PROVE CallTypes'
  BY <1>2, <1>4, <1>12, DescendTypes DEF Observe
<1>13. ASSUME NEW p \in Callers, Authenticate(p) PROVE CallTypes'
  BY <1>2, <1>3, <1>4, <1>13, DescendTypes DEF Authenticate
<1>14. ASSUME NEW p \in Callers, Limit(p) PROVE CallTypes'
  BY <1>2, <1>3, <1>4, <1>14, DescendTypes DEF Limit
<1>15. ASSUME NEW p \in Callers, Transport(p) PROVE CallTypes'
  <2>1. layer[p] \in 1..Base
    BY <1>15, BaseType DEF Transport
  <2> QED
    BY <1>15, <2>1, AscendTypes DEF Transport
<1> QED
  BY <1>5, <1>6, <1>7, <1>8, <1>9, <1>10, <1>11, <1>12, <1>13, <1>14, <1>15
  DEF ChainNext, Step

LEMMA NextCountTypes == CountTypes /\ [ChainNext]_allvars => CountTypes'
<1> SUFFICES ASSUME CountTypes, [ChainNext]_allvars PROVE CountTypes'
  OBVIOUS
<1> USE ChainAssumption DEF CountTypes, layervars
<1>1. CASE ClockTick
  BY <1>1 DEF ClockTick
<1>2. ASSUME NEW p \in Callers, Invoke(p) PROVE CountTypes'
  BY <1>2 DEF Invoke
<1>3. ASSUME NEW p \in Callers,
             \/ ReliabilityEnter(p) \/ ReliabilityTry(p)
             \/ ReliabilityRecord(p) \/ ReliabilityGiveUp(p)
      PROVE  CountTypes'
  BY <1>3 DEF ReliabilityEnter, ReliabilityTry, ReliabilityRecord, ReliabilityGiveUp,
              chainvars
<1>4. ASSUME NEW p \in Callers, ReliabilityReturn(p) PROVE CountTypes'
  BY <1>4 DEF ReliabilityReturn
<1>5. ASSUME NEW p \in Callers, Observe(p) PROVE CountTypes'
  BY <1>5 DEF Observe
<1>6. ASSUME NEW p \in Callers, Limit(p) PROVE CountTypes'
  BY <1>6 DEF Limit
<1>7. ASSUME NEW p \in Callers, Authenticate(p) \/ Transport(p) PROVE CountTypes'
  BY <1>7 DEF Authenticate, Transport
<1>8. CASE UNCHANGED allvars
  BY <1>8 DEF allvars, chainvars
<1> QED
  BY <1>1, <1>2, <1>3, <1>4, <1>5, <1>6, <1>7, <1>8 DEF ChainNext, Step

ChainInv == IInv /\ CallTypes /\ CountTypes

LEMMA ChainInitInv == ChainInit => ChainInv
<1> SUFFICES ASSUME ChainInit PROVE ChainInv
  OBVIOUS
<1>1. IInv
  BY InitIInv DEF ChainInit
<1>2. CallTypes
  BY BaseType DEF ChainInit, CallTypes
<1>3. CountTypes
  BY ChainAssumption DEF ChainInit, CountTypes, Credentials
<1> QED
  BY <1>1, <1>2, <1>3 DEF ChainInv

LEMMA ChainNextInv == ChainInv /\ [ChainNext]_allvars => ChainInv'
<1> SUFFICES ASSUME ChainInv, [ChainNext]_allvars PROVE ChainInv'
  OBVIOUS
<1>1. IInv'
  BY ChainStep, NextIInv DEF ChainInv
<1>2. CallTypes' /\ CountTypes'
  BY NextCallTypes, NextCountTypes DEF ChainInv, IInv
<1> QED
  BY <1>1, <1>2 DEF ChainInv

\* Every variable of the chain keeps its type, the history of any retries,
\* refusals and refills notwithstanding; a call is never deeper in the chain
\* than the transport (middleware.go:25-35).
THEOREM ChainTypeCorrect == ChainSpec => []ChainTypeOK
<1>1. ChainInv => ChainTypeOK
  BY DEF ChainInv, IInv, CallTypes, CountTypes, ChainTypeOK
<1> QED
  BY <1>1, ChainInitInv, ChainNextInv, PTL DEF ChainSpec

\* In the chain the reliability layer behaves as it does around any transport:
\* what is proved of ReliabilityTransport holds in the chain, refusals of the
\* layers inside being answers of the wrapped transport
\* (reliability_middleware.go:69-117).
THEOREM ChainImplementsReliability == ChainSpec => Spec
<1>1. ChainInit => Init
  BY DEF ChainInit
<1>2. ChainInv /\ [ChainNext]_allvars => [Next]_vars
  BY ChainStep DEF ChainInv
<1> QED
  BY <1>1, <1>2, ChainInitInv, ChainNextInv, PTL DEF ChainSpec, Spec

\* So does the breaker the calls of a chain share: it implements the abstract one.
THEOREM ChainImplementsBreaker == ChainSpec => ImplementsBreaker
BY ChainImplementsReliability, Refinement, PTL

-----------------------------------------------------------------------------
(* Authentication and rate limiting *)

\* A call that is past the authentication layer, on its way down or up, was
\* forwarded.
PastAuth ==
  \A p \in Callers, i \in DOMAIN chain :
     chain[i] = "auth" /\ layer[p] > i => cred[p] \in Forwarded

\* A call that goes down, out of another layer than authentication or forwarded
\* by it, or comes up.
LEMMA PastAuthKept ==
  ASSUME CallTypes, PastAuth, UNCHANGED cred, NEW p \in Callers,
         \/ \E r : Ascend(p, r)
         \/ \E name, dir : /\ At(p, name, dir) /\ Descend(p)
                           /\ name # "auth" \/ cred[p] \in Forwarded
  PROVE  PastAuth'
<1> SUFFICES ASSUME NEW q \in Callers, NEW i \in DOMAIN chain,
                    chain[i] = "auth", layer'[q] > i
             PROVE  cred[q] \in Forwarded
  BY DEF PastAuth
<1>0. /\ layer \in [Callers -> Nat] /\ i \in Nat
      /\ DOMAIN chain = 1..Len(chain)
  BY BaseType, ChainIsSeq DEF CallTypes
<1>1. CASE q # p
  <2>1. layer'[q] = layer[q]
    BY <1>0, <1>1 DEF Ascend, Descend
  <2> QED
    BY <2>1 DEF PastAuth
<1>2. CASE q = p /\ \E r : Ascend(p, r)
  <2>1. layer'[p] = layer[p] - 1
    BY <1>0, <1>2 DEF Ascend
  <2>2. layer[p] > i
    BY <1>0, <1>2, <2>1
  <2> QED
    BY <1>2, <2>2 DEF PastAuth
<1>3. CASE q = p /\ ~ \E r : Ascend(p, r)
  <2>1. PICK name, dir : /\ At(p, name, dir) /\ Descend(p)
                         /\ name # "auth" \/ cred[p] \in Forwarded
    BY <1>3
  <2>2. layer'[p] = layer[p] + 1
    BY <1>0, <2>1 DEF Descend
  <2>3. CASE layer[p] > i
    BY <1>3, <2>3 DEF PastAuth
  <2>4. CASE layer[p] = i
    BY <1>3, <2>1, <2>4 DEF At
  <2> QED
    BY <1>0, <1>3, <2>2, <2>3, <2>4
<1> QED
  BY <1>1, <1>2, <1>3

LEMMA NextPastAuth == ChainInv /\ PastAuth /\ [ChainNext]_allvars => PastAuth'
<1> SUFFICES ASSUME CallTypes, PastAuth, [ChainNext]_allvars PROVE PastAuth'
  BY DEF ChainInv
<1>1. ASSUME UNCHANGED <<layer, cred>> PROVE PastAuth'
  BY <1>1 DEF PastAuth
<1>2. ASSUME NEW p \in Callers, Invoke(p) PROVE PastAuth'
  <2>1. layer \in [Callers -> Nat] /\ layer' = [layer EXCEPT ![p] = 1]
    BY <1>2, BaseType DEF Invoke, CallTypes
  <2>2. \A i \in DOMAIN chain : i \in Nat /\ i >= 1
    BY ChainIsSeq
  <2>3. \A q \in Callers : q # p => cred'[q] = cred[q]
    BY <1>2 DEF Invoke
  <2> QED
    BY <2>1, <2>2, <2>3 DEF PastAuth
<1>3. ASSUME NEW p \in Callers, ReliabilityEnter(p) \/ ReliabilityGiveUp(p)
      PROVE  PastAuth'
  BY <1>1, <1>3, PastAuthKept DEF ReliabilityEnter, ReliabilityGiveUp
<1>4. ASSUME NEW p \in Callers, ReliabilityTry(p) PROVE PastAuth'
  BY <1>4, PastAuthKept DEF ReliabilityTry
<1>5. ASSUME NEW p \in Callers, ReliabilityReturn(p) PROVE PastAuth'
  BY <1>1, <1>5, PastAuthKept DEF ReliabilityReturn
<1>6. ASSUME NEW p \in Callers, Observe(p) PROVE PastAuth'
  BY <1>6, PastAuthKept DEF Observe
<1>7. ASSUME NEW p \in Callers, Authenticate(p) PROVE PastAuth'
  BY <1>7, PastAuthKept DEF Authenticate
<1>8. ASSUME NEW p \in Callers, Limit(p) PROVE PastAuth'
  BY <1>8, PastAuthKept DEF Limit
<1>9. ASSUME NEW p \in Callers, Transport(p) PROVE PastAuth'
  BY <1>9, PastAuthKept DEF Transport
<1>10. ASSUME \/ ClockTick \/ UNCHANGED allvars
              \/ \E p \in Callers : ReliabilityRecord(p)
       PROVE  PastAuth'
  BY <1>1, <1>10 DEF ClockTick, ReliabilityRecord, allvars, chainvars
<1> QED
  BY <1>2, <1>3, <1>4, <1>5, <1>6, <1>7, <1>8, <1>9, <1>10 DEF ChainNext, Step

\* The transport is below every layer.
LEMMA BelowAll ==
  ASSUME PastAuth, "auth" \in Features, NEW p \in Callers, layer[p] = Base
  PROVE  cred[p] \in Forwarded
<1> DEFINE outer == If("reliability") \o If("observability")
           inner == If("rateLimit")
<1>1. outer \in Seq(Layers) /\ inner \in Seq(Layers)
  BY IfIsSeq, TwoLayers DEF Layers
<1>2. chain = (outer \o <<"auth">>) \o inner
  BY DEF chain, ChainMiddleware, Build, If
<1> HIDE DEF outer, inner
<1>3. /\ Len(outer) + 1 \in DOMAIN chain /\ chain[Len(outer) + 1] = "auth"
      /\ Base > Len(outer) + 1
  BY <1>1, <1>2 DEF Base
<1> QED
  BY <1>3 DEF PastAuth

\* Where authentication is enabled, a call that it refuses takes no token from any
\* bucket and never reaches the transport, whatever is required of callers,
\* however the features are combined and however often a call is tried
\* (middleware.go:156-172, auth/middleware.go:72-99).
THEOREM RefusedCallsStayOut ==
  ASSUME "auth" \in Features
  PROVE  ChainSpec => []RefusedStayOut
<1> DEFINE Payers == paid \subseteq Forwarded
<1>1. ChainInit => PastAuth /\ Payers
  <2> SUFFICES ASSUME ChainInit PROVE PastAuth /\ Payers
    OBVIOUS
  <2>1. \A i \in DOMAIN chain : i \in Nat
    BY ChainIsSeq
  <2>2. paid = {} /\ \A p \in Callers : layer[p] = 0
    BY DEF ChainInit
  <2>3. \A i \in DOMAIN chain : ~(0 > i)
    BY <2>1
  <2> QED
    BY <2>2, <2>3 DEF PastAuth
<1>2. ChainInv /\ PastAuth /\ Payers /\ [ChainNext]_allvars => Payers'
  <2> SUFFICES ASSUME PastAuth, Payers, [ChainNext]_allvars PROVE Payers'
    OBVIOUS
  <2>0. Forwarded' = Forwarded
    BY DEF Forwarded
  <2>1. ASSUME UNCHANGED paid PROVE Payers'
    BY <2>0, <2>1
  <2>2. ASSUME NEW p \in Callers, Limit(p), paid' # paid PROVE Payers'
    <3>1. At(p, "rateLimit", "down") /\ paid' = paid \cup {cred[p]}
      BY <2>2 DEF Limit
    <3>2. layer[p] \in DOMAIN chain /\ chain[layer[p]] = "rateLimit"
      BY <3>1, ChainIsSeq DEF At
    <3>3. PICK j \in DOMAIN chain : j < layer[p] /\ chain[j] = "auth"
      BY <3>2, AuthBeforeLimit
    <3>4. layer[p] > j
      BY <3>2, <3>3, ChainIsSeq
    <3>5. cred[p] \in Forwarded
      BY <3>3, <3>4 DEF PastAuth
    <3> QED
      BY <2>0, <3>1, <3>5
  <2>3. ASSUME NEW p \in Callers, Step(p), ~Limit(p) PROVE UNCHANGED paid
    BY <2>3 DEF Step, ReliabilityEnter, ReliabilityTry, ReliabilityRecord,
       ReliabilityReturn, ReliabilityGiveUp, Observe, Authenticate, Transport,
       layervars, chainvars
  <2>4. ASSUME \/ ClockTick \/ UNCHANGED allvars \/ \E p \in Callers : Invoke(p)
        PROVE  UNCHANGED paid
    BY <2>4 DEF ClockTick, Invoke, allvars, chainvars, layervars
  <2> QED
    BY <2>1, <2>2, <2>3, <2>4 DEF ChainNext
<1>3. PastAuth /\ Payers => RefusedStayOut
  BY BelowAll DEF RefusedStayOut
<1> QED
  BY <1>1, <1>2, <1>3, NextPastAuth, ChainInitInv, ChainNextInv, PTL DEF ChainSpec

-----------------------------------------------------------------------------
(* What observability counts *)

\* A call that observability has counted and that has not come back to it, and
\* one that is about to be counted.
Beyond(p)  == layer[p] > 2 \/ (layer[p] = 2 /\ way[p] = "up")
Waiting(p) == layer[p] = 2 /\ way[p] = "down"

Inside == {p \in Callers : Beyond(p)}
Before == {p \in Callers : Waiting(p)}

Observing == "reliability" \in Features /\ "observability" \in Features

\* AttemptsObserved with the place of observability in the chain spelled out.
Counted ==
  /\ counts.total = counts.success + counts.errors + Cardinality(Inside)
  /\ counts.total + Cardinality(Before) = tries

LEMMA CountedIsObserved ==
  ASSUME Observing, CallTypes PROVE Counted <=> AttemptsObserved
<1>1. /\ DOMAIN chain = 1..Len(chain) /\ Len(chain) \in Nat /\ Len(chain) >= 2
      /\ chain[1] = "reliability" /\ chain[2] = "observability"
      /\ \A i \in DOMAIN chain : i > 2 => chain[i] \in {"auth", "rateLimit"}
  BY ObservabilityIsSecond DEF Observing
<1>2. \A i \in DOMAIN chain : chain[i] = "observability" <=> i = 2
  BY <1>1
<1>3. Observed = Inside
  BY <1>1, <1>2 DEF Observed, Inside, Beyond
<1>4. {p \in Callers : At(p, "observability", "down")} = Before
  BY <1>1, <1>2 DEF At, Before, Waiting
<1> QED
  BY <1>3, <1>4 DEF Counted, AttemptsObserved

\* Where a call is when it is at a layer of a certain name.
LEMMA WhereIs ==
  ASSUME Observing, CallTypes, NEW p \in Callers
  PROVE  /\ \A dir : At(p, "reliability", dir) <=> layer[p] = 1 /\ way[p] = dir
         /\ \A dir : At(p, "observability", dir) <=> layer[p] = 2 /\ way[p] = dir
         /\ \A dir : \A name \in {"auth", "rateLimit"} :
              At(p, name, dir) => layer[p] > 2
         /\ layer[p] \in Nat /\ Base > 2
<1>1. /\ DOMAIN chain = 1..Len(chain) /\ Len(chain) \in Nat /\ Len(chain) >= 2
      /\ chain[1] = "reliability" /\ chain[2] = "observability"
      /\ \A i \in DOMAIN chain : i > 2 => chain[i] \in {"auth", "rateLimit"}
  BY ObservabilityIsSecond DEF Observing
<1>2. layer[p] \in Nat
  BY BaseType DEF CallTypes
<1>3. Base > 2
  BY <1>1, BaseType
<1>4. \A i \in DOMAIN chain : /\ chain[i] = "reliability" <=> i = 1
                              /\ chain[i] = "observability" <=> i = 2
                              /\ chain[i] \in {"auth", "rateLimit"} => i > 2
  BY <1>1
<1> QED
  BY <1>1, <1>2, <1>3, <1>4 DEF At

\* A step in which no call passes observability.
LEMMA NotObserved ==
  ASSUME Counted, UNCHANGED <<counts, tries>>,
         \A p \in Callers : Beyond(p)' <=> Beyond(p),
         \A p \in Callers : Waiting(p)' <=> Waiting(p)
  PROVE  Counted'
<1>1. Inside' = Inside /\ Before' = Before
  BY DEF Inside, Before
<1> QED
  BY <1>1 DEF Counted

\* How a call moves.
LEMMA Moves ==
  ASSUME CallTypes, NEW p \in Callers
  PROVE  /\ Descend(p) =>
              /\ layer'[p] = layer[p] + 1 /\ way'[p] = way[p]
              /\ \A q \in Callers : q # p => layer'[q] = layer[q] /\ way'[q] = way[q]
         /\ (\E r : Ascend(p, r)) =>
              /\ layer'[p] = layer[p] - 1 /\ way'[p] = "up"
              /\ \A q \in Callers : q # p => layer'[q] = layer[q] /\ way'[q] = way[q]
  BY DEF CallTypes, Descend, Ascend

LEMMA NextCounted ==
  ASSUME Observing, IsFiniteSet(Callers), ChainInv, Counted, [ChainNext]_allvars
  PROVE  Counted'
<1> USE DEF ChainInv
<1>0. /\ IsFiniteSet(Inside) /\ IsFiniteSet(Before)
      /\ Cardinality(Inside) \in Nat /\ Cardinality(Before) \in Nat
  BY FS_Subset, FS_CardinalityType DEF Inside, Before
<1>1. /\ counts \in [total : Nat, success : Nat, errors : Nat] /\ tries \in Nat
  BY DEF CountTypes
<1>2. ASSUME NEW p \in Callers, layer[p] \in 0..1, layer'[p] \in 0..1,
             \A q \in Callers : q # p => layer'[q] = layer[q] /\ way'[q] = way[q],
             UNCHANGED <<counts, tries>>
      PROVE  Counted'
  <2>1. ~Beyond(p) /\ ~Beyond(p)' /\ ~Waiting(p) /\ ~Waiting(p)'
    BY <1>2 DEF Beyond, Waiting
  <2>2. \A q \in Callers : q # p => /\ Beyond(q)' <=> Beyond(q)
                                    /\ Waiting(q)' <=> Waiting(q)
    BY <1>2 DEF Beyond, Waiting
  <2> QED
    BY <1>2, <2>1, <2>2, NotObserved
<1>3. ASSUME NEW p \in Callers, Beyond(p), Beyond(p)',
             \A q \in Callers : q # p => layer'[q] = layer[q] /\ way'[q] = way[q],
             UNCHANGED <<counts, tries>>
      PROVE  Counted'
  <2>1. ~Waiting(p) /\ ~Waiting(p)'
    <3>1. layer[p] \in Nat
      BY WhereIs
    <3> QED
      BY <1>3, <3>1 DEF Beyond, Waiting
  <2>2. \A q \in Callers : q # p => /\ Beyond(q)' <=> Beyond(q)
                                    /\ Waiting(q)' <=> Waiting(q)
    BY <1>3 DEF Beyond, Waiting
  <2> QED
    BY <1>3, <2>1, <2>2, NotObserved

<1>4. ASSUME UNCHANGED <<layer, way, counts, tries>> PROVE Counted'
  BY <1>4, NotObserved DEF Beyond, Waiting
<1>5. ASSUME NEW p \in Callers, Invoke(p) PROVE Counted'
  <2>1. /\ layer[p] = 0 /\ layer'[p] = 1 /\ UNCHANGED <<counts, tries>>
        /\ \A q \in Callers : q # p => layer'[q] = layer[q] /\ way'[q] = way[q]
    BY <1>5 DEF Invoke, CallTypes, layervars
  <2> QED
    BY <1>2, <2>1
<1>6. ASSUME NEW p \in Callers, ReliabilityEnter(p) \/ ReliabilityGiveUp(p)
      PROVE  Counted'
  <2>1. layer[p] = 1 /\ UNCHANGED <<counts, tries>>
    BY <1>6, WhereIs DEF ReliabilityEnter, ReliabilityGiveUp, layervars
  <2>2. UNCHANGED <<layer, way>> \/ \E r : Ascend(p, r)
    BY <1>6 DEF ReliabilityEnter, ReliabilityGiveUp
  <2> QED
    BY <1>2, <1>4, <2>1, <2>2, Moves
<1>7. ASSUME NEW p \in Callers, ReliabilityReturn(p) PROVE Counted'
  <2>1. layer[p] = 1 /\ UNCHANGED <<counts, tries>>
    BY <1>7, WhereIs DEF ReliabilityReturn, layervars
  <2>2. CASE \E r : Ascend(p, r)
    BY <1>2, <2>1, <2>2, Moves
  <2>3. CASE way' = [way EXCEPT ![p] = "down"] /\ UNCHANGED layer
    BY <1>2, <2>1, <2>3 DEF CallTypes
  <2> QED
    BY <1>7, <2>2, <2>3 DEF ReliabilityReturn
<1>8. ASSUME NEW p \in Callers, ReliabilityTry(p) PROVE Counted'
  <2>1. /\ layer[p] = 1 /\ way[p] = "down" /\ Descend(p)
        /\ tries' = tries + 1 /\ UNCHANGED counts
    BY <1>8, WhereIs DEF ReliabilityTry, layervars
  <2>2. /\ ~Waiting(p) /\ Waiting(p)' /\ ~Beyond(p) /\ ~Beyond(p)'
        /\ \A q \in Callers : q # p => /\ Beyond(q)' <=> Beyond(q)
                                       /\ Waiting(q)' <=> Waiting(q)
    BY <2>1, Moves DEF Beyond, Waiting
  <2>3. Inside' = Inside /\ Before' = Before \cup {p} /\ p \notin Before
    BY <2>2 DEF Inside, Before
  <2>4. Cardinality(Before') = Cardinality(Before) + 1
    BY <1>0, <2>3, FS_AddElement
  <2> QED
    BY <1>0, <1>1, <2>1, <2>3, <2>4 DEF Counted
<1>9. ASSUME NEW p \in Callers, At(p, "observability", "down"), Observe(p)
      PROVE  Counted'
  <2>1. /\ layer[p] = 2 /\ way[p] = "down" /\ Descend(p) /\ UNCHANGED tries
        /\ counts' = [counts EXCEPT !.total = @ + 1]
    BY <1>9, WhereIs DEF Observe
  <2>2. /\ Waiting(p) /\ ~Waiting(p)' /\ ~Beyond(p) /\ Beyond(p)'
        /\ \A q \in Callers : q # p => /\ Beyond(q)' <=> Beyond(q)
                                       /\ Waiting(q)' <=> Waiting(q)
    BY <2>1, Moves DEF Beyond, Waiting
  <2>3. /\ Inside' = Inside \cup {p} /\ p \notin Inside
        /\ Before' = Before \ {p} /\ p \in Before
    BY <2>2 DEF Inside, Before
  <2>4. /\ Cardinality(Inside') = Cardinality(Inside) + 1
        /\ Cardinality(Before') = Cardinality(Before) - 1
    BY <1>0, <2>3, FS_AddElement, FS_RemoveElement
  <2>5. /\ counts'.total = counts.total + 1 /\ counts'.success = counts.success
        /\ counts'.errors = counts.errors
    BY <1>1, <2>1
  <2> QED
    BY <1>0, <1>1, <2>1, <2>4, <2>5 DEF Counted
<1>10. ASSUME NEW p \in Callers, At(p, "observability", "up"), Observe(p)
       PROVE  Counted'
  <2>1. /\ layer[p] = 2 /\ way[p] = "up" /\ UNCHANGED tries
        /\ \E r : Ascend(p, r)
        /\ counts' = IF result[p] = NoError THEN [counts EXCEPT !.success = @ + 1]
                     ELSE [counts EXCEPT !.errors = @ + 1]
    BY <1>10, WhereIs DEF Observe
  <2>2. /\ ~Waiting(p) /\ ~Waiting(p)' /\ Beyond(p) /\ ~Beyond(p)'
        /\ \A q \in Callers : q # p => /\ Beyond(q)' <=> Beyond(q)
                                       /\ Waiting(q)' <=> Waiting(q)
    BY <2>1, Moves DEF Beyond, Waiting
  <2>3. Inside' = Inside \ {p} /\ p \in Inside /\ Before' = Before
    BY <2>2 DEF Inside, Before
  <2>4. Cardinality(Inside') = Cardinality(Inside) - 1
    BY <1>0, <2>3, FS_RemoveElement
  <2>5. /\ counts'.total = counts.total
        /\ counts'.success + counts'.errors = counts.success + counts.errors + 1
    BY <1>1, <2>1
  <2>6. counts'.success \in Nat /\ counts'.errors \in Nat
    BY <1>1, <2>1
  <2> QED
    BY <1>0, <1>1, <2>1, <2>3, <2>4, <2>5, <2>6 DEF Counted
<1>11. ASSUME NEW p \in Callers, Authenticate(p) \/ Limit(p) \/ Transport(p)
       PROVE  Counted'
  <2>1. UNCHANGED <<counts, tries>>
    BY <1>11 DEF Authenticate, Limit, Transport, layervars
  <2>2. layer[p] > 2
    BY <1>11, WhereIs DEF Authenticate, Limit, Transport
  <2>3. Descend(p) \/ \E r : Ascend(p, r)
    BY <1>11 DEF Authenticate, Limit, Transport
  <2>4. layer[p] \in Nat
    BY WhereIs
  <2>5. Beyond(p) /\ Beyond(p)'
    BY <2>2, <2>3, <2>4, Moves DEF Beyond
  <2> QED
    BY <1>3, <2>1, <2>3, <2>5, Moves
<1>12. ASSUME \/ ClockTick \/ UNCHANGED allvars
              \/ \E p \in Callers : ReliabilityRecord(p)
       PROVE  Counted'
  <2>1. UNCHANGED <<layer, way, counts, tries>>
    BY <1>12 DEF ClockTick, ReliabilityRecord, allvars, chainvars
  <2> QED
    BY <1>4, <2>1
<1>13. ASSUME NEW p \in Callers, Observe(p) PROVE Counted'
  BY <1>9, <1>10, <1>13 DEF Observe
<1> QED
  BY <1>5, <1>6, <1>7, <1>8, <1>11, <1>12, <1>13 DEF ChainNext, Step

\* Where both layers are enabled, what observability counts as requests are the
\* attempts of the retry loop, and its outcomes are theirs, at any moment of
\* any calls (middleware.go:145-151, observability_middleware.go:51-92).
THEOREM AttemptsAreObserved ==
  ASSUME "reliability" \in Features, "observability" \in Features,
         IsFiniteSet(Callers)
  PROVE  ChainSpec => []AttemptsObserved
<1>0. Observing
  BY DEF Observing
<1>1. ChainInit => Counted
  <2> SUFFICES ASSUME ChainInit PROVE Counted
    OBVIOUS
  <2>1. Inside = {} /\ Before = {}
    BY DEF ChainInit, Inside, Before, Beyond, Waiting
  <2>2. counts.total = 0 /\ counts.success = 0 /\ counts.errors = 0 /\ tries = 0
    BY DEF ChainInit
  <2> QED
    BY <2>1, <2>2, FS_EmptySet DEF Counted
<1>2. ChainInv /\ Counted /\ [ChainNext]_allvars => Counted'
  BY <1>0, NextCounted
<1>3. ChainInv /\ Counted => AttemptsObserved
  BY <1>0, CountedIsObserved DEF ChainInv
<1> QED
  BY <1>1, <1>2, <1>3, ChainInitInv, ChainNextInv, PTL DEF ChainSpec
=============================================================================
