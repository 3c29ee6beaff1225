---------------------------- MODULE MC_Middleware ----------------------------
(* The middleware of the transports: the reliability middleware by itself    *)
(* ("breaker") and in a chain with the others ("chain"), the rate limiter    *)
(* and the validation of tokens.  They share no state, except that the chain *)
(* is built on the breaker, and "part" is the one that moves.                *)
EXTENDS MiddlewareChain, RateLimiter, TokenValidation, TLC
CONSTANTS c1, c2, k1, padded

VARIABLE part

TwoCallers == {c1, c2}
AllFeatures == {"reliability", "observability", "auth", "rateLimit"}

\* One error that is not repeated, and the one of the refusing layers, which is.
MCErrors ==
  { [type |-> "MCPError", code |-> "client"], [type |-> "other", code |-> "unknown"] }

\* One comes with a token, good or bad, and the other with none.
MCCredentials ==
  {c \in [TwoCallers -> Credentials] :
     c[c1] \in {"none", "valid", "refused"} /\ c[c2] \in {"exempt", "none"}}

\* One sends single requests and the other batches of two, as one user or two.
MCContexts == { [c \in TwoCallers |-> "user:1"], (c1 :> "user:1") @@ (c2 :> "user:2") }
MCBatchesOf == (c1 :> {1}) @@ (c2 :> {2})

\* A key that expires, whose user may list the tools and not call them, and
\* the same key with a space behind it.
OneKey        == {k1}
MCTokens      == {k1, padded}
MCTrimSpace   == [t \in MCTokens |-> k1]
MCPermissions == ("tools/call" :> {"call"}) @@ ("tools/list" :> {"list"})
MCRolesOf     == k1 :> {"user"}
MCGrantedTo   == k1 :> {}

partvars == <<part, allvars, limitervars, cachevars>>

MCInit ==
  /\ part \in {"breaker", "chain", "limiter", "validation"}
  /\ ChainInit /\ LimiterInit /\ ValidationInit
  /\ part # "limiter" => key[c1] = key[c2]   \* one state for the other parts

MCNext ==
  /\ UNCHANGED part
  /\ \/ part = "breaker" /\ Next
        /\ UNCHANGED <<layer, way, result, layervars, calls, cred, tries, blamed>>
        /\ UNCHANGED <<limitervars, cachevars>>
     \/ part = "chain" /\ ChainNext /\ cred' \in MCCredentials
        /\ UNCHANGED <<limitervars, cachevars>>
     \/ part = "limiter" /\ LimiterNext /\ UNCHANGED <<allvars, cachevars>>
     \/ part = "validation" /\ ValidationNext
        /\ UNCHANGED <<allvars, limitervars>>
     \/ part # "breaker"   \* the bounds stop those
        /\ UNCHANGED <<allvars, limitervars, cachevars>>

\* What the fairness of each part asks for while that part moves.
MCFairness ==
  /\ WF_vars(part = "breaker" /\ Tick)
  /\ \A p \in TwoCallers :
       /\ WF_vars(part = "breaker" /\ Call(p))
       /\ WF_vars(part = "breaker" /\ Begin(p))
       /\ WF_vars(part = "breaker" /\ Rejected(p))
       /\ WF_limitervars(part = "limiter" /\ (Find(p) \/ Take(p)))
       /\ WF_limitervars(part = "limiter" /\ SendBatchRequest(p))
       /\ WF_cachevars(part = "validation" /\ Serve(p))
  /\ SF_limitervars(part = "limiter" /\ Elapse)
  /\ WF_limitervars(part = "limiter" /\ cleanup)
  /\ WF_cachevars(part = "validation" /\ CacheClock)

MCSpec == MCInit /\ [][MCNext]_partvars /\ MCFairness
-----------------------------------------------------------------------------
\* The variables of every part keep their types.
TypesOK == CASE part = "limiter"    -> LimiterTypeOK
             [] part = "validation" -> ValidationTypeOK
             [] part \in {"breaker", "chain"} -> ChainTypeOK

\* ReliabilityTransport: an open circuit is probed again, and calls end.
CallsProgress == part = "breaker" => OpenIsProbed /\ CallsEnd
=============================================================================
