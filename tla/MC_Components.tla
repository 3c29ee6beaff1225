---------------------------- MODULE MC_Components ----------------------------
(* Components that share no state, each in a small instance: bearer tokens,  *)
(* roles, the two kinds of metrics, batches over HTTP, client and server     *)
(* above the transports, lists page by page, streaming calls.  "part" is the *)
(* one that moves.                                                           *)
EXTENDS BearerTokens, MC_RBAC, TransportMetrics, Observability,
        ClientStreaming, ClientServer, Pagination,
        HTTPBatch, TLC
CONSTANTS batch1, batch2, g1, g2

VARIABLE part

TwoWorkers == {w1, w2}

MCWorkloads ==
  { {"request", "incoming"}, {"notification"}, {"batch"}, {"incomingNotification"} }

TwoBatches == {batch1, batch2}
Holding(s, t) == [b \in TwoBatches |-> IF b = batch1 THEN s ELSE t]
BatchIDs == {1, 2, 3}
MCContents ==
  { Holding(<<2, 1>>, <<3>>),    \* no id in common
    Holding(<<1, 2>>, <<2>>),    \* one
    Holding(<<1>>, <<2, 2>>),    \* an id twice in a batch
    Holding(<<1>>, <<>>) }       \* notifications only

ThreeGoroutines == {g1, g2, Reader}
MCConfigs ==
  { [caps |-> Caps \ {"sampling"}, client |-> {}, stdio |-> FALSE, combined |-> FALSE,
     providers |-> {"tools", "resources", "prompts", "completion", "roots"}],
    [caps |-> {"tools", "resourceSubscriptions"}, client |-> {"logging"},
     stdio |-> TRUE, combined |-> FALSE, providers |-> {}] }

MCLimits == {-1, 0, 1, 5}

allvars == <<part, vars, rbacvars, metricvars, obsvars, batchvars, csvars,
             pagevars, streamvars>>

MCInit ==
  /\ part \in {"tokens", "roles", "metrics", "tracing", "batches", "session", "lists",
              "streaming"}
  /\ Init /\ RBACInit /\ MetricsInit /\ ObsInit
  /\ BatchInit /\ ClientServerInit
  /\ PaginationInit /\ StreamingInit
  \* The parts that stay put have one state each.
  /\ part # "roles" => required = <<"read">>
  /\ part # "batches" => content = Holding(<<1>>, <<>>)
  /\ part # "session" => config.stdio
  /\ part # "lists" => kind = "tools"

MCNext ==
  /\ UNCHANGED part
  /\ \/ part = "tokens" /\ Next
        /\ UNCHANGED <<rbacvars, metricvars, obsvars, batchvars, csvars, pagevars, streamvars>>
     \/ part = "roles" /\ RBACNext
        /\ UNCHANGED <<vars, metricvars, obsvars, batchvars, csvars, pagevars, streamvars>>
     \/ part = "metrics" /\ MetricsNext
        /\ UNCHANGED <<vars, rbacvars, obsvars, batchvars, csvars, pagevars, streamvars>>
     \/ part = "tracing" /\ ObsNext
        /\ UNCHANGED <<vars, rbacvars, metricvars, batchvars, csvars, pagevars, streamvars>>
     \/ part = "batches" /\ BatchNext
        /\ UNCHANGED <<vars, rbacvars, metricvars, obsvars, csvars, pagevars, streamvars>>
     \/ part = "session" /\ ClientServerNext
        /\ UNCHANGED <<vars, rbacvars, metricvars, obsvars, batchvars, pagevars, streamvars>>
     \/ part = "lists" /\ PaginationNext
        /\ UNCHANGED <<vars, rbacvars, metricvars, obsvars, batchvars, csvars, streamvars>>
     \/ part = "streaming" /\ StreamingNext
        /\ UNCHANGED <<vars, rbacvars, metricvars, obsvars, batchvars, csvars, pagevars>>

MCSpec == MCInit /\ [][MCNext]_allvars

Symmetry == Permutations({g1, g2})

-----------------------------------------------------------------------------
\* The variables of every part keep their types.
TypesOK ==
  CASE part = "tokens"    -> TypeOK
    [] part = "roles"     -> RBACTypeOK
    [] part = "metrics"   -> MetricsTypeOK
    [] part = "tracing"   -> ObsTypeOK
    [] part = "batches"   -> BatchTypeOK
    [] part = "session"   -> ClientServerTypeOK
    [] part = "lists"     -> PaginationTypeOK
    [] part = "streaming" -> StreamingTypeOK
=============================================================================
