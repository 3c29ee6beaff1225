---------------------------- MODULE Observability ----------------------------
(***************************************************************************)
(* The enhanced observability middleware (pkg/observability): the span and *)
(* the metrics around each call of the transports it wraps, and the        *)
(* providers it shares between them.                                       *)
(*                                                                         *)
(* Tracing and metrics are both enabled.  A span is started before the     *)
(* wrapped call and ended by a defer; the metrics are recorded between     *)
(* them, and only when the wrapped call returns.  Attributes, payloads and *)
(* durations are left out, and so are the recording functions no code of   *)
(* the repository calls.                                                   *)
(*                                                                         *)
(* Shutdown of OpenTelemetry's tracer provider is the library's: only the  *)
(* first call does anything, the others return nil at once, even while the *)
(* first is under way, and the first may give up with an error when its    *)
(* context is done, and leave the exporting of spans as it was.            *)
(***************************************************************************)
EXTENDS Integers, FiniteSets

CONSTANTS
  Wrapped,        \* transports the one middleware wraps: often client and server
  SpanGoroutines, \* callers, and goroutines that handle incoming messages
  Methods,        \* methods of requests and notifications
  AlwaysSample,   \* TracingConfig
  NeverSample,
  SampleRate,     \* "zero", "some" or "one"
  MaxTraced       \* bound: calls begun

ASSUME ObservabilityAssumption ==
  IsFiniteSet(SpanGoroutines) /\ Wrapped # {} /\ Methods # {} /\ MaxTraced \in Nat

VARIABLES
  phase,       \* where each goroutine is
  current,     \* its call: [op, method, transport, recorded, status]
  durations,   \* observations of each family's duration histogram
  totals,      \* each family's counter
  sizes,       \* observations of the batch size histogram
  ended,       \* spans ended, by family
  exported,    \* spans handed to the exporter
  panics,      \* wrapped calls that panicked, by family
  tracer,      \* the provider: "up", "closing", "down", or "left" as it was
  stopped,     \* transports of which a Stop has returned
  failed,      \* and those of which one has returned an error
  callsMade    \* calls begun so far

obsvars == <<phase, current, durations, totals, sizes, ended, exported, panics,
             tracer, stopped, failed, callsMade>>

countvars == <<durations, totals, sizes>>
spanvars  == <<ended, exported, panics>>

Operations     == {"SendRequest", "SendNotification", "SendBatchRequest",
                   "HandleRequest", "HandleNotification", "HandleBatchRequest",
                   "Initialize"}
Statuses       == {"success", "error"}
Stopping       == {"stop", "stopTracer", "closing", "stopMetrics"}

\* The family of collectors an operation is recorded in: incoming
\* notifications count as incoming requests and incoming batches as batches.
FamilyOf(op) ==
  CASE op = "SendRequest" -> "request"
    [] op = "SendNotification" -> "notification"
    [] op \in {"SendBatchRequest", "HandleBatchRequest"} -> "batch"
    [] op \in {"HandleRequest", "HandleNotification"} -> "incoming"
    [] op = "Initialize" -> "event"

\* The families, and those that have a counter beside the histogram.
Families == {"request", "notification", "batch", "incoming", "event"}
Counted  == Families \ {"event"}

\* The name a span is sampled by: the mcp.method attribute, or its own name.
SpanMethod(op, m) ==
  CASE op \in {"SendBatchRequest", "HandleBatchRequest"} -> "batch"
    [] op = "Initialize" -> "transport.initialize"
    [] OTHER -> m

\* A sample rate that is not set is 1: nothing is sampled only by method.
EffectiveRate == IF SampleRate = "zero" THEN "one" ELSE SampleRate

\* The decisions the sampler can take for a method.  Without lists it is the
\* ratio sampler, which the method sampler falls back to.
ShouldSample(m) ==
  CASE m \in AlwaysSample -> {TRUE}
    [] m \notin AlwaysSample /\ m \in NeverSample -> {FALSE}
    [] m \notin AlwaysSample \cup NeverSample ->
         IF EffectiveRate = "one" THEN {TRUE} ELSE BOOLEAN

NoCall == [op |-> "SendRequest", method |-> CHOOSE m \in Methods : TRUE,
           transport |-> CHOOSE t \in Wrapped : TRUE, recorded |-> FALSE,
           status |-> "success"]

ObsTypeOK ==
  /\ phase \in [SpanGoroutines -> {"idle", "inner", "observe", "count", "size", "end"}
                                \cup Stopping]
  /\ current \in [SpanGoroutines -> [op : Operations, method : Methods, transport : Wrapped,
                                 recorded : BOOLEAN, status : Statuses]]
  /\ durations \in [Families \X Statuses -> 0..MaxTraced]
  /\ totals \in [Counted \X Statuses -> 0..MaxTraced]
  /\ sizes \in [Statuses -> 0..MaxTraced]
  /\ ended \in [Families -> 0..MaxTraced]
  /\ exported \in 0..MaxTraced
  /\ panics \in [Families -> 0..MaxTraced]
  /\ tracer \in {"up", "closing", "down", "left"}
  /\ stopped \subseteq Wrapped /\ failed \subseteq stopped
  /\ callsMade \in 0..MaxTraced

ObsInit ==
  /\ phase = [g \in SpanGoroutines |-> "idle"]
  /\ current = [g \in SpanGoroutines |-> NoCall]
  /\ durations = [x \in Families \X Statuses |-> 0]
  /\ totals = [x \in Counted \X Statuses |-> 0]
  /\ sizes = [s \in Statuses |-> 0]
  /\ ended = [f \in Families |-> 0]
  /\ exported = 0
  /\ panics = [f \in Families |-> 0]
  /\ tracer = "up"
  /\ stopped = {} /\ failed = {}
  /\ callsMade = 0

At(g, p)    == phase[g] = p
GoOn(g, p)  == phase' = [phase EXCEPT ![g] = p]
Finish(g)   == GoOn(g, "idle") /\ current' = [current EXCEPT ![g] = NoCall]
FamilyAt(g) == FamilyOf(current[g].op)
Label(g)    == <<FamilyAt(g), current[g].status>>

-----------------------------------------------------------------------------
(* The wrapped calls *)

\* The span is started, with the sampler's decision, and the wrapped
\* transport is called.
StartSpan(g, t, op, m) ==
  /\ At(g, "idle")
  /\ callsMade < MaxTraced
  /\ callsMade' = callsMade + 1
  /\ \E r \in ShouldSample(SpanMethod(op, m)) :
       current' = [current EXCEPT ![g] = [NoCall EXCEPT !.op = op, !.method = m,
                                                        !.transport = t, !.recorded = r]]
  /\ GoOn(g, "inner")
  /\ UNCHANGED <<countvars, spanvars, tracer, stopped, failed>>

TracedSendRequest(g, t, m)        == StartSpan(g, t, "SendRequest", m)
TracedSendNotification(g, t, m)   == StartSpan(g, t, "SendNotification", m)
TracedSendBatchRequest(g, t)      == StartSpan(g, t, "SendBatchRequest", NoCall.method)
TracedHandleRequest(g, t, m)      == StartSpan(g, t, "HandleRequest", m)
TracedHandleNotification(g, t, m) == StartSpan(g, t, "HandleNotification", m)
TracedHandleBatchRequest(g, t)    == StartSpan(g, t, "HandleBatchRequest", NoCall.method)
TracedInitialize(g, t)            == StartSpan(g, t, "Initialize", NoCall.method)

\* The wrapped call returns; a response that carries an error is an error.
InnerReturns(g) ==
  /\ At(g, "inner")
  /\ \E s \in Statuses : current' = [current EXCEPT ![g].status = s]
  /\ GoOn(g, "observe")
  /\ UNCHANGED <<countvars, spanvars, tracer, stopped, failed, callsMade>>

\* A recorded span is exported until the provider has been shut down.
EndSpan(g) ==
  /\ ended' = [ended EXCEPT ![FamilyAt(g)] = @ + 1]
  /\ \/ current[g].recorded /\ tracer # "down" /\ exported' = exported + 1
     \/ ~current[g].recorded /\ exported' = exported
     \/ tracer \in {"closing", "down"} /\ exported' = exported

\* Mutant of Panic: the span is not ended by a defer.
PanicUnended(g) ==
  /\ At(g, "inner")
  /\ panics' = [panics EXCEPT ![FamilyAt(g)] = @ + 1]
  /\ Finish(g)
  /\ UNCHANGED <<ended, exported, countvars, tracer, stopped, failed, callsMade>>

\* The wrapped call panics: the deferred functions run and the panic goes on,
\* past the code that records metrics.  The caller recovers from it.
Panic(g) ==
  /\ At(g, "inner")
  /\ EndSpan(g)
  /\ panics' = [panics EXCEPT ![FamilyAt(g)] = @ + 1]
  /\ Finish(g)
  /\ UNCHANGED <<countvars, tracer, stopped, failed, callsMade>>

-----------------------------------------------------------------------------
(* RecordRequest, RecordNotification, RecordBatchRequest,                   *)
(* RecordIncomingRequest, RecordTransportEvent                              *)

Observe(g) ==
  /\ At(g, "observe")
  /\ durations' = [durations EXCEPT ![Label(g)] = @ + 1]
  /\ GoOn(g, IF FamilyAt(g) \in Counted THEN "count" ELSE "end")
  /\ UNCHANGED <<current, totals, sizes, spanvars, tracer, stopped, failed, callsMade>>

CountOne(g) ==
  /\ At(g, "count")
  /\ totals' = [totals EXCEPT ![Label(g)] = @ + 1]
  /\ GoOn(g, IF FamilyAt(g) = "batch" THEN "size" ELSE "end")
  /\ UNCHANGED <<current, durations, sizes, spanvars, tracer, stopped, failed, callsMade>>

ObserveSize(g) ==
  /\ At(g, "size")
  /\ sizes' = [sizes EXCEPT ![current[g].status] = @ + 1]
  /\ GoOn(g, "end")
  /\ UNCHANGED <<current, durations, totals, spanvars, tracer, stopped, failed, callsMade>>

\* The span's status is set, the call returns and the deferred End runs.
FinishSpan(g) ==
  /\ At(g, "end")
  /\ EndSpan(g)
  /\ Finish(g)
  /\ UNCHANGED <<countvars, panics, tracer, stopped, failed, callsMade>>

-----------------------------------------------------------------------------
(* Stop *)

\* Stop is called, again perhaps after it has failed.
StopCalled(g, t) ==
  /\ At(g, "idle")
  /\ t \notin stopped \ failed
  /\ \A h \in SpanGoroutines : phase[h] \in Stopping => current[h].transport # t
  /\ current' = [current EXCEPT ![g].transport = t]
  /\ GoOn(g, "stop")
  /\ UNCHANGED <<countvars, spanvars, tracer, stopped, failed, callsMade>>

\* The wrapped transport has stopped, or failed to: its error is kept and the
\* providers are shut down either way.
StopInner(g) ==
  /\ At(g, "stop")
  /\ \E s \in Statuses : current' = [current EXCEPT ![g].status = s]
  /\ GoOn(g, "stopTracer")
  /\ UNCHANGED <<countvars, spanvars, tracer, stopped, failed, callsMade>>

\* The first Shutdown of the provider begins, another returns nil ...
StopTracer(g) ==
  /\ At(g, "stopTracer")
  /\ IF tracer = "up" THEN tracer' = "closing" /\ GoOn(g, "closing")
                      ELSE tracer' = tracer /\ GoOn(g, "stopMetrics")
  /\ UNCHANGED <<current, countvars, spanvars, stopped, failed, callsMade>>

\* ... and the first ends, or gives up with its context's error, which is
\* returned unless the wrapped transport's is.
TracerClosed(g) ==
  /\ At(g, "closing")
  /\ \/ tracer' = "down" /\ UNCHANGED current
     \/ /\ tracer' \in {"down", "left"}
        /\ current' = [current EXCEPT ![g].status = "error"]
  /\ GoOn(g, "stopMetrics")
  /\ UNCHANGED <<countvars, spanvars, stopped, failed, callsMade>>

\* Shutdown of the metrics provider, whose HTTP server nobody has started.
StopMetrics(g) ==
  /\ At(g, "stopMetrics")
  /\ stopped' = stopped \cup {current[g].transport}
  /\ failed' = IF current[g].status = "error" THEN failed \cup {current[g].transport}
               ELSE failed
  /\ Finish(g)
  /\ UNCHANGED <<countvars, spanvars, tracer, callsMade>>

-----------------------------------------------------------------------------
ObsNext ==
  \/ \E g \in SpanGoroutines :
       \/ \E t \in Wrapped, m \in Methods :
            \/ TracedSendRequest(g, t, m) \/ TracedSendNotification(g, t, m)
            \/ TracedHandleRequest(g, t, m) \/ TracedHandleNotification(g, t, m)
       \/ \E t \in Wrapped :
            \/ TracedSendBatchRequest(g, t) \/ TracedHandleBatchRequest(g, t)
            \/ TracedInitialize(g, t) \/ StopCalled(g, t)
       \/ InnerReturns(g) \/ Panic(g) \/ Observe(g) \/ CountOne(g)
       \/ ObserveSize(g) \/ FinishSpan(g)
       \/ StopInner(g) \/ StopTracer(g) \/ TracerClosed(g) \/ StopMetrics(g)

ObsSpec == ObsInit /\ [][ObsNext]_obsvars

-----------------------------------------------------------------------------
(* Properties *)

Among(f, steps) == Cardinality({g \in SpanGoroutines : phase[g] \in steps /\ FamilyAt(g) = f})

\* What tracing and metrics say of the same calls (SendRequest to
\* HandleBatchRequest): every call whose span has ended is counted once, with
\* its duration and a batch with its size, except those that panicked, which
\* only their span reports.
TracesMatchMetrics ==
  /\ \A f \in Counted :
       LET counted == totals[<<f, "success">>] + totals[<<f, "error">>]
           timed   == durations[<<f, "success">>] + durations[<<f, "error">>]
       IN /\ ended[f] + Among(f, {"size", "end"}) = counted + panics[f]
          /\ timed = counted + Among(f, {"count"})
  /\ \A s \in Statuses : sizes[s] <= totals[<<"batch", s>>]
  /\ sizes["success"] + sizes["error"] + Among("batch", {"size"})
       = totals[<<"batch", "success">>] + totals[<<"batch", "error">>]

\* Stop shuts the tracer provider down although the wrapped transport failed
\* to stop, and a Shutdown that gave up, so that spans are still exported, is
\* told to the caller of the Stop it was part of, or will be
\* (observabilityTransport.Stop).
StopCompletes ==
  /\ stopped # {} => tracer # "up"
  /\ tracer = "left" =>
       \/ failed # {}
       \/ \E g \in SpanGoroutines : phase[g] = "stopMetrics" /\ current[g].status = "error"

\* What the middleware tells its operators is complete, and so is what its Stop
\* tells its caller.
TracingSound == TracesMatchMetrics /\ StopCompletes
=============================================================================
