# TLA+ models of mcp-sdk-go

This directory models the Go MCP SDK: the transports that match responses to
requests, the middleware around them (retries, metrics, authentication, rate
limits), the HTTP handler with its sessions and event streams, client and
server above the transports, the manager of resource subscriptions, paging,
tokens and roles.  TLC checks every module on small instances; TLAPS proves the
type invariant and the safety properties of all of them for all values of the
constants.

## 1. The system and its parts

| Component | State | Operations | Talks to |
|---|---|---|---|
| `BaseTransport` (`pkg/transport/transport.go`) | `nextID`, `pendingRequests`, handler registries, one RWMutex | `GenerateID`, `WaitForResponse`, `HandleResponse`, `HandleRequest`, `HandleBatchRequest`, `Cleanup` | embedded in every transport |
| `StdioTransport` (`stdio.go`) | `done`, writer under a mutex, the scanner goroutine | `Start`, `Stop`, `Send`, `SendRequest`, `SendBatchRequest`, `processMessage` | the peer process over pipes, the handlers of the client or server |
| Reliability middleware (`reliability_middleware.go`) | a breaker: state, failures, successes, `lastError` | `SendRequest`, `SendNotification`, `SendBatchRequest`, each a retry loop | wraps any transport |
| Middleware chain (`middleware.go`) | the list of wrappers | `Build`, `ChainMiddleware` | all middleware |
| `StreamableHTTPTransport` (`streamable_http.go`) | `responseHandlers`, `pendingRequests`, `eventSources`, a breaker of its own, event buffers | `Initialize`, `SendRequest`, `SendBatchRequest`, `HandleResponse`, `processEventSource`, `Start`, `Stop` | the HTTP server |
| `HTTPHandler` (`pkg/server/http_handler.go`) | `sessions` under `sessionMu`, `sseConnections` under `sseConnectionMu` | `ServeHTTP` and a handler per method, the hourly clean-up, `BroadcastNotification` | HTTP clients, the server's transport |
| `ResourceSubscriptionManager` (`subscriptions.go`) | `subscriptions`, the `changes` channel, one worker goroutine | `Subscribe`, `Unsubscribe`, `NotifyResourceChange`, `Start`, `Stop` | providers, the server as its notifier |
| `Server` (`server.go`) | `initialized`, `activeRequests`, the manager | request handlers, `Start`, `Stop` | transport, providers |
| Providers (`providers.go`) | maps of tools, resources, prompts, roots | list with cursors, register, call | server |
| `Client` (`pkg/client`) | `initialized`, capabilities, callbacks | one call per method, `CallToolStreaming`, paging helpers | transport |
| Auth (`pkg/auth`) | tokens, a validation cache, token buckets, roles | authenticate, validate, refresh, revoke; allow; grant | wraps transports |
| Transport metrics (`observability_middleware.go`) | maps of counters under an RWMutex | a wrapper per operation, `GetMetrics` | wraps transports |
| Observability (`pkg/observability`) | tracer and metrics providers | a wrapper per operation, `Stop` | wraps transports, OpenTelemetry, Prometheus |
| Protocol, errors, logging, utils | data and output | - | everyone |

What is hard in it:

* goroutines that meet at `pendingRequests`: a call registers only after it has
  sent, its deadline races the answer, `Stop` closes the channels under it;
* outcomes recorded in a breaker whose state has changed since the call began;
* one event stream per request and a listener, each with a loop that reconnects
  through a breaker shared by all, goroutines that read its connections, and
  requests that are answered, cancelled and forgotten meanwhile;
* sessions that are validated, refreshed, expired lazily, swept hourly and
  deleted by clients, while streams of the same session are opened and closed
  and events are sent to copies of the connection list;
* a bounded queue, batches cut by a ticker, and a `Stop` that must wait for a
  batch under way;
* a refresh that looks a token's record up, checks it and stores a new token in
  three steps, while others refresh, revoke and clean up; a validation that does
  the same with a cache in front;
* token buckets and counters that are made on demand, found under one lock and
  used under another or none, and cleaned up in between;
* a read lock that is taken again while it is held, with writers waiting;
* callbacks and request handlers that run on the goroutine that reads the
  answers; four goroutines and three channels in one streaming call;
* batches over HTTP whose callers choose the ids, and may choose the same.

What makes each part correct:

* *Request/response correlation*: an answer reaches the call that asked, an
  entry lives as long as its call, every call returns, `Stop` ends the scanner,
  unless that waits for ever in a nested call or in a reader nobody can close.
* *Reliability middleware*: the breaker's counters agree with its state whoever
  records an outcome, an open circuit is probed again, retries are bounded.
* *Streamable HTTP*: the shared breaker never wedges itself, a stream is read by
  one session at a time, handlers and streams do not outlive their requests,
  cancellation ends every goroutine of a stream.
* *Sessions*: an ended session never comes back, an expired one goes, streams of
  living sessions are left alone, channels are closed once.
* *Subscriptions*: a change is told once to those who still want it, in order as
  far as a notification has one (section 4); `Stop` returns and nothing is told
  after it.
* *Bearer tokens*: revocation is final and complete, a refresh token has one
  valid access token.  *Token cache*: a cached validation ends.
* *Rate limiter*: nobody is granted more than rate and burst allow, and batches
  are served again.  *RBAC*: roles that are deleted are gone, checks return.
* *Server and client*: a client that has its answer to initialize meets an
  initialized server, what is advertised is served, answered calls return.
  *Streaming calls*: no update is handled after the result.
* *Batches over HTTP*: a batch gets its own answers, in order.
* *Providers and pagination*: pages tile the list, whatever is registered.
* *Middleware chain*: the order of the wrappers decides who pays for a call and
  what is counted.  *Metrics and tracing*: what they say of the same calls fits.

`PROJECT.json` lists every hazard at its line with the properties that cover
it; a hazard with a note is in the model, but the code does not keep what one
would like to state, or says nothing that could be stated.

## 2. Modules

| Module | Models |
|---|---|
| `StdioTransport` | request/response correlation: calls, batches, the scanner goroutine, `Stop`; the peer is external |
| `RequestReply` | what a correlation of requests and responses promises, whatever it correlates by |
| `StdioTransport_proofs` | its inductive invariant and theorems, and that it implements `RequestReply` |
| `ReliabilityTransport` | the retry loop and the breaker all calls share |
| `Breaker` | what a breaker promises, whatever it counts |
| `ReliabilityTransport_proofs` | its inductive invariant, and that it implements `Breaker` |
| `StreamableHTTP` | requests, event streams and their breaker in the HTTP client transport |
| `StreamableHTTP_proofs` | its inductive invariant and the theorems |
| `HTTPSessions` | sessions, streams, clean-up, events of `HTTPHandler` |
| `HTTPSessions_proofs` | its inductive invariant and the theorems |
| `Subscriptions` | the subscription manager and its worker |
| `Subscriptions_proofs` | its inductive invariant, what `Selected` computes, and the theorems |
| `BearerTokens` | login, refresh, revocation and expiry of bearer tokens |
| `TokenValidation` | API keys, the authentication middleware and its token cache |
| `RateLimiter` | token buckets, batches, clean-up |
| `RBACProvider` | roles, permission checks and their read lock |
| `MiddlewareChain` | the layers around a transport; EXTENDS `ReliabilityTransport` |
| `MiddlewareChain_proofs` | that the chain implements `ReliabilityTransport`, and the theorems about who pays and what is counted |
| `Middleware_proofs` | the rate limiter and its budget, the token cache and revocation, and the types of `MC_Middleware` |
| `TransportMetrics` | counters, duration trackers and snapshots of the transport package |
| `Observability` | spans, metrics and shutdown of `pkg/observability` |
| `ClientServer` | handshake, capabilities, calls, pushes, callbacks, cancellation |
| `ClientStreaming` | `CallToolStreaming` and its goroutines |
| `Pagination` | the providers' pages and the client's `FetchAllPages` |
| `HTTPBatch` | `SendBatchRequest` over streamable HTTP |
| `Components_proofs` | the inductive invariants and theorems of the components of `MC_Components`, and the types of them all |
| `MC_Stdio`, `MC_StreamableHTTP`, `MC_HTTPSessions`, `MC_Subscriptions`, `MC_ClientServer`, `MC_RBAC` | instances of one module |
| `MC_Transports`, `MC_Middleware`, `MC_Components` | instances of several modules in one run |

### StdioTransport

`pending`, `chan` and `buf` are `pendingRequests`, the state of each channel
and its one-slot buffer; a channel is named by the goroutine that made it and
its id.  `pc` says where a goroutine is in `SendRequest` or
`SendBatchRequest`: `send` (before the line is flushed), `register`, `wait`,
`unregister`, `close`.  Every section under the transport's mutex is one
action, and so is each channel operation and each flushed line; parsing,
marshalling and logging touch nothing shared.  `got` records which requests
the answers a call returned belong to; an answer in the model carries the
request it answers, which the code's messages do not, so that the properties
can compare them.  The scanner goroutine (`Reader`) runs request handlers itself,
and a handler may call `SendRequest` (`Nested`).  A panic in a caller's
goroutine ends the process (`Crashed`); a panic in a handler is recovered by
`HandleRequest`.

The scanner leaves `Scan` only when the read under it returns (`ScanReturns`).
The monitor goroutine closes the reader if it is an `io.Closer`
(`stdio.go:121-130`), and even then the `Close` of `os.Stdin` need not reach a
read that is waiting: `Closable` says whether it does.  Where it does not, the
peer can still write after `Stop` or a cancellation (`PeerWrites`), and only a
line or the end of the input (`input` is "eof" or "gone") lets the scanner go.

Ids of batches are chosen by the application: `StdioAssumption` says that
outstanding requests carry different ids and that none of them looks like a
generated one.  Bounds: `MaxID` calls, `MaxInbox` unread lines, one batch for
each batcher.

`RequestReply` has no channels, entries or lines: a call asks with ids nobody
else waits for, takes at most one answer to each of its requests and is replied
when it has them all, or fails.  In `ImplementsRequestReply` a call waits for
what it has not got (`Waiting`), its answers are `got`, its phase is its `pc`
without the steps inside (`Phase`), and what the peer may still answer is every
request and response in the pipes, in channels or in handlers (`Out`).

### ReliabilityTransport and Breaker

`SendRequest`, `SendNotification` and `SendBatchRequest` are the same loop
around another inner call, and one action set models the three.  `Admit` and
`Refuse` are the two answers of `canMakeCall`.  `age` counts ticks since
`lastError` and saturates just past the timeout; `failures` saturates at its
threshold, as the code compares it with `>=` and otherwise only resets it.
Backoff and jitter are the ticks that may pass before `Attempt`.  A breaker
that is not configured (nil) is a breaker that never refuses and is left out.

`Breaker` has two variables: the state and whether a full timeout has passed
since the last failure.  `AbstractBreaker` maps the second to `CooledDown`.

### StreamableHTTP

`call` is where a `SendRequest` is (`post`, `wait`, and the three steps that
leave it), `handlers` and `chan` are its entry in `responseHandlers` and its
channel.  A request and the stream its POST is upgraded to share a name.
`pc[s]` is where the `processEventSource` goroutine of stream `s` is: `top` of
its loop, `recover` (waiting to connect again), `call` and `dial` (waiting for
the breaker's mutex, and holding it while it connects), `session` (its `select`
over `MessageChan`), `deliver` (a handler found, not called yet), `lost` and
`quit`.  `readers` are the `readEvents` goroutines: the one started with a
stream, one for each session of its loop, and the one of the object that
`createEventSource` makes for a reconnection and that is thrown away
(`shadow`).  `cooled` says that `recoveryTimeout` has passed since the last
failure.  A panic ends the process.

Left out: `connectionState` and metrics, which nothing reads, and `LastEventID`,
which only the server reads; `CloseChan`, which no loop selects on; the event
buffer, which nothing fills; `SendNotification` and the posts that answer the
server's requests. `SendBatchRequest` is in `HTTPBatch`.  Bounds: `Conns`
connections in use at once, `ChanSize`, `Restarts` (whether `Start` is called
again after `Stop`).

### HTTPSessions

A handler goroutine goes through the steps of `ServeHTTP`: the lookup and the
comparison of `isSessionValid` (the first under the lock, the second not), the
lazy removal, the refresh, the dispatch, and then `createSession`, the
registration of a stream, or the removal and the sweep of DELETE.  A GET and a
DELETE validate twice (`check`).  `expiring` is not empty exactly while
`cleanupExpiredSessions` holds `sessionMu`.  A stream's connection has the name
of its handler; a stream opened without a session has `NoSession`.  Events are
begun (`closeCh` is looked at) and written in two steps.  Ids are never
generated twice, so `Sids` bounds the sessions of a run.

### Subscriptions

`told` records what the notifier was called with, as a sequence of
`Notifications`: one call of `NotifyResourcesChanged` with its slices Added,
Modified and Removed, or the run of `NotifyResourceUpdated` calls that a flush
makes first (slice "updated").  What is told is told for each subscription
(`SubKind`).  The worker is in its `select` or in a flush; a flush works on a
copy of the subscriptions, visits the pairs of a resource and a subscription in
any order, splits what it has found into the slices (`Slices`), and then sends
the groups in any order, as Go does with its maps.  A failed notification is
logged by the code and not repeated; being told means that the notifier was
called.  `Stop` is called once and after `Start`.

### BearerTokens

`info` holds the records that the pointers of the map `tokens` point to, named
by the access token they were made with, and `rec` the pointer that a `Refresh`
under way has in its hands.  The lookup, the check and the storing of the new
token are three steps, as only the first and the last hold the mutex.  `revoked`
is a history variable.  `age` counts ticks since a record was issued and stops
where nothing depends on it any more.  Tokens are numbered as generated;
`MaxTokens` and `MaxLogins` bound them.

### MiddlewareChain, and the modules of its layers

`chain` is the list that `Build` and `ChainMiddleware` produce; a call goes down
from `layer` to `layer` and comes up with a result.  The reliability layer is
`ReliabilityTransport` itself, with its variables: `ReliabilityTry` is its
`Attempt` and sends the call down again.  A call presents one of the
`Credentials`: a valid token, a refused one, or none, with a method that is open
to all or is not; `Forwarded` are those that `Authenticate` lets through, which
depends on `AuthRequired` and `AuthAnonymous`.  `Limit` takes from the bucket of
the call's `RateKey`, and all calls without a token share the bucket "global".
`paid` and `blamed` are history variables.  The other layers are reduced to what
they do to a call, and have modules of their own for the steps inside:
`TransportMetrics` (looking a counter up, making it, adding to it, and the loads
of a snapshot are separate steps), `TokenValidation` (cache lookup, provider
lookup, provider check, store; the cache knows a token as it was presented and
the provider as `TrimSpace` leaves it, so that a padded key has an entry of its
own) and `RateLimiter` (finding a bucket and taking from it; checking a batch
and taking its tokens one by one).  In `RateLimiter`, `ideal` is a history
variable: the level of one bucket per key that always existed and was always
refilled.

`Observability` is the other, enhanced middleware: one action per recording
function, `Panic` for a wrapped call that panics, `callsMade` for the bound.
The tracer provider is OpenTelemetry's and external: its first `Shutdown`
(`StopTracer`) begins to close the processors, others return at once, and
`TracerClosed` ends the first, which may give up with its context's error and
leave the processors up ("left").

### RBACProvider

A writer announces itself (`announced`), waits for the readers that hold the
lock and keeps new ones out, as `sync.RWMutex` does; `holds` counts how often a
reader has it.  `HasPermission` and `CanAccessResource` take it again inside.

### ClientServer, ClientStreaming

`call` is what each goroutine of the client program does; `wire`, `serving` and
`notes` are messages and handlers under way.  Over stdio (`config.stdio`) the
client hears nothing until its transport is started, and callbacks run on the
reader's goroutine (`busy`).  `combined` says that the program uses
`InitializeAndStart`.  `caps` is the one map that the client's options and the
server's capabilities share; Go ends a program that reads and writes a map at
the same time, so `crashed'` may become true where that can happen.

In `ClientStreaming` the goroutines of a call are `main`, `updater` and
`sender`, its channels `updateCh`, `doneCh` and `reply`.

### Pagination

Lists are sets of items, and a listing of a page may order them in any way, as
the range over a map does; a cursor is an offset or garbage.  `got` is what the
client has collected, `known` what was registered when it began.

### HTTPBatch

`handlers` is `responseHandlers` by id, `chans` and `box` the channels of a
batch; a response remembers which batch it answers (`of`), as in
`StdioTransport`.  `FindHandler`, `CallHandler` and `ForgetHandler` are the
three steps of `HandleResponse`, of which only the first and last hold the
lock.  `Ordered` is the loop that puts the collected responses into the order
of the requests, `dead` a process that has sent on a closed channel.

### Several modules in one run

`MC_Transports`, `MC_Middleware` and `MC_Components` hold the variables of
several modules, and a variable `part` that is chosen in the initial state and
never changes: only the variables of that part move, the others keep one initial
state.  The behaviours are exactly those of the parts, side by side; each
invariant and the fairness of a part are stated for behaviours of that part.
The names of the modules of one run are distinct, so that the run EXTENDS them
and a property is checked and proved under one name.  `MiddlewareChain` and
`ClientServer` are real compositions: their components act on shared state.

## 3. Runs

| Run | Instance | States | Shows |
|---|---|---|---|
| `stdio` | 2 callers and nested calls, or 1 call and a batch of 2; 2 ids, 2 lines | 2.5 M | `RequestReply` is implemented: calls take answers to their own requests, once; entries do not leak or vanish, channels are ready, only `Stop` crashes |
| `streams` | 1 request and the listener, 2 connections, 2 attempts, threshold 2, 2 probes | 2.8 M | the breaker is sound, sessions of a stream do not overlap, no handler or stream of a request leaks |
| `sessions` | 2 handlers, 1 session, timeout 1, broadcasts | 324 k | sweeps are safe and live streams kept (`StreamsAgree`), ended sessions stay ended, expired ones go, requests are served |
| `subscriptions` | a directory and a file, 2 changes, queue of 1 | 192 k | told once, and in order within a slice and from one notification to the next; queued means told, `Stop` returns and silences |
| `transports_live` | stdio: handlers that call, a reader that cannot be closed, 2 ids; pipe: 1 caller, a batch of 1, a reader that can; streams: the listener, 3 connections, 2 probes, restarts | 155 k | every stdio call returns, and `Stop` ends the scanner unless it waits for ever in a nested call or in `Scan`; a cancelled stream ends with all its goroutines |
| `middleware` | 2 callers; breaker: 1 retry, thresholds 2 and 2, timeout 2; burst 1 in the chain, 2 in the limiter; a key and a padded copy of it, a cache of 1 | 189 k | `Breaker` is implemented, circuits are probed and calls end (`CallsProgress`), attempts are observed, calls that authentication refuses stay out, budgets hold, batches are served again, revocations take hold |
| `components` | 8 parts, see `MC_Components` | 1.12 M | tokens: revocation is final and finds the one access token; roles: deleted roles are gone; metrics: no count is lost; tracing: spans, metrics and shutdown agree, with two wrapped transports stopping; batches get their own answers; handshake and capabilities are sound; pages tile; no update after the result |
| `stdio_dropped_answer` | 2 callers | violation | an answer between send and registration is lost |
| `sessions_panic` | 2 handlers, 1 session | violation | a deleted session's stream closes its channel twice |
| `streams_unserved` | as `streams`, threshold 3 | violation | a request's stream is given up with its answer unread |
| `answered_returns` | 1 goroutine and the reader, stdio, `InitializeAndStart` | violation | the answer to initialize is never read |
| `rbac_deadlock` | 2 readers, 2 writers | violation | a permission check never returns |

Why the bounds are enough.  *Stdio*: two calls and a nested one are all the
actors that can disagree about an entry; two ids let an id of a finished call be
answered again while another is outstanding; two unread lines let answers
overtake each other; a batch of two can be answered in one line, in two, or in
part.  *Reliability*: with a retry and two callers, outcomes of both are
recorded in every state of the breaker; thresholds of two tell the count from
the event; the theorems cover all other values.  *Sessions*: one handler
refreshes, opens or streams while the other deletes; a stream without a session
is there to be kept by every sweep; a timeout of one tick already puts the
expiry between any two steps.  Handlers serve any number of requests one after
the other.  *Subscriptions*: a parent and a child distinguish exact from
recursive matches; two changes of one resource have an order; a queue of one is
full after one change.  *Streams*: two connections let a reconnection overlap
the one it replaces, the third one its shadow; two streams compete for the
breaker; a threshold of two tells a failure from a trip, two probes a half-open
breaker from a closing one.  *Stdio, after `Stop`*: a handler that calls and a
reader that stays open are checked apart from callers and batches (`stdio` and
`pipe`), which they do not wait for.  *Bearer*: four tokens are one login and
two refreshes, which may be of the same token and interleave in every way, or
two logins; an expiry of one tick leaves an expired access token with a refresh
token that is still good, and one that is not. *Middleware*: one caller with a
good token, a bad one or none, and one without a token whose method is open to
all or is not, two calls in all, authentication required but for anonymous
methods; one error that is repeated and one that is not; two senders with one
key or two, single requests against batches; a key that expires and its padded
copy, a cache entry of one tick.  *Components*: two readers, writers or
goroutines everywhere; batches with no, one or twice the same id, or none; a
server with everything but sampling over HTTP, and one over stdio with
subscriptions and no resources; two resources and three templates with pages of
two; two update slots and four updates.  The five families of calls in
`TransportMetrics` run one or two at a time (`Workloads`).

`CHECK_DEADLOCK FALSE` is used where the system really may stop (all runs but
`sessions` and `middleware`): all ids or tokens are used, all requests are
answered and the transport is stopped, or the process has ended.  In
`middleware` the part `breaker` is checked for deadlock and the others, which
stop at their bounds, may stutter.

### Fairness

* Goroutines that can run do run (WF): the Go scheduler is fair.
* The context of a call is done at some time, since clients give deadlines,
  and a batch has a 30 s timer; the context of a call nested in a handler is
  `context.Background()` and never done, so `GiveUp(Reader)` is not fair.
* A handler goes on whenever it can, and the hourly ticker fires (WF for
  `Serve(h)`, `CleanupStart` and `CleanupSession`).
* A stream's loop that waits for the breaker's mutex gets it (SF for
  `Process(s)`): Go mutexes do not starve waiters.  A POST, an attempt to
  connect and the read of a connection that is closed or abandoned end (the
  HTTP client has a timeout), and so does the recovery timeout (`CoolDown`).
* Go's `select` picks every case that stays ready sooner or later (SF for the
  cases of the subscription worker).
* A sender that has found a bucket takes from it, a batch goes on, and the
  clean-up ticker of the limiter fires (WF); time passes in the limiter and in
  the token cache (SF for `Elapse`, WF for `CacheClock`), and a validation under
  way goes on.
* A server's handlers run to their end and a client goes on with an answer it
  has received; a reader or writer of the roles goes on when it has the lock.
* Nothing is assumed of the peer, of HTTP clients and servers, of new calls or
  of `Stop` being called.  `OpenIsProbed` alone assumes callers that keep
  trying (`CallersKeepTrying`): a breaker goes half-open only in a call.

## 4. Findings

1. `stdio_dropped_answer`: the comment at `stdio.go:386` promises registration
   before sending; the code registers after.
2. `sessions_panic`: `closeCh` is closed by the sweep and by the deferred
   clean-up (`http_handler.go:798`, `870`).
3. `streams_unserved`: `attemptEventSourceConnection` looks the handler of a
   request's stream up under `"request-" + id` (`streamable_http.go:1721`), and
   `SendRequest` has stored it under `id` (`501`): the loop never gets to the
   messages that the comment at `955` says it processes.
4. `answered_returns`: over stdio `InitializeAndStart`, which `pkg/doc.go:24-31`
   and `examples/stdio-client` use, waits in `Initialize` for an answer that
   nothing reads, since `Start` comes after it (`client.go:351-356`).
5. `rbac_deadlock`: `HasPermission` holds the read lock and takes it again in
   `GetUserRoles` (`rbac.go:150-153`); behind a waiting writer all wait for ever.

What the code does that its documents and tests do not say, and that the models
therefore follow:

* *the order of changes*: a flush appends the changes of a resource to three
  slices and sends them in one `NotifyResourcesChanged`
  (`subscriptions.go:241-252`, `277`), and updates before it, so that a notifier
  cannot tell "removed, then added" from "added, then removed".
  `ToldOnceInOrder` keeps what is left: order inside a slice, and from one
  notification to the next, for the updates and for the other changes.  An
  update that two subscriptions cover is sent twice (`256`);
* *a breaker that never closes*: `newStreamableHTTPTransport` copies the
  thresholds and the half-open limit as they are configured
  (`streamable_http.go:284-289`; `transport.go:317` does not look at them), and
  `middleware_integration_test.go:244-248` leaves `SuccessThreshold` 0.  The
  half-open breaker of the streams then refuses every call for ever
  (`ZeroLimitRefuses`), while the reliability breaker closes at the first
  success.  Nothing in `StreamableHTTP` assumes that the values are positive;
* *`Stop` and the scanner of stdio*: a handler's call has `context.Background()`
  (`stdio.go:301-311`), and if it registers after `Cleanup`
  (`transport.go:428-437`) it holds the scanner for ever (`NestedWaits`); so does
  a reader that cannot be closed and says nothing (`ScanWaits`, `stdio.go:124`,
  `130`).  `CallsReturn` names both, and says that nothing else does;
* *the order of the layers*: `middleware.go:26-31` makes the first wrapper the
  outermost, and the code at `145-151` puts reliability there; the comment at
  `144` ("innermost middleware first") and `TestMiddlewareOrderPreservation`
  (`middleware_integration_test.go:409-433`, observability outermost) say
  otherwise, and `middleware_test.go:282-288` expects one count for a call that
  needs a retry.  `AttemptsObserved` is what the code does; `CallsObserved`,
  what that test expects, is kept as a definition and does not hold;
* *callers without a token* are forwarded where authentication is not required or
  their method is open to all (`auth/middleware.go:77`), and all share the
  bucket "global" (`ratelimit.go:99`).  `RefusedStayOut` speaks of the calls that
  authentication does refuse;
* *padded keys*: `Validate` trims the token (`apikey.go:137`) and the cache does
  not, so that a key and its padded copies are cached apart, and each entry
  outlives a revocation by its own time;
* *the shutdown of the tracer*: one that gives up with its context's error
  leaves spans being exported; the `Stop` that called it returns the error, but a
  later `Stop`, of another transport, returns nil although they still are
  (`observability/middleware.go:457-459`).

Statements that the code or its documents make and the code does not keep are
kept as definitions, without a run, where the run would only repeat a known
defect: `LateResponseIsDropped` (`HTTPBatch`; the handler at
`streamable_http.go:678-681` means to drop a response whose channel is closed,
and panics), `PointInTime` (`TransportMetrics`; a snapshot loads the counters
one after the other), `CancelFindsRequest` and `HasMeansServer`
(`ClientServer`; nothing calls `trackRequest`, and the client's own options are
in the map that `HasCapability` reads), `RefusedIsNotAFailure`
(`MiddlewareChain`; a caller refused by authentication is retried and counts
as a failure of the transport), `ListsAll` (`Pagination`; pages are cut from
the random order of a map).

## 5. Proofs

Each proof module extends its components and assumes nothing but the named
assumptions on the constants; four theorems (`RefusedCallsStayOut`,
`AttemptsAreObserved`, `BudgetHolds` and `ZeroLimitRefuses`) have a hypothesis on
the configuration of their own, given below.

`StdioTransport_proofs`.  None of the safety properties is inductive alone.
`IInv` adds what ties the parts together: what an entry of `pendingRequests`
stands for (`Registered`); that an id is wanted by one call at a time
(`IdsOfOne`), and that an id still on its way to the peer or back will never
be wanted by another call (`RequestsOwned`); that what is in a channel or was
returned answers a request of that call (`DeliveredToOwner`); and that before
`Cleanup` no waiting call has a closed channel (`OpenUntilStop`).  From these,
`InductiveInvariant` gives `TypeCorrect`, `ChannelReady`, `RepliesAreOwn`,
`NoLeak` and `PanicOnlyByStop`; `RegistrationsStable` is an action property
that follows from `IInv` step by step.

`Correlation` is the refinement of `RequestReply`, action by action: a send asks,
a reception takes, and everything the scanner, the peer, `Cleanup` and the
channels do is a stutter or loses something (`Lose`).  Beyond `IInv` it needs
what a call waits for at each of its steps (`SinglesAsk`, `BatchesAsk`): an
answer may only end a call that still wants it, and a batch asks for something
that nobody has asked before.

`ReliabilityTransport_proofs`.  The inductive invariant is the type invariant,
`RetriesBounded` (without it `attempt` could leave its range in `FailRetry`)
and the two threshold invariants.  `Refinement` shows that every step is a
step of `Breaker` or a stutter; `recordFailure` is `Fail` or `Trip` depending
on the state.

`StreamableHTTP_proofs`.  `BreakerIsSound` holds for every threshold and every
limit, also 0: while closed its failures are below the threshold (or there are
none), while half-open, unless the limit is 0, it has a place left or somebody
connecting, and it is never open while somebody connects.  `ZeroLimitRefuses` is
the other side: with a limit of 0, a breaker that is half-open stays so and
connects nothing. The invariant is proved in three groups with their own lemmas
per action: connections, calls, and the loops with the breaker. `AttemptLeft` (a
loop on its way to a connection has an attempt left) keeps `attempt` in its
range, `NoEarlyStream` (a request has no stream before its POST was answered)
keeps a second loop from starting.  On top of it `AtMostOneReader` gives
`SessionsDoNotOverlap`: a loop starts a session only from `dial`, where its
session's reader is gone.  `NoLeakedStream` needs to know that the stream of a
request never gets past `call` (`RequestStreams`): it looks its handler up under
a key that no request has (`KeyAssumption`, finding 3), so that its loop ends in
its own deferred function and never dies in a delivery.

`HTTPSessions_proofs`.  `IInv` is `TypeOK`, `StreamsAgree` and two facts about
the handlers under way: one that will refresh, remove or sweep a session has an
id that was generated (`SessionKnown`), and one that is about to sweep the
streams of a session has removed the session (`SweptIsGone`), which stays gone
because ids are not used again.  Without the second a sweep could take a stream
of a living session.  `StreamsAgree` is proved conjunct by conjunct, one lemma
per group of actions.  `EndedForGood` is an action property: a session enters
`sessions` only in `createSession`, with an id that was never there.

`Subscriptions_proofs`.  A change moves from the channel to the batch and from
there to the subscriptions.  `InOrder` says that the numbers of the changes grow
along this way, `ToldBefore` that what a subscription was told of is older than
all that it may still be told of: during a flush that excludes the part of the
batch the flush has dealt with for this subscription (`visits`, `groups`). Both
are needed for `ToldOnceInOrder`, which mentions `told` only, and they are
stated for the slices of a notification, which have no order among each other
(section 4). `ClosedIsStill` (the channel is closed after the worker has ended)
gives `SilentAfterStop`.  What a flush tells is computed by `Selected`, a
recursive function over the batch; `SelectedIsSelection` says that the result is
a subsequence of the batch with elements of the set asked for.  It is proved by
the least counterexample (`LeastElement`), since the induction theorems of the
library cannot be used.

`MiddlewareChain_proofs`.  `ChainImplementsReliability` (`ChainSpec => Spec`)
shows that the layers inside the reliability layer look to it like a wrapped
transport that answers, so that `ChainImplementsBreaker` follows from the
refinement proved of `ReliabilityTransport`.  `RefusedStayOut` needs where a
call is in the chain relative to the authentication layer, `AttemptsObserved`
that the attempts under way are exactly those that observability has counted as
begun and not as ended.  Both are stated for chains that have the layers they
are about (`"auth" \in Features`, and both `"reliability"` and
`"observability"`); the other features may be on or off.

`Middleware_proofs`, the limiter.  Senders may hold a bucket that the clean-up
has deleted (`Stale`) and take from it after the key has a new, full one.
`Owed` bounds how far the bucket of a key is ahead of the ideal one: by the
senders of the key that are not stale.  Deleting a bucket is harmless only if
nothing is owed any more: `Repaid` says that every tick of idleness pays one
token back. `BudgetHolds` assumes `BurstSize + Cardinality(Senders) <= IdleLimit
+ 1`: the ten minutes of the clean-up (`ratelimit.go:148`) suffice to refill a
bucket and to pay back one token for each sender.  The defaults, 60 requests a
minute and a burst of 10, refill 600 tokens in that time; but the code accepts
any configuration, and one whose buckets refill more slowly does grant more than
its budget, as a bucket that is not full is replaced by one that is.
`LimiterAssumption` says that no batch is empty.

`Middleware_proofs`, the token cache.  `CacheInv` is the types, that a call
under way has a token (`Carried`) and `NeverInvented`: the cache holds, and
permissions are checked for, only tokens that are issued keys once `TrimSpace`
has been applied.  From it follow two action properties. `RevokedKeysWindDown`:
once a key is revoked or has expired, no validation passes the provider with it
or a padded copy any more, and the entry of each can be written once more by
each validation that had passed before.  `RefusedKeysStayRefused`: when those
and the entries are gone (`Shut`), they stay gone.  Together they are the safety
half of `RevocationTakesHold`, which TLC checks with the clock's fairness; that
the windows close in time is the other half.  `ValidationAssumption` says that
the empty token is not among the tokens presented and a lifetime is a number.

`PartsTypeCorrect` states `TypesOK` of the run: `PartInv` says that the part that
moves keeps its inductive invariant.  The breaker by itself keeps the invariant
of the chain around it (`BreakerAlone`), so that both parts share one.

`Components_proofs` holds the components of `MC_Components`, each with its
inductive invariant and its type theorem.  `ComponentsTypeCorrect` puts the
eight together (`PartInv`): `TypesOK` under the specification that TLC runs, for
all values of the constants.

* *Bearer tokens*.  `IInv` (types, no map entry for a token not generated yet,
  `RevokedForGood`) is inductive.  That one refresh token has at most one valid
  access token needs `Chain`: the record of a refresh token `r` is that of its
  login (`Family`), every refresh under way holds just this record
  (`Callers`), and it names the access token that is not revoked (`Named`).  A
  refresh then revokes the one it names under the lock, whichever refresh has
  stored it, which gives `OneAccessPerRefresh` and `RevocationFindsAccess`.
* *Roles*.  `AssignedRolesExist` needs the types and `LocksHeld`, how often a
  check holds the read lock at each of its steps.  `RBACAssumption` says that a
  resource that requires nothing is not asked about (`rbac.go:201`).
* *Streaming calls*.  `NoUpdateAfterResult` is inductive by itself: after a
  result no step but the next call starts the goroutine that handles updates.
  So is the type invariant, with the capacity of the channel in it.
* *Metrics*.  A counter is made once (`OneObject`), and who is to add to it
  holds the object of the map (`HoldsTheLive`); `CountsAddUp` is then a balance
  that each step keeps.  The numbers of calls under way are cardinalities of
  sets of goroutines, so the goroutines are finite.  What a snapshot has loaded
  are numbers (`SnapTyped`), as the sum of a tracker's durations is one.
* *Client and server*.  An id is given to one request (`IdsMatch`), so that an
  answer goes to the call that sent this request, and a result for initialize
  comes from a server that is initialized (`ResultsFromReady`); together they
  give `SessionSound`.  The types also need that no id in a call, on the wire or
  in a handler passes the counter that makes them (`IdsInRange`).
* *Observability*.  `TracingSound` speaks of all outcomes together; inductive is
  the balance for each outcome (`Sized`), with `RightPhase`: only a batch has a
  size, and a `Stop` that is past the tracer provider's `Shutdown`, or in it,
  has called it.  `StopCompletes` is about that `Shutdown`: no `Stop` ends
  without it having been called, whatever the wrapped transport said, and one
  that gave up is told to a caller.  That the metrics stay within the number of
  calls begun is the result of a second balance, `Books`: a call that was begun
  is under way or its span has ended (`SpansEnded + InCalls = callsMade`), a
  span is exported once at most, and each duration of a family belongs to a span
  that has ended without a panic or is about to (`Timed`).  `BooksBalance` shows
  once and for all that a step keeps it if what it enters matches where its
  goroutine goes; each action only says what it enters.
* *Pagination*.  `NextFollows`: the next page begins where the collected items
  end.  The lemmas `OnePage` and `TwoLists` show it of the pages the providers
  cut; `TwoLists` covers a page of resources that begins beyond the resources,
  which is longer than its limit and still followed by the right one.
  `PagesTile` counts: as many items as were registered when the listing began,
  at least, and not more than there are.  That they are the same items does not
  hold (`ListsAll`, section 4).
* *Batches over HTTP*.  A response under way answers a request of a batch that
  was sent (`Sent`, `UnderWay`), a goroutine with a handler in hand still has
  its response before it (`InHand`), a channel only holds a response with its
  own id (`Boxed`), and what a call has collected came from channels that have
  left `responseMap`, so that no id comes twice (`CollectedOnce`).  A call with
  as many responses as requests therefore has one for every id (a pigeonhole
  argument, `AllCollected`) and `Ordered` puts them in the order of the requests
  (`OrderedAnswers`, by the least counterexample again).  Which handlers are
  registered is not part of the argument: a replaced or deleted handler loses
  responses, and never misplaces one.

What TLC alone checks:

* all liveness properties (fairness and `ENABLED` are out of the prover's
  reach): `ExpiredRemoved`, `RequestsServed`, `QueuedIsTold`, `StopReturns`,
  `CallsReturn`, `CancelledStreamsEnd`, `CallsProgress`, `BatchServedAgain`,
  `RevocationTakesHold`;
* the five runs that end in a violation.

The proofs cover the models' bounds too: `MaxID`, `MaxTokens`, `MaxChanges` and
the like are constants that may have any value.

## 6. Not modelled, and the plan

Every invariant and every action property of the passing runs is a theorem;
`NeverInvented`, `RevocationWindsDown` and `RefusedForGood` of `TokenValidation`
and `ReplyIsOwn` of `StdioTransport` are theorems that no run lists, as
`RevocationTakesHold` and `ImplementsRequestReply` check more on the instances.
What could come next: the refinement of `RequestReply` by the calls of
`StreamableHTTP` and `HTTPBatch` (a batch there may share ids with another, so
that it would need a weaker promise), and the event stream of the HTTP server as
the peer of `StreamableHTTP`.

Not modelled: the auth factory (it builds providers from a configuration),
JSON-RPC messages and errors (data; what the transports make of them is in
their models), logging, the generation of JSON schemas, examples and
benchmarks, the metrics HTTP server and the exporters of `pkg/observability`
(libraries), the session id and the origin checks of the HTTP client, and the
bodies of the requests that the base providers answer with constants.

Limits of what the properties say: ids that a batch sends twice, because the
reliability middleware sends it again, are outside `RequestReply`; `Dispatch` of
`HTTPSessions` leaves out how long the server's `SendRequest` takes
(`http_handler.go:655`), which holds no lock; `NoLeakedHandler` and
`NoUpdateAfterResult` do not look at the panics of a send on a closed channel
and of a channel closed twice that `streamable_http.go` and `streaming.go:113`
are open to; `CountsAddUp` leaves out a call that panics and is recovered
further up; `SessionSound` is about what the server tells and pushes, since
request handlers do not ask whether the client has initialized; `PagesTile`
counts items and does not say which.

Known and not stated as properties:

* *stdio*: `Stop` closes the channel of a waiting call, whose response is then
  nil and dereferenced (`stdio.go:405`); `CrashOnlyByStop` says that nothing
  else does this;
* *batches over HTTP*: the SDK's own HTTP server refuses arrays
  (`http_handler.go:385-452`), so that batches work against other servers only;
* *client*: an error of `SendNotification` leaves the client initialized
  (`client.go:335`); a streaming call closes both its channels behind the
  result, and may return nil and no error (`streaming.go:123`, `171`);
* *observability*: nothing starts the metrics HTTP server that
  `examples/observability/README.md:70` opens at port 9090; the `Stop` of one
  wrapped transport shuts the tracer of all of them down; a sample rate of 0
  becomes 1; custom metrics (`RecordGauge` and its likes, `metrics.go:449-538`)
  have no caller in the SDK and are not modelled; a second one of a name panics
  in `MustRegister`;
* *providers*: `SubscribeResource` writes its map without a lock
  (`providers.go:322`);
* *reliability*: errors of the stdio transport that are not meant to be retried
  are (`*protocol.Error` is not `*protocol.ErrorObject`,
  `reliability_middleware.go:331`);
* *sessions*: a session refreshed while it is being expired lazily is removed;
  the stream of a deleted session stays open, since its loop does not look at
  `closeCh` (`http_handler.go:886`), and an event can be written after its
  connection was closed (`585`);
* *subscriptions*: a change reported after `Stop` panics in its provider
  (`subscriptions.go:157`); subscribing again with another `recursive` flag has
  no effect;
* *streams*: once its breaker is open, a loop waits and gives up without ever
  calling it (`streamable_http.go:1039-1052`); `isConnected` is not set again
  after a reconnection, so that the new connection is not read by the session;
  a shadow reader takes events that nobody will get; a disabled breaker is nil
  and dereferenced; `DrainTo` breaks out of its `select` only; the header map
  is read without its lock;
* *bearer*: the first refresh revokes the record that its refresh token shares
  with the first access token, so that the refresh token, meant to be kept
  (`bearer.go:248`), works once (`261`); a refresh that was checked before
  `Revoke` stores a valid access token after it, which a second `Revoke` finds
  (`ChainRevocable`).

Left out for good: JSON encoding and message formats, logging, error values,
configuration builders, examples and benchmarks.
