----------------------------- MODULE ClientServer -----------------------------
(***************************************************************************)
(* The client and the server of the protocol (pkg/client/client.go,        *)
(* pkg/server/server.go): the handshake, the capabilities, the calls, the  *)
(* notifications of the server and the cancellation of requests.           *)
(*                                                                         *)
(* ClientGoroutines of the client program share one client.  The transport is    *)
(* what BaseTransport promises: it carries requests in any order, may lose *)
(* them or answer late, and runs a handler to its end once it has called   *)
(* it.  Parameters and results are the few values that decide what happens *)
(* next; the fatal error that Go raises when a map is read and written at  *)
(* the same time is a possible outcome of doing so.                        *)
(***************************************************************************)
EXTENDS Naturals, FiniteSets

CONSTANTS
  ClientGoroutines,  \* goroutines that use the client
  Reader,      \* one of them: the transport's reader, which runs the callbacks
  Configs,     \* what options were given to server and client
  MaxSent,    \* bound: requests sent
  MaxNotes     \* bound: notifications in flight to the client

Caps == {"tools", "resources", "resourceSubscriptions", "prompts",
         "complete", "roots", "logging", "sampling"}
Providers == {"tools", "resources", "prompts", "completion", "roots"}

\* What the server pushes, and what a server may ask of a client.
Pushes == {"toolsChanged", "resourcesChanged", "resourceUpdated",
           "promptsChanged", "rootsChanged", "log", "progress", "sample"}

ASSUME ClientServerAssumption ==
  /\ MaxSent \in Nat
  /\ \A c \in Configs : c.caps \subseteq Caps /\ c.client \subseteq Caps

VARIABLES
  config,    \* the options: [caps, providers, client], and how the program
             \* uses the client: [stdio, combined]
  life,      \* the server: "new", "started", "stopped"
  ready,     \* its field initialized
  active,    \* the keys of its activeRequests
  serving,   \* requests whose handlers run
  wire,      \* requests on their way to the server
  hello,     \* an "initialized" notification is on its way
  notes,     \* notifications on their way to the client
  serverInfo,      \* the client: serverInfo is set
  caps,      \* its map of capabilities, those that are true
  cready,    \* its field initialized
  reading,   \* its transport has been started
  callbacks, \* the callbacks that are set
  busy,      \* one of them runs, on the reader's goroutine
  call,      \* what each goroutine does: [at, op, id, answer]
  sent,      \* requests sent so far
  missed,    \* history: requests that were running when a cancellation
             \* found nothing to cancel
  crashed    \* the client program has ended with a fatal error

servervars == <<config, life, ready, active, serving, missed>>
clientvars == <<serverInfo, caps, cready, reading, callbacks, busy>>
csvars == <<servervars, wire, hello, notes, clientvars, call, sent, crashed>>

Idle == [at |-> "idle", op |-> "none", id |-> 0, answer |-> "none"]

ClientServerTypeOK ==
  /\ config \in Configs
  /\ life \in {"new", "started", "stopped"} /\ ready \in BOOLEAN
  /\ active \subseteq 1..MaxSent /\ missed \subseteq 1..MaxSent
  /\ \A m \in serving \cup wire : m.id \in 1..MaxSent /\ m.target \in 0..MaxSent
  /\ hello \in BOOLEAN /\ notes \subseteq Pushes
  /\ serverInfo \in BOOLEAN /\ caps \subseteq Caps /\ cready \in BOOLEAN
  /\ reading \in BOOLEAN
  /\ callbacks \subseteq {"sampling", "resourceChanged"} /\ busy \in BOOLEAN
  /\ \A g \in ClientGoroutines : call[g].id \in 0..MaxSent
  /\ sent \in 0..MaxSent /\ crashed \in BOOLEAN

-----------------------------------------------------------------------------
(* New, of both sides *)

\* server.New: the requests it registers handlers for.
Registered ==
  {"Initialize", "Cancel", "Ping", "SetLogLevel"}
  \cup (IF "tools" \in config.caps
        THEN {"ListTools", "CallTool", "CallToolStreaming"} ELSE {})
  \cup (IF "resources" \in config.caps THEN {"ListResources", "ReadResource"} ELSE {})
  \cup (IF {"resources", "resourceSubscriptions"} \subseteq config.caps
        THEN {"SubscribeResource"} ELSE {})
  \cup (IF "prompts" \in config.caps THEN {"ListPrompts", "GetPrompt"} ELSE {})
  \cup (IF "complete" \in config.caps THEN {"Complete"} ELSE {})
  \cup (IF "roots" \in config.caps THEN {"ListRoots"} ELSE {})

\* client.New: sampling is enabled unless an option has set it, in the same
\* map that the server's capabilities are merged into.
ClientInit ==
  /\ serverInfo = FALSE /\ cready = FALSE /\ reading = FALSE
  /\ caps = config.client \cup {"sampling"}
  /\ callbacks = {} /\ busy = FALSE

ServerInit == life = "new" /\ ready = FALSE /\ active = {} /\ serving = {}

ClientServerInit ==
  /\ config \in Configs
  /\ ServerInit /\ ClientInit
  /\ wire = {} /\ hello = FALSE /\ notes = {}
  /\ call = [g \in ClientGoroutines |-> Idle]
  /\ sent = 0 /\ missed = {} /\ crashed = FALSE

-----------------------------------------------------------------------------
(* The client: Initialize *)

\* The goroutine is at a and goes on at b.
Move(g, a, b) ==
  /\ ~crashed /\ call[g].at = a
  /\ call' = [call EXCEPT ![g].at = b]

\* The goroutine can make a call: the reader does so in a callback only.
MayCall(g) == ~crashed /\ call[g] = Idle /\ (g = Reader => busy)

\* The goroutine's call ends.
Done(g) == call' = [call EXCEPT ![g] = Idle]

\* A request leaves the client.
Post(g, op, target) ==
  /\ sent < MaxSent
  /\ sent' = sent + 1
  /\ call' = [call EXCEPT ![g] = [at |-> "waiting", op |-> op,
                                  id |-> sent + 1, answer |-> "none"]]
  /\ wire' = wire \cup {[op |-> op, id |-> sent + 1, target |-> target]}

\* Some goroutine writes the map of capabilities.
Merging == \E g \in ClientGoroutines : call[g].at = "merge"

\* The client's own capabilities are encoded into the request, so the map is
\* read here too.  (An error of transport.Initialize leaves all as it was.)
Initialize(g) ==
  /\ MayCall(g) /\ ~cready
  /\ Post(g, "Initialize", 0)
  /\ crashed' \in {FALSE, Merging}
  /\ UNCHANGED <<servervars, hello, notes, clientvars>>

StoreServerInfo(g) ==
  /\ call[g].op = "Initialize" /\ call[g].answer = "result"
  /\ Move(g, "answered", "merge")
  /\ serverInfo' = TRUE
  /\ UNCHANGED <<servervars, wire, hello, notes, caps, cready, reading, callbacks, busy, sent, crashed>>

\* Two goroutines may merge at once.
MergeCapabilities(g) ==
  /\ Move(g, "merge", "mark")
  /\ caps' = caps \cup config.caps
  /\ crashed' \in {FALSE, \E h \in ClientGoroutines \ {g} : call[h].at = "merge"}
  /\ UNCHANGED <<servervars, wire, hello, notes, serverInfo, cready, reading, callbacks, busy, sent>>

MarkInitialized(g) ==
  /\ Move(g, "mark", "notify")
  /\ cready' = TRUE
  /\ UNCHANGED <<servervars, wire, hello, notes, serverInfo, caps, reading, callbacks, busy, sent, crashed>>

\* When sending fails, Initialize returns the error, but the client stays
\* initialized and another Initialize returns nil at once.
SendInitialized(g) ==
  /\ ~crashed /\ call[g].at = "notify"
  /\ Done(g)
  /\ hello' \in {TRUE, hello}
  /\ UNCHANGED <<servervars, wire, notes, clientvars, sent, crashed>>

\* The blocking Start, in a goroutine of its own; InitializeAndStart comes to
\* it only when Initialize has returned.  Over stdio nothing is read before,
\* over HTTP answers come with the POST or the listener of Initialize.
ClientStart ==
  /\ ~crashed /\ ~reading
  /\ config.combined =>
       cready /\ \A g \in ClientGoroutines : call[g].op # "Initialize"
  /\ reading' = TRUE
  /\ UNCHANGED <<servervars, wire, hello, notes, serverInfo, caps, cready, callbacks, busy,
                 call, sent, crashed>>

\* The client takes messages: over stdio all of them come through the reader.
Hears == config.stdio => reading /\ ~busy

-----------------------------------------------------------------------------
(* The client: the other calls *)

\* HasCapability looks into the merged map, and only once serverInfo is set.
HasCapability(cap) == serverInfo /\ cap \in caps

\* requireCapability passes and the request is sent.  (When it does not, or a
\* page limit is invalid, the call returns an error and nothing changes.)
Request(g, op, cap) ==
  /\ MayCall(g) /\ HasCapability(cap)
  /\ Post(g, op, 0)
  /\ crashed' \in {FALSE, Merging}
  /\ UNCHANGED <<servervars, hello, notes, clientvars>>

ListTools(g)         == Request(g, "ListTools", "tools")
CallTool(g)          == Request(g, "CallTool", "tools")
CallToolStreaming(g) == Request(g, "CallToolStreaming", "tools")
ListResources(g)     == Request(g, "ListResources", "resources")
ReadResource(g)      == Request(g, "ReadResource", "resources")
SubscribeResource(g) == Request(g, "SubscribeResource", "resourceSubscriptions")
ListPrompts(g)       == Request(g, "ListPrompts", "prompts")
GetPrompt(g)         == Request(g, "GetPrompt", "prompts")
Complete(g)          == Request(g, "Complete", "complete")
ListRoots(g)         == Request(g, "ListRoots", "roots")
SetLogLevel(g)       == Request(g, "SetLogLevel", "logging")

\* Ping and Cancel require no capability.
Ping(g) ==
  /\ MayCall(g)
  /\ Post(g, "Ping", 0)
  /\ UNCHANGED <<servervars, hello, notes, clientvars, crashed>>

\* A request that another goroutine waits for.
Cancel(g) ==
  /\ MayCall(g)
  /\ \E h \in ClientGoroutines : call[h].at = "waiting" /\ Post(g, "Cancel", call[h].id)
  /\ UNCHANGED <<servervars, hello, notes, clientvars, crashed>>

\* The answer is read.
Deliver(g) ==
  /\ Hears
  /\ Move(g, "replied", "answered")
  /\ UNCHANGED <<servervars, wire, hello, notes, clientvars, sent, crashed>>

\* The context ends or the transport fails.
RequestFails(g) ==
  /\ ~crashed /\ call[g].at \in {"waiting", "replied"}
  /\ Done(g)
  /\ UNCHANGED <<servervars, wire, hello, notes, clientvars, sent, crashed>>

\* validateAndParseResult: the call returns the result or the error it has
\* been given.
CallReturns(g) ==
  /\ ~crashed /\ call[g].at = "answered"
  /\ call[g].op = "Initialize" => call[g].answer # "result"
  /\ Done(g)
  /\ UNCHANGED <<servervars, wire, hello, notes, clientvars, sent, crashed>>

SetSamplingCallback ==
  /\ ~crashed
  /\ callbacks' \in {callbacks \cup {"sampling"}, callbacks \ {"sampling"}}
  /\ UNCHANGED <<servervars, wire, hello, notes, serverInfo, caps, cready, reading, busy,
                 call, sent, crashed>>

SetResourceChangedCallback ==
  /\ ~crashed
  /\ callbacks' \in {callbacks \cup {"resourceChanged"},
                     callbacks \ {"resourceChanged"}}
  /\ UNCHANGED <<servervars, wire, hello, notes, serverInfo, caps, cready, reading, busy,
                 call, sent, crashed>>

-----------------------------------------------------------------------------
(* The client: notifications, and requests of the server *)

\* handleSample, and the two handlers of resource changes, call the callback
\* that is set when they look.  A panic in it is recovered.
handleSample           == {"sampling"} \cap callbacks
handleResourcesChanged == {"resourceChanged"} \cap callbacks
handleResourceUpdated  == {"resourceChanged"} \cap callbacks

\* The handlers of tools, prompts, roots and log messages only parse, and
\* progress has no handler.
ToRun(k) == CASE k = "sample" -> handleSample
              [] k = "resourcesChanged" -> handleResourcesChanged
              [] k = "resourceUpdated" -> handleResourceUpdated
              [] OTHER -> {}

HandlePush(k) ==
  /\ ~crashed /\ Hears /\ ~busy
  /\ k \in notes
  /\ notes' = notes \ {k}
  /\ busy' = (ToRun(k) # {})
  /\ UNCHANGED <<servervars, wire, hello, serverInfo, caps, cready, reading, callbacks,
                 call, sent, crashed>>

\* A callback that calls the client returns after its calls.
CallbackReturns ==
  /\ ~crashed /\ busy /\ call[Reader] = Idle
  /\ busy' = FALSE
  /\ UNCHANGED <<servervars, wire, hello, notes, serverInfo, caps, cready, reading,
                 callbacks, call, sent, crashed>>

-----------------------------------------------------------------------------
(* The server: requests *)

Asleep == UNCHANGED <<notes, clientvars, sent, crashed>>

\* The answer to m, which is dropped unless somebody still waits for it.
Answer(m, a) ==
  call' = [g \in ClientGoroutines |->
             IF call[g].at = "waiting" /\ call[g].id = m.id
             THEN [call[g] EXCEPT !.at = "replied", !.answer = a] ELSE call[g]]

\* Start; an error of the transport leaves the server as it was.
ServerStart ==
  /\ life = "new" /\ life' = "started"
  /\ UNCHANGED <<config, ready, active, serving, missed, wire, hello, call>>
  /\ Asleep

\* Stop: what runs goes on.
ServerStop ==
  /\ life = "started" /\ life' = "stopped"
  /\ active' = {}
  /\ UNCHANGED <<config, ready, serving, missed, wire, hello, call>>
  /\ Asleep

\* A request arrives: its handler is called, or there is none.
Arrive(m) ==
  /\ life = "started" /\ m \in wire
  /\ wire' = wire \ {m}
  /\ IF m.op \in Registered
     THEN serving' = serving \cup {m} /\ UNCHANGED call
     ELSE Answer(m, "noHandler") /\ UNCHANGED serving
  /\ UNCHANGED <<config, life, ready, active, missed, hello>>
  /\ Asleep

\* The handler of m returns and the answer a is sent.
Serve(m, a) ==
  /\ m \in serving
  /\ serving' = serving \ {m}
  /\ Answer(m, a)
  /\ UNCHANGED <<config, life, wire, hello>>
  /\ Asleep

\* Mutant of handleInitialize: the client is told before the server is ready.
handleInitializeLate(m) ==
  /\ m.op = "Initialize"
  /\ Serve(m, "result")
  /\ UNCHANGED <<ready, active, missed>>

\* Parameters that validateParams cannot parse are refused.
handleInitialize(m) ==
  /\ m.op = "Initialize"
  /\ \/ ready' = TRUE /\ Serve(m, "result")
     \/ Serve(m, "error") /\ UNCHANGED ready
  /\ UNCHANGED <<active, missed>>

handleInitialized ==
  /\ hello /\ life = "started"
  /\ hello' = FALSE /\ ready' = TRUE
  /\ UNCHANGED <<config, life, active, serving, missed, wire, call>>
  /\ Asleep

\* cancelRequest: nothing ever puts a request into activeRequests.
handleCancel(m) ==
  /\ m.op = "Cancel"
  /\ active' = active \ {m.target}
  /\ missed' = missed \cup
       {n.id : n \in {x \in serving : x.id = m.target /\ x.id \notin active}}
  /\ Serve(m, IF m.target \in active THEN "cancelled" ELSE "notFound")
  /\ UNCHANGED ready

-----------------------------------------------------------------------------
(* The server: handlers of features *)

\* requireProvider.
Ask(provider, answers) ==
  IF provider \in config.providers THEN answers ELSE {"noProvider"}

handleListTools         == Ask("tools", {"result", "error"})
\* The error of a tool is a result; the parameters of a streaming call, which
\* arrive as a string, cannot be parsed.
handleCallTool(op)      == Ask("tools", IF op = "CallTool" THEN {"result"}
                                        ELSE {"invalidParams"})
handleListResources     == Ask("resources", {"result", "error"})
handleReadResource      == Ask("resources", {"result", "error"})
\* A declined subscription is an error too.
handleSubscribeResource ==
  Ask("resources", IF "resourceSubscriptions" \in config.caps
                   THEN {"result", "error"} ELSE {"capabilityRequired"})
handleListPrompts       == Ask("prompts", {"result", "error"})
handleGetPrompt         == Ask("prompts", {"result", "error"})
handleComplete          == Ask("completion", {"result", "error"})
handleListRoots         == Ask("roots", {"result", "error"})
handlePing              == {"result"}
handleSetLogLevel       ==
  IF "logging" \in config.caps THEN {"result"} ELSE {"capabilityRequired"}

Answers(op) ==
  CASE op = "ListTools" -> handleListTools
    [] op \in {"CallTool", "CallToolStreaming"} -> handleCallTool(op)
    [] op = "ListResources" -> handleListResources
    [] op = "ReadResource" -> handleReadResource
    [] op = "SubscribeResource" -> handleSubscribeResource
    [] op = "ListPrompts" -> handleListPrompts
    [] op = "GetPrompt" -> handleGetPrompt
    [] op = "Complete" -> handleComplete
    [] op = "ListRoots" -> handleListRoots
    [] op = "Ping" -> handlePing
    [] op = "SetLogLevel" -> handleSetLogLevel

HandleFeature(m) ==
  /\ m.op \notin {"Initialize", "Cancel"}
  /\ \E a \in Answers(m.op) : Serve(m, a)
  /\ UNCHANGED <<ready, active, missed>>

-----------------------------------------------------------------------------
(* The server: notifications *)

\* requireInitialized passes and the notification is sent.
Push(k) ==
  /\ ready /\ Cardinality(notes) < MaxNotes
  /\ notes' = notes \cup {k}
  /\ UNCHANGED <<servervars, wire, hello, clientvars, call, sent, crashed>>

NotifyToolsChanged     == Push("toolsChanged")
NotifyResourcesChanged == Push("resourcesChanged")
NotifyResourceUpdated  == Push("resourceUpdated")
NotifyPromptsChanged   == Push("promptsChanged")
NotifyRootsChanged     == Push("rootsChanged")
SendLog                == Push("log")
SendProgress           == Push("progress")

\* A server asks the client for a sample.  (This one has no call that does.)
PeerSamples == Push("sample")

-----------------------------------------------------------------------------
ClientCalls(g) ==
  \/ Initialize(g) \/ Ping(g) \/ Cancel(g) \/ SetLogLevel(g)
  \/ ListTools(g) \/ CallTool(g) \/ CallToolStreaming(g)
  \/ ListResources(g) \/ ReadResource(g) \/ SubscribeResource(g)
  \/ ListPrompts(g) \/ GetPrompt(g) \/ Complete(g) \/ ListRoots(g)

InitializeSteps(g) ==
  \/ StoreServerInfo(g) \/ MergeCapabilities(g) \/ MarkInitialized(g)
  \/ SendInitialized(g)

ServerPushes ==
  \/ NotifyToolsChanged \/ NotifyResourcesChanged \/ NotifyResourceUpdated
  \/ NotifyPromptsChanged \/ NotifyRootsChanged \/ SendLog \/ SendProgress
  \/ PeerSamples

ServerSteps ==
  \/ \E m \in wire : Arrive(m)
  \/ \E m \in serving : handleInitialize(m) \/ handleCancel(m) \/ HandleFeature(m)
  \/ handleInitialized

ClientServerNext ==
  \/ \E g \in ClientGoroutines :
        \/ ClientCalls(g) \/ InitializeSteps(g) \/ RequestFails(g)
        \/ Deliver(g) \/ CallReturns(g)
  \/ ClientStart \/ SetSamplingCallback \/ SetResourceChangedCallback
  \/ \E k \in Pushes : HandlePush(k)
  \/ CallbackReturns
  \/ ServerStart \/ ServerStop \/ ServerSteps \/ ServerPushes

\* The server runs its handlers and the client goes on; nothing else must
\* happen.
ClientServerSpec ==
  /\ ClientServerInit /\ [][ClientServerNext]_csvars
  /\ WF_csvars(ServerSteps)
  /\ WF_csvars(CallbackReturns)
  /\ \A g \in ClientGoroutines : WF_csvars(Deliver(g) \/ InitializeSteps(g) \/ CallReturns(g))

-----------------------------------------------------------------------------
(* Properties *)

\* A client that has its server's answer to initialize has a server that is
\* initialized: what it then asks for or is sent is never refused for the
\* handshake (handleInitialize sets the flag before it answers, since the
\* "initialized" notification may come late or be lost).
HandshakeAgrees == serverInfo => ready

\* The capability that each call needs.
Needs(op) == CASE op \in {"ListTools", "CallTool", "CallToolStreaming"} -> "tools"
               [] op \in {"ListResources", "ReadResource"} -> "resources"
               [] op = "SubscribeResource" -> "resourceSubscriptions"
               [] op \in {"ListPrompts", "GetPrompt"} -> "prompts"
               [] op = "Complete" -> "complete"
               [] op = "ListRoots" -> "roots"
               [] OTHER -> "none"

\* A call for a capability that the server has advertised finds a handler,
\* whatever the order of the options was (server.New registers handlers by
\* capability).  The exception is a server with subscriptions and no resources.
AdvertisedIsServed ==
  \A g \in ClientGoroutines :
    call[g].answer = "noHandler" =>
      \/ Needs(call[g].op) \notin config.caps
      \/ call[g].op = "SubscribeResource" /\ "resources" \notin config.caps

\* What the two sides have agreed on at the handshake holds afterwards.
SessionSound == HandshakeAgrees /\ AdvertisedIsServed

\* "Cancel cancels an ongoing operation by ID": a cancellation does not come
\* back with nothing found while the request's handler runs.
CancelFindsRequest == missed = {}

\* "HasCapability checks if the server supports a specific capability".
HasMeansServer == \A c \in Caps : HasCapability(c) => c \in config.caps

\* A request that the server has answered returns to its caller: so the
\* examples go on after InitializeAndStart ("Initialize and connect to the
\* server", "Use client capabilities...", src/pkg/doc.go:24 and 31).
AnsweredReturns ==
  \A g \in ClientGoroutines : call[g].at = "replied" ~> call[g].at # "replied"
=============================================================================
