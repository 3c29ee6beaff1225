---------------------------- MODULE MC_Transports ----------------------------
(* What the goroutines of the transports must come to: the calls and the     *)
(* scanner of the stdio transport, and the loops that read an HTTP stream    *)
(* through reconnections and restarts.  "part" is the one that moves:        *)
(*   stdio    handlers that call, a reader that cannot be closed;            *)
(*   pipe     a call beside a batch, a reader that can;                      *)
(*   streams  one listener.                                                  *)
EXTENDS Integers, TLC
CONSTANTS c1, b1, x, Reader, None, Listener, k1, k2, k3

VARIABLES
  part,
  \* StdioTransport
  nextID, at, want, got, pending, channel, buf, atPeer, lines, reader, cur, input, stop,
  \* StreamableHTTP
  life, ctxDone, circuit, failures, halfCalls, cooled, caller, pc, attempt, taken,
  sources, isConn, conn, unclosed, readers, inbox, call, handlers, chan

Stdio == INSTANCE StdioTransport WITH
  Callers <- {c1}, Batchers <- {b1}, BatchIds <- {x}, IdsOf <- b1 :> {x},
  MaxID <- 2, MaxInbox <- 1, Nested <- TRUE, Closable <- FALSE,
  pc <- at, chan <- channel, inbox <- lines

Pipe == INSTANCE StdioTransport WITH
  Callers <- {c1}, Batchers <- {b1}, BatchIds <- {x}, IdsOf <- b1 :> {x},
  MaxID <- 1, MaxInbox <- 1, Nested <- FALSE, Closable <- TRUE,
  pc <- at, chan <- channel, inbox <- lines

Streams == INSTANCE StreamableHTTP WITH
  Requests <- {}, Conns <- {k1, k2, k3}, MaxRetries <- 2, FailureThreshold <- 2,
  HalfOpenMaxCalls <- 2, ChanSize <- 1, Restarts <- TRUE

stdiovars == <<nextID, at, want, got, pending, channel, buf, atPeer, lines, reader,
               cur, input, stop>>
streamvars == <<life, ctxDone, circuit, failures, halfCalls, cooled, caller, pc,
                attempt, taken, sources, isConn, conn, unclosed, readers, inbox, call,
                handlers, chan>>
allvars == <<part, stdiovars, streamvars>>

MCInit ==
  /\ part \in {"stdio", "pipe", "streams"}
  /\ Stdio!Init /\ Streams!Init

MCNext ==
  /\ UNCHANGED part
  /\ \/ part = "stdio" /\ Stdio!Next /\ UNCHANGED streamvars
        /\ at'[b1] = "idle" /\ at'[c1] = "idle"
     \/ part = "pipe" /\ Pipe!Next /\ UNCHANGED streamvars
     \/ part = "streams" /\ Streams!Next /\ UNCHANGED stdiovars

\* The fairness of each part while it moves, of the goroutines that do.
MCFairness ==
  /\ WF_stdiovars(part = "stdio" /\ ~Stdio!Crashed /\ Stdio!SendRequest(Reader)
                                  /\ ~Stdio!GiveUp(Reader))
  /\ WF_stdiovars(part = "stdio" /\ ~Stdio!Crashed /\ Stdio!Scanner)
  /\ WF_stdiovars(part = "stdio" /\ ~Stdio!Crashed /\ Stdio!Cleanup)
  /\ WF_stdiovars(part = "pipe" /\ ~Pipe!Crashed /\ Pipe!SendRequest(c1))
  /\ WF_stdiovars(part = "pipe" /\ ~Pipe!Crashed /\ Pipe!SendBatchRequest(b1))
  /\ WF_stdiovars(part = "pipe" /\ ~Pipe!Crashed /\ Pipe!Scanner)
  /\ WF_stdiovars(part = "pipe" /\ ~Pipe!Crashed /\ Pipe!Cleanup)
  /\ SF_streamvars(part = "streams" /\ Streams!Process(Listener))
  /\ WF_streamvars(part = "streams" /\ Streams!EndReaders(Listener))
  /\ WF_streamvars(part = "streams" /\ Streams!CoolDown)

MCSpec == MCInit /\ [][MCNext]_allvars /\ MCFairness

-----------------------------------------------------------------------------
\* StdioTransport: every call returns, and Stop ends the scanner unless a
\* nested call or, with a reader that cannot be closed, Scan waits for ever.
CallsReturn ==
  /\ Stdio!CallsReturn
  /\ part = "stdio" => Stdio!StopEndsReader
  /\ part = "pipe" => Pipe!StopEndsReader

\* StreamableHTTP: a stream whose context is done leaves no goroutine behind.
CancelledStreamsEnd == Streams!CancelledStreamsEnd
=============================================================================
