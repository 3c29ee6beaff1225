--------------------------- MODULE ClientStreaming ---------------------------
(***************************************************************************)
(* CallToolStreaming (pkg/client/streaming.go): one streaming call at a    *)
(* time, its three goroutines and the progress handler that the transport  *)
(* calls.  The handler of a call is never unregistered, so that progress   *)
(* for a call may come after it has returned.                              *)
(*                                                                         *)
(* The transport is one that calls progress handlers, from one goroutine,  *)
(* as the transport of the package's tests does; the transports of this    *)
(* repository only store them.                                             *)
(***************************************************************************)
EXTENDS Naturals

CONSTANTS
  UpdateCap,    \* capacity of updateCh: 10 in the code
  MaxProgress,  \* bound: progress notifications for a call
  MaxCalls      \* bound: streaming calls

ASSUME StreamingAssumption ==
  UpdateCap \in Nat /\ MaxProgress \in Nat /\ MaxCalls \in Nat

VARIABLES
  calls,     \* requestIDCounter
  main,      \* CallToolStreaming: "idle", "select" or "wait" (in wg.Wait)
  outcome,   \* what the last call returned
  ctx,       \* the caller's context is cancelled
  stop,      \* streamCtx is cancelled
  updater,   \* the goroutine for updates: "none", "select", "update", "ended"
  sender,    \* the goroutine for the request: "none", "send", "ended"
  reply,     \* what is in errCh or resultCh: "none", "error", "result"
  updateCh,  \* the number of updates in the channel
  doneCh,    \* doneCh is closed
  progress,  \* progress notifications that have come
  handler    \* the transport in the progress handler: "idle", "send" (blocked
             \* on a full updateCh), "last" (the same, in the final one),
             \* "panicked" (it has closed doneCh again)

streamvars == <<calls, main, outcome, ctx, stop, updater, sender, reply,
                updateCh, doneCh, progress, handler>>

StreamingTypeOK ==
  /\ calls \in 0..MaxCalls /\ main \in {"idle", "select", "wait"}
  /\ outcome \in {"none", "result", "error", "nothing", "cancelled"}
  /\ ctx \in BOOLEAN /\ stop \in BOOLEAN
  /\ updater \in {"none", "select", "update", "ended"}
  /\ sender \in {"none", "send", "ended"}
  /\ reply \in {"none", "error", "result"}
  /\ updateCh \in 0..UpdateCap /\ doneCh \in BOOLEAN
  /\ progress \in 0..MaxProgress
  /\ handler \in {"idle", "send", "last", "panicked"}

StreamingInit ==
  /\ calls = 0 /\ main = "idle" /\ outcome = "none"
  /\ ctx = FALSE /\ stop = FALSE
  /\ updater = "none" /\ sender = "none" /\ reply = "none"
  /\ updateCh = 0 /\ doneCh = FALSE /\ progress = 0 /\ handler = "idle"

-----------------------------------------------------------------------------
\* The channels are made, the goroutines started and the progress handler
\* registered under a new id.  (What is left of an earlier call is its own
\* and no longer followed.)
StartStreaming ==
  /\ main = "idle" /\ calls < MaxCalls
  /\ calls' = calls + 1
  /\ main' = "select" /\ outcome' = "none"
  /\ ctx' = FALSE /\ stop' = FALSE
  /\ updater' = "select" /\ sender' = "send" /\ reply' = "none"
  /\ updateCh' = 0 /\ doneCh' = FALSE /\ progress' = 0 /\ handler' = "idle"

ContextEnds ==
  /\ main # "idle" /\ ~ctx
  /\ ctx' = TRUE /\ stop' = TRUE
  /\ UNCHANGED <<calls, main, outcome, updater, sender, reply, updateCh, doneCh,
                 progress, handler>>

\* The select of the goroutine for updates takes any case that is ready.
UpdaterSelect ==
  /\ updater = "select"
  /\ \/ (stop \/ doneCh) /\ updater' = "ended" /\ UNCHANGED updateCh
     \/ updateCh > 0 /\ updater' = "update" /\ updateCh' = updateCh - 1
  /\ UNCHANGED <<calls, main, outcome, ctx, stop, sender, reply, doneCh, progress,
                 handler>>

\* updateHandler returns.
UpdateHandled ==
  /\ updater = "update" /\ updater' = "select"
  /\ UNCHANGED <<calls, main, outcome, ctx, stop, sender, reply, updateCh, doneCh,
                 progress, handler>>

\* Progress arrives, the final one or another.
Progress ==
  /\ calls > 0 /\ handler = "idle" /\ progress < MaxProgress
  /\ progress' = progress + 1
  /\ handler' \in {"send", "last"}
  /\ UNCHANGED <<calls, main, outcome, ctx, stop, updater, sender, reply, updateCh,
                 doneCh>>

\* It goes into updateCh once there is room.  The final one closes doneCh.
HandleProgress ==
  /\ handler \in {"send", "last"} /\ updateCh < UpdateCap
  /\ updateCh' = updateCh + 1
  /\ doneCh' = (doneCh \/ handler = "last")
  /\ handler' = IF handler = "last" /\ doneCh THEN "panicked" ELSE "idle"
  /\ UNCHANGED <<calls, main, outcome, ctx, stop, updater, sender, reply, progress>>

\* SendRequest returns: the answer or the error is put into its channel, and
\* both channels are closed.
SendStreamingRequest ==
  /\ sender = "send" /\ sender' = "ended"
  /\ reply' \in {"error", "result"}
  /\ UNCHANGED <<calls, main, outcome, ctx, stop, updater, updateCh, doneCh,
                 progress, handler>>

\* The call returns; the deferred cancel runs.
ReturnWith(o) == main' = "idle" /\ outcome' = o /\ stop' = TRUE

\* A closed channel is ready too: when the select comes to it after both
\* are closed it may take the empty one, and the call returns neither a result
\* nor an error.
SelectReply ==
  /\ main = "select"
  /\ \/ ctx /\ ReturnWith("cancelled")
     \/ reply = "error" /\ ReturnWith("error")
     \/ sender = "ended" /\ reply = "result" /\ ReturnWith("nothing")
     \/ \* the result, or a nil from the closed resultCh
        /\ sender = "ended"
        /\ main' = "wait" /\ stop' = TRUE
        /\ outcome' = IF reply = "result" THEN "result" ELSE "nothing"
  /\ UNCHANGED <<calls, ctx, updater, sender, reply, updateCh, doneCh, progress,
                 handler>>

\* Mutant of WaitForUpdates: it does not wait.
ReturnAtOnce ==
  /\ main = "wait"
  /\ main' = "idle"
  /\ UNCHANGED <<calls, outcome, ctx, stop, updater, sender, reply, updateCh, doneCh,
                 progress, handler>>

\* wg.Wait.
WaitForUpdates ==
  /\ main = "wait" /\ updater = "ended"
  /\ main' = "idle"
  /\ UNCHANGED <<calls, outcome, ctx, stop, updater, sender, reply, updateCh, doneCh,
                 progress, handler>>

StreamingNext ==
  \/ StartStreaming \/ ContextEnds
  \/ UpdaterSelect \/ UpdateHandled
  \/ Progress \/ HandleProgress
  \/ SendStreamingRequest \/ SelectReply \/ WaitForUpdates

StreamingSpec == StreamingInit /\ [][StreamingNext]_streamvars

-----------------------------------------------------------------------------
(* Properties *)

\* Once a call has returned a result its update handler does not run any
\* more, so that the caller may use what the handler has collected (cancel and
\* wg.Wait before the return; a call that returns an error gives no such
\* promise).
NoUpdateAfterResult ==
  main = "idle" /\ outcome = "result" => updater = "ended"
=============================================================================
