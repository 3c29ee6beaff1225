------------------------------ MODULE MC_Stdio ------------------------------
(* Small instances of StdioTransport.  In MCSpec either two callers and      *)
(* handlers that call, or a batch of two requests beside one call and one    *)
(* unread line at most.                                                      *)
EXTENDS StdioTransport, TLC
CONSTANTS c1, c2, b1, x, y
VARIABLE batching

TwoCallers == {c1, c2}
OneBatcher == {b1}
OneBatch   == b1 :> {x, y}

MCInit == Init /\ batching \in BOOLEAN

MCNext ==
  /\ Next
  /\ UNCHANGED batching
  /\ IF batching
     THEN nextID' <= 2 /\ Len(inbox') <= 1 /\ pc'[Reader] = "idle"
     ELSE pc'[b1] = "idle"

MCSpec == MCInit /\ [][MCNext]_<<vars, batching>>

CallerSymmetry == Permutations(TwoCallers)
=============================================================================
