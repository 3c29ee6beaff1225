------------------------------- MODULE Breaker -------------------------------
(***************************************************************************)
(* What a circuit breaker promises, whatever it counts: the abstract       *)
(* specification that the breaker of the reliability middleware            *)
(* (reliability_middleware.go) is shown to implement.  Calls may fail in   *)
(* any state.  An open circuit becomes half-open only after a full         *)
(* cool-down without a failure, and closes only through half-open.         *)
(***************************************************************************)
VARIABLES
  state,    \* "closed", "open" or "halfOpen"
  cooled    \* has the cool-down passed since the last failure?

bvars == <<state, cooled>>

Init == state = "closed" /\ cooled = TRUE

Cool    == cooled' = TRUE /\ UNCHANGED state
Fail    == state # "halfOpen" /\ cooled' = FALSE /\ UNCHANGED state
Trip    == state \in {"closed", "halfOpen"} /\ state' = "open" /\ cooled' = FALSE
Probe   == state = "open" /\ cooled /\ state' = "halfOpen" /\ UNCHANGED cooled
Recover == state = "halfOpen" /\ state' = "closed" /\ UNCHANGED cooled

Next == Cool \/ Fail \/ Trip \/ Probe \/ Recover

Spec == Init /\ [][Next]_bvars
=============================================================================
