----------------------------- MODULE RequestReply -----------------------------
(***************************************************************************)
(* What the correlation of requests and responses promises, whatever it    *)
(* correlates by: the abstract specification that StdioTransport is shown  *)
(* to implement.  There are no channels, no pending entries and no lines   *)
(* here; a call takes an answer to a request of its own or none.           *)
(*                                                                         *)
(* A call begins with requests whose ids nobody else is waiting for and    *)
(* that no answer under way has.  It hands them to the peer, takes at most *)
(* one answer to each, and is replied when it has all of them.  It may     *)
(* fail at any time before, and the peer may answer in any order, again,   *)
(* late or never: a request that is out may be answered until it is lost.  *)
(***************************************************************************)
EXTENDS FiniteSets

CONSTANTS Callers, Ids

VARIABLES
  phase,    \* the phase each call is in; "replied" and "failed" are outcomes
  waiting,  \* the ids it has no answer to
  answers,  \* the answers it has taken, as the requests they answer
  out       \* requests that the peer may still answer, or has answered

replyvars == <<phase, waiting, answers, out>>

Over == {"idle", "replied", "failed"}

Init ==
  /\ phase = [p \in Callers |-> "idle"]
  /\ waiting = [p \in Callers |-> {}]
  /\ answers = [p \in Callers |-> {}]
  /\ out = {}

Free(id) == \A q \in Callers : id \notin waiting[q] /\ <<q, id>> \notin out

\* What is out may be lost with any step.
Begin(p) ==
  /\ phase[p] \in Over /\ phase' = [phase EXCEPT ![p] = "asking"]
  /\ \E ids \in (SUBSET Ids) \ {{}} :
       /\ waiting' = [waiting EXCEPT ![p] = ids]
       /\ \A id \in ids : Free(id)
  /\ answers' = [answers EXCEPT ![p] = {}]
  /\ out' \in SUBSET out

Ask(p) ==
  /\ phase[p] = "asking" /\ phase' = [phase EXCEPT ![p] = "waiting"]
  /\ UNCHANGED <<waiting, answers>>
  /\ out' = out \cup ({p} \X waiting[p])

\* The last answer ends the call.
Take(p) ==
  /\ phase[p] = "waiting"
  /\ \E id \in waiting[p] :
       /\ <<p, id>> \in out
       /\ waiting' = [waiting EXCEPT ![p] = @ \ {id}]
       /\ answers' = [answers EXCEPT ![p] = @ \cup {<<p, id>>}]
  /\ phase' = [phase EXCEPT ![p] = IF waiting'[p] = {} THEN "replied" ELSE @]
  /\ out' \in SUBSET out

Fail(p) ==
  /\ phase[p] \in {"asking", "waiting"} /\ phase' = [phase EXCEPT ![p] = "failed"]
  /\ UNCHANGED <<waiting, answers>>
  /\ out' \in SUBSET out

\* The outcome has been seen.
Rest(p) ==
  /\ phase[p] \in Over /\ phase' = [phase EXCEPT ![p] = "idle"]
  /\ UNCHANGED <<waiting, answers, out>>

Lose == UNCHANGED <<phase, waiting, answers>> /\ out' \in SUBSET out

Next == Lose \/ \E p \in Callers : Begin(p) \/ Ask(p) \/ Take(p) \/ Fail(p) \/ Rest(p)

Spec == Init /\ [][Next]_replyvars
===============================================================================
