---------------------------- MODULE BearerTokens ----------------------------
(***************************************************************************)
(* Tokens of BearerTokenProvider (pkg/auth/bearer.go).                     *)
(*                                                                         *)
(* The map tokens holds pointers: an access token and its refresh token    *)
(* share one record, and a Refresh that has looked its record up goes on   *)
(* with it whatever happens to the map.  A record is named by the access   *)
(* token it was made with.  Each section under the mutex is one action;    *)
(* the checks of a record that has been looked up are made without it.     *)
(* Left out: providers with a callback or without refresh tokens, Validate *)
(* (it changes nothing: a token is Live when Validate accepts it until it  *)
(* expires), scopes and users, which do not change tokens.                 *)
(***************************************************************************)
EXTENDS Integers, FiniteSets

CONSTANTS
  MaxTokens,      \* bound: how often generateToken is called
  MaxLogins,      \* bound: logins come before token 2 * MaxLogins
  Workers,        \* goroutines that call Refresh
  None,
  TokenExpiry,    \* in ticks
  RefreshExpiry

ASSUME BearerAssumption ==
  /\ MaxTokens \in Nat /\ None \notin Nat
  /\ TokenExpiry \in Nat /\ RefreshExpiry \in Nat
  /\ MaxLogins \in Nat

VARIABLES
  made,     \* how many tokens have been generated
  tokens,   \* the provider's map: token -> record, or None
  info,     \* the records: access token, refresh token, revoked, age
  revoked,  \* history: tokens for which Revoke has returned without error
  pc,       \* what a worker does next
  arg,      \* the token it was called with
  rec       \* the record it has looked up

storeVars  == <<made, tokens, info, revoked>>
workerVars == <<pc, arg, rec>>
vars == <<storeVars, workerVars>>

\* generateToken never returns a token twice; they are numbered as generated.
Tokens == 1..MaxTokens
used   == 1..made

\* Ages are counted until nothing depends on them any more.
OldAge == TokenExpiry + RefreshExpiry + 1

Records == [token : Tokens \cup {None}, refresh : Tokens \cup {None},
            revoked : BOOLEAN, age : 0..OldAge]

NoRecord == [token |-> None, refresh |-> None, revoked |-> FALSE, age |-> OldAge]

TypeOK ==
  /\ made \in 0..MaxTokens /\ revoked \subseteq used
  /\ tokens \in [Tokens -> used \cup {None}]
  /\ info \in [Tokens -> Records]
  /\ pc \in [Workers -> {"idle", "check", "store"}]
  /\ arg \in [Workers -> used \cup {None}]
  /\ rec \in [Workers -> used \cup {None}]
  /\ \A w \in Workers : pc[w] # "idle" => arg[w] # None /\ rec[w] # None
  /\ \A t \in Tokens :
        tokens[t] # None => {info[tokens[t]].token, info[tokens[t]].refresh} \subseteq used

Init ==
  /\ made = 0 /\ revoked = {}
  /\ tokens = [t \in Tokens |-> None]
  /\ info = [t \in Tokens |-> NoRecord]
  /\ pc = [w \in Workers |-> "idle"]
  /\ arg = [w \in Workers |-> None]
  /\ rec = [w \in Workers |-> None]

Begin(w, t, to) ==
  /\ pc[w] = "idle" /\ pc' = [pc EXCEPT ![w] = to]
  /\ arg' = [arg EXCEPT ![w] = t]

\* The call returns: its local variables are gone.
Return(w) ==
  /\ pc' = [pc EXCEPT ![w] = "idle"]
  /\ arg' = [arg EXCEPT ![w] = None]
  /\ rec' = [rec EXCEPT ![w] = None]

-----------------------------------------------------------------------------
(* The provider *)

\* Mutant of NewRecord: the record does not name its own access token.
NewRecordUnnamed(access, refresh) ==
  [token |-> None, refresh |-> refresh, revoked |-> FALSE, age |-> 0]

NewRecord(access, refresh) ==
  [token |-> access, refresh |-> refresh, revoked |-> FALSE, age |-> 0]

\* Authenticate with a user name and a password.
Authenticate ==
  LET access == made + 1  refresh == made + 2 IN
     /\ refresh \in Tokens /\ made < 2 * MaxLogins
     /\ made' = refresh
     /\ info' = [info EXCEPT ![access] = NewRecord(access, refresh)]
     /\ tokens' = [tokens EXCEPT ![access] = access, ![refresh] = access]
     /\ UNCHANGED <<revoked, workerVars>>

\* Refresh looks its token up under the read lock ...
Refresh(w, t) ==
  /\ tokens[t] # None
  /\ info[tokens[t]].refresh = t
  /\ Begin(w, t, "check")
  /\ rec' = [rec EXCEPT ![w] = tokens[t]]
  /\ UNCHANGED storeVars

\* ... checks the record without a lock ...
RefreshCheck(w) ==
  /\ pc[w] = "check"
  /\ IF info[rec[w]].revoked \/ info[rec[w]].age > RefreshExpiry
     THEN Return(w)
     ELSE pc' = [pc EXCEPT ![w] = "store"] /\ UNCHANGED <<arg, rec>>
  /\ UNCHANGED storeVars

\* The records after a refresh: the one that old names now is revoked, and
\* that of the refresh token names the new access token.
Refreshed(w, access, old) ==
  LET victim == IF old = None THEN None ELSE tokens[old] IN
  [i \in Tokens |->
     [IF i = access THEN NewRecord(access, arg[w]) ELSE info[i] EXCEPT
        !.revoked = @ \/ i = victim,
        !.token = IF i = rec[w] THEN access ELSE @]]

\* Mutant of RefreshStore: it revokes the access token that the record was
\* made with, not the one it names under the lock.
RefreshStoreStale(w) ==
  /\ pc[w] = "store"
  /\ LET access == made + 1 IN
        /\ access \in Tokens
        /\ made' = access
        /\ tokens' = [tokens EXCEPT ![access] = access]
        /\ info' = Refreshed(w, access, rec[w])
  /\ Return(w)
  /\ UNCHANGED revoked

\* Mutant of RefreshStore: the refresh token moves to the new record, so that
\* it is not revoked together with the old access token.
RefreshStoreMoved(w) ==
  /\ pc[w] = "store"
  /\ LET access == made + 1 IN
        /\ access \in Tokens
        /\ made' = access
        /\ tokens' = [tokens EXCEPT ![access] = access, ![arg[w]] = access]
        /\ info' = Refreshed(w, access, info[rec[w]].token)
  /\ Return(w)
  /\ UNCHANGED revoked

\* Mutant of RefreshStore: the record keeps naming the old access token.
RefreshStoreForgets(w) ==
  /\ pc[w] = "store"
  /\ LET access == made + 1 IN
        /\ access \in Tokens
        /\ made' = access
        /\ tokens' = [tokens EXCEPT ![access] = access]
        /\ info' = [Refreshed(w, access, info[rec[w]].token)
                      EXCEPT ![rec[w]].token = info[rec[w]].token]
  /\ Return(w)
  /\ UNCHANGED revoked

\* ... and stores the new access token under the lock.
RefreshStore(w) ==
  /\ pc[w] = "store"
  /\ LET access == made + 1 IN
        /\ access \in Tokens
        /\ made' = access
        /\ tokens' = [tokens EXCEPT ![access] = access]
        /\ info' = Refreshed(w, access, info[rec[w]].token)
  /\ Return(w)
  /\ UNCHANGED revoked

\* Revoke: the token's record, and those its two tokens have in the map.
Revoke(t) ==
  /\ tokens[t] # None
  /\ LET i == tokens[t]
         tied == {tokens[u] : u \in {info[i].token, info[i].refresh} \ {None}}
     IN info' = [j \in Tokens |->
                   [info[j] EXCEPT !.revoked = @ \/ j = i \/ j \in tied]]
  /\ revoked' = revoked \cup {t}
  /\ UNCHANGED <<made, tokens, workerVars>>

CleanupExpired ==
  /\ tokens' = [t \in Tokens |->
        IF tokens[t] # None /\ ( \/ info[tokens[t]].revoked
                                 \/ info[tokens[t]].age = OldAge )
        THEN None ELSE tokens[t]]
  /\ UNCHANGED <<made, info, revoked, workerVars>>

\* Time passes; the age of a revoked record decides nothing.
Tick ==
  /\ info' = [i \in Tokens |->
                [info[i] EXCEPT !.age = IF @ < OldAge /\ ~info[i].revoked
                                     THEN @ + 1 ELSE @]]
  /\ UNCHANGED <<made, tokens, revoked, workerVars>>

-----------------------------------------------------------------------------
Next ==
  \/ Authenticate \/ CleanupExpired \/ Tick
  \/ \E t \in used : Revoke(t)
  \/ \E w \in Workers :
        \/ \E t \in used : Refresh(w, t)
        \/ RefreshCheck(w) \/ RefreshStore(w)

Spec == Init /\ [][Next]_vars
-----------------------------------------------------------------------------
(* Properties *)

\* A token that Revoke has reported as revoked never validates again, whatever
\* refreshes of it are under way (bearer.go:280-303).
RevokedForGood ==
  \A t \in revoked : tokens[t] # None => info[tokens[t]].revoked

\* The access tokens of a refresh token that validate until they expire.
LiveAccess(r) ==
  {t \in Tokens \ {r} : /\ tokens[t] # None
                        /\ info[tokens[t]].refresh = r
                        /\ ~info[tokens[t]].revoked}

\* "Revoke old access token" (bearer.go:258): of the access tokens that one
\* refresh token has been exchanged for, also by several refreshes at once, at
\* most one is not revoked.
OneLiveAccess ==
  \A r \in used : Cardinality(LiveAccess(r)) <= 1

\* While the provider knows a refresh token, its record names the access token
\* that is not revoked, so that Revoke of the one finds the other
\* (bearer.go:291).
ChainRevocable ==
  \A r \in used :
     tokens[r] # None =>
        \A t \in LiveAccess(r) : info[tokens[r]].token = t
=============================================================================
