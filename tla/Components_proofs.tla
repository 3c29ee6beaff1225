--------------------------- MODULE Components_proofs ---------------------------
(***************************************************************************)
(* Proofs about the components of MC_Components: bearer tokens, roles,     *)
(* streaming calls, the metrics of the transports, client and server above *)
(* them, the observability middleware, lists page by page and batches over *)
(* HTTP, each for all values of its constants, and the types of them all   *)
(* under the specification the run checks.                                 *)
(***************************************************************************)
EXTENDS MC_Components, FiniteSetTheorems, SequenceTheorems, WellFoundedInduction, TLAPS

-----------------------------------------------------------------------------
(* BearerTokens                                                             *)

\* A number that has not been handed out names nothing.
Unborn == \A t \in Tokens \ used : tokens[t] = None

IInv == TypeOK /\ Unborn /\ RevokedForGood

\* The map keeps its entries or loses them; a record only has its flag raised
\* or its age advanced.
Same ==
  /\ made' = made /\ pc' = pc /\ arg' = arg /\ rec' = rec
  /\ info' \in [Tokens -> Records]
  /\ \A i \in Tokens : /\ info'[i].token = info[i].token
                       /\ info'[i].refresh = info[i].refresh
                       /\ info[i].revoked => info'[i].revoked
  /\ tokens' \in [Tokens -> used \cup {None}]
  /\ \A t \in Tokens : tokens'[t] \in {tokens[t], None}
  /\ revoked' \subseteq used
  /\ \A t \in revoked' \ revoked : tokens'[t] # None => info'[tokens'[t]].revoked

LEMMA SameKeeps == ASSUME IInv, Same PROVE IInv'
<1> USE BearerAssumption
<1>0. /\ used' = used /\ Tokens' = Tokens /\ used \subseteq Tokens
      /\ info' \in [Tokens -> Records]
      /\ \A i \in Tokens : /\ info'[i].token = info[i].token
                           /\ info'[i].refresh = info[i].refresh
                           /\ info[i].revoked => info'[i].revoked
      /\ tokens' \in [Tokens -> used \cup {None}]
      /\ \A t \in Tokens : tokens'[t] \in {tokens[t], None}
      /\ revoked' \subseteq used
      /\ \A t \in revoked' \ revoked : tokens'[t] # None => info'[tokens'[t]].revoked
  BY DEF Same, IInv, TypeOK, used, Tokens
<1>1. TypeOK'
  <2>1. /\ made' \in 0..MaxTokens /\ revoked' \subseteq used'
        /\ tokens' \in [Tokens -> used' \cup {None}]
        /\ info' \in [Tokens -> Records]
    BY <1>0 DEF Same, IInv, TypeOK
  <2>2. /\ pc' = pc /\ arg' = arg /\ rec' = rec
    BY DEF Same
  <2>3. ASSUME NEW t \in Tokens, tokens'[t] # None
        PROVE  {info'[tokens'[t]].token, info'[tokens'[t]].refresh} \subseteq used'
    <3>1. tokens'[t] = tokens[t] /\ tokens[t] # None
      BY <2>3, <1>0
    <3>2. tokens[t] \in Tokens
      BY <3>1, <1>0 DEF IInv, TypeOK
    <3> QED BY <3>1, <3>2, <1>0 DEF IInv, TypeOK
  <2> QED BY <2>1, <2>2, <2>3, <1>0 DEF IInv, TypeOK
<1>2. Unborn'
  BY <1>0 DEF IInv, Unborn
<1>3. RevokedForGood'
  <2> SUFFICES ASSUME NEW t \in revoked', tokens'[t] # None
               PROVE  info'[tokens'[t]].revoked
    BY DEF RevokedForGood
  <2>1. CASE t \notin revoked
    BY <2>1, <1>0
  <2>2. CASE t \in revoked
    <3>1. t \in Tokens /\ tokens'[t] = tokens[t] /\ tokens[t] # None
      BY <1>0
    <3>2. tokens[t] \in Tokens
      BY <3>1, <1>0 DEF IInv, TypeOK
    <3> QED BY <2>2, <3>1, <3>2, <1>0 DEF IInv, RevokedForGood
  <2> QED BY <2>1, <2>2
<1> QED BY <1>1, <1>2, <1>3 DEF IInv

LEMMA Start == Init => IInv
<1> SUFFICES ASSUME Init PROVE IInv
  OBVIOUS
<1> USE BearerAssumption DEF Init
<1>1. NoRecord \in Records
  BY DEF NoRecord, Records, OldAge
<1>2. TypeOK
  BY <1>1 DEF TypeOK, used, Tokens
<1> QED BY <1>2 DEF IInv, Unborn, RevokedForGood, Tokens

\* A login adds a record and two tokens that nothing named before.
LEMMA LoginKeeps == IInv /\ Authenticate => IInv'
<1> SUFFICES ASSUME IInv, Authenticate PROVE IInv'
  OBVIOUS
<1> USE BearerAssumption
<1> DEFINE access == made + 1
           refresh == made + 2
<1>0. /\ made \in Nat /\ access \in Tokens /\ refresh \in Tokens
      /\ used \subseteq Tokens /\ used' = used \cup {access, refresh}
      /\ access \notin used /\ refresh \notin used /\ Tokens' = Tokens
  BY DEF IInv, TypeOK, used, Tokens, Authenticate
<1>1. /\ info' = [info EXCEPT ![access] = NewRecord(access, refresh)]
      /\ tokens' = [tokens EXCEPT ![access] = access, ![refresh] = access]
      /\ made' = refresh /\ revoked' = revoked
      /\ pc' = pc /\ arg' = arg /\ rec' = rec
  BY DEF Authenticate, workerVars
<1> HIDE DEF access, refresh
<1>2. NewRecord(access, refresh) \in Records
  BY <1>0 DEF NewRecord, Records, OldAge
<1>3. TypeOK'
  <2>1. made' \in 0..MaxTokens /\ revoked' \subseteq used'
    BY <1>0, <1>1 DEF IInv, TypeOK, Tokens
  <2>2. tokens' \in [Tokens -> used' \cup {None}] /\ info' \in [Tokens -> Records]
    BY <1>0, <1>1, <1>2 DEF IInv, TypeOK
  <2>3. ASSUME NEW t \in Tokens, tokens'[t] # None
        PROVE  {info'[tokens'[t]].token, info'[tokens'[t]].refresh} \subseteq used'
    <3>1. CASE t \in {access, refresh}
      BY <3>1, <1>0, <1>1 DEF NewRecord, IInv, TypeOK
    <3>2. CASE t \notin {access, refresh}
      <4>1. tokens'[t] = tokens[t] /\ tokens[t] \in used
        BY <2>3, <3>2, <1>0, <1>1 DEF IInv, TypeOK
      <4>2. info'[tokens[t]] = info[tokens[t]]
        BY <4>1, <1>0, <1>1 DEF IInv, TypeOK
      <4> QED BY <2>3, <4>1, <4>2, <1>0 DEF IInv, TypeOK
    <3> QED BY <3>1, <3>2
  <2> QED BY <2>1, <2>2, <2>3, <1>0, <1>1 DEF IInv, TypeOK
<1>4. Unborn'
  BY <1>0, <1>1 DEF IInv, Unborn, TypeOK
<1>5. RevokedForGood'
  <2> SUFFICES ASSUME NEW t \in revoked, tokens'[t] # None
               PROVE  info'[tokens'[t]].revoked
    BY <1>1 DEF RevokedForGood
  <2>1. t \in used /\ tokens'[t] = tokens[t] /\ tokens[t] \in used
    BY <1>0, <1>1 DEF IInv, TypeOK
  <2>2. info'[tokens[t]] = info[tokens[t]]
    BY <2>1, <1>0, <1>1 DEF IInv, TypeOK
  <2> QED BY <2>1, <2>2, <1>0 DEF IInv, RevokedForGood, TypeOK
<1> QED BY <1>3, <1>4, <1>5 DEF IInv

\* The record that a refresh revokes, if the map knows it still.
Victim(w) == IF info[rec[w]].token = None THEN None
             ELSE tokens[info[rec[w]].token]

\* The token it makes.
New == made + 1

\* What becomes of record i.
Stored(w, i) ==
  /\ i # New =>
       /\ info'[i].refresh = info[i].refresh
       /\ info'[i].token = IF i = rec[w] THEN New ELSE info[i].token
       /\ info'[i].revoked = (info[i].revoked \/ i = Victim(w))
  /\ i = New =>
       /\ info'[i].refresh = arg[w]
       /\ info'[i].token = New

\* A refresh adds a record and one token; the record it has looked up names it,
\* and the victim is revoked.
LEMMA StoreEffect ==
  ASSUME NEW w \in Workers, IInv, RefreshStore(w)
  PROVE  /\ made \in Nat /\ New \in Tokens /\ New \notin used
         /\ used \subseteq Tokens /\ used' = used \cup {New} /\ Tokens' = Tokens
         /\ pc[w] = "store" /\ arg[w] \in used /\ rec[w] \in used
         /\ tokens' = [tokens EXCEPT ![New] = New]
         /\ made' = New /\ revoked' = revoked /\ Return(w)
         /\ info' \in [Tokens -> Records]
         /\ \A i \in Tokens : Stored(w, i)
<1> USE BearerAssumption
<1>0. /\ made \in Nat /\ New \in Tokens /\ New \notin used
      /\ used \subseteq Tokens /\ used' = used \cup {New} /\ Tokens' = Tokens
      /\ pc[w] = "store" /\ arg[w] \in used /\ rec[w] \in used
  BY DEF IInv, TypeOK, used, Tokens, RefreshStore, New
<1>1. /\ info' = Refreshed(w, New, info[rec[w]].token)
      /\ tokens' = [tokens EXCEPT ![New] = New]
      /\ made' = New /\ revoked' = revoked /\ Return(w)
  BY DEF RefreshStore, New
<1>2. ASSUME NEW i \in Tokens
      PROVE  info'[i] \in Records /\ Stored(w, i)
  <2> DEFINE new == IF i = New THEN NewRecord(New, arg[w]) ELSE info[i]
  <2>1. new \in Records
    BY <1>0 DEF NewRecord, Records, OldAge, IInv, TypeOK
  <2>2. info'[i] = [new EXCEPT !.revoked = @ \/ i = Victim(w),
                               !.token = IF i = rec[w] THEN New ELSE @]
    BY <1>1 DEF Refreshed, Victim
  <2>3. /\ new.revoked \in BOOLEAN /\ new.token \in Tokens \cup {None}
        /\ new.refresh \in Tokens \cup {None} /\ new.age \in 0..OldAge
        /\ new = [token |-> new.token, refresh |-> new.refresh,
                  revoked |-> new.revoked, age |-> new.age]
    BY <2>1 DEF Records
  <2> HIDE DEF new
  <2>4. info'[i] = [token |-> IF i = rec[w] THEN New ELSE new.token,
                    refresh |-> new.refresh,
                    revoked |-> (new.revoked \/ i = Victim(w)), age |-> new.age]
    BY <2>2, <2>3
  <2>40. /\ info'[i].refresh = new.refresh
         /\ info'[i].token = IF i = rec[w] THEN New ELSE new.token
    BY <2>4
  <2>41. info'[i].revoked = (new.revoked \/ i = Victim(w))
    BY <2>4
  <2>5. info'[i] \in Records
    <3>1. (new.revoked \/ i = Victim(w)) \in BOOLEAN
      OBVIOUS
    <3> QED BY <3>1, <2>3, <2>4, <1>0 DEF Records
  <2>6. CASE i # New
    <3>1. new = info[i]
      BY <2>6 DEF new
    <3>2. info'[i].token = IF i = rec[w] THEN New ELSE info[i].token
      BY <2>40, <3>1
    <3>3. info'[i].refresh = info[i].refresh
      BY <2>40, <3>1
    <3>4. info'[i].revoked = (info[i].revoked \/ i = Victim(w))
      BY <2>41, <3>1
    <3> QED BY <2>5, <2>6, <3>2, <3>3, <3>4 DEF Stored
  <2>7. CASE i = New
    <3>1. new.token = New /\ new.refresh = arg[w]
      BY <2>7 DEF new, NewRecord
    <3>2. info'[i].refresh = arg[w] /\ info'[i].token = New
      BY <2>40, <3>1
    <3> QED BY <2>5, <2>7, <3>2 DEF Stored
  <2> QED BY <2>6, <2>7
<1>3. info' \in [Tokens -> Records]
  BY <1>1, <1>2 DEF Refreshed
<1> QED BY <1>0, <1>1, <1>2, <1>3

LEMMA StoreKeeps == ASSUME NEW w \in Workers, IInv, RefreshStore(w) PROVE IInv'
<1>1. /\ made \in Nat /\ New \in Tokens /\ New \notin used
      /\ used \subseteq Tokens /\ used' = used \cup {New} /\ Tokens' = Tokens
      /\ pc[w] = "store" /\ arg[w] \in used /\ rec[w] \in used
      /\ tokens' = [tokens EXCEPT ![New] = New]
      /\ made' = New /\ revoked' = revoked /\ Return(w)
      /\ info' \in [Tokens -> Records]
  BY StoreEffect
<1>2. \A i \in Tokens : Stored(w, i)
  BY StoreEffect
<1>3. TypeOK'
  <2>1. made' \in 0..MaxTokens /\ revoked' \subseteq used'
    BY <1>1 DEF IInv, TypeOK, Tokens
  <2>2. tokens' \in [Tokens -> used' \cup {None}]
    BY <1>1 DEF IInv, TypeOK
  <2>3. info' \in [Tokens -> Records]
    BY <1>1
  <2>4. /\ pc' \in [Workers -> {"idle", "check", "store"}]
        /\ arg' \in [Workers -> used' \cup {None}]
        /\ rec' \in [Workers -> used' \cup {None}]
        /\ \A v \in Workers : pc'[v] # "idle" => arg'[v] # None /\ rec'[v] # None
    BY <1>1 DEF IInv, TypeOK, Return
  <2>5. ASSUME NEW t \in Tokens, tokens'[t] # None
        PROVE  {info'[tokens'[t]].token, info'[tokens'[t]].refresh} \subseteq used'
    <3>1. CASE t = New
      BY <3>1, <1>1, <1>2 DEF Stored, IInv, TypeOK
    <3>2. CASE t # New
      <4>1. tokens'[t] = tokens[t] /\ tokens[t] \in used
        BY <2>5, <3>2, <1>1 DEF IInv, TypeOK
      <4>2. tokens[t] \in Tokens /\ tokens[t] # New
        BY <4>1, <1>1
      <4>3. {info[tokens[t]].token, info[tokens[t]].refresh} \subseteq used
        BY <2>5, <4>1 DEF IInv, TypeOK
      <4> QED BY <4>1, <4>2, <4>3, <1>1, <1>2 DEF Stored
    <3> QED BY <3>1, <3>2
  <2> QED BY <2>1, <2>2, <2>3, <2>4, <2>5, <1>1 DEF TypeOK
<1>4. Unborn'
  BY <1>1 DEF IInv, Unborn, TypeOK
<1>5. RevokedForGood'
  <2> SUFFICES ASSUME NEW t \in revoked, tokens'[t] # None
               PROVE  info'[tokens'[t]].revoked
    BY <1>1 DEF RevokedForGood
  <2>1. t \in used /\ tokens'[t] = tokens[t] /\ tokens[t] \in used
    BY <1>1 DEF IInv, TypeOK
  <2>2. tokens[t] \in Tokens /\ tokens[t] # New
    BY <2>1, <1>1
  <2>3. tokens[t] # None /\ info[tokens[t]].revoked
    BY <2>1 DEF IInv, RevokedForGood
  <2> QED BY <2>1, <2>2, <2>3, <1>2 DEF Stored
<1> QED BY <1>3, <1>4, <1>5 DEF IInv

LEMMA CallKeeps ==
  ASSUME NEW w \in Workers, NEW t \in used, IInv, Refresh(w, t) \/ RefreshCheck(w)
  PROVE  IInv'
<1>1. /\ UNCHANGED storeVars /\ used' = used /\ Tokens' = Tokens
      /\ used \subseteq Tokens
  BY BearerAssumption
     DEF Refresh, RefreshCheck, storeVars, used, Tokens, IInv, TypeOK
<1>2. /\ pc' \in [Workers -> {"idle", "check", "store"}]
      /\ arg' \in [Workers -> used \cup {None}]
      /\ rec' \in [Workers -> used \cup {None}]
      /\ \A v \in Workers : pc'[v] # "idle" => arg'[v] # None /\ rec'[v] # None
  <2>1. CASE Refresh(w, t)
    <3>1. t # None /\ tokens[t] \in used
      BY <2>1, <1>1, BearerAssumption DEF Refresh, IInv, TypeOK, used
    <3> QED BY <2>1, <3>1, <1>1 DEF Refresh, Begin, IInv, TypeOK
  <2>2. CASE RefreshCheck(w)
    BY <2>2, <1>1 DEF RefreshCheck, Return, IInv, TypeOK
  <2> QED BY <2>1, <2>2
<1> QED BY <1>1, <1>2 DEF storeVars, IInv, TypeOK, Unborn, RevokedForGood

LEMMA RevokeSame == ASSUME NEW t \in used, IInv, Revoke(t) PROVE Same
<1>1. /\ UNCHANGED <<made, workerVars>> /\ tokens' = tokens
      /\ revoked' = revoked \cup {t} /\ used \subseteq Tokens
      /\ tokens \in [Tokens -> used \cup {None}] /\ info \in [Tokens -> Records]
      /\ tokens[t] # None /\ revoked \subseteq used
  BY BearerAssumption DEF Revoke, IInv, TypeOK, used, Tokens, workerVars
<1>2. PICK hit \in SUBSET Tokens :
        /\ tokens[t] \in hit
        /\ info' = [j \in Tokens |-> [info[j] EXCEPT !.revoked = @ \/ j \in hit]]
  <2> DEFINE i == tokens[t]
             tied == {tokens[u] : u \in {info[i].token, info[i].refresh} \ {None}}
  <2>1. info' = [j \in Tokens |->
                   [info[j] EXCEPT !.revoked = @ \/ j = i \/ j \in tied]]
    BY DEF Revoke
  <2>2. i \in Tokens
    BY <1>1
  <2> WITNESS {j \in Tokens : j = i \/ j \in tied} \in SUBSET Tokens
  <2> HIDE DEF tied, i
  <2>3. \A j \in Tokens : 
          (info[j].revoked \/ j = i \/ j \in tied) <=>
             (info[j].revoked \/ j \in {k \in Tokens : k = i \/ k \in tied})
    OBVIOUS
  <2> QED BY <2>1, <2>2, <2>3 DEF i
<1>3. ASSUME NEW j \in Tokens
      PROVE  /\ info'[j] \in Records /\ info'[j].token = info[j].token
             /\ info'[j].refresh = info[j].refresh
             /\ info'[j].revoked = (info[j].revoked \/ j \in hit)
  <2>1. info[j] \in Records
    BY <1>1
  <2>2. (info[j].revoked \/ j \in hit) \in BOOLEAN
    OBVIOUS
  <2> QED BY <2>1, <2>2, <1>2 DEF Records
<1>4. info' \in [Tokens -> Records]
  BY <1>2, <1>3
<1>5. info'[tokens[t]].revoked
  BY <1>1, <1>2, <1>3
<1>6. \A j \in Tokens : info[j].revoked => info'[j].revoked
  BY <1>3
<1>7. \A u \in revoked' \ revoked : tokens'[u] # None => info'[tokens'[u]].revoked
  BY <1>1, <1>5
<1> QED BY <1>1, <1>3, <1>4, <1>6, <1>7 DEF Same, workerVars

LEMMA CleanupSame == ASSUME IInv, CleanupExpired PROVE Same
<1>1. UNCHANGED <<made, workerVars, info, revoked>>
  BY DEF CleanupExpired, workerVars
<1>2. \A t \in Tokens : tokens'[t] \in {tokens[t], None}
  BY DEF CleanupExpired
<1>3. tokens' \in [Tokens -> used \cup {None}]
  BY <1>2 DEF CleanupExpired, IInv, TypeOK
<1> QED BY <1>1, <1>2, <1>3 DEF Same, IInv, TypeOK, workerVars

LEMMA TickSame == ASSUME IInv, Tick PROVE Same
<1>1. UNCHANGED <<made, workerVars, tokens, revoked>>
  BY DEF Tick, workerVars
<1>2. ASSUME NEW i \in Tokens
      PROVE  /\ info'[i] \in Records /\ info'[i].token = info[i].token
             /\ info'[i].refresh = info[i].refresh
             /\ info'[i].revoked = info[i].revoked
  <2>1. info[i] \in Records
    BY DEF IInv, TypeOK
  <2>2. info[i].age < OldAge => info[i].age + 1 \in 0..OldAge
    BY <2>1, BearerAssumption DEF Records, OldAge
  <2>3. info'[i] = [info[i] EXCEPT !.age = IF @ < OldAge /\ ~info[i].revoked
                                           THEN @ + 1 ELSE @]
    BY DEF Tick
  <2> QED BY <2>1, <2>2, <2>3 DEF Records
<1>3. info' \in [Tokens -> Records]
  BY <1>2 DEF Tick
<1> QED BY <1>1, <1>2, <1>3 DEF Same, IInv, TypeOK, workerVars

-----------------------------------------------------------------------------
(* The refresh token r of a login is the number after its first access token, *)
(* whose record r - 1 is the one that every refresh with r looks up.          *)

\* A record with a refresh token was made by the login that made this token or
\* by a refresh; the map has the refresh token under the login's record only.
Family ==
  /\ \A i \in Tokens \ used : info[i].refresh = None
  /\ \A i \in used : info[i].refresh # None =>
        /\ info[i].refresh \in used /\ info[i].refresh - 1 \in used
        /\ info[info[i].refresh - 1].refresh = info[i].refresh
        /\ tokens[info[i].refresh] \in {None, info[i].refresh - 1}
  /\ \A t \in used : \/ tokens[t] \in {None, t}
                     \/ tokens[t] = t - 1 /\ info[t - 1].refresh = t

\* A refresh under way goes on with the login's record.
Callers ==
  \A w \in Workers : pc[w] # "idle" =>
     info[rec[w]].refresh = arg[w] /\ rec[w] = arg[w] - 1

\* The login's record names the access token that is not revoked.
Named ==
  \A t \in used :
     tokens[t] = t /\ ~info[t].revoked => info[info[t].refresh - 1].token = t

Chain == Family /\ Callers /\ Named

LEMMA SameChain == ASSUME IInv, Chain, Same PROVE Chain'
<1> USE BearerAssumption
<1>0. /\ used' = used /\ Tokens' = Tokens /\ used \subseteq Tokens
      /\ pc' = pc /\ arg' = arg /\ rec' = rec /\ None \notin used
      /\ \A i \in Tokens : /\ info'[i].token = info[i].token
                           /\ info'[i].refresh = info[i].refresh
                           /\ info[i].revoked => info'[i].revoked
      /\ \A t \in Tokens : tokens'[t] \in {tokens[t], None}
  BY DEF Same, IInv, TypeOK, used, Tokens
<1>1. Family'
  <2>1. \A i \in Tokens \ used : info'[i].refresh = None
    BY <1>0 DEF Chain, Family
  <2>2. ASSUME NEW i \in used, info'[i].refresh # None
        PROVE  /\ info'[i].refresh \in used /\ info'[i].refresh - 1 \in used
               /\ info'[info'[i].refresh - 1].refresh = info'[i].refresh
               /\ tokens'[info'[i].refresh] \in {None, info'[i].refresh - 1}
    <3>1. info'[i].refresh = info[i].refresh
      BY <1>0
    <3>2. /\ info[i].refresh \in used /\ info[i].refresh - 1 \in used
          /\ info[info[i].refresh - 1].refresh = info[i].refresh
          /\ tokens[info[i].refresh] \in {None, info[i].refresh - 1}
      BY <2>2, <3>1, <1>0 DEF Chain, Family
    <3> QED BY <3>1, <3>2, <1>0
  <2>3. ASSUME NEW t \in used
        PROVE  \/ tokens'[t] \in {None, t}
               \/ tokens'[t] = t - 1 /\ info'[t - 1].refresh = t
    <3>1. CASE tokens'[t] \in {None, t}
      BY <3>1
    <3>2. CASE tokens'[t] \notin {None, t}
      <4>1. tokens'[t] = tokens[t] /\ tokens[t] = t - 1 /\ info[t - 1].refresh = t
        BY <3>2, <1>0 DEF Chain, Family
      <4>2. t - 1 \in Tokens
        BY <4>1, <3>2, <1>0 DEF IInv, TypeOK
      <4> QED BY <4>1, <4>2, <1>0
    <3> QED BY <3>1, <3>2
  <2> QED BY <2>1, <2>2, <2>3, <1>0 DEF Family
<1>2. Callers'
  BY <1>0 DEF Chain, Callers, IInv, TypeOK
<1>3. Named'
  <2> SUFFICES ASSUME NEW t \in used, tokens'[t] = t, ~info'[t].revoked
               PROVE  info'[info'[t].refresh - 1].token = t
    BY <1>0 DEF Named
  <2>1. tokens[t] = t /\ ~info[t].revoked /\ info'[t].refresh = info[t].refresh
    BY <1>0
  <2>2. info[info[t].refresh - 1].token = t
    BY <2>1 DEF Chain, Named
  <2>3. info[t].refresh \in used
    BY <2>1, <1>0 DEF IInv, TypeOK
  <2>4. info[t].refresh - 1 \in Tokens
    BY <2>3, <1>0 DEF Chain, Family
  <2> QED BY <2>1, <2>2, <2>4, <1>0
<1> QED BY <1>1, <1>2, <1>3 DEF Chain

LEMMA LoginChains == ASSUME IInv, Chain, Authenticate PROVE Chain'
<1> USE BearerAssumption
<1> DEFINE access == made + 1
           refresh == made + 2
<1>0. /\ made \in Nat /\ access \in Tokens /\ refresh \in Tokens
      /\ used \subseteq Tokens /\ used' = used \cup {access, refresh}
      /\ access \notin used /\ refresh \notin used /\ Tokens' = Tokens
      /\ refresh - 1 = access /\ access # refresh /\ None \notin Tokens
      /\ \A t \in used : t # access /\ t # refresh
  BY DEF IInv, TypeOK, used, Tokens, Authenticate
<1>1. /\ info' = [info EXCEPT ![access] = NewRecord(access, refresh)]
      /\ tokens' = [tokens EXCEPT ![access] = access, ![refresh] = access]
      /\ pc' = pc /\ arg' = arg /\ rec' = rec
  BY DEF Authenticate, workerVars
<1> HIDE DEF access, refresh
<1>2. /\ info'[access].refresh = refresh /\ info'[access].token = access
      /\ \A i \in Tokens : i # access => info'[i] = info[i]
      /\ tokens'[access] = access /\ tokens'[refresh] = access
      /\ \A t \in Tokens : t \notin {access, refresh} => tokens'[t] = tokens[t]
      /\ info[refresh].refresh = None
  BY <1>0, <1>1 DEF NewRecord, IInv, TypeOK, Chain, Family
<1>3. ASSUME NEW i \in used, info[i].refresh # None
      PROVE  /\ info[i].refresh \in used /\ info[i].refresh - 1 \in used
             /\ info[info[i].refresh - 1].refresh = info[i].refresh
             /\ tokens[info[i].refresh] \in {None, info[i].refresh - 1}
  BY <1>3 DEF Chain, Family
<1>4. Family'
  <2>1. \A i \in Tokens \ used' : info'[i].refresh = None
    BY <1>0, <1>2 DEF Chain, Family
  <2>2. ASSUME NEW i \in used', info'[i].refresh # None
        PROVE  /\ info'[i].refresh \in used' /\ info'[i].refresh - 1 \in used'
               /\ info'[info'[i].refresh - 1].refresh = info'[i].refresh
               /\ tokens'[info'[i].refresh] \in {None, info'[i].refresh - 1}
    <3>1. CASE i = access
      BY <3>1, <1>0, <1>2
    <3>2. CASE i \in used
      <4>1. info'[i] = info[i]
        BY <3>2, <1>0, <1>2
      <4> QED BY <2>2, <3>2, <4>1, <1>0, <1>2, <1>3
    <3> QED BY <2>2, <3>1, <3>2, <1>0, <1>2
  <2>3. ASSUME NEW t \in used'
        PROVE  \/ tokens'[t] \in {None, t}
               \/ tokens'[t] = t - 1 /\ info'[t - 1].refresh = t
    <3>1. CASE t \in {access, refresh}
      BY <3>1, <1>0, <1>2
    <3>2. CASE t \in used
      <4>1. tokens'[t] = tokens[t] /\ tokens[t] \in used \cup {None}
        BY <3>2, <1>0, <1>2 DEF IInv, TypeOK
      <4> QED BY <3>2, <4>1, <1>0, <1>2 DEF Chain, Family
    <3> QED BY <3>1, <3>2, <1>0
  <2> QED BY <2>1, <2>2, <2>3, <1>0 DEF Family
<1>5. Callers'
  <2> SUFFICES ASSUME NEW w \in Workers, pc[w] # "idle"
               PROVE  info'[rec[w]].refresh = arg[w] /\ rec[w] = arg[w] - 1
    BY <1>1 DEF Callers
  <2>1. rec[w] \in used
    BY DEF IInv, TypeOK
  <2> QED BY <2>1, <1>0, <1>2 DEF Chain, Callers
<1>6. Named'
  <2> SUFFICES ASSUME NEW t \in used', tokens'[t] = t, ~info'[t].revoked
               PROVE  info'[info'[t].refresh - 1].token = t
    BY DEF Named
  <2>1. CASE t \in {access, refresh}
    BY <2>1, <1>0, <1>2
  <2>2. CASE t \in used
    <3>1. tokens[t] = t /\ info'[t] = info[t]
      BY <2>2, <1>0, <1>2
    <3>2. info[t].refresh # None
      BY <2>2, <3>1, <1>0 DEF IInv, TypeOK
    <3>3. info[t].refresh - 1 \in used
      BY <2>2, <3>2, <1>3
    <3>4. info[info[t].refresh - 1].token = t
      BY <2>2, <3>1 DEF Chain, Named
    <3> QED BY <3>1, <3>3, <3>4, <1>0, <1>2
  <2> QED BY <2>1, <2>2, <1>0
<1> QED BY <1>4, <1>5, <1>6 DEF Chain

LEMMA StoreChains == ASSUME NEW w \in Workers, IInv, Chain, RefreshStore(w) PROVE Chain'
<1> USE BearerAssumption
<1> DEFINE r == arg[w]
<1>1. /\ made \in Nat /\ New \in Tokens /\ New \notin used
      /\ used \subseteq Tokens /\ used' = used \cup {New} /\ Tokens' = Tokens
      /\ r \in used /\ rec[w] \in used /\ Return(w)
      /\ tokens' = [tokens EXCEPT ![New] = New] /\ pc[w] = "store"
      /\ None \notin Tokens
  BY StoreEffect DEF Tokens
<1>2. \A i \in Tokens : Stored(w, i)
  BY StoreEffect
<1>3. /\ rec[w] = r - 1 /\ info[rec[w]].refresh = r
      /\ tokens[r] \in {None, r - 1}
  BY <1>1 DEF Chain, Callers, Family
<1>4. /\ tokens'[New] = New /\ info'[New].refresh = r
      /\ \A t \in Tokens : t # New => tokens'[t] = tokens[t]
      /\ \A i \in Tokens : i # New => info'[i].refresh = info[i].refresh
  BY <1>1, <1>2 DEF Stored, IInv, TypeOK
<1> HIDE DEF r
<1>5. ASSUME NEW i \in used, info[i].refresh # None
      PROVE  /\ info[i].refresh \in used /\ info[i].refresh - 1 \in used
             /\ info[info[i].refresh - 1].refresh = info[i].refresh
             /\ tokens[info[i].refresh] \in {None, info[i].refresh - 1}
  BY <1>5 DEF Chain, Family
<1>6. Family'
  <2>1. \A i \in Tokens \ used' : info'[i].refresh = None
    BY <1>1, <1>4 DEF Chain, Family
  <2>2. ASSUME NEW i \in used', info'[i].refresh # None
        PROVE  /\ info'[i].refresh \in used' /\ info'[i].refresh - 1 \in used'
               /\ info'[info'[i].refresh - 1].refresh = info'[i].refresh
               /\ tokens'[info'[i].refresh] \in {None, info'[i].refresh - 1}
    <3>1. CASE i = New
      BY <3>1, <1>1, <1>3, <1>4
    <3>2. CASE i \in used
      <4>1. info'[i].refresh = info[i].refresh
        BY <3>2, <1>1, <1>4
      <4> QED BY <2>2, <3>2, <4>1, <1>1, <1>4, <1>5
    <3> QED BY <3>1, <3>2, <1>1
  <2>3. ASSUME NEW t \in used'
        PROVE  \/ tokens'[t] \in {None, t}
               \/ tokens'[t] = t - 1 /\ info'[t - 1].refresh = t
    <3>1. CASE t = New
      BY <3>1, <1>4
    <3>2. CASE t \in used
      <4>1. tokens'[t] = tokens[t] /\ tokens[t] \in used \cup {None}
        BY <3>2, <1>1, <1>4 DEF IInv, TypeOK
      <4> QED BY <3>2, <4>1, <1>1, <1>4 DEF Chain, Family
    <3> QED BY <3>1, <3>2, <1>1
  <2> QED BY <2>1, <2>2, <2>3, <1>1 DEF Family
<1>7. Callers'
  <2> SUFFICES ASSUME NEW v \in Workers, pc'[v] # "idle"
               PROVE  info'[rec'[v]].refresh = arg'[v] /\ rec'[v] = arg'[v] - 1
    BY DEF Callers
  <2>1. v # w /\ pc[v] = pc'[v] /\ rec'[v] = rec[v] /\ arg'[v] = arg[v]
    BY <1>1 DEF Return, IInv, TypeOK
  <2>2. rec[v] \in used
    BY <2>1 DEF IInv, TypeOK
  <2> QED BY <2>1, <2>2, <1>1, <1>4 DEF Chain, Callers
<1>8. Named'
  <2> SUFFICES ASSUME NEW t \in used', tokens'[t] = t, ~info'[t].revoked
               PROVE  info'[info'[t].refresh - 1].token = t
    BY DEF Named
  <2>1. CASE t = New
    BY <2>1, <1>1, <1>2, <1>3, <1>4 DEF Stored
  <2>2. CASE t \in used
    <3> DEFINE q == info[t].refresh
    <3>1. tokens[t] = t /\ info'[t].refresh = q /\ t # New /\ t # None
      BY <2>2, <1>1, <1>4
    <3>2. info'[t].revoked = (info[t].revoked \/ t = Victim(w))
      BY <2>2, <3>1, <1>1, <1>2 DEF Stored
    <3>3. ~info[t].revoked /\ t # Victim(w)
      BY <3>2
    <3>4. q # None
      BY <2>2, <3>1, <1>1 DEF IInv, TypeOK
    <3>5. q \in used /\ q - 1 \in used
      BY <2>2, <3>4, <1>5
    <3>6. info[q - 1].token = t
      BY <2>2, <3>1, <3>3 DEF Chain, Named
    <3>7. q - 1 # rec[w]
      BY <3>1, <3>3, <3>6 DEF Victim
    <3>8. info'[q - 1].token = info[q - 1].token
      BY <3>5, <3>7, <1>1, <1>2 DEF Stored
    <3> QED BY <3>1, <3>6, <3>8
  <2> QED BY <2>1, <2>2, <1>1
<1> QED BY <1>6, <1>7, <1>8 DEF Chain

LEMMA CallChains ==
  ASSUME NEW w \in Workers, NEW t \in used, IInv, Chain,
         Refresh(w, t) \/ RefreshCheck(w)
  PROVE  Chain'
<1>1. /\ UNCHANGED storeVars /\ used' = used /\ Tokens' = Tokens
  BY DEF Refresh, RefreshCheck, storeVars, used, Tokens
<1>2. Callers'
  <2>1. CASE Refresh(w, t)
    <3>1. tokens[t] \in used /\ info[tokens[t]].refresh = t /\ t # None
      BY <2>1, BearerAssumption DEF Refresh, IInv, TypeOK, used, Tokens
    <3>2. tokens[t] = t - 1
      BY <2>1, <3>1 DEF Refresh, Chain, Family
    <3> QED BY <2>1, <3>1, <3>2, <1>1
            DEF Refresh, Begin, Chain, Callers, IInv, TypeOK, storeVars
  <2>2. CASE RefreshCheck(w)
    BY <2>2, <1>1 DEF RefreshCheck, Return, Chain, Callers, IInv, TypeOK, storeVars
  <2> QED BY <2>1, <2>2
<1> QED BY <1>1, <1>2 DEF storeVars, Chain, Family, Named

-----------------------------------------------------------------------------
(* The theorems *)

LEMMA ChainStarts == Init => Chain
  BY DEF Init, Chain, Family, Callers, Named, used, NoRecord

LEMMA NextTokens == IInv /\ Chain /\ [Next]_vars => IInv' /\ Chain'
<1> SUFFICES ASSUME IInv, Chain, [Next]_vars PROVE IInv' /\ Chain'
  OBVIOUS
<1>1. CASE UNCHANGED vars
  BY <1>1 DEF vars, storeVars, workerVars, IInv, TypeOK, Unborn, RevokedForGood,
              used, Tokens, Chain, Family, Callers, Named
<1>2. CASE Authenticate
  BY <1>2, LoginKeeps, LoginChains
<1>3. CASE CleanupExpired \/ Tick \/ \E t \in used : Revoke(t)
  <2>1. Same
    BY <1>3, CleanupSame, TickSame, RevokeSame
  <2> QED BY <2>1, SameKeeps, SameChain
<1>4. ASSUME NEW w \in Workers,
             (\E t \in used : Refresh(w, t)) \/ RefreshCheck(w) \/ RefreshStore(w)
      PROVE  IInv' /\ Chain'
  <2>1. CASE \E t \in used : Refresh(w, t)
    BY <2>1, CallKeeps, CallChains
  <2>2. CASE RefreshCheck(w)
    <3>1. arg[w] \in used
      BY <2>2 DEF RefreshCheck, IInv, TypeOK
    <3> QED BY <2>2, <3>1, CallKeeps, CallChains
  <2> QED BY <1>4, <2>1, <2>2, StoreKeeps, StoreChains
<1> QED BY <1>1, <1>2, <1>3, <1>4 DEF Next

\* IInv and Chain hold of every reachable state: types, map entries only for
\* tokens that exist, revocations that nothing undoes, and the links between
\* the records of one refresh token.
THEOREM TokensInductive == Spec => [](IInv /\ Chain)
BY NextTokens, Start, ChainStarts, PTL DEF Spec

\* The provider's map and records keep their types (bearer.go:28-37).
THEOREM TokensTypeCorrect == Spec => []TypeOK
<1>1. IInv => TypeOK
  BY DEF IInv
<1> QED BY <1>1, TokensInductive, PTL

\* A revoked token stays revoked, for any number of concurrent refreshes
\* (bearer.go:280-303).
THEOREM RevocationIsFinal == Spec => []RevokedForGood
<1>1. IInv => RevokedForGood
  BY DEF IInv
<1> QED BY <1>1, TokensInductive, PTL

\* The access token of r that is not revoked is the one the login's record names.
LEMMA LiveIsNamed ==
  ASSUME IInv, Chain, NEW r \in used, NEW t \in LiveAccess(r)
  PROVE  r - 1 \in used /\ info[r - 1].token = t /\ tokens[r] \in {None, r - 1}
<1>1. /\ t \in Tokens /\ t # r /\ tokens[t] # None
      /\ info[tokens[t]].refresh = r /\ ~info[tokens[t]].revoked
  BY DEF LiveAccess
<1>2. t \in used /\ tokens[t] \in used /\ r # None
  BY <1>1, BearerAssumption DEF IInv, TypeOK, Unborn, used
<1>3. tokens[t] = t
  BY <1>1, <1>2 DEF Chain, Family
<1> QED BY <1>1, <1>2, <1>3 DEF Chain, Family, Named

\* One refresh token has at most one access token that is not revoked, however
\* many refreshes with it run at once (bearer.go:257-265).
THEOREM OneAccessPerRefresh == Spec => []OneLiveAccess
<1>1. IInv /\ Chain => OneLiveAccess
  <2> SUFFICES ASSUME IInv, Chain, NEW r \in used
               PROVE  Cardinality(LiveAccess(r)) <= 1
    BY DEF OneLiveAccess
  <2>1. LiveAccess(r) \subseteq {info[r - 1].token}
    BY LiveIsNamed
  <2>2. LiveAccess(r) = {} \/ LiveAccess(r) = {info[r - 1].token}
    BY <2>1
  <2>3. CASE LiveAccess(r) = {}
    BY <2>3, FS_EmptySet
  <2>4. CASE LiveAccess(r) = {info[r - 1].token}
    <3>1. Cardinality({info[r - 1].token}) = 1
      BY FS_Singleton
    <3> QED BY <2>4, <3>1
  <2> QED BY <2>2, <2>3, <2>4
<1> QED BY <1>1, TokensInductive, PTL

\* Revoke of a refresh token finds its access token (bearer.go:291-301).
THEOREM RevocationFindsAccess == Spec => []ChainRevocable
<1>1. IInv /\ Chain => ChainRevocable
  <2> SUFFICES ASSUME IInv, Chain, NEW r \in used, tokens[r] # None,
                      NEW t \in LiveAccess(r)
               PROVE  info[tokens[r]].token = t
    BY DEF ChainRevocable
  <2> QED BY LiveIsNamed
<1> QED BY <1>1, TokensInductive, PTL

-----------------------------------------------------------------------------
(* RBACProvider                                                             *)

\* How many read locks a check holds: one for HasPermission and one for the
\* CanAccessResource around it, which may go on to another permission.
LocksHeld ==
  \A r \in Readers :
    /\ stage[r] \in {"idle", "granted", "denied"} => holds[r] = 0
    /\ stage[r] = "has" => holds[r] = 1
    /\ stage[r] \in {"roles", "walk"} => holds[r] = 2 \/ (holds[r] = 1 /\ Len(need[r]) = 1)
    /\ stage[r] \in {"has", "roles", "walk"} => need[r] # <<>>

RBACInv == RBACTypeOK /\ LocksHeld /\ AssignedRolesExist

\* A writer's section leaves the readers alone.
LEMMA WriteKeeps ==
  ASSUME RBACInv, NEW w \in Writers, Write(w) \/ Lock(w)
  PROVE  announced' \in Seq(Writers) /\ checks' = checks
<1>1. CASE Write(w)
  <2>1. announced \in Seq(Writers) /\ announced # <<>> /\ announced' = Tail(announced)
    BY <1>1 DEF Write, RBACInv, RBACTypeOK
  <2>2. announced' \in Seq(Writers) BY <2>1
  <2> QED BY <1>1, <2>2 DEF Write
<1>2. CASE Lock(w)
  BY <1>2 DEF Lock, RBACInv, RBACTypeOK
<1> QED BY <1>1, <1>2

LEMMA AdministerKeeps ==
  ASSUME RBACInv, NEW w \in Writers, Administer(w) \/ Lock(w)
  PROVE  RBACInv'
<1>1. /\ announced' \in Seq(Writers) /\ holds' = holds /\ stage' = stage
      /\ user' = user /\ need' = need
  <2>1. Write(w) \/ Lock(w)
    BY DEF Administer, CreateRole, DeleteRole, DeleteDefaultRole, AssignRole, RemoveRole,
           SetResourcePermissions
  <2> QED BY <2>1, WriteKeeps DEF checks
<1>2. /\ DOMAIN roles' = RoleNames /\ userRoles' \in [Users -> SUBSET RoleNames]
      /\ required' \in Requirements /\ AssignedRolesExist'
  <2> USE DEF RBACInv, RBACTypeOK, AssignedRolesExist, Known
  <2>1. CASE Lock(w) BY <2>1 DEF Lock, tables
  <2>2. CASE CreateRole(w)
    <3>1. PICK n \in DOMAIN RolesToMake :
            roles' = IF n \in Known THEN roles ELSE [roles EXCEPT ![n] = RolesToMake[n]]
      BY <2>2 DEF CreateRole
    <3>2. DOMAIN roles' = RoleNames BY <3>1
    <3>3. \A m \in Known : m \in RoleNames /\ roles'[m] = roles[m] BY <3>1
    <3> QED BY <2>2, <3>2, <3>3 DEF CreateRole
  <2>3. CASE DeleteRole(w)
    <3>1. PICK n \in RoleNames : /\ roles' = [roles EXCEPT ![n] = NoRole]
                                 /\ userRoles' = [u \in Users |-> userRoles[u] \ {n}]
      BY <2>3 DEF DeleteRole
    <3>2. DOMAIN roles' = RoleNames BY <3>1
    <3>3. \A m \in RoleNames \ {n} : roles'[m] = roles[m] BY <3>1
    <3> QED BY <2>3, <3>1, <3>2, <3>3 DEF DeleteRole
  <2>4. CASE DeleteDefaultRole(w) BY <2>4 DEF DeleteDefaultRole, tables
  <2>5. CASE AssignRole(w) BY <2>5 DEF AssignRole
  <2>6. CASE RemoveRole(w) BY <2>6 DEF RemoveRole
  <2>7. CASE SetResourcePermissions(w) BY <2>7 DEF SetResourcePermissions
  <2> QED BY <2>1, <2>2, <2>3, <2>4, <2>5, <2>6, <2>7 DEF Administer
<1> QED BY <1>1, <1>2 DEF RBACInv, RBACTypeOK, LocksHeld

LEMMA CheckKeeps ==
  ASSUME RBACInv, NEW r \in Readers,
         CanAccessResource(r) \/ HasPermission(r) \/ EnforceRole(r) \/ Check(r)
  PROVE  RBACInv'
<1> USE RBACAssumption DEF RBACInv, RBACTypeOK, LocksHeld
<1>1. AssignedRolesExist' /\ UNCHANGED <<tables, announced>>
  BY DEF CanAccessResource, HasPermission, EnforceRole, Check, HasPermissionInner,
         GetUserRoles, Decide, AssignedRolesExist, Known, tables
<1>2. CASE CanAccessResource(r)
  <2>1. PICK u \in Users : user' = [user EXCEPT ![r] = u]
    BY <1>2 DEF CanAccessResource
  <2>2. holds[r] = 0 BY <1>2 DEF CanAccessResource, Free
  <2>3. required \in Seq(Asked) /\ required # <<>> OBVIOUS
  <2>4. /\ stage' = [stage EXCEPT ![r] = "has"] /\ holds' = [holds EXCEPT ![r] = 1]
        /\ need' = [need EXCEPT ![r] = required]
    <3>1. holds' = [holds EXCEPT ![r] = holds[r] + 1]
      BY <1>2 DEF CanAccessResource, RLock
    <3>2. holds[r] + 1 = 1 BY <2>2
    <3>3. holds' = [holds EXCEPT ![r] = 1] BY <3>1, <3>2
    <3> QED BY <1>2, <3>3 DEF CanAccessResource
  <2> QED BY <1>1, <2>1, <2>3, <2>4 DEF tables
<1>3. CASE HasPermission(r)
  <2>1. PICK u \in Users, p \in Asked : /\ user' = [user EXCEPT ![r] = u]
                                       /\ need' = [need EXCEPT ![r] = <<p>>]
    BY <1>3 DEF HasPermission
  <2> DEFINE q == <<p>>
  <2>2. q \in Seq(Asked) /\ q # <<>> /\ Len(q) = 1 OBVIOUS
  <2>3. /\ stage' = [stage EXCEPT ![r] = "roles"] /\ holds' = [holds EXCEPT ![r] = 1]
        /\ need' = [need EXCEPT ![r] = q]
    <3>1. holds[r] = 0 BY <1>3 DEF HasPermission, Free
    <3>2. holds' = [holds EXCEPT ![r] = holds[r] + 1] BY <1>3 DEF HasPermission, RLock
    <3>3. holds[r] + 1 = 1 BY <3>1
    <3>4. holds' = [holds EXCEPT ![r] = 1] BY <3>2, <3>3
    <3> QED BY <1>3, <2>1, <3>4 DEF HasPermission
  <2> HIDE DEF q
  <2> QED BY <1>1, <2>1, <2>2, <2>3 DEF tables
<1>4. CASE EnforceRole(r)
  BY <1>1, <1>4 DEF EnforceRole, Free, tables
<1>5. CASE HasPermissionInner(r)
  BY <1>1, <1>5 DEF HasPermissionInner, Goto, RLock, tables
<1>6. CASE GetUserRoles(r)
  BY <1>1, <1>6 DEF GetUserRoles, Goto, tables
<1>7. CASE Decide(r)
  <2> DEFINE ok == Allowed(user[r], Head(need[r]))
  <2>0. stage[r] = "walk" BY <1>7 DEF Decide
  <2>a. need[r] \in Seq(Asked) OBVIOUS
  <2>b. need[r] # <<>> /\ (holds[r] = 2 \/ (holds[r] = 1 /\ Len(need[r]) = 1))
    BY <2>0
  <2>1. need[r] \in Seq(Asked) /\ need[r] # <<>> /\ stage[r] = "walk" /\ holds[r] \in {1, 2}
    BY <2>0, <2>a, <2>b
  <2>2. CASE ok \/ Len(need[r]) = 1
    <3>1. /\ stage' = [stage EXCEPT ![r] = IF ok THEN "granted" ELSE "denied"]
          /\ holds' = [holds EXCEPT ![r] = @ - holds[r]]
          /\ need' = [need EXCEPT ![r] = <<>>] /\ user' = user
      BY <1>7, <2>2 DEF Decide, RUnlock
    <3> HIDE DEF ok
    <3> QED BY <1>1, <2>1, <3>1 DEF tables
  <2>3. CASE ~(ok \/ Len(need[r]) = 1)
    <3>1. /\ stage' = [stage EXCEPT ![r] = "has"] /\ holds' = [holds EXCEPT ![r] = @ - 1]
          /\ need' = [need EXCEPT ![r] = Tail(@)] /\ user' = user
      BY <1>7, <2>3 DEF Decide, RUnlock
    <3>2. Tail(need[r]) \in Seq(Asked) /\ Tail(need[r]) # <<>>
      <4>1. Len(need[r]) \in Nat \ {0} /\ Len(need[r]) # 1 BY <2>1, <2>3, EmptySeq
      <4>2. Tail(need[r]) \in Seq(Asked) /\ Len(Tail(need[r])) = Len(need[r]) - 1
        BY <2>1, HeadTailProperties
      <4>3. Len(Tail(need[r])) # 0 BY <4>1, <4>2
      <4> QED BY <4>2, <4>3, EmptySeq
    <3>3. holds[r] = 2 BY <2>b, <2>3
    <3> QED BY <1>1, <2>1, <3>1, <3>2, <3>3 DEF tables
  <2> QED BY <2>2, <2>3
<1> QED BY <1>2, <1>3, <1>4, <1>5, <1>6, <1>7 DEF Check

LEMMA RBACStarts == ASSUME RBACInit PROVE RBACInv
<1> USE RBACAssumption DEF RBACInit
<1>1. (CHOOSE u \in Users : TRUE) \in Users OBVIOUS
<1>2. RBACTypeOK
  <2>1. user \in [Readers -> Users] BY <1>1
  <2> QED BY <2>1 DEF RBACTypeOK
<1> QED BY <1>2 DEF RBACInv, LocksHeld, AssignedRolesExist

LEMMA NextRBACInv == RBACInv /\ [RBACNext]_rbacvars => RBACInv'
<1>1. ASSUME RBACInv, UNCHANGED rbacvars PROVE RBACInv'
  BY <1>1 DEF rbacvars, RBACInv, RBACTypeOK, LocksHeld, AssignedRolesExist, Known
<1> QED BY <1>1, AdministerKeeps, CheckKeeps DEF RBACNext

\* The inductive invariant of RBACProvider: the locks a check holds at each step
\* of HasPermission and CanAccessResource (rbac.go:149-226), and the roles.
THEOREM RolesInductive == RBACSpec => []RBACInv
BY NextRBACInv, RBACStarts, PTL DEF RBACSpec

\* The tables, the lock and the checks keep their types: a check holds at most
\* three read locks, those of its two nested calls included (rbac.go:150, 199).
THEOREM RolesTypeCorrect == RBACSpec => []RBACTypeOK
BY RolesInductive, PTL DEF RBACInv

\* A deleted role is gone from every user, for any roles, users, readers and
\* writers (rbac.go:99-102).
THEOREM DeletedRolesAreGone == RBACSpec => []AssignedRolesExist
BY RolesInductive, PTL DEF RBACInv

-----------------------------------------------------------------------------
(* CallToolStreaming                                                        *)

\* Once CallToolStreaming has returned a result, its update handler does not
\* run any more (streaming.go:178), whatever the capacity of the channel and
\* the number of progress notifications: no step but the next call starts the
\* goroutine for updates again.
THEOREM ResultsAreLast == StreamingSpec => []NoUpdateAfterResult
<1>1. StreamingInit => NoUpdateAfterResult
  BY DEF StreamingInit, NoUpdateAfterResult
<1>2. NoUpdateAfterResult /\ [StreamingNext]_streamvars => NoUpdateAfterResult'
  <2> SUFFICES ASSUME NoUpdateAfterResult, [StreamingNext]_streamvars
               PROVE  NoUpdateAfterResult'
    OBVIOUS
  <2> USE DEF NoUpdateAfterResult
  <2>1. CASE UNCHANGED streamvars BY <2>1 DEF streamvars
  <2>2. CASE StartStreaming BY <2>2 DEF StartStreaming
  <2>3. CASE ContextEnds BY <2>3 DEF ContextEnds
  <2>4. CASE UpdaterSelect BY <2>4 DEF UpdaterSelect
  <2>5. CASE UpdateHandled BY <2>5 DEF UpdateHandled
  <2>6. CASE Progress BY <2>6 DEF Progress
  <2>7. CASE HandleProgress BY <2>7 DEF HandleProgress
  <2>8. CASE SendStreamingRequest BY <2>8 DEF SendStreamingRequest
  <2>9. CASE SelectReply BY <2>9 DEF SelectReply, ReturnWith
  <2>10. CASE WaitForUpdates BY <2>10 DEF WaitForUpdates
  <2> QED BY <2>1, <2>2, <2>3, <2>4, <2>5, <2>6, <2>7, <2>8, <2>9, <2>10 DEF StreamingNext
<1> QED BY <1>1, <1>2, PTL DEF StreamingSpec

\* Every variable of a streaming call keeps its type: the channel never holds
\* more than its capacity (streaming.go:60), and no counter runs past its bound.
LEMMA NextStreamingTypes ==
  ASSUME StreamingTypeOK, [StreamingNext]_streamvars
  PROVE  StreamingTypeOK'
<1>0. /\ 0 \in 0..UpdateCap /\ 0 \in 0..MaxProgress
      /\ calls < MaxCalls => calls + 1 \in 0..MaxCalls
  BY StreamingAssumption DEF StreamingTypeOK
<1>2. CASE StartStreaming BY <1>0, <1>2 DEF StartStreaming, StreamingTypeOK
<1> USE StreamingAssumption DEF StreamingTypeOK
<1>1. CASE UNCHANGED streamvars BY <1>1 DEF streamvars
<1>3. CASE ContextEnds BY <1>3 DEF ContextEnds
<1>4. CASE UpdaterSelect BY <1>4 DEF UpdaterSelect
<1>5. CASE UpdateHandled BY <1>5 DEF UpdateHandled
<1>6. CASE Progress BY <1>6 DEF Progress
<1>7. CASE HandleProgress BY <1>7 DEF HandleProgress
<1>8. CASE SendStreamingRequest BY <1>8 DEF SendStreamingRequest
<1>9. CASE SelectReply BY <1>9 DEF SelectReply, ReturnWith
<1>10. CASE WaitForUpdates BY <1>10 DEF WaitForUpdates
<1> QED BY <1>1, <1>2, <1>3, <1>4, <1>5, <1>6, <1>7, <1>8, <1>9, <1>10 DEF StreamingNext

LEMMA StreamingStarts == StreamingInit => StreamingTypeOK
<1>1. 0 \in 0..UpdateCap /\ 0 \in 0..MaxProgress /\ 0 \in 0..MaxCalls
  BY StreamingAssumption
<1> QED BY <1>1 DEF StreamingInit, StreamingTypeOK

\* Whatever client, updater and handler do, the update channel stays within its
\* capacity and the counters within their bounds (streaming.go:60).
THEOREM StreamingTypeCorrect == StreamingSpec => []StreamingTypeOK
<1>1. StreamingTypeOK /\ [StreamingNext]_streamvars => StreamingTypeOK'
  BY NextStreamingTypes
<1> QED BY <1>1, StreamingStarts, PTL DEF StreamingSpec

-----------------------------------------------------------------------------
(* TransportMetrics                                                         *)

Objects == [n : Nat, ns : Nat]

CountersTyped ==
  /\ objects \in [Kinds \X Counters -> Seq(Objects)]
  /\ doing \in [Goroutines -> Counters \cup {"idle", "inner"}]
  /\ step \in [Goroutines -> {"lookup", "create", "add", "sum"}]
  /\ held \in [Goroutines -> Nat]
  /\ method \in [Goroutines -> Kinds]

\* A counter is created once, whoever races for it.
OneObject == \A x \in Kinds \X Counters : Len(objects[x]) <= 1

\* A goroutine that is to add has the object of the map in its hand.
HoldsTheLive ==
  \A g \in Goroutines :
    /\ step[g] \in {"add", "sum"} =>
         doing[g] \in Counters /\ held[g] = 1 /\ Len(objects[<<method[g], doing[g]>>]) = 1
    /\ step[g] = "sum" => doing[g] = "duration"

MetricsInv == CountersTyped /\ OneObject /\ HoldsTheLive /\ CountsAddUp

LEMMA AtMostOne ==
  ASSUME NEW S, NEW s \in Seq(S), Len(s) <= 1
  PROVE  /\ Len(s) \in {0, 1}
         /\ Len(s) = 0 => s = <<>>
         /\ Len(s) = 1 => s # <<>> /\ s[1] \in S
<1>1. Len(s) \in {0, 1}
  <2>1. Len(s) \in Nat BY LenProperties
  <2>2. \A n \in Nat : n <= 1 => n \in {0, 1} OBVIOUS
  <2> QED BY <2>1, <2>2
<1>2. Len(s) = 0 => s = <<>>
  BY EmptySeq
<1>3. Len(s) = 1 => s # <<>> /\ s[1] \in S
  BY EmptySeq, ElementOfSeq
<1> QED BY <1>1, <1>2, <1>3

LEMMA ReplaceOnly ==
  ASSUME NEW S, NEW s \in Seq(S), Len(s) = 1, NEW e \in S
  PROVE  /\ [s EXCEPT ![1] = e] \in Seq(S)
         /\ Len([s EXCEPT ![1] = e]) = 1
         /\ [s EXCEPT ![1] = e][1] = e
BY ExceptSeq

\* The value of a counter is the n of its object, 0 without one.
LEMMA CountIs ==
  ASSUME CountersTyped, OneObject, NEW k \in Kinds, NEW c \in Counters
  PROVE  /\ Count(k, c) \in Nat
         /\ Len(objects[<<k, c>>]) = 0 => Count(k, c) = 0
         /\ Len(objects[<<k, c>>]) = 1 => Count(k, c) = objects[<<k, c>>][1].n
<1> DEFINE s == objects[<<k, c>>]
<1>1. s \in Seq(Objects) /\ Len(s) <= 1
  BY DEF CountersTyped, OneObject
<1>2. Count(k, c) = IF s = <<>> THEN 0 ELSE s[Len(s)].n
  BY DEF Count
<1> HIDE DEF s
<1>3. CASE Len(s) = 0
  <2>1. s = <<>> BY <1>1, <1>3, AtMostOne
  <2> QED BY <1>2, <1>3, <2>1 DEF s
<1>4. CASE Len(s) = 1
  <2>1. s # <<>> /\ s[1] \in Objects BY <1>1, <1>4, AtMostOne
  <2>2. Count(k, c) = s[1].n BY <1>2, <1>4, <2>1
  <2>3. s[1].n \in Nat BY <2>1 DEF Objects
  <2> QED BY <1>4, <2>2, <2>3 DEF s
<1> QED BY <1>1, <1>3, <1>4, AtMostOne

\* Adding to one field of a single object.
LEMMA Bumped ==
  ASSUME NEW q \in Seq(Objects), Len(q) = 1
  PROVE  /\ [q EXCEPT ![1].n = @ + 1] \in Seq(Objects)
         /\ Len([q EXCEPT ![1].n = @ + 1]) = 1
         /\ [q EXCEPT ![1].n = @ + 1][1].n = q[1].n + 1
         /\ [q EXCEPT ![1].ns = @ + 1] \in Seq(Objects)
         /\ Len([q EXCEPT ![1].ns = @ + 1]) = 1
         /\ [q EXCEPT ![1].ns = @ + 1][1].n = q[1].n
<1> DEFINE e == [q[1] EXCEPT !.n = @ + 1]
           o == [q[1] EXCEPT !.ns = @ + 1]
<1>1. q[1] \in Objects
  BY AtMostOne
<1>2. e \in Objects /\ e.n = q[1].n + 1 /\ o \in Objects /\ o.n = q[1].n
  BY <1>1 DEF Objects
<1>3. /\ [q EXCEPT ![1].n = @ + 1] = [q EXCEPT ![1] = e]
      /\ [q EXCEPT ![1].ns = @ + 1] = [q EXCEPT ![1] = o]
  OBVIOUS
<1> HIDE DEF e, o
<1>4. /\ [q EXCEPT ![1] = e] \in Seq(Objects)
      /\ Len([q EXCEPT ![1] = e]) = 1 /\ [q EXCEPT ![1] = e][1] = e
  BY <1>2, ReplaceOnly
<1>5. /\ [q EXCEPT ![1] = o] \in Seq(Objects)
      /\ Len([q EXCEPT ![1] = o]) = 1 /\ [q EXCEPT ![1] = o][1] = o
  BY <1>2, ReplaceOnly
<1> QED BY <1>2, <1>3, <1>4, <1>5

\* One more of counter c of kind k, and of no other.
Hit(j, d, k, c) == IF j = k /\ d = c THEN 1 ELSE 0

\* A new value for the one object of a counter moves that counter alone.
LEMMA Replaced ==
  ASSUME CountersTyped, OneObject, NEW k \in Kinds, NEW c \in Counters,
         Len(objects[<<k, c>>]) = 1, NEW s \in Seq(Objects), Len(s) = 1,
         objects' = [objects EXCEPT ![<<k, c>>] = s]
  PROVE  /\ objects' \in [Kinds \X Counters -> Seq(Objects)]
         /\ \A x \in Kinds \X Counters : Len(objects'[x]) = Len(objects[x])
         /\ s[1].n = objects[<<k, c>>][1].n + 1 =>
              \A j \in Kinds, d \in Counters :
                Count(j, d)' = Count(j, d) + Hit(j, d, k, c)
         /\ s[1].n = objects[<<k, c>>][1].n =>
              \A j \in Kinds, d \in Counters : Count(j, d)' = Count(j, d)
<1> DEFINE x == <<k, c>>
<1>1. objects' \in [Kinds \X Counters -> Seq(Objects)]
  BY DEF CountersTyped
<1>2. \A y \in Kinds \X Counters : objects'[y] = IF y = x THEN s ELSE objects[y]
  BY DEF CountersTyped
<1>3. ASSUME NEW j \in Kinds, NEW d \in Counters
      PROVE  Count(j, d)' = IF j = k /\ d = c THEN s[1].n ELSE Count(j, d)
  <2>1. <<j, d>> \in Kinds \X Counters
    OBVIOUS
  <2>2. CASE j = k /\ d = c
    <3> DEFINE q == objects[<<j, d>>]
    <3>1. q' = s /\ s # <<>> BY <2>1, <2>2, <1>2, AtMostOne
    <3>2. Count(j, d)' = IF q' = <<>> THEN 0 ELSE q'[Len(q')].n BY DEF Count
    <3> HIDE DEF q
    <3>3. Count(j, d)' = s[1].n BY <3>1, <3>2
    <3> QED BY <2>2, <3>3
  <2>3. CASE ~(j = k /\ d = c)
    <3> DEFINE q == objects[<<j, d>>]
    <3>1. q' = q BY <2>1, <2>3, <1>2
    <3>2. Count(j, d) = IF q = <<>> THEN 0 ELSE q[Len(q)].n BY DEF Count
    <3>3. Count(j, d)' = IF q' = <<>> THEN 0 ELSE q'[Len(q')].n BY DEF Count
    <3> HIDE DEF q
    <3> QED BY <2>3, <3>1, <3>2, <3>3
  <2> QED BY <2>2, <2>3
<1>4. /\ Count(k, c) = objects[x][1].n
      /\ \A j \in Kinds, d \in Counters : Count(j, d) \in Nat
  BY CountIs
<1>5. ASSUME s[1].n = objects[x][1].n + 1, NEW j \in Kinds, NEW d \in Counters
      PROVE  Count(j, d)' = Count(j, d) + Hit(j, d, k, c)
  <2>1. CASE j = k /\ d = c BY <2>1, <1>3, <1>4, <1>5 DEF Hit
  <2>2. CASE ~(j = k /\ d = c)
    <3>1. Count(j, d)' = Count(j, d) /\ Hit(j, d, k, c) = 0 /\ Count(j, d) \in Nat
      BY <2>2, <1>3, <1>4 DEF Hit
    <3> QED BY <3>1
  <2> QED BY <2>1, <2>2
<1>6. ASSUME s[1].n = objects[x][1].n, NEW j \in Kinds, NEW d \in Counters
      PROVE  Count(j, d)' = Count(j, d)
  BY <1>3, <1>4, <1>6
<1>7. \A y \in Kinds \X Counters : Len(objects'[y]) = Len(objects[y])
  BY <1>2
<1> QED BY <1>1, <1>5, <1>6, <1>7

\* A call that is counted and has no outcome, and one without its duration.
Open(d)     == IF d \in {"inner", "success", "errors"} THEN 1 ELSE 0
Owing(d, s) == IF d = "duration" /\ s # "sum" THEN 1 ELSE 0

\* How the calls under way change when one goroutine moves.
LEMMA Tallied ==
  ASSUME CountersTyped, NEW g \in Goroutines, NEW a, NEW b,
         doing' = [doing EXCEPT ![g] = a], step' = [step EXCEPT ![g] = b],
         method' = method,
         NEW j \in Kinds
  PROVE  /\ Cardinality(Undecided(j)) \in Nat /\ Cardinality(Untimed(j)) \in Nat
         /\ Cardinality(Undecided(j))' =
              Cardinality(Undecided(j))
                + IF method[g] = j THEN Open(a) - Open(doing[g]) ELSE 0
         /\ Cardinality(Untimed(j))' =
              Cardinality(Untimed(j))
                + IF method[g] = j THEN Owing(a, b) - Owing(doing[g], step[g]) ELSE 0
<1> DEFINE opened == method[g] = j /\ a \in {"inner", "success", "errors"}
           owing  == method[g] = j /\ a = "duration" /\ b # "sum"
           U == Undecided(j)
           T == Untimed(j)
<1>1. IsFiniteSet(U) /\ IsFiniteSet(T)
  <2>1. U \subseteq Goroutines /\ T \subseteq Goroutines BY DEF Undecided, Untimed
  <2> QED BY <2>1, MetricsAssumption, FS_Subset
<1>2. Undecided(j)' = IF opened THEN U \cup {g} ELSE U \ {g}
  BY DEF CountersTyped, Undecided
<1>3. Untimed(j)' = IF owing THEN T \cup {g} ELSE T \ {g}
  BY DEF CountersTyped, Untimed
<1>4. /\ g \in U <=> method[g] = j /\ Open(doing[g]) = 1
      /\ g \in T <=> method[g] = j /\ Owing(doing[g], step[g]) = 1
  BY DEF Undecided, Untimed, Open, Owing
<1>5. /\ Open(doing[g]) \in {0, 1} /\ Owing(doing[g], step[g]) \in {0, 1}
      /\ Open(a) \in {0, 1} /\ Owing(a, b) \in {0, 1}
      /\ opened <=> method[g] = j /\ Open(a) = 1
      /\ owing <=> method[g] = j /\ Owing(a, b) = 1
  BY DEF Open, Owing
<1> HIDE DEF U, T, opened, owing
<1>6. Cardinality(U) \in Nat /\ Cardinality(T) \in Nat
  BY <1>1, FS_CardinalityType
<1>7. /\ Cardinality(U \cup {g}) = IF g \in U THEN Cardinality(U) ELSE Cardinality(U) + 1
      /\ Cardinality(U \ {g}) = IF g \in U THEN Cardinality(U) - 1 ELSE Cardinality(U)
      /\ Cardinality(T \cup {g}) = IF g \in T THEN Cardinality(T) ELSE Cardinality(T) + 1
      /\ Cardinality(T \ {g}) = IF g \in T THEN Cardinality(T) - 1 ELSE Cardinality(T)
  BY <1>1, FS_AddElement, FS_RemoveElement
<1>8. Cardinality(Undecided(j)') =
        Cardinality(U) + IF method[g] = j THEN Open(a) - Open(doing[g]) ELSE 0
  BY <1>2, <1>4, <1>5, <1>6, <1>7
<1>9. Cardinality(Untimed(j)') =
        Cardinality(T) + IF method[g] = j THEN Owing(a, b) - Owing(doing[g], step[g]) ELSE 0
  BY <1>3, <1>4, <1>5, <1>6, <1>7
<1> QED BY <1>6, <1>8, <1>9 DEF U, T

\* A step of g that keeps the number of objects, what g holds and its call.
LEMMA StepKeepsHold ==
  ASSUME MetricsInv, NEW g \in Goroutines,
         NEW a \in Counters \cup {"idle", "inner"}, NEW b \in {"lookup", "sum"},
         doing' = [doing EXCEPT ![g] = a], step' = [step EXCEPT ![g] = b],
         method' = method, held' = held,
         objects' \in [Kinds \X Counters -> Seq(Objects)],
         \A x \in Kinds \X Counters : Len(objects'[x]) = Len(objects[x]),
         b = "sum" => a = "duration" /\ doing[g] = "duration" /\ step[g] = "add"
  PROVE  CountersTyped' /\ OneObject' /\ HoldsTheLive'
<1> USE DEF MetricsInv
<1>1. CountersTyped' /\ OneObject'
  BY DEF CountersTyped, OneObject
<1>2. ASSUME NEW h \in Goroutines
      PROVE  /\ step'[h] \in {"add", "sum"} =>
                  /\ doing'[h] \in Counters /\ held'[h] = 1
                  /\ Len(objects'[<<method'[h], doing'[h]>>]) = 1
             /\ step'[h] = "sum" => doing'[h] = "duration"
  <2>1. /\ step[h] \in {"add", "sum"} =>
             /\ doing[h] \in Counters /\ held[h] = 1
             /\ Len(objects[<<method[h], doing[h]>>]) = 1
        /\ step[h] = "sum" => doing[h] = "duration"
    BY DEF HoldsTheLive
  <2>2. /\ doing'[h] = IF h = g THEN a ELSE doing[h]
        /\ step'[h] = IF h = g THEN b ELSE step[h]
        /\ method[h] \in Kinds
    BY DEF CountersTyped
  <2>3. doing'[h] = doing[h] \/ step'[h] = "lookup"
    BY <2>2
  <2>4. \A d \in Counters : Len(objects'[<<method[h], d>>]) = Len(objects[<<method[h], d>>])
    BY <2>2
  <2> QED BY <2>1, <2>2, <2>3, <2>4
<1> QED BY <1>1, <1>2 DEF HoldsTheLive

\* The arithmetic of CountsAddUp: what a step adds to the counters is what it
\* takes from the calls under way, or puts there.
Begins(c)  == IF c = "total" THEN 1 ELSE 0
Decides(c) == IF c \in {"success", "errors"} THEN 1 ELSE 0
Times(c)   == IF c = "duration" THEN 1 ELSE 0

LEMMA Balanced ==
  ASSUME CountersTyped, OneObject, CountsAddUp, NEW g \in Goroutines, NEW a, NEW b,
         doing' = [doing EXCEPT ![g] = a], step' = [step EXCEPT ![g] = b],
         method' = method,
         NEW added \in Counters \cup {"none"},
         \A j \in Kinds, d \in Counters :
           Count(j, d)' = Count(j, d) + Hit(j, d, method[g], added),
         Open(a) - Open(doing[g]) = Begins(added) - Decides(added),
         Owing(a, b) - Owing(doing[g], step[g]) = Decides(added) - Times(added)
  PROVE  CountsAddUp'
<1> SUFFICES ASSUME NEW j \in Kinds
             PROVE  LET decided == Count(j, "success")' + Count(j, "errors")'
                    IN /\ Count(j, "total")' = decided + Cardinality(Undecided(j))'
                       /\ decided = Count(j, "duration")' + Cardinality(Untimed(j))'
  BY DEF CountsAddUp
<1> DEFINE t == Count(j, "total")      s == Count(j, "success")
           e == Count(j, "errors")     d == Count(j, "duration")
           u == Cardinality(Undecided(j))
           v == Cardinality(Untimed(j))
           mine == method[g] = j
<1>1. t \in Nat /\ s \in Nat /\ e \in Nat /\ d \in Nat
  BY CountIs DEF Counters
<1>2. t = s + e + u /\ s + e = d + v
  BY DEF CountsAddUp
<1>3. /\ t' = t + IF mine /\ added = "total" THEN 1 ELSE 0
      /\ s' = s + IF mine /\ added = "success" THEN 1 ELSE 0
      /\ e' = e + IF mine /\ added = "errors" THEN 1 ELSE 0
      /\ d' = d + IF mine /\ added = "duration" THEN 1 ELSE 0
  BY DEF Counters, Hit
<1>4. /\ u \in Nat /\ v \in Nat
      /\ u' = u + IF mine THEN Open(a) - Open(doing[g]) ELSE 0
      /\ v' = v + IF mine THEN Owing(a, b) - Owing(doing[g], step[g]) ELSE 0
  BY Tallied
<1> HIDE DEF t, s, e, d, u, v, mine
<1>5. t' = s' + e' + u' /\ s' + e' = d' + v'
  BY <1>1, <1>2, <1>3, <1>4 DEF Begins, Decides, Times
<1> QED BY <1>5 DEF t, s, e, d, u, v

LEMMA MissesNone ==
  ASSUME CountersTyped, OneObject, NEW k
  PROVE  \A j \in Kinds, d \in Counters : Count(j, d) = Count(j, d) + Hit(j, d, k, "none")
<1> SUFFICES ASSUME NEW j \in Kinds, NEW d \in Counters
             PROVE  Count(j, d) = Count(j, d) + Hit(j, d, k, "none")
  OBVIOUS
<1>1. Hit(j, d, k, "none") = 0 BY DEF Hit, Counters
<1>2. Count(j, d) \in Nat BY CountIs
<1> QED BY <1>1, <1>2

LEMMA AdditionKeeps ==
  ASSUME MetricsInv, NEW g \in Goroutines, AddOne(g) \/ ObserveCount(g) \/ ObserveSum(g)
  PROVE  MetricsInv'
<1> USE DEF MetricsInv
<1>1. PICK k \in Kinds, c \in Counters, i \in Nat, w \in {"add", "sum"} :
        k = method[g] /\ c = doing[g] /\ i = held[g] /\ w = step[g]
  BY DEF AddOne, ObserveCount, ObserveSum, CountersTyped, Counters
<1>2. i = 1 /\ Len(objects[<<k, c>>]) = 1
  BY <1>1 DEF HoldsTheLive
<1>3. method' = method /\ held' = held
  BY DEF AddOne, ObserveCount, ObserveSum
<1>4. CASE AddOne(g)
  <2> DEFINE s == [objects[<<k, c>>] EXCEPT ![1].n = @ + 1]
  <2>0. objects' = [objects EXCEPT ![<<k, c>>] = s]
    BY <1>2, <1>1, <1>4 DEF AddOne
  <2>1. /\ s \in Seq(Objects) /\ Len(s) = 1
        /\ s[1].n = objects[<<k, c>>][1].n + 1
    BY <1>2, Bumped DEF CountersTyped
  <2> HIDE DEF s
  <2>2. c \in {"total", "success", "errors"} /\ w = "add"
    BY <1>1, <1>4 DEF AddOne, Counters
  <2>a. PICK a \in Counters \cup {"idle", "inner"} :
          a = IF c = "total" THEN "inner" ELSE "duration"
    BY DEF Counters
  <2>3. doing' = [doing EXCEPT ![g] = a] /\ step' = [step EXCEPT ![g] = "lookup"]
    BY <1>1, <1>4, <2>a, <2>2 DEF AddOne, Proceed, After
  <2>4. /\ Open(a) - Open(c) = Begins(c) - Decides(c)
        /\ Owing(a, "lookup") - Owing(c, w) = Decides(c) - Times(c)
    BY <2>2, <2>a DEF Open, Owing, Begins, Decides, Times
  <2>5. \A j \in Kinds, d \in Counters :
          Count(j, d)' = Count(j, d) + Hit(j, d, method[g], c)
    <3>1. \A j \in Kinds, d \in Counters : Count(j, d)' = Count(j, d) + Hit(j, d, k, c)
      BY <1>2, <2>0, <2>1, Replaced
    <3> QED BY <1>1, <3>1
  <2>6. CountsAddUp'
    BY <1>1, <1>3, <2>3, <2>4, <2>5, Balanced, ZenonT(40)
  <2>7. /\ objects' \in [Kinds \X Counters -> Seq(Objects)]
        /\ \A x \in Kinds \X Counters : Len(objects'[x]) = Len(objects[x])
    BY <1>2, <2>0, <2>1, Replaced
  <2> QED BY <1>3, <2>3, <2>4, <2>6, <2>7, StepKeepsHold
<1>5. CASE ObserveCount(g)
  <2> DEFINE s == [objects[<<k, c>>] EXCEPT ![1].n = @ + 1]
  <2>0. objects' = [objects EXCEPT ![<<k, c>>] = s]
    BY <1>2, <1>1, <1>5 DEF ObserveCount
  <2>1. /\ s \in Seq(Objects) /\ Len(s) = 1
        /\ s[1].n = objects[<<k, c>>][1].n + 1
    BY <1>2, Bumped DEF CountersTyped
  <2> HIDE DEF s
  <2>2. c = "duration" /\ w = "add"
    BY <1>1, <1>5 DEF ObserveCount
  <2>3. doing' = [doing EXCEPT ![g] = "duration"] /\ step' = [step EXCEPT ![g] = "sum"]
    BY <1>5 DEF ObserveCount, Proceed
  <2>4. /\ Open("duration") - Open(c) = Begins(c) - Decides(c)
        /\ Owing("duration", "sum") - Owing(c, w) = Decides(c) - Times(c)
    BY <2>2 DEF Open, Owing, Begins, Decides, Times
  <2>5. \A j \in Kinds, d \in Counters :
          Count(j, d)' = Count(j, d) + Hit(j, d, method[g], c)
    <3>1. \A j \in Kinds, d \in Counters : Count(j, d)' = Count(j, d) + Hit(j, d, k, c)
      BY <1>2, <2>0, <2>1, Replaced
    <3> QED BY <1>1, <3>1
  <2>6. CountsAddUp'
    BY <1>1, <1>3, <2>2, <2>3, <2>4, <2>5, Balanced
  <2>7. /\ objects' \in [Kinds \X Counters -> Seq(Objects)]
        /\ \A x \in Kinds \X Counters : Len(objects'[x]) = Len(objects[x])
    BY <1>2, <2>0, <2>1, Replaced
  <2> QED BY <1>1, <1>3, <2>2, <2>3, <2>6, <2>7, StepKeepsHold DEF Counters
<1>6. CASE ObserveSum(g)
  <2> DEFINE s == [objects[<<k, c>>] EXCEPT ![1].ns = @ + 1]
  <2>0. objects' = [objects EXCEPT ![<<k, c>>] = s]
    BY <1>2, <1>1, <1>6 DEF ObserveSum
  <2>1. /\ s \in Seq(Objects) /\ Len(s) = 1
        /\ s[1].n = objects[<<k, c>>][1].n
    BY <1>2, Bumped DEF CountersTyped
  <2> HIDE DEF s
  <2>2. c = "duration" /\ w = "sum"
    BY <1>1, <1>6 DEF ObserveSum
  <2>3. doing' = [doing EXCEPT ![g] = "idle"] /\ step' = [step EXCEPT ![g] = "lookup"]
    BY <1>6 DEF ObserveSum, Proceed
  <2>4. /\ Open("idle") - Open(c) = Begins("none") - Decides("none")
        /\ Owing("idle", "lookup") - Owing(c, w) = Decides("none") - Times("none")
    BY <2>2 DEF Open, Owing, Begins, Decides, Times
  <2>5. \A j \in Kinds, d \in Counters :
          Count(j, d)' = Count(j, d) + Hit(j, d, method[g], "none")
    <3>1. \A j \in Kinds, d \in Counters : Count(j, d)' = Count(j, d)
      BY <1>2, <2>0, <2>1, Replaced
    <3> QED BY <3>1, MissesNone
  <2>6. CountsAddUp'
    BY <1>1, <1>3, <2>3, <2>4, <2>5, Balanced
  <2>7. /\ objects' \in [Kinds \X Counters -> Seq(Objects)]
        /\ \A x \in Kinds \X Counters : Len(objects'[x]) = Len(objects[x])
    BY <1>2, <2>0, <2>1, Replaced
  <2> QED BY <1>3, <2>3, <2>6, <2>7, StepKeepsHold
<1> QED BY <1>4, <1>5, <1>6

LEMMA LeaveKeeps ==
  ASSUME MetricsInv, NEW g \in Goroutines, Leave(g)
  PROVE  MetricsInv'
<1> USE DEF MetricsInv
<1>1. PICK c \in {"success", "errors"} :
        doing' = [doing EXCEPT ![g] = c] /\ step' = [step EXCEPT ![g] = "lookup"]
  BY DEF Leave, Proceed
<1>2. doing[g] = "inner" /\ UNCHANGED <<objects, held, method>>
  BY DEF Leave
<1>3. /\ Open(c) - Open(doing[g]) = Begins("none") - Decides("none")
      /\ Owing(c, "lookup") - Owing(doing[g], step[g]) = Decides("none") - Times("none")
  BY <1>2 DEF Open, Owing, Begins, Decides, Times
<1>4. \A j \in Kinds, d \in Counters :
        Count(j, d)' = Count(j, d) + Hit(j, d, method[g], "none")
  <2>1. \A j \in Kinds, d \in Counters : Count(j, d)' = Count(j, d) BY <1>2 DEF Count
  <2> QED BY <2>1, MissesNone
<1>5. CountsAddUp'
  BY <1>1, <1>2, <1>3, <1>4, Balanced
<1> QED BY <1>1, <1>2, <1>5, StepKeepsHold DEF Counters, CountersTyped

\* A step that moves no counter and lets no call begin or end.
LEMMA StillBalanced ==
  ASSUME CountsAddUp,
         \A j \in Kinds, d \in Counters : Count(j, d)' = Count(j, d),
         \A j \in Kinds : Undecided(j)' = Undecided(j) /\ Untimed(j)' = Untimed(j)
  PROVE  CountsAddUp'
<1> SUFFICES ASSUME NEW j \in Kinds
             PROVE  LET decided == Count(j, "success")' + Count(j, "errors")'
                    IN /\ Count(j, "total")' = decided + Cardinality(Undecided(j)')
                       /\ decided = Count(j, "duration")' + Cardinality(Untimed(j)')
  BY DEF CountsAddUp
<1>1. /\ Count(j, "total")' = Count(j, "total")
      /\ Count(j, "success")' = Count(j, "success")
      /\ Count(j, "errors")' = Count(j, "errors")
      /\ Count(j, "duration")' = Count(j, "duration")
  BY DEF Counters
<1>2. Undecided(j)' = Undecided(j) /\ Untimed(j)' = Untimed(j)
  OBVIOUS
<1> QED BY <1>1, <1>2 DEF CountsAddUp

LEMMA LookupKeeps ==
  ASSUME MetricsInv, NEW g \in Goroutines, Lookup(g)
  PROVE  MetricsInv'
<1> USE DEF MetricsInv
<1>1. PICK k \in Kinds, c \in Counters : k = method[g] /\ c = doing[g]
  BY DEF Lookup, CountersTyped
<1>2. PICK found \in {0, 1} : found = Len(objects[<<k, c>>])
  <2>1. objects[<<k, c>>] \in Seq(Objects) /\ Len(objects[<<k, c>>]) <= 1
    BY DEF CountersTyped, OneObject
  <2> QED BY <2>1, AtMostOne
<1>3. PICK b \in {"add", "create"} : b = IF found > 0 THEN "add" ELSE "create"
  OBVIOUS
<1>4. /\ doing' = doing /\ step' = [step EXCEPT ![g] = b] /\ held' = [held EXCEPT ![g] = found]
      /\ step[g] = "lookup" /\ UNCHANGED <<objects, method>>
  BY <1>1, <1>2, <1>3 DEF Lookup, Proceed, CountersTyped
<1>5. CountersTyped' /\ OneObject'
  BY <1>4 DEF CountersTyped, OneObject
<1>6. HoldsTheLive'
  <2> SUFFICES ASSUME NEW h \in Goroutines
               PROVE  /\ step'[h] \in {"add", "sum"} =>
                           /\ doing[h] \in Counters /\ held'[h] = 1
                           /\ Len(objects[<<method[h], doing[h]>>]) = 1
                      /\ step'[h] = "sum" => doing[h] = "duration"
    BY <1>4 DEF HoldsTheLive
  <2>1. CASE h = g
    <3>1. step'[h] = b /\ held'[h] = found BY <2>1, <1>4 DEF CountersTyped
    <3>2. b = "add" => found = 1 BY <1>3
    <3> QED BY <2>1, <3>1, <3>2, <1>1, <1>2, <1>3
  <2>2. CASE h # g
    <3>1. step'[h] = step[h] /\ held'[h] = held[h] BY <2>2, <1>4 DEF CountersTyped
    <3> QED BY <3>1 DEF HoldsTheLive
  <2> QED BY <2>1, <2>2
<1>7. \A j \in Kinds : Undecided(j)' = Undecided(j) /\ Untimed(j)' = Untimed(j)
  BY <1>4 DEF Undecided, Untimed, CountersTyped
<1>8. \A j \in Kinds, d \in Counters : Count(j, d)' = Count(j, d)
  BY <1>4 DEF Count
<1> QED BY <1>5, <1>6, <1>7, <1>8, StillBalanced

\* Under the write lock the map is looked at again: of two goroutines that
\* both found no counter only the first makes one.
LEMMA CreateKeeps ==
  ASSUME MetricsInv, NEW g \in Goroutines, Create(g)
  PROVE  MetricsInv'
<1> USE DEF MetricsInv
<1>1. PICK k \in Kinds, c \in Counters : k = method[g] /\ c = doing[g]
  BY DEF Create, CountersTyped
<1> DEFINE x == <<k, c>>
<1>2. x \in Kinds \X Counters /\ objects[x] \in Seq(Objects) /\ Len(objects[x]) <= 1
  BY DEF CountersTyped, OneObject
<1>3. <<NewObject>> \in Seq(Objects) /\ Len(<<NewObject>>) = 1 /\ <<NewObject>>[1].n = 0
  <2>1. NewObject \in Objects /\ NewObject.n = 0 BY DEF NewObject, Objects
  <2> QED BY <2>1
<1>4. PICK s \in Seq(Objects) :
        /\ s = IF objects[x] = <<>> THEN <<NewObject>> ELSE objects[x]
        /\ Len(s) = 1
  <2>1. CASE objects[x] = <<>> BY <2>1, <1>3
  <2>2. CASE objects[x] # <<>>
    <3>1. Len(objects[x]) \in {0, 1} /\ (Len(objects[x]) = 0 => objects[x] = <<>>)
      BY <1>2, AtMostOne
    <3> QED BY <2>2, <3>1, <1>2
  <2> QED BY <2>1, <2>2
<1>5. objects' = [objects EXCEPT ![x] = s]
  <2>1. objects' = IF objects[x] = <<>> THEN [objects EXCEPT ![x] = <<NewObject>>] ELSE objects
    BY <1>1 DEF Create
  <2>2. CASE objects[x] = <<>> BY <2>1, <2>2, <1>4
  <2>3. CASE objects[x] # <<>> BY <2>1, <2>3, <1>2, <1>4 DEF CountersTyped
  <2> QED BY <2>2, <2>3
<1>6. \A y \in Kinds \X Counters : objects'[y] = IF y = x THEN s ELSE objects[y]
  BY <1>5 DEF CountersTyped
<1>7. /\ doing' = doing /\ step' = [step EXCEPT ![g] = "add"] /\ held' = [held EXCEPT ![g] = 1]
      /\ step[g] = "create" /\ method' = method
  <2>1. objects'[x] = s BY <1>2, <1>6
  <2>2. held' = [held EXCEPT ![g] = Len(objects'[x])] BY <1>1 DEF Create
  <2> QED BY <2>1, <2>2, <1>1, <1>4 DEF Create, Proceed, CountersTyped
<1>8. CountersTyped' /\ OneObject'
  BY <1>2, <1>4, <1>5, <1>6, <1>7 DEF CountersTyped, OneObject
<1>9. \A j \in Kinds : Undecided(j)' = Undecided(j) /\ Untimed(j)' = Untimed(j)
  BY <1>7 DEF Undecided, Untimed, CountersTyped
<1>10. ASSUME NEW j \in Kinds, NEW d \in Counters
       PROVE  Count(j, d)' = Count(j, d)
  <2> DEFINE q == objects[<<j, d>>]
  <2>1. Count(j, d) = IF q = <<>> THEN 0 ELSE q[Len(q)].n BY DEF Count
  <2>2. Count(j, d)' = IF q' = <<>> THEN 0 ELSE q'[Len(q')].n BY DEF Count
  <2>3. CASE q' = q
    <3> HIDE DEF q
    <3> QED BY <2>1, <2>2, <2>3
  <2>4. CASE q' # q
    <3>1. <<j, d>> = x /\ q' = s
      BY <2>4, <1>6
    <3>2. q = <<>> /\ s = <<NewObject>>
      BY <2>4, <3>1, <1>4
    <3>3. q' # <<>> /\ q'[Len(q')].n = 0
      BY <3>1, <3>2, <1>3
    <3> HIDE DEF q
    <3> QED BY <2>1, <2>2, <3>2, <3>3
  <2> QED BY <2>3, <2>4
<1>11. ASSUME NEW h \in Goroutines
       PROVE  /\ step'[h] \in {"add", "sum"} =>
                   /\ doing'[h] \in Counters /\ held'[h] = 1
                   /\ Len(objects'[<<method'[h], doing'[h]>>]) = 1
              /\ step'[h] = "sum" => doing'[h] = "duration"
  <2>1. CASE h = g
    BY <2>1, <1>1, <1>2, <1>4, <1>6, <1>7 DEF CountersTyped
  <2>2. CASE h # g
    <3>1. step'[h] = step[h] /\ held'[h] = held[h] /\ method[h] \in Kinds
      BY <2>2, <1>7 DEF CountersTyped
    <3>2. \A d \in Counters : Len(objects[<<method[h], d>>]) = 1 => Len(objects'[<<method[h], d>>]) = 1
      BY <3>1, <1>4, <1>6
    <3> QED BY <3>1, <3>2, <1>7 DEF HoldsTheLive
  <2> QED BY <2>1, <2>2
<1> QED BY <1>8, <1>9, <1>10, <1>11, StillBalanced DEF HoldsTheLive

LEMMA EnterKeeps ==
  ASSUME MetricsInv, NEW g \in Goroutines, NEW k \in Kinds, Enter(g, k)
  PROVE  MetricsInv'
<1> USE DEF MetricsInv
<1>1. /\ doing' = [doing EXCEPT ![g] = "total"] /\ step' = [step EXCEPT ![g] = "lookup"]
      /\ method' = [method EXCEPT ![g] = k] /\ doing[g] = "idle" /\ UNCHANGED <<objects, held>>
  BY DEF Enter, Proceed
<1>2. CountersTyped' /\ OneObject'
  BY <1>1 DEF CountersTyped, OneObject, Counters
<1>3. HoldsTheLive'
  BY <1>1 DEF HoldsTheLive, CountersTyped
<1>4. \A j \in Kinds : Undecided(j)' = Undecided(j) /\ Untimed(j)' = Untimed(j)
  BY <1>1 DEF Undecided, Untimed, CountersTyped
<1>5. \A j \in Kinds, d \in Counters : Count(j, d)' = Count(j, d)
  BY <1>1 DEF Count
<1> QED BY <1>2, <1>3, <1>4, <1>5, StillBalanced

\* A snapshot reads.
LEMMA ReadingKeeps ==
  ASSUME MetricsInv, UNCHANGED <<objects, doing, step, held, method>>
  PROVE  MetricsInv'
<1> USE DEF MetricsInv
<1>1. CountersTyped' /\ OneObject' /\ HoldsTheLive'
  BY DEF CountersTyped, OneObject, HoldsTheLive
<1>2. \A j \in Kinds : Undecided(j)' = Undecided(j) /\ Untimed(j)' = Untimed(j)
  BY DEF Undecided, Untimed
<1>3. \A j \in Kinds, d \in Counters : Count(j, d)' = Count(j, d)
  BY DEF Count
<1> QED BY <1>1, <1>2, <1>3, StillBalanced

LEMMA MetricsStart == ASSUME MetricsInit PROVE MetricsInv
<1> USE DEF MetricsInit
<1>1. <<>> \in Seq(Objects) /\ Len(<<>>) = 0
  OBVIOUS
<1>2. CountersTyped /\ OneObject /\ HoldsTheLive
  BY <1>1 DEF CountersTyped, OneObject, HoldsTheLive, Kinds
<1>3. ASSUME NEW j \in Kinds
      PROVE  Undecided(j) = {} /\ Untimed(j) = {}
  BY DEF Undecided, Untimed
<1>4. \A j \in Kinds, c \in Counters : Count(j, c) = 0
  BY DEF Count
<1>5. Cardinality({}) = 0
  BY FS_EmptySet
<1>6. CountsAddUp
  <2> SUFFICES ASSUME NEW j \in Kinds
               PROVE  LET decided == Count(j, "success") + Count(j, "errors")
                      IN /\ Count(j, "total") = decided + Cardinality(Undecided(j))
                         /\ decided = Count(j, "duration") + Cardinality(Untimed(j))
    BY DEF CountsAddUp
  <2>1. /\ Count(j, "success") = 0 /\ Count(j, "errors") = 0
        /\ Count(j, "total") = 0 /\ Count(j, "duration") = 0
    BY <1>4 DEF Counters
  <2>2. Cardinality(Undecided(j)) = 0 /\ Cardinality(Untimed(j)) = 0
    BY <1>3, <1>5
  <2> QED BY <2>1, <2>2
<1> QED BY <1>2, <1>6 DEF MetricsInv

LEMMA NextMetricsInv == MetricsInv /\ [MetricsNext]_metricvars => MetricsInv'
<1> SUFFICES ASSUME MetricsInv, [MetricsNext]_metricvars PROVE MetricsInv'
  OBVIOUS
<1>1. CASE \/ UNCHANGED metricvars
           \/ SnapshotBegin \/ SnapshotMethod \/ SnapshotLoad \/ SnapshotEnd
  <2>1. UNCHANGED <<objects, doing, step, held, method>>
    BY <1>1 DEF metricvars, SnapshotBegin, SnapshotMethod, SnapshotLoad, SnapshotEnd
  <2> QED BY <2>1, ReadingKeeps
<1>2. ASSUME NEW g \in Goroutines,
             \/ SendRequest(g) \/ SendNotification(g) \/ SendBatchRequest(g)
             \/ HandleRequest(g) \/ HandleNotification(g)
      PROVE  MetricsInv'
  <2>1. \E k \in Kinds : Enter(g, k)
    BY <1>2 DEF SendRequest, SendNotification, SendBatchRequest, HandleRequest,
                HandleNotification, Kinds
  <2> QED BY <2>1, EnterKeeps
<1>3. ASSUME NEW g \in Goroutines,
             \/ Lookup(g) \/ Create(g) \/ AddOne(g)
             \/ ObserveCount(g) \/ ObserveSum(g) \/ Leave(g)
      PROVE  MetricsInv'
  BY <1>3, LookupKeeps, CreateKeeps, AdditionKeeps, LeaveKeeps
<1> QED BY <1>1, <1>2, <1>3 DEF MetricsNext

\* A snapshot reads numbers, of kinds that have counters.
SnapTyped ==
  /\ begun \in 0..MaxBegun
  /\ snap \in [on : BOOLEAN, todo : SUBSET Kinds, of : Kinds, read : Seq(Nat)]

LEMMA SnapStarts == ASSUME MetricsInit PROVE SnapTyped
<1>1. 0 \in 0..MaxBegun /\ "request" \in Kinds
  BY MetricsAssumption DEF Kinds
<1>2. <<>> \in Seq(Nat)
  BY EmptySeq
<1> QED BY <1>1, <1>2 DEF MetricsInit, SnapTyped, NoSnap

\* What is loaded of a method is a number.
LEMMA LoadsAreNumbers ==
  ASSUME CountersTyped, OneObject, NEW k \in Kinds, NEW i \in 1..5
  PROVE  Loads(k)[i] \in Nat
<1>1. /\ Count(k, "total") \in Nat /\ Count(k, "success") \in Nat
      /\ Count(k, "errors") \in Nat /\ Count(k, "duration") \in Nat
  BY CountIs DEF Counters
<1>2. DurationSum(k) \in Nat
  <2> DEFINE s == objects[<<k, "duration">>]
  <2>1. s \in Seq(Objects) /\ Len(s) <= 1
    BY DEF CountersTyped, OneObject, Counters
  <2>2. DurationSum(k) = IF s = <<>> THEN 0 ELSE s[Len(s)].ns
    BY DEF DurationSum
  <2> HIDE DEF s
  <2>3. s # <<>> => Len(s) = 1 /\ s[1] \in Objects
    BY <2>1, AtMostOne
  <2>4. s # <<>> => s[Len(s)].ns \in Nat
    BY <2>3 DEF Objects
  <2> QED BY <2>2, <2>4
<1> DEFINE a == Count(k, "total")
           b == Count(k, "success")
           c == Count(k, "errors")
           d == Count(k, "duration")
           e == DurationSum(k)
<1>3. Loads(k) = <<a, b, c, d, e>>
  BY DEF Loads
<1>4. a \in Nat /\ b \in Nat /\ c \in Nat /\ d \in Nat /\ e \in Nat
  BY <1>1, <1>2
<1> HIDE DEF a, b, c, d, e
<1>5. i \in {1, 2, 3, 4, 5}
  OBVIOUS
<1> QED BY <1>3, <1>4, <1>5

LEMMA NextSnap ==
  ASSUME MetricsInv, SnapTyped, [MetricsNext]_metricvars
  PROVE  SnapTyped'
<1> USE DEF SnapTyped
<1>1. CASE UNCHANGED <<begun, snap>>
  BY <1>1
<1>2. ASSUME NEW g \in Goroutines, NEW k \in Kinds, Enter(g, k) PROVE SnapTyped'
  BY <1>2, MetricsAssumption DEF Enter
<1>3. CASE SnapshotBegin
  <2>1. <<>> \in Seq(Nat) /\ "request" \in Kinds
    BY EmptySeq DEF Kinds
  <2> DEFINE some == {k \in Kinds : objects[k, "total"] # <<>>}
  <2>2. some \in SUBSET Kinds
    OBVIOUS
  <2>3. begun' = begun /\ snap' = [NoSnap EXCEPT !.on = TRUE, !.todo = some]
    BY <1>3, Zenon DEF SnapshotBegin
  <2> HIDE DEF some
  <2> QED BY <2>1, <2>2, <2>3 DEF NoSnap
<1>4. CASE SnapshotMethod
  <2>1. PICK k \in snap.todo :
          snap' = [on |-> TRUE, todo |-> snap.todo \ {k}, of |-> k,
                   read |-> <<Count(k, "total")>>]
    BY <1>4 DEF SnapshotMethod
  <2>2. k \in Kinds
    BY <2>1
  <2>3. Count(k, "total") \in Nat
    BY <2>2, CountIs DEF MetricsInv, Counters
  <2>4. <<Count(k, "total")>> \in Seq(Nat)
    BY <2>3
  <2>5. begun' = begun
    BY <1>4 DEF SnapshotMethod
  <2> QED BY <2>1, <2>2, <2>4, <2>5
<1>5. CASE SnapshotLoad
  <2> DEFINE x == Loads(snap.of)[Len(snap.read) + 1]
  <2>1. Len(snap.read) + 1 \in 1..5 /\ snap.of \in Kinds
    <3>1. Len(snap.read) \in 1..4
      BY <1>5, Zenon DEF SnapshotLoad
    <3>2. \A n \in 1..4 : n + 1 \in 1..5
      OBVIOUS
    <3> QED BY <3>1, <3>2
  <2>2. x \in Nat
    BY <2>1, LoadsAreNumbers DEF MetricsInv
  <2>3. begun' = begun /\ snap' = [snap EXCEPT !.read = Append(snap.read, x)]
    BY <1>5 DEF SnapshotLoad
  <2> HIDE DEF x
  <2>4. Append(snap.read, x) \in Seq(Nat)
    BY <2>2, AppendProperties
  <2> QED BY <2>3, <2>4
<1>6. CASE SnapshotEnd
  <2>1. <<>> \in Seq(Nat) /\ "request" \in Kinds
    BY EmptySeq DEF Kinds
  <2> QED BY <1>6, <2>1 DEF SnapshotEnd, NoSnap
<1>7. ASSUME NEW g \in Goroutines,
             \/ SendRequest(g) \/ SendNotification(g) \/ SendBatchRequest(g)
             \/ HandleRequest(g) \/ HandleNotification(g)
      PROVE  SnapTyped'
  <2>1. \E k \in Kinds : Enter(g, k)
    BY <1>7 DEF SendRequest, SendNotification, SendBatchRequest, HandleRequest,
                HandleNotification, Kinds
  <2> QED BY <2>1, <1>2
<1>8. ASSUME NEW g \in Goroutines,
             \/ Lookup(g) \/ Create(g) \/ AddOne(g)
             \/ ObserveCount(g) \/ ObserveSum(g) \/ Leave(g)
      PROVE  SnapTyped'
  <2>1. UNCHANGED <<begun, snap>>
    BY <1>8, Zenon DEF Lookup, Create, AddOne, ObserveCount, ObserveSum, Leave
  <2> QED BY <2>1, <1>1
<1>9. CASE UNCHANGED metricvars
  BY <1>9, <1>1 DEF metricvars
<1> QED BY <1>3, <1>4, <1>5, <1>6, <1>7, <1>8, <1>9 DEF MetricsNext

LEMMA MetricsTyping == MetricsInv /\ SnapTyped => MetricsTypeOK
BY DEF MetricsInv, CountersTyped, Objects, SnapTyped, MetricsTypeOK

\* The counters, and what snapshot loads of them one after the other
\* (observability_middleware.go:628-752), are numbers.
THEOREM MetricsTypeCorrect == MetricsSpec => []MetricsTypeOK
<1>1. MetricsInit => MetricsInv /\ SnapTyped
  BY MetricsStart, SnapStarts
<1>2. MetricsInv /\ SnapTyped /\ [MetricsNext]_metricvars => MetricsInv' /\ SnapTyped'
  BY NextMetricsInv, NextSnap
<1> QED BY <1>1, <1>2, MetricsTyping, PTL DEF MetricsSpec

\* The inductive invariant of the transport's metrics: who is to add to a
\* counter holds the one object that getOrCreateInt64Counter keeps
\* (observability_middleware.go:514-533), and no count is lost.
THEOREM MetricsInductive == MetricsSpec => []MetricsInv
BY NextMetricsInv, MetricsStart, PTL DEF MetricsSpec

\* No count is lost although goroutines race to create the counters
\* (getOrCreateInt64Counter looks again under the write lock,
\* observability_middleware.go:525), for any number of goroutines and calls.
THEOREM NoCountIsLost == MetricsSpec => []CountsAddUp
BY MetricsInductive, PTL DEF MetricsInv

-----------------------------------------------------------------------------
(* ClientServer                                                             *)

Requests == {"Initialize", "Cancel", "Ping", "SetLogLevel", "ListTools", "CallTool",
             "CallToolStreaming", "ListResources", "ReadResource", "SubscribeResource",
             "ListPrompts", "GetPrompt", "Complete", "ListRoots"}
Replies  == {"none", "result", "error", "noHandler", "noProvider", "invalidParams",
             "capabilityRequired", "cancelled", "notFound"}
Stages   == {"idle", "waiting", "replied", "answered", "merge", "mark", "notify"}

SessionTyped ==
  /\ wire \subseteq [op : Requests, id : Nat, target : Nat]
  /\ serving \subseteq [op : Requests, id : Nat, target : Nat]
  /\ call \in [ClientGoroutines ->
               [at : Stages, op : Requests \cup {"none"}, id : Nat, answer : Replies]]
  /\ sent \in Nat

\* An id is given to one request only: whoever waits under the id of a request
\* that the server has or will get has sent this request.
IdsMatch ==
  /\ \A m \in wire \cup serving : m.id <= sent
  /\ \A g \in ClientGoroutines : call[g].id <= sent
  /\ \A m \in wire \cup serving, g \in ClientGoroutines :
       call[g].at = "waiting" /\ call[g].id = m.id => call[g].op = m.op

\* A result for initialize comes from a server that is initialized.
ResultsFromReady ==
  \A g \in ClientGoroutines :
    call[g].op = "Initialize" /\ call[g].answer = "result" => ready

SessionInv == SessionTyped /\ IdsMatch /\ ResultsFromReady /\ SessionSound

\* Only a request that New has registered no handler for is left without one.
Unserved(op) ==
  \/ Needs(op) \notin config.caps
  \/ op = "SubscribeResource" /\ "resources" \notin config.caps

LEMMA NoHandlerMeansUnserved ==
  ASSUME NEW op \in Requests, op \notin Registered
  PROVE  Unserved(op)
BY DEF Requests, Registered, Unserved, Needs

LEMMA RequestKeeps ==
  ASSUME SessionInv, NEW g \in ClientGoroutines, NEW op \in Requests, NEW target \in Nat,
         Post(g, op, target), UNCHANGED <<config, ready, serving, serverInfo>>
  PROVE  SessionInv'
<1> USE DEF SessionInv
<1> DEFINE c == [at |-> "waiting", op |-> op, id |-> sent + 1, answer |-> "none"]
           m == [op |-> op, id |-> sent + 1, target |-> target]
<1>1. call' = [call EXCEPT ![g] = c] /\ wire' = wire \cup {m} /\ sent' = sent + 1
  BY DEF Post
<1>2. sent \in Nat /\ sent + 1 \in Nat
  BY DEF SessionTyped
<1>3. /\ c \in [at : Stages, op : Requests \cup {"none"}, id : Nat, answer : Replies]
      /\ m \in [op : Requests, id : Nat, target : Nat]
      /\ c.id = sent + 1 /\ c.op = op /\ c.answer = "none" /\ m.id = sent + 1 /\ m.op = op
  BY <1>2 DEF Stages, Replies
<1> HIDE DEF c, m
<1>4. \A h \in ClientGoroutines : call'[h] = IF h = g THEN c ELSE call[h]
  BY <1>1 DEF SessionTyped
<1>5. SessionTyped'
  BY <1>1, <1>2, <1>3 DEF SessionTyped
<1>6. IdsMatch'
  <2>1. /\ \A n \in wire \cup serving : n.id \in Nat /\ n.id <= sent
        /\ \A h \in ClientGoroutines : call[h].id \in Nat /\ call[h].id <= sent
    BY DEF SessionTyped, IdsMatch
  <2>2. wire' \cup serving' = (wire \cup serving) \cup {m}
    BY <1>1
  <2>3. \A n \in wire' \cup serving' : n.id <= sent'
    BY <2>1, <2>2, <1>1, <1>2, <1>3
  <2>4. \A h \in ClientGoroutines : call'[h].id <= sent'
    BY <2>1, <1>1, <1>2, <1>3, <1>4
  <2>5. ASSUME NEW n \in wire' \cup serving', NEW h \in ClientGoroutines,
               call'[h].at = "waiting", call'[h].id = n.id
        PROVE  call'[h].op = n.op
    <3>1. CASE n = m /\ h = g
      BY <3>1, <1>3, <1>4
    <3>2. CASE n = m /\ h # g
      <4>1. call[h].id = sent + 1 BY <3>2, <2>5, <1>3, <1>4
      <4> QED BY <4>1, <2>1, <1>2
    <3>3. CASE n # m /\ h = g
      <4>1. n \in wire \cup serving /\ n.id = sent + 1 BY <3>3, <2>5, <2>2, <1>3, <1>4
      <4> QED BY <4>1, <2>1, <1>2
    <3>4. CASE n # m /\ h # g
      BY <3>4, <2>5, <2>2, <1>4 DEF IdsMatch
    <3> QED BY <3>1, <3>2, <3>3, <3>4
  <2> QED BY <2>3, <2>4, <2>5 DEF IdsMatch
<1>7. ResultsFromReady'
  BY <1>3, <1>4 DEF ResultsFromReady
<1>8. SessionSound'
  BY <1>3, <1>4 DEF SessionSound, HandshakeAgrees, AdvertisedIsServed
<1> QED BY <1>5, <1>6, <1>7, <1>8

\* A step of a caller that has been answered, or that gives up.
LEMMA CallerKeeps ==
  ASSUME SessionInv, NEW g \in ClientGoroutines,
         NEW c \in {Idle} \cup {[call[g] EXCEPT !.at = b] : b \in Stages \ {"waiting"}},
         call' = [call EXCEPT ![g] = c],
         UNCHANGED <<config, ready, serving, wire, sent>>,
         (serverInfo' = serverInfo) \/ ready
  PROVE  SessionInv'
<1> USE DEF SessionInv
<1>1. call[g] \in [at : Stages, op : Requests \cup {"none"}, id : Nat, answer : Replies]
  BY DEF SessionTyped
<1>2. /\ c \in [at : Stages, op : Requests \cup {"none"}, id : Nat, answer : Replies]
      /\ c.at # "waiting" /\ c.id \in {0, call[g].id}
      /\ c.answer \in {"result", "noHandler"} => c.op = call[g].op /\ c.answer = call[g].answer
  BY <1>1 DEF Idle, Stages, Replies
<1>3. \A h \in ClientGoroutines : call'[h] = IF h = g THEN c ELSE call[h]
  BY DEF SessionTyped
<1>4. SessionTyped'
  BY <1>2 DEF SessionTyped
<1>5. IdsMatch'
  BY <1>2, <1>3 DEF IdsMatch, SessionTyped
<1>6. ResultsFromReady'
  BY <1>2, <1>3 DEF ResultsFromReady
<1>7. SessionSound'
  BY <1>2, <1>3 DEF SessionSound, HandshakeAgrees, AdvertisedIsServed
<1> QED BY <1>4, <1>5, <1>6, <1>7

\* A request of the client is taken from the wire or from its handler, and
\* whoever waits for it is answered, or nobody is.
LEMMA AnswerKeeps ==
  ASSUME SessionInv, NEW m \in wire \cup serving, NEW a \in Replies,
         Answer(m, a) \/ UNCHANGED call,
         wire' \subseteq wire, serving' \subseteq serving \cup wire,
         UNCHANGED <<config, sent, serverInfo>>,
         (ready' = ready) \/ ready',
         a = "noHandler" => m.op \notin Registered,
         a = "result" /\ m.op = "Initialize" => ready'
  PROVE  SessionInv'
<1> USE DEF SessionInv
<1>1. m \in [op : Requests, id : Nat, target : Nat]
  BY DEF SessionTyped
<1>2. ready => ready'
  OBVIOUS
<1>3. wire' \cup serving' \subseteq wire \cup serving
  OBVIOUS
<1>4. ASSUME NEW h \in ClientGoroutines
      PROVE  \/ call'[h] = call[h]
             \/ /\ call'[h] = [call[h] EXCEPT !.at = "replied", !.answer = a]
                /\ call[h].op = m.op
  <2>1. CASE UNCHANGED call BY <2>1
  <2>2. CASE Answer(m, a)
    BY <2>2 DEF Answer, IdsMatch
  <2> QED BY <2>1, <2>2
<1>5. \A h \in ClientGoroutines :
        call[h] \in [at : Stages, op : Requests \cup {"none"}, id : Nat, answer : Replies]
  BY DEF SessionTyped
<1>6. ASSUME NEW h \in ClientGoroutines
      PROVE  /\ call'[h] \in [at : Stages, op : Requests \cup {"none"}, id : Nat, answer : Replies]
             /\ call'[h].id = call[h].id /\ call'[h].op = call[h].op
             /\ call'[h].at = "waiting" => call[h].at = "waiting"
             /\ call'[h].answer = call[h].answer \/ (call'[h].answer = a /\ call[h].op = m.op)
  BY <1>4, <1>5, ZenonT(40) DEF Stages, Replies
<1>7. SessionTyped'
  <2>1. call' \in [ClientGoroutines ->
                    [at : Stages, op : Requests \cup {"none"}, id : Nat, answer : Replies]]
    <3>1. CASE UNCHANGED call BY <3>1 DEF SessionTyped
    <3>2. CASE Answer(m, a)
      <4>1. call' = [h \in ClientGoroutines |-> call'[h]] BY <3>2 DEF Answer
      <4> QED BY <4>1, <1>6
    <3> QED BY <3>1, <3>2
  <2>2. /\ wire' \subseteq [op : Requests, id : Nat, target : Nat]
        /\ serving' \subseteq [op : Requests, id : Nat, target : Nat]
    BY DEF SessionTyped
  <2> QED BY <2>1, <2>2 DEF SessionTyped
<1>8. IdsMatch'
  BY <1>3, <1>6 DEF IdsMatch
<1>9. ResultsFromReady'
  <2> SUFFICES ASSUME NEW h \in ClientGoroutines,
                      call'[h].op = "Initialize", call'[h].answer = "result"
               PROVE  ready'
    BY DEF ResultsFromReady
  <2>1. CASE call'[h].answer = call[h].answer
    BY <2>1, <1>2, <1>6 DEF ResultsFromReady
  <2>2. CASE call'[h].answer = a /\ call[h].op = m.op
    BY <2>2, <1>6
  <2> QED BY <2>1, <2>2, <1>6
<1>10. HandshakeAgrees'
  BY <1>2 DEF SessionSound, HandshakeAgrees
<1>11. AdvertisedIsServed'
  <2> SUFFICES ASSUME NEW h \in ClientGoroutines, call'[h].answer = "noHandler"
               PROVE  Unserved(call[h].op)
    BY <1>6 DEF AdvertisedIsServed, Unserved
  <2>1. CASE call'[h].answer = call[h].answer
    BY <2>1 DEF SessionSound, AdvertisedIsServed, Unserved
  <2>2. CASE call'[h].answer = a /\ call[h].op = m.op
    BY <2>2, <1>1, NoHandlerMeansUnserved
  <2> QED BY <2>1, <2>2, <1>6
<1> QED BY <1>7, <1>8, <1>9, <1>10, <1>11 DEF SessionSound

\* A step that leaves requests and calls alone.
LEMMA OtherKeeps ==
  ASSUME SessionInv, UNCHANGED <<config, serving, wire, call, sent, serverInfo>>,
         (ready' = ready) \/ ready'
  PROVE  SessionInv'
<1>1. ready => ready'
  OBVIOUS
<1> QED BY <1>1 DEF SessionInv, SessionTyped, IdsMatch, ResultsFromReady, SessionSound,
                    HandshakeAgrees, AdvertisedIsServed

LEMMA ClientCallsKeep ==
  ASSUME SessionInv, NEW g \in ClientGoroutines, ClientCalls(g)
  PROVE  SessionInv'
<1>1. ASSUME NEW op \in Requests, NEW cap, Request(g, op, cap) PROVE SessionInv'
  BY <1>1, RequestKeeps DEF Request, servervars, clientvars
<1>2. CASE Initialize(g)
  BY <1>2, RequestKeeps DEF Initialize, servervars, clientvars, Requests
<1>3. CASE Ping(g)
  BY <1>3, RequestKeeps DEF Ping, servervars, clientvars, Requests
<1>4. CASE Cancel(g)
  <2>1. PICK h \in ClientGoroutines : Post(g, "Cancel", call[h].id)
    BY <1>4 DEF Cancel
  <2>2. call[h].id \in Nat
    BY DEF SessionInv, SessionTyped
  <2> QED BY <2>1, <2>2, <1>4, RequestKeeps DEF Cancel, servervars, clientvars, Requests
<1> QED BY <1>1, <1>2, <1>3, <1>4
        DEF ClientCalls, Requests, ListTools, CallTool, CallToolStreaming, ListResources,
            ReadResource, SubscribeResource, ListPrompts, GetPrompt, Complete, ListRoots,
            SetLogLevel

LEMMA CallerStepsKeep ==
  ASSUME SessionInv, NEW g \in ClientGoroutines,
         InitializeSteps(g) \/ RequestFails(g) \/ Deliver(g) \/ CallReturns(g)
  PROVE  SessionInv'
<1>1. /\ UNCHANGED <<config, ready, serving, wire, sent>>
      /\ (serverInfo' = serverInfo) \/ ready
  <2>1. CASE StoreServerInfo(g)
    BY <2>1 DEF StoreServerInfo, SessionInv, ResultsFromReady, servervars
  <2> QED BY <2>1 DEF InitializeSteps, MergeCapabilities, MarkInitialized, SendInitialized,
                      RequestFails, Deliver, CallReturns, servervars, clientvars
<1>2. \/ Done(g)
      \/ Move(g, "answered", "merge") \/ Move(g, "merge", "mark")
      \/ Move(g, "mark", "notify") \/ Move(g, "replied", "answered")
  BY DEF InitializeSteps, StoreServerInfo, MergeCapabilities, MarkInitialized,
         SendInitialized, RequestFails, Deliver, CallReturns
<1>3. \E c \in {Idle} \cup {[call[g] EXCEPT !.at = b] : b \in Stages \ {"waiting"}} :
        call' = [call EXCEPT ![g] = c]
  <2>1. CASE Done(g) BY <2>1 DEF Done
  <2>2. ASSUME NEW b \in Stages \ {"waiting"}, call' = [call EXCEPT ![g].at = b]
        PROVE  \E c \in {[call[g] EXCEPT !.at = x] : x \in Stages \ {"waiting"}} :
                 call' = [call EXCEPT ![g] = c]
    BY <2>2
  <2> QED BY <2>1, <2>2, <1>2 DEF Move, Stages
<1> QED BY <1>1, <1>3, CallerKeeps

\* The handlers of features answer with one of these.
LEMMA FeatureReplies ==
  ASSUME NEW op \in Requests \ {"Initialize", "Cancel"}, NEW a \in Answers(op)
  PROVE  a \in Replies \ {"none", "noHandler"}
BY DEF Requests, Replies, Answers, Ask, handleListTools, handleCallTool, handleListResources,
       handleReadResource, handleSubscribeResource, handleListPrompts, handleGetPrompt,
       handleComplete, handleListRoots, handlePing, handleSetLogLevel

LEMMA ServerStepsKeep ==
  ASSUME SessionInv, ServerSteps
  PROVE  SessionInv'
<1> USE DEF Asleep, clientvars
<1>1. ASSUME NEW m \in wire, Arrive(m) PROVE SessionInv'
  <2>1. /\ wire' \subseteq wire /\ serving' \subseteq serving \cup wire
        /\ UNCHANGED <<config, sent, serverInfo, ready>>
        /\ (Answer(m, "noHandler") /\ m.op \notin Registered) \/ UNCHANGED call
    BY <1>1 DEF Arrive
  <2>2. CASE UNCHANGED call
    BY <2>1, <2>2, AnswerKeeps DEF Replies
  <2>3. CASE Answer(m, "noHandler") /\ m.op \notin Registered
    BY <2>1, <2>3, AnswerKeeps DEF Replies
  <2> QED BY <2>1, <2>2, <2>3
<1>2. ASSUME NEW m \in serving, NEW a \in Replies \ {"noHandler"}, Serve(m, a),
             (ready' = ready) \/ ready',
             a = "result" /\ m.op = "Initialize" => ready'
      PROVE  SessionInv'
  <2>1. /\ wire' \subseteq wire /\ serving' \subseteq serving \cup wire
        /\ UNCHANGED <<config, sent, serverInfo>> /\ Answer(m, a)
    BY <1>2 DEF Serve
  <2> QED BY <1>2, <2>1, AnswerKeeps
<1>3. ASSUME NEW m \in serving, handleInitialize(m) PROVE SessionInv'
  BY <1>2, <1>3 DEF handleInitialize, Replies
<1>4. ASSUME NEW m \in serving, handleCancel(m) PROVE SessionInv'
  BY <1>2, <1>4 DEF handleCancel, Replies
<1>5. ASSUME NEW m \in serving, HandleFeature(m) PROVE SessionInv'
  <2>1. m.op \in Requests \ {"Initialize", "Cancel"}
    BY <1>5 DEF HandleFeature, SessionInv, SessionTyped
  <2> QED BY <1>2, <1>5, <2>1, FeatureReplies DEF HandleFeature
<1>6. CASE handleInitialized
  BY <1>6, OtherKeeps DEF handleInitialized
<1> QED BY <1>1, <1>3, <1>4, <1>5, <1>6 DEF ServerSteps

LEMMA QuietStepsKeep ==
  ASSUME SessionInv,
         \/ ClientStart \/ SetSamplingCallback \/ SetResourceChangedCallback
         \/ \E k \in Pushes : HandlePush(k)
         \/ CallbackReturns \/ ServerStart \/ ServerStop \/ ServerPushes
         \/ UNCHANGED csvars
  PROVE  SessionInv'
<1>1. UNCHANGED <<config, ready, serving, wire, call, sent, serverInfo>>
  BY DEF ClientStart, SetSamplingCallback, SetResourceChangedCallback, HandlePush,
         CallbackReturns, ServerStart, ServerStop, ServerPushes, NotifyToolsChanged,
         NotifyResourcesChanged, NotifyResourceUpdated, NotifyPromptsChanged,
         NotifyRootsChanged, SendLog, SendProgress, PeerSamples, Push, Asleep,
         servervars, clientvars, csvars
<1> QED BY <1>1, OtherKeeps

LEMMA SessionStarts == ASSUME ClientServerInit PROVE SessionInv
<1> USE DEF ClientServerInit, ClientInit, ServerInit
<1>1. Idle \in [at : Stages, op : Requests \cup {"none"}, id : Nat, answer : Replies]
  BY DEF Idle, Stages, Replies
<1>2. SessionTyped
  BY <1>1 DEF SessionTyped
<1>3. \A g \in ClientGoroutines :
        call[g].id = 0 /\ call[g].op = "none" /\ call[g].answer = "none"
  BY DEF Idle
<1> QED BY <1>2, <1>3 DEF SessionInv, IdsMatch, ResultsFromReady, SessionSound,
                          HandshakeAgrees, AdvertisedIsServed

LEMMA NextSessionInv == SessionInv /\ [ClientServerNext]_csvars => SessionInv'
BY ClientCallsKeep, CallerStepsKeep, ServerStepsKeep, QuietStepsKeep DEF ClientServerNext

\* The inductive invariant of client and server: an id belongs to one request
\* (transport.go, GenerateID), and a result for initialize comes from a server
\* that is initialized (server.go:570).
THEOREM SessionInductive == ClientServerSpec => []SessionInv
BY NextSessionInv, SessionStarts, PTL DEF ClientServerSpec

\* For any clients, options and number of requests: a client that has its
\* server's answer to initialize has a server that is initialized
\* (server.go:570), and a call for an advertised capability finds a handler
\* (server.go:239).  The reason is that an answer goes to the one call whose id
\* it bears.
THEOREM SessionsAgree == ClientServerSpec => []SessionSound
BY SessionInductive, PTL DEF SessionInv

\* The options and the flags of both sides.
FieldsTyped ==
  /\ config \in Configs
  /\ life \in {"new", "started", "stopped"} /\ ready \in BOOLEAN
  /\ hello \in BOOLEAN /\ notes \subseteq Pushes
  /\ serverInfo \in BOOLEAN /\ caps \subseteq Caps /\ cready \in BOOLEAN
  /\ reading \in BOOLEAN
  /\ callbacks \subseteq {"sampling", "resourceChanged"} /\ busy \in BOOLEAN
  /\ crashed \in BOOLEAN

\* No id is larger than the number of requests there may be.
IdsInRange ==
  /\ active \subseteq 1..MaxSent /\ missed \subseteq 1..MaxSent
  /\ \A m \in serving \cup wire : m.id \in 1..MaxSent /\ m.target \in 0..MaxSent
  /\ \A g \in ClientGoroutines : call[g].id \in 0..MaxSent
  /\ sent \in 0..MaxSent

LEMMA FieldsStart == ASSUME ClientServerInit PROVE FieldsTyped /\ IdsInRange
<1>1. FieldsTyped
  BY ClientServerAssumption
     DEF ClientServerInit, ClientInit, ServerInit, FieldsTyped, Caps
<1>2. 0 \in 0..MaxSent
  BY ClientServerAssumption
<1> QED BY <1>1, <1>2 DEF ClientServerInit, ServerInit, IdsInRange, Idle

\* A client that calls may die of it, and changes no other field.
LEMMA CallFields ==
  ASSUME FieldsTyped, NEW g \in ClientGoroutines, ClientCalls(g)
  PROVE  FieldsTyped'
<1>1. Merging \in BOOLEAN
  BY DEF Merging
<1>2. /\ UNCHANGED <<config, life, ready, hello, notes, serverInfo, caps, cready, reading,
                     callbacks, busy>>
      /\ crashed' \in {FALSE, Merging, crashed}
  BY Zenon DEF ClientCalls, Initialize, Ping, Cancel, Request, ListTools, CallTool,
       CallToolStreaming, ListResources, ReadResource, SubscribeResource, ListPrompts,
       GetPrompt, Complete, ListRoots, SetLogLevel, servervars, clientvars
<1> QED BY <1>1, <1>2 DEF FieldsTyped

LEMMA InitializeFields ==
  ASSUME FieldsTyped, NEW g \in ClientGoroutines,
         InitializeSteps(g) \/ RequestFails(g) \/ Deliver(g) \/ CallReturns(g)
  PROVE  FieldsTyped'
<1>1. CASE StoreServerInfo(g)
  BY <1>1 DEF StoreServerInfo, FieldsTyped, servervars
<1>2. CASE MergeCapabilities(g)
  <2>1. (\E h \in ClientGoroutines \ {g} : call[h].at = "merge") \in BOOLEAN
    OBVIOUS
  <2>2. crashed' \in BOOLEAN /\ caps' = caps \cup config.caps
    BY <1>2, <2>1, Zenon DEF MergeCapabilities
  <2>3. config.caps \subseteq Caps
    BY ClientServerAssumption DEF FieldsTyped
  <2> QED BY <1>2, <2>2, <2>3 DEF MergeCapabilities, FieldsTyped, servervars
<1>3. CASE MarkInitialized(g)
  BY <1>3 DEF MarkInitialized, FieldsTyped, servervars
<1>4. CASE SendInitialized(g)
  BY <1>4 DEF SendInitialized, FieldsTyped, servervars, clientvars
<1>5. CASE RequestFails(g) \/ Deliver(g) \/ CallReturns(g)
  BY <1>5 DEF RequestFails, Deliver, CallReturns, FieldsTyped, servervars, clientvars
<1> QED BY <1>1, <1>2, <1>3, <1>4, <1>5 DEF InitializeSteps

LEMMA ServerFields == ASSUME FieldsTyped, ServerSteps PROVE FieldsTyped'
<1>1. /\ UNCHANGED <<config, life, notes, serverInfo, caps, cready, reading, callbacks,
                     busy, crashed>>
      /\ ready' \in {ready, TRUE} /\ hello' \in {hello, FALSE}
  BY DEF ServerSteps, Arrive, handleInitialize, handleCancel, HandleFeature,
         handleInitialized, Serve, Asleep, clientvars
<1> QED BY <1>1 DEF FieldsTyped

LEMMA QuietFields ==
  ASSUME FieldsTyped,
         \/ ClientStart \/ SetSamplingCallback \/ SetResourceChangedCallback
         \/ \E k \in Pushes : HandlePush(k)
         \/ CallbackReturns \/ ServerStart \/ ServerStop \/ ServerPushes
         \/ UNCHANGED csvars
  PROVE  FieldsTyped'
<1>1. CASE ClientStart \/ CallbackReturns
  BY <1>1 DEF ClientStart, CallbackReturns, FieldsTyped, servervars
<1>2. CASE SetSamplingCallback \/ SetResourceChangedCallback
  BY <1>2 DEF SetSamplingCallback, SetResourceChangedCallback, FieldsTyped, servervars
<1>3. ASSUME NEW k \in Pushes, HandlePush(k) PROVE FieldsTyped'
  <2>1. busy' \in BOOLEAN /\ notes' = notes \ {k}
    BY <1>3, Zenon DEF HandlePush
  <2> QED BY <1>3, <2>1 DEF HandlePush, FieldsTyped, servervars
<1>4. CASE ServerStart \/ ServerStop
  BY <1>4 DEF ServerStart, ServerStop, FieldsTyped, Asleep, clientvars
<1>5. CASE ServerPushes
  <2>1. \E k \in Pushes : Push(k)
    BY <1>5 DEF ServerPushes, NotifyToolsChanged, NotifyResourcesChanged,
                NotifyResourceUpdated, NotifyPromptsChanged, NotifyRootsChanged, SendLog,
                SendProgress, PeerSamples, Pushes
  <2> QED BY <2>1 DEF Push, FieldsTyped, servervars, clientvars
<1>6. CASE UNCHANGED csvars
  BY <1>6 DEF csvars, servervars, clientvars, FieldsTyped
<1> QED BY <1>1, <1>2, <1>3, <1>4, <1>5, <1>6

\* A request gets the next number.
LEMMA PostInRange ==
  ASSUME SessionTyped, IdsInRange, NEW g \in ClientGoroutines, NEW op \in Requests,
         NEW target \in 0..MaxSent, Post(g, op, target),
         UNCHANGED <<active, missed, serving>>
  PROVE  IdsInRange'
<1> DEFINE c == [at |-> "waiting", op |-> op, id |-> sent + 1, answer |-> "none"]
           m == [op |-> op, id |-> sent + 1, target |-> target]
<1>1. /\ call' = [call EXCEPT ![g] = c] /\ wire' = wire \cup {m} /\ sent' = sent + 1
      /\ sent + 1 \in 1..MaxSent /\ sent + 1 \in 0..MaxSent
  BY ClientServerAssumption DEF Post, IdsInRange
<1>2. c.id = sent + 1 /\ m.id = sent + 1 /\ m.target = target
  OBVIOUS
<1> HIDE DEF c, m
<1>3. \A h \in ClientGoroutines : call'[h].id \in 0..MaxSent
  BY <1>1, <1>2 DEF SessionTyped, IdsInRange
<1>4. \A x \in serving' \cup wire' : x.id \in 1..MaxSent /\ x.target \in 0..MaxSent
  BY <1>1, <1>2 DEF IdsInRange
<1> QED BY <1>1, <1>3, <1>4 DEF IdsInRange

LEMMA CallsInRange ==
  ASSUME SessionTyped, IdsInRange, NEW g \in ClientGoroutines, ClientCalls(g)
  PROVE  IdsInRange'
<1>1. UNCHANGED <<active, missed, serving>>
  BY DEF ClientCalls, Initialize, Ping, Cancel, Request, ListTools, CallTool,
       CallToolStreaming, ListResources, ReadResource, SubscribeResource, ListPrompts,
       GetPrompt, Complete, ListRoots, SetLogLevel, servervars, clientvars
<1>2. \E op \in Requests, target \in 0..MaxSent : Post(g, op, target)
  <2>1. 0 \in 0..MaxSent
    BY ClientServerAssumption
  <2>2. CASE Cancel(g)
    <3>1. PICK h \in ClientGoroutines : Post(g, "Cancel", call[h].id)
      BY <2>2 DEF Cancel
    <3>2. call[h].id \in 0..MaxSent /\ "Cancel" \in Requests
      BY DEF IdsInRange, Requests
    <3> QED BY <3>1, <3>2
  <2>3. CASE \E op \in Requests : Post(g, op, 0)
    BY <2>1, <2>3
  <2>4. ClientCalls(g) => Cancel(g) \/ \E op \in Requests : Post(g, op, 0)
    BY DEF ClientCalls, Initialize, Ping, Request, ListTools, CallTool,
       CallToolStreaming, ListResources, ReadResource, SubscribeResource, ListPrompts,
       GetPrompt, Complete, ListRoots, SetLogLevel, Requests
  <2> QED BY <2>2, <2>3, <2>4
<1> QED BY <1>1, <1>2, PostInRange

LEMMA CallerInRange ==
  ASSUME SessionTyped, IdsInRange, NEW g \in ClientGoroutines,
         InitializeSteps(g) \/ RequestFails(g) \/ Deliver(g) \/ CallReturns(g)
  PROVE  IdsInRange'
<1>1. UNCHANGED <<active, missed, serving, wire, sent>>
  BY DEF InitializeSteps, StoreServerInfo, MergeCapabilities, MarkInitialized,
         SendInitialized, RequestFails, Deliver, CallReturns, servervars, clientvars
<1>2. \A h \in ClientGoroutines : call'[h].id \in {0, call[h].id}
  <2>1. CASE Done(g)
    BY <2>1 DEF Done, Idle, SessionTyped
  <2>2. ASSUME NEW b \in Stages, call' = [call EXCEPT ![g].at = b]
        PROVE  \A h \in ClientGoroutines : call'[h].id \in {0, call[h].id}
    <3>1. \A h \in ClientGoroutines :
            call'[h] = IF h = g THEN [call[g] EXCEPT !.at = b] ELSE call[h]
      BY <2>2 DEF SessionTyped
    <3>2. [call[g] EXCEPT !.at = b].id = call[g].id
      BY DEF SessionTyped
    <3> QED BY <3>1, <3>2
  <2>3. \/ Done(g)
        \/ Move(g, "answered", "merge") \/ Move(g, "merge", "mark")
        \/ Move(g, "mark", "notify") \/ Move(g, "replied", "answered")
    BY DEF InitializeSteps, StoreServerInfo, MergeCapabilities, MarkInitialized,
           SendInitialized, RequestFails, Deliver, CallReturns
  <2> QED BY <2>1, <2>2, <2>3 DEF Move, Stages
<1>3. 0 \in 0..MaxSent
  BY ClientServerAssumption
<1> QED BY <1>1, <1>2, <1>3 DEF IdsInRange

\* An answer leaves the ids of the calls.
LEMMA AnswerInRange ==
  ASSUME SessionTyped, IdsInRange, NEW m, NEW a,
         Answer(m, a) \/ UNCHANGED call,
         active' \subseteq active, missed' \subseteq missed \cup {x.id : x \in serving},
         serving' \cup wire' \subseteq serving \cup wire, sent' = sent
  PROVE  IdsInRange'
<1>1. \A h \in ClientGoroutines : call'[h].id = call[h].id
  <2>1. CASE Answer(m, a)
    <3> SUFFICES ASSUME NEW h \in ClientGoroutines PROVE call'[h].id = call[h].id
      OBVIOUS
    <3>1. call'[h] \in {call[h], [call[h] EXCEPT !.at = "replied", !.answer = a]}
      BY <2>1 DEF Answer
    <3>2. [call[h] EXCEPT !.at = "replied", !.answer = a].id = call[h].id
      BY DEF SessionTyped
    <3> QED BY <3>1, <3>2
  <2> QED BY <2>1
<1>2. \A x \in serving : x.id \in 1..MaxSent
  BY DEF IdsInRange
<1> QED BY <1>1, <1>2 DEF IdsInRange

LEMMA ServerInRange ==
  ASSUME SessionTyped, IdsInRange, ServerSteps
  PROVE  IdsInRange'
<1> USE DEF Asleep, clientvars
<1>1. ASSUME NEW m \in wire, Arrive(m) PROVE IdsInRange'
  <2>1. /\ Answer(m, "noHandler") \/ UNCHANGED call
        /\ serving' \cup wire' \subseteq serving \cup wire
        /\ UNCHANGED <<active, missed, sent>>
    BY <1>1 DEF Arrive
  <2> QED BY <2>1, AnswerInRange
<1>2. ASSUME NEW m \in serving, NEW a, Serve(m, a), active' \subseteq active,
             missed' \subseteq missed \cup {x.id : x \in serving}
      PROVE  IdsInRange'
  <2>1. /\ Answer(m, a) /\ serving' \cup wire' \subseteq serving \cup wire
        /\ sent' = sent
    BY <1>2 DEF Serve
  <2> QED BY <1>2, <2>1, AnswerInRange
<1>3. ASSUME NEW m \in serving, handleInitialize(m) PROVE IdsInRange'
  BY <1>2, <1>3 DEF handleInitialize
<1>4. ASSUME NEW m \in serving, handleCancel(m) PROVE IdsInRange'
  <2>1. /\ \E a : Serve(m, a)
        /\ active' \subseteq active
        /\ missed' \subseteq missed \cup {x.id : x \in serving}
    BY <1>4 DEF handleCancel
  <2> QED BY <1>2, <2>1
<1>5. ASSUME NEW m \in serving, HandleFeature(m) PROVE IdsInRange'
  <2>1. (\E a \in Answers(m.op) : Serve(m, a)) /\ UNCHANGED <<active, missed>>
    BY <1>5 DEF HandleFeature
  <2> QED BY <1>2, <2>1
<1>6. CASE handleInitialized
  BY <1>6 DEF handleInitialized, IdsInRange
<1> QED BY <1>1, <1>3, <1>4, <1>5, <1>6 DEF ServerSteps

LEMMA QuietInRange ==
  ASSUME IdsInRange,
         \/ ClientStart \/ SetSamplingCallback \/ SetResourceChangedCallback
         \/ \E k \in Pushes : HandlePush(k)
         \/ CallbackReturns \/ ServerStart \/ ServerStop \/ ServerPushes
         \/ UNCHANGED csvars
  PROVE  IdsInRange'
<1>1. UNCHANGED <<serving, wire, call, sent, missed>> /\ active' \in {active, {}}
  BY DEF ClientStart, SetSamplingCallback, SetResourceChangedCallback, HandlePush,
         CallbackReturns, ServerStart, ServerStop, ServerPushes, NotifyToolsChanged,
         NotifyResourcesChanged, NotifyResourceUpdated, NotifyPromptsChanged,
         NotifyRootsChanged, SendLog, SendProgress, PeerSamples, Push, Asleep,
         servervars, clientvars, csvars
<1> QED BY <1>1 DEF IdsInRange

LEMMA NextFields ==
  ASSUME SessionInv, FieldsTyped, IdsInRange, [ClientServerNext]_csvars
  PROVE  FieldsTyped' /\ IdsInRange'
<1>1. SessionTyped
  BY DEF SessionInv
<1>2. ASSUME NEW g \in ClientGoroutines,
             \/ ClientCalls(g) \/ InitializeSteps(g) \/ RequestFails(g)
             \/ Deliver(g) \/ CallReturns(g)
      PROVE  FieldsTyped' /\ IdsInRange'
  BY <1>1, <1>2, CallFields, InitializeFields, CallsInRange, CallerInRange
<1>3. CASE ServerSteps
  BY <1>1, <1>3, ServerFields, ServerInRange
<1>4. CASE \/ ClientStart \/ SetSamplingCallback \/ SetResourceChangedCallback
           \/ \E k \in Pushes : HandlePush(k)
           \/ CallbackReturns \/ ServerStart \/ ServerStop \/ ServerPushes
           \/ UNCHANGED csvars
  BY <1>4, QuietFields, QuietInRange
<1> QED BY <1>2, <1>3, <1>4 DEF ClientServerNext

LEMMA SessionTyping == FieldsTyped /\ IdsInRange => ClientServerTypeOK
BY DEF FieldsTyped, IdsInRange, ClientServerTypeOK

\* The fields of both sides keep their types: the client's map of capabilities
\* holds no name that an option or the server has not put there.
THEOREM SessionTypeCorrect == ClientServerSpec => []ClientServerTypeOK
<1>1. ClientServerInit => SessionInv /\ FieldsTyped /\ IdsInRange
  BY SessionStarts, FieldsStart
<1>2. SessionInv /\ FieldsTyped /\ IdsInRange /\ [ClientServerNext]_csvars
        => SessionInv' /\ FieldsTyped' /\ IdsInRange'
  BY NextSessionInv, NextFields
<1> QED BY <1>1, <1>2, SessionTyping, PTL DEF ClientServerSpec

-----------------------------------------------------------------------------
(* Observability                                                            *)

SpanCalls  == [op : Operations, method : Methods, transport : Wrapped,
               recorded : BOOLEAN, status : Statuses]
SpanPhases == {"idle", "inner", "observe", "count", "size", "end"} \cup Stopping

SpansTyped ==
  /\ phase \in [SpanGoroutines -> SpanPhases]
  /\ current \in [SpanGoroutines -> SpanCalls]
  /\ durations \in [Families \X Statuses -> Nat]
  /\ totals \in [Counted \X Statuses -> Nat]
  /\ sizes \in [Statuses -> Nat]
  /\ ended \in [Families -> Nat]
  /\ panics \in [Families -> Nat]

\* Only a batch has a size to observe, only a counted family a counter, and
\* a Stop that is past the tracer provider's Shutdown, or in it, has called it.
RightPhase ==
  \A g \in SpanGoroutines :
    /\ phase[g] = "size" => FamilyAt(g) = "batch"
    /\ phase[g] = "count" => FamilyAt(g) \in Counted
    /\ phase[g] \in {"closing", "stopMetrics"} => tracer # "up"

\* The batches of an outcome that are counted and have no size yet.
Unsized(s) == Cardinality({g \in SpanGoroutines : phase[g] = "size" /\ current[g].status = s})

\* Each outcome of a batch is sized once, and not only the two together.
Sized == \A s \in Statuses : sizes[s] + Unsized(s) = totals[<<"batch", s>>]

TracingInv == SpansTyped /\ RightPhase /\ Sized /\ TracingSound

LEMMA FamilyKnown ==
  /\ \A op \in Operations : FamilyOf(op) \in Families
  /\ Counted \subseteq Families /\ "batch" \in Counted
  /\ FamilyOf("SendRequest") = "request"
BY DEF Operations, FamilyOf, Families, Counted

\* Two sets of goroutines that differ at most in one.
LEMMA OneMoves ==
  ASSUME NEW S \in SUBSET SpanGoroutines, NEW T \in SUBSET SpanGoroutines,
         NEW g, \A h \in SpanGoroutines : h # g => (h \in S <=> h \in T)
  PROVE  /\ Cardinality(S) \in Nat /\ Cardinality(T) \in Nat
         /\ (g \in S <=> g \in T) => Cardinality(T) = Cardinality(S)
         /\ g \notin S /\ g \in T => Cardinality(T) = Cardinality(S) + 1
         /\ g \in S /\ g \notin T => Cardinality(S) = Cardinality(T) + 1
<1>1. IsFiniteSet(S) /\ IsFiniteSet(T)
  BY ObservabilityAssumption, FS_Subset
<1>2. Cardinality(S) \in Nat /\ Cardinality(T) \in Nat
  BY <1>1, FS_CardinalityType
<1>3. (g \in S <=> g \in T) => T = S
  OBVIOUS
<1>4. g \notin S /\ g \in T => T = S \cup {g}
  OBVIOUS
<1>5. g \in S /\ g \notin T => S = T \cup {g}
  OBVIOUS
<1> QED BY <1>1, <1>2, <1>3, <1>4, <1>5, FS_AddElement

\* One goroutine takes a step.
Moves(g) ==
  \A h \in SpanGoroutines \ {g} : phase'[h] = phase[h] /\ current'[h] = current[h]

\* A goroutine is in one of some phases of a call of a family, or is to size
\* a batch of an outcome.
In(g, f, steps) == phase[g] \in steps /\ FamilyAt(g) = f
ToSize(g, s)    == phase[g] = "size" /\ current[g].status = s

\* How the number of such goroutines changes with a step of one.
LEMMA AmongMoves ==
  ASSUME NEW g \in SpanGoroutines, Moves(g), NEW f, NEW steps
  PROVE  /\ Among(f, steps) \in Nat /\ Among(f, steps)' \in Nat
         /\ (In(g, f, steps) <=> In(g, f, steps)') => Among(f, steps)' = Among(f, steps)
         /\ ~In(g, f, steps) /\ In(g, f, steps)' => Among(f, steps)' = Among(f, steps) + 1
         /\ In(g, f, steps) /\ ~In(g, f, steps)' => Among(f, steps) = Among(f, steps)' + 1
<1> DEFINE S == {h \in SpanGoroutines : phase[h] \in steps /\ FamilyAt(h) = f}
           T == {h \in SpanGoroutines : phase'[h] \in steps /\ FamilyAt(h)' = f}
<1>1. \A h \in SpanGoroutines : h # g => (h \in S <=> h \in T)
  BY DEF Moves, FamilyAt
<1>2. Among(f, steps) = Cardinality(S) /\ Among(f, steps)' = Cardinality(T)
  BY DEF Among
<1>3. (g \in S <=> In(g, f, steps)) /\ (g \in T <=> In(g, f, steps)')
  BY DEF In
<1>4. S \in SUBSET SpanGoroutines /\ T \in SUBSET SpanGoroutines
  OBVIOUS
<1> HIDE DEF S, T
<1>5. /\ Cardinality(S) \in Nat /\ Cardinality(T) \in Nat
      /\ (g \in S <=> g \in T) => Cardinality(T) = Cardinality(S)
      /\ g \notin S /\ g \in T => Cardinality(T) = Cardinality(S) + 1
      /\ g \in S /\ g \notin T => Cardinality(S) = Cardinality(T) + 1
  BY <1>1, <1>4, OneMoves
<1> QED BY <1>2, <1>3, <1>5

LEMMA UnsizedMoves ==
  ASSUME NEW g \in SpanGoroutines, Moves(g), NEW s
  PROVE  /\ Unsized(s) \in Nat /\ Unsized(s)' \in Nat
         /\ (ToSize(g, s) <=> ToSize(g, s)') => Unsized(s)' = Unsized(s)
         /\ ~ToSize(g, s) /\ ToSize(g, s)' => Unsized(s)' = Unsized(s) + 1
         /\ ToSize(g, s) /\ ~ToSize(g, s)' => Unsized(s) = Unsized(s)' + 1
<1> DEFINE S == {h \in SpanGoroutines : phase[h] = "size" /\ current[h].status = s}
           T == {h \in SpanGoroutines : phase'[h] = "size" /\ current'[h].status = s}
<1>1. \A h \in SpanGoroutines : h # g => (h \in S <=> h \in T)
  BY DEF Moves
<1>2. Unsized(s) = Cardinality(S) /\ Unsized(s)' = Cardinality(T)
  BY DEF Unsized
<1>3. (g \in S <=> ToSize(g, s)) /\ (g \in T <=> ToSize(g, s)')
  BY DEF ToSize
<1>4. S \in SUBSET SpanGoroutines /\ T \in SUBSET SpanGoroutines
  OBVIOUS
<1> HIDE DEF S, T
<1>5. /\ Cardinality(S) \in Nat /\ Cardinality(T) \in Nat
      /\ (g \in S <=> g \in T) => Cardinality(T) = Cardinality(S)
      /\ g \notin S /\ g \in T => Cardinality(T) = Cardinality(S) + 1
      /\ g \in S /\ g \notin T => Cardinality(S) = Cardinality(T) + 1
  BY <1>1, <1>4, OneMoves
<1> QED BY <1>2, <1>3, <1>5

\* A family's sum over the two outcomes.
Both(c, f) == c[<<f, "success">>] + c[<<f, "error">>]

\* One more of a family and an outcome.
OneMoreOf(c, d, F, f, s) ==
  \A e \in F, t \in Statuses :
    d[<<e, t>>] = IF e = f /\ t = s THEN c[<<e, t>>] + 1 ELSE c[<<e, t>>]

LEMMA OneMore ==
  ASSUME NEW F, NEW c \in [F \X Statuses -> Nat], NEW f \in F, NEW s \in Statuses,
         NEW d, OneMoreOf(c, d, F, f, s)
  PROVE  /\ \A e \in F : Both(c, e) \in Nat
         /\ Both(d, f) = Both(c, f) + 1
         /\ \A e \in F : e # f => Both(d, e) = Both(c, e)
<1>1. \A e \in F, t \in Statuses :
        /\ c[<<e, t>>] \in Nat
        /\ d[<<e, t>>] = IF e = f /\ t = s THEN c[<<e, t>>] + 1 ELSE c[<<e, t>>]
  BY DEF OneMoreOf
<1>2. s \in {"success", "error"} /\ "success" \in Statuses /\ "error" \in Statuses
  BY DEF Statuses
<1>3. \A e \in F : Both(c, e) \in Nat
  BY <1>1, <1>2 DEF Both
<1>4. \A e \in F : e # f => Both(d, e) = Both(c, e)
  BY <1>1, <1>2 DEF Both
<1>5. Both(d, f) = Both(c, f) + 1
  BY <1>1, <1>2 DEF Both
<1> QED BY <1>3, <1>4, <1>5

\* What the tracer and the metrics say of a family, in numbers.
Agree(f) ==
  /\ ended[f] + Among(f, {"size", "end"}) = Both(totals, f) + panics[f]
  /\ Both(durations, f) = Both(totals, f) + Among(f, {"count"})

Sums ==
  /\ \A f \in Counted : Agree(f)
  /\ sizes["success"] + sizes["error"] + Among("batch", {"size"}) = Both(totals, "batch")

LEMMA InSums == TracesMatchMetrics => Sums
BY DEF TracesMatchMetrics, Sums, Agree, Both

LEMMA OutOfSums ==
  ASSUME SpansTyped', Sized', Sums', \A s \in Statuses : Unsized(s)' \in Nat
  PROVE  TracesMatchMetrics'
<1>1. ASSUME NEW s \in Statuses PROVE sizes'[s] <= totals'[<<"batch", s>>]
  <2>1. /\ sizes'[s] \in Nat /\ totals'[<<"batch", s>>] \in Nat /\ Unsized(s)' \in Nat
        /\ sizes'[s] + Unsized(s)' = totals'[<<"batch", s>>]
    BY FamilyKnown DEF SpansTyped, Sized
  <2> QED BY <2>1
<1> QED BY <1>1 DEF TracesMatchMetrics, Sums, Agree, Both

LEMMA RightStays ==
  ASSUME RightPhase, NEW g \in SpanGoroutines, Moves(g),
         tracer # "up" => tracer' # "up",
         phase'[g] = "size" => FamilyAt(g)' = "batch",
         phase'[g] = "count" => FamilyAt(g)' \in Counted,
         phase'[g] \in {"closing", "stopMetrics"} => tracer' # "up"
  PROVE  RightPhase'
BY DEF RightPhase, Moves, FamilyAt

\* A step that is none of a Stop past the tracer provider.
LEMMA StopStays ==
  ASSUME StopCompletes, NEW g \in SpanGoroutines, Moves(g), phase[g] # "stopMetrics",
         UNCHANGED <<tracer, stopped, failed>>
  PROVE  StopCompletes'
BY DEF StopCompletes, Moves

LEMMA Settles ==
  ASSUME TracingInv, NEW g \in SpanGoroutines, Moves(g), SpansTyped', RightPhase',
         StopCompletes', Sums', Sized'
  PROVE  TracingInv'
<1>1. \A s \in Statuses : Unsized(s)' \in Nat
  BY UnsizedMoves
<1>2. TracesMatchMetrics'
  BY <1>1, OutOfSums
<1> QED BY <1>2 DEF TracingInv, TracingSound

\* A step that records nothing and does not come near the recording.
LEMMA QuietKeeps ==
  ASSUME TracingInv, NEW g \in SpanGoroutines, Moves(g), SpansTyped', RightPhase',
         StopCompletes', UNCHANGED <<countvars, ended, panics>>,
         phase[g] \notin {"count", "size", "end"},
         phase'[g] \notin {"count", "size", "end"}
  PROVE  TracingInv'
<1>1. UNCHANGED <<durations, totals, sizes, ended, panics>>
  BY DEF countvars
<1>2. ASSUME NEW f \in Counted, NEW steps \in {{"count"}, {"size"}, {"size", "end"}}
      PROVE  Among(f, steps)' = Among(f, steps)
  <2>1. ~In(g, f, steps) /\ ~In(g, f, steps)'
    BY <1>2 DEF In
  <2> QED BY <2>1, AmongMoves
<1>3. \A s \in Statuses : Unsized(s)' = Unsized(s)
  BY UnsizedMoves DEF ToSize
<1>4. Sized'
  BY <1>1, <1>3 DEF TracingInv, Sized
<1>5. Sums
  BY InSums DEF TracingInv, TracingSound
<1>6. Sums'
  BY <1>1, <1>2, <1>5, FamilyKnown DEF Sums, Agree, Both
<1> QED BY <1>4, <1>6, Settles

\* What a counted family's numbers are.
LEMMA Numbers ==
  ASSUME SpansTyped, NEW f \in Counted
  PROVE  /\ ended[f] \in Nat /\ panics[f] \in Nat
         /\ Both(totals, f) \in Nat /\ Both(durations, f) \in Nat
<1>1. f \in Families /\ "success" \in Statuses /\ "error" \in Statuses
  BY FamilyKnown DEF Statuses
<1> QED BY <1>1 DEF SpansTyped, Both

LEMMA ObserveKeeps == ASSUME TracingInv, NEW g \in SpanGoroutines, Observe(g) PROVE TracingInv'
<1> DEFINE k == FamilyAt(g)
           s0 == current[g].status
<1>1. /\ phase[g] = "observe" /\ current' = current /\ UNCHANGED <<totals, sizes, ended, panics>>
      /\ phase' = [phase EXCEPT ![g] = IF k \in Counted THEN "count" ELSE "end"]
      /\ durations' = [durations EXCEPT ![<<k, s0>>] = @ + 1]
      /\ UNCHANGED <<tracer, stopped, failed>>
  BY DEF Observe, At, GoOn, Label, spanvars
<1>2. k \in Families /\ s0 \in Statuses
  BY FamilyKnown DEF TracingInv, SpansTyped, SpanCalls, FamilyAt
<1>3. /\ durations' \in [Families \X Statuses -> Nat]
      /\ Both(durations', k) = Both(durations, k) + 1
      /\ \A f \in Families : f # k => Both(durations', f) = Both(durations, f)
  <2>1. durations \in [Families \X Statuses -> Nat]
    BY DEF TracingInv, SpansTyped
  <2> HIDE DEF k, s0
  <2>2. durations' \in [Families \X Statuses -> Nat]
    BY <1>1, <1>2, <2>1
  <2>3. OneMoreOf(durations, durations', Families, k, s0)
    BY <1>1, <1>2, <2>1 DEF OneMoreOf
  <2> QED BY <1>2, <2>1, <2>2, <2>3, OneMore, SMTT(30)
<1>4. SpansTyped'
  BY <1>1, <1>3 DEF TracingInv, SpansTyped, SpanPhases
<1>5. phase'[g] = IF k \in Counted THEN "count" ELSE "end"
  BY <1>1 DEF TracingInv, SpansTyped
<1>6. Moves(g) /\ FamilyAt(g)' = k
  BY <1>1 DEF TracingInv, SpansTyped, Moves, FamilyAt
<1> HIDE DEF k, s0
<1>7. RightPhase'
  BY <1>1, <1>5, <1>6, RightStays DEF TracingInv
<1>8. Sums
  BY InSums DEF TracingInv, TracingSound
<1>9. ASSUME NEW f \in Counted PROVE Agree(f)'
  <2>1. /\ ended[f] + Among(f, {"size", "end"}) = Both(totals, f) + panics[f]
        /\ Both(durations, f) = Both(totals, f) + Among(f, {"count"})
    BY <1>8 DEF Sums, Agree
  <2>2. Among(f, {"size", "end"})' = Among(f, {"size", "end"})
    <3>1. ~In(g, f, {"size", "end"}) /\ ~In(g, f, {"size", "end"})'
      BY <1>1, <1>5, <1>6 DEF In
    <3> QED BY <3>1, <1>6, AmongMoves
  <2>3. /\ Among(f, {"count"}) \in Nat
        /\ Among(f, {"count"})' = IF f = k THEN Among(f, {"count"}) + 1 ELSE Among(f, {"count"})
    <3>1. ~In(g, f, {"count"}) /\ (In(g, f, {"count"})' <=> f = k)
      BY <1>1, <1>5, <1>6 DEF In
    <3> QED BY <3>1, <1>6, AmongMoves
  <2>4. Both(totals, f)' = Both(totals, f) /\ Both(durations, f)' = Both(durations', f)
    BY <1>1 DEF Both
  <2>5. /\ ended[f] \in Nat /\ panics[f] \in Nat
        /\ Both(totals, f) \in Nat /\ Both(durations, f) \in Nat
    BY Numbers DEF TracingInv
  <2>6. Both(durations', f) = IF f = k THEN Both(durations, f) + 1 ELSE Both(durations, f)
    BY <1>3, FamilyKnown
  <2>7. Both(durations, f)' = Both(totals, f)' + Among(f, {"count"})'
    BY <2>1, <2>3, <2>4, <2>5, <2>6
  <2>8. ended'[f] + Among(f, {"size", "end"})' = Both(totals, f)' + panics'[f]
    BY <1>1, <2>1, <2>2, <2>4
  <2> QED BY <2>7, <2>8 DEF Agree
<1>10. Among("batch", {"size"})' = Among("batch", {"size"})
  <2>1. ~In(g, "batch", {"size"}) /\ ~In(g, "batch", {"size"})'
    BY <1>1, <1>5, <1>6 DEF In
  <2> QED BY <2>1, <1>6, AmongMoves
<1>11. Sums'
  BY <1>1, <1>8, <1>9, <1>10 DEF Sums, Both
<1>12. \A s \in Statuses : Unsized(s)' = Unsized(s)
  <2>1. \A s : ~ToSize(g, s) /\ ~ToSize(g, s)'
    BY <1>1, <1>5 DEF ToSize
  <2> QED BY <2>1, <1>6, UnsizedMoves
<1>13. Sized'
  BY <1>1, <1>12 DEF TracingInv, Sized
<1>14. StopCompletes'
  BY <1>1, <1>5, <1>6, StopStays DEF TracingInv, TracingSound
<1> QED BY <1>4, <1>6, <1>7, <1>11, <1>13, <1>14, Settles

LEMMA CountKeeps == ASSUME TracingInv, NEW g \in SpanGoroutines, CountOne(g) PROVE TracingInv'
<1> DEFINE k == FamilyAt(g)
           s0 == current[g].status
<1>1. /\ phase[g] = "count" /\ current' = current
      /\ UNCHANGED <<durations, sizes, ended, panics>>
      /\ phase' = [phase EXCEPT ![g] = IF k = "batch" THEN "size" ELSE "end"]
      /\ totals' = [totals EXCEPT ![<<k, s0>>] = @ + 1]
      /\ UNCHANGED <<tracer, stopped, failed>>
  BY DEF CountOne, At, GoOn, Label, spanvars
<1>2. k \in Counted /\ s0 \in Statuses
  BY <1>1 DEF TracingInv, RightPhase, SpansTyped, SpanCalls
<1>3. /\ totals' \in [Counted \X Statuses -> Nat]
      /\ OneMoreOf(totals, totals', Counted, k, s0)
      /\ Both(totals', k) = Both(totals, k) + 1
      /\ \A f \in Counted : f # k => Both(totals', f) = Both(totals, f)
  <2>1. totals \in [Counted \X Statuses -> Nat]
    BY DEF TracingInv, SpansTyped
  <2> HIDE DEF k, s0
  <2>2. totals' \in [Counted \X Statuses -> Nat]
    BY <1>1, <1>2, <2>1
  <2>3. OneMoreOf(totals, totals', Counted, k, s0)
    BY <1>1, <1>2, <2>1 DEF OneMoreOf
  <2>4. /\ Both(totals', k) = Both(totals, k) + 1
        /\ \A f \in Counted : f # k => Both(totals', f) = Both(totals, f)
    <3>1. /\ s0 \in {"success", "error"} /\ "success" \in Statuses /\ "error" \in Statuses
          /\ \A f \in Counted, s \in Statuses : totals[<<f, s>>] \in Nat
      BY <1>2, <2>1 DEF Statuses
    <3>2. Both(totals', k) = Both(totals, k) + 1
      BY <1>2, <2>3, <3>1 DEF Both, OneMoreOf
    <3>3. \A f \in Counted : f # k => Both(totals', f) = Both(totals, f)
      BY <2>3, <3>1 DEF Both, OneMoreOf
    <3> QED BY <3>2, <3>3
  <2> QED BY <2>2, <2>3, <2>4
<1>4. SpansTyped'
  BY <1>1, <1>3 DEF TracingInv, SpansTyped, SpanPhases
<1>5. phase'[g] = IF k = "batch" THEN "size" ELSE "end"
  BY <1>1 DEF TracingInv, SpansTyped
<1>6. Moves(g) /\ FamilyAt(g)' = k /\ current'[g].status = s0
  BY <1>1 DEF TracingInv, SpansTyped, Moves, FamilyAt
<1> HIDE DEF k
<1>7. RightPhase'
  BY <1>1, <1>5, <1>6, RightStays DEF TracingInv
<1>8. Sums
  BY InSums DEF TracingInv, TracingSound
<1>9. ASSUME NEW f \in Counted PROVE Agree(f)'
  <2>1. /\ ended[f] + Among(f, {"size", "end"}) = Both(totals, f) + panics[f]
        /\ Both(durations, f) = Both(totals, f) + Among(f, {"count"})
    BY <1>8 DEF Sums, Agree
  <2>2. /\ Among(f, {"size", "end"}) \in Nat
        /\ Among(f, {"size", "end"})' = Among(f, {"size", "end"}) + IF f = k THEN 1 ELSE 0
    <3>1. ~In(g, f, {"size", "end"}) /\ (In(g, f, {"size", "end"})' <=> f = k)
      BY <1>1, <1>5, <1>6 DEF In
    <3> QED BY <3>1, <1>6, AmongMoves
  <2>3. /\ Among(f, {"count"}) \in Nat /\ Among(f, {"count"})' \in Nat
        /\ Among(f, {"count"}) = Among(f, {"count"})' + IF f = k THEN 1 ELSE 0
    <3>1. (In(g, f, {"count"}) <=> f = k) /\ ~In(g, f, {"count"})'
      BY <1>1, <1>5, <1>6 DEF In, k
    <3> QED BY <3>1, <1>6, AmongMoves
  <2>4. Both(durations, f)' = Both(durations, f) /\ Both(totals, f)' = Both(totals', f)
    BY <1>1 DEF Both
  <2>5. /\ ended[f] \in Nat /\ panics[f] \in Nat
        /\ Both(totals, f) \in Nat /\ Both(durations, f) \in Nat
    BY Numbers DEF TracingInv
  <2>6. Both(totals', f) = Both(totals, f) + IF f = k THEN 1 ELSE 0
    BY <1>3, <2>5
  <2>7. Both(durations, f)' = Both(totals, f)' + Among(f, {"count"})'
    BY <2>1, <2>3, <2>4, <2>5, <2>6
  <2>8. ended'[f] + Among(f, {"size", "end"})' = Both(totals, f)' + panics'[f]
    BY <1>1, <2>1, <2>2, <2>4, <2>5, <2>6
  <2> QED BY <2>7, <2>8 DEF Agree
<1>10. Sums'
  <2>1. /\ Among("batch", {"size"}) \in Nat
        /\ Among("batch", {"size"})'
             = Among("batch", {"size"}) + IF k = "batch" THEN 1 ELSE 0
    <3>1. ~In(g, "batch", {"size"}) /\ (In(g, "batch", {"size"})' <=> k = "batch")
      BY <1>1, <1>5, <1>6 DEF In
    <3> QED BY <3>1, <1>6, AmongMoves
  <2>2. /\ Both(totals, "batch") \in Nat /\ Both(totals, "batch")' = Both(totals', "batch")
        /\ Both(totals', "batch") = Both(totals, "batch") + IF k = "batch" THEN 1 ELSE 0
    BY <1>3, FamilyKnown, Numbers DEF Both, TracingInv
  <2>3. sizes["success"] \in Nat /\ sizes["error"] \in Nat /\ sizes' = sizes
    BY <1>1 DEF TracingInv, SpansTyped, Statuses
  <2> QED BY <1>8, <1>9, <2>1, <2>2, <2>3 DEF Sums
<1>11. ASSUME NEW s \in Statuses
       PROVE  sizes'[s] + Unsized(s)' = totals'[<<"batch", s>>]
  <2>1. /\ Unsized(s) \in Nat
        /\ Unsized(s)' = Unsized(s) + IF k = "batch" /\ s = s0 THEN 1 ELSE 0
    <3>1. ~ToSize(g, s) /\ (ToSize(g, s)' <=> k = "batch" /\ s = s0)
      BY <1>1, <1>5, <1>6 DEF ToSize
    <3> QED BY <3>1, <1>6, UnsizedMoves
  <2>2. /\ totals[<<"batch", s>>] \in Nat
        /\ totals'[<<"batch", s>>]
             = totals[<<"batch", s>>] + IF k = "batch" /\ s = s0 THEN 1 ELSE 0
    <3>1. totals[<<"batch", s>>] \in Nat
      BY FamilyKnown DEF TracingInv, SpansTyped
    <3>2. totals'[<<"batch", s>>] = IF "batch" = k /\ s = s0
                                    THEN totals[<<"batch", s>>] + 1 ELSE totals[<<"batch", s>>]
      BY <1>3, FamilyKnown DEF OneMoreOf
    <3> QED BY <3>1, <3>2
  <2>3. sizes[s] \in Nat /\ sizes'[s] = sizes[s]
        /\ sizes[s] + Unsized(s) = totals[<<"batch", s>>]
    BY <1>1 DEF TracingInv, SpansTyped, Sized
  <2> QED BY <2>1, <2>2, <2>3
<1>12. StopCompletes'
  BY <1>1, <1>5, <1>6, StopStays DEF TracingInv, TracingSound
<1>13. Sized'
  BY <1>11 DEF Sized
<1> QED BY <1>4, <1>6, <1>7, <1>10, <1>12, <1>13, Settles

LEMMA SizeKeeps == ASSUME TracingInv, NEW g \in SpanGoroutines, ObserveSize(g) PROVE TracingInv'
<1> DEFINE s0 == current[g].status
<1>1. /\ phase[g] = "size" /\ current' = current
      /\ UNCHANGED <<durations, totals, ended, panics>>
      /\ phase' = [phase EXCEPT ![g] = "end"]
      /\ sizes' = [sizes EXCEPT ![s0] = @ + 1]
      /\ UNCHANGED <<tracer, stopped, failed>>
  BY DEF ObserveSize, At, GoOn, spanvars
<1>2. FamilyAt(g) = "batch" /\ s0 \in Statuses
  BY <1>1 DEF TracingInv, RightPhase, SpansTyped, SpanCalls
<1>3. SpansTyped'
  BY <1>1, <1>2 DEF TracingInv, SpansTyped, SpanPhases
<1>4. phase'[g] = "end" /\ Moves(g) /\ FamilyAt(g)' = "batch"
  BY <1>1, <1>2 DEF TracingInv, SpansTyped, Moves, FamilyAt
<1>5. \A s \in Statuses : /\ sizes[s] \in Nat
                          /\ sizes'[s] = sizes[s] + IF s = s0 THEN 1 ELSE 0
  BY <1>1 DEF TracingInv, SpansTyped
<1> HIDE DEF s0
<1>6. RightPhase'
  BY <1>1, <1>4, RightStays DEF TracingInv
<1>7. Sums
  BY InSums DEF TracingInv, TracingSound
<1>8. ASSUME NEW f \in Counted PROVE Agree(f)'
  <2>1. Among(f, {"size", "end"})' = Among(f, {"size", "end"})
    <3>1. In(g, f, {"size", "end"}) <=> In(g, f, {"size", "end"})'
      BY <1>1, <1>2, <1>4 DEF In
    <3> QED BY <3>1, <1>4, AmongMoves
  <2>2. Among(f, {"count"})' = Among(f, {"count"})
    <3>1. ~In(g, f, {"count"}) /\ ~In(g, f, {"count"})'
      BY <1>1, <1>4 DEF In
    <3> QED BY <3>1, <1>4, AmongMoves
  <2> QED BY <1>1, <1>7, <2>1, <2>2 DEF Sums, Agree, Both
<1>9. Sums'
  <2>1. /\ Among("batch", {"size"}) \in Nat /\ Among("batch", {"size"})' \in Nat
        /\ Among("batch", {"size"}) = Among("batch", {"size"})' + 1
    <3>1. In(g, "batch", {"size"}) /\ ~In(g, "batch", {"size"})'
      BY <1>1, <1>2, <1>4 DEF In
    <3> QED BY <3>1, <1>4, AmongMoves
  <2>2. sizes'["success"] + sizes'["error"] = sizes["success"] + sizes["error"] + 1
    BY <1>2, <1>5 DEF Statuses
  <2>3. /\ Both(totals, "batch") \in Nat /\ Both(totals, "batch")' = Both(totals, "batch")
        /\ sizes["success"] \in Nat /\ sizes["error"] \in Nat
        /\ sizes'["success"] \in Nat /\ sizes'["error"] \in Nat
    BY <1>1, <1>3, FamilyKnown, Numbers DEF TracingInv, SpansTyped, Statuses, Both
  <2>4. sizes["success"] + sizes["error"] + Among("batch", {"size"}) = Both(totals, "batch")
    BY <1>7 DEF Sums
  <2>5. sizes'["success"] + sizes'["error"] + Among("batch", {"size"})' = Both(totals, "batch")'
    BY <2>1, <2>2, <2>3, <2>4
  <2> QED BY <1>8, <2>5 DEF Sums
<1>10. ASSUME NEW s \in Statuses
       PROVE  sizes'[s] + Unsized(s)' = totals'[<<"batch", s>>]
  <2>1. /\ Unsized(s) \in Nat /\ Unsized(s)' \in Nat
        /\ Unsized(s) = Unsized(s)' + IF s = s0 THEN 1 ELSE 0
    <3>1. (ToSize(g, s) <=> s = s0) /\ ~ToSize(g, s)'
      BY <1>1, <1>4 DEF ToSize, s0
    <3> QED BY <3>1, <1>4, UnsizedMoves
  <2>2. sizes[s] + Unsized(s) = totals[<<"batch", s>>]
    BY DEF TracingInv, Sized
  <2>3. totals'[<<"batch", s>>] = totals[<<"batch", s>>]
    BY <1>1
  <2> QED BY <1>5, <2>1, <2>2, <2>3
<1>11. StopCompletes'
  BY <1>1, <1>4, StopStays DEF TracingInv, TracingSound
<1>12. Sized'
  BY <1>10 DEF Sized
<1> QED BY <1>3, <1>4, <1>6, <1>9, <1>11, <1>12, Settles

\* A call that is over: the goroutine is idle, with no call.
LEMMA Finished ==
  ASSUME SpansTyped, NEW g \in SpanGoroutines, Finish(g)
  PROVE  /\ phase' \in [SpanGoroutines -> SpanPhases]
         /\ current' \in [SpanGoroutines -> SpanCalls]
         /\ phase'[g] = "idle" /\ Moves(g)
<1>1. NoCall \in SpanCalls
  BY ObservabilityAssumption DEF NoCall, SpanCalls, Operations, Statuses
<1>2. /\ phase' = [phase EXCEPT ![g] = "idle"]
      /\ current' = [current EXCEPT ![g] = NoCall]
  BY DEF Finish, GoOn
<1> QED BY <1>1, <1>2 DEF SpansTyped, SpanPhases, Moves

LEMMA FinishKeeps == ASSUME TracingInv, NEW g \in SpanGoroutines, FinishSpan(g) PROVE TracingInv'
<1> DEFINE k == FamilyAt(g)
<1>1. /\ phase[g] = "end" /\ UNCHANGED <<durations, totals, sizes, panics>>
      /\ ended' = [ended EXCEPT ![k] = @ + 1]
      /\ UNCHANGED <<tracer, stopped, failed>>
  BY DEF FinishSpan, At, EndSpan, countvars
<1>2. k \in Families
  BY FamilyKnown DEF TracingInv, SpansTyped, SpanCalls, FamilyAt
<1>3. /\ phase' \in [SpanGoroutines -> SpanPhases]
      /\ current' \in [SpanGoroutines -> SpanCalls]
      /\ phase'[g] = "idle" /\ Moves(g)
  BY Finished DEF FinishSpan, TracingInv
<1>4. SpansTyped'
  BY <1>1, <1>2, <1>3 DEF TracingInv, SpansTyped
<1>5. \A f \in Families : ended'[f] = ended[f] + IF f = k THEN 1 ELSE 0
  BY <1>1, <1>2 DEF TracingInv, SpansTyped
<1> HIDE DEF k
<1>6. RightPhase'
  BY <1>1, <1>3, RightStays DEF TracingInv
<1>7. Sums
  BY InSums DEF TracingInv, TracingSound
<1>8. ASSUME NEW f \in Counted PROVE Agree(f)'
  <2>1. /\ Among(f, {"size", "end"}) \in Nat /\ Among(f, {"size", "end"})' \in Nat
        /\ Among(f, {"size", "end"}) = Among(f, {"size", "end"})' + IF f = k THEN 1 ELSE 0
    <3>1. (In(g, f, {"size", "end"}) <=> f = k) /\ ~In(g, f, {"size", "end"})'
      BY <1>1, <1>3 DEF In, k
    <3> QED BY <3>1, <1>3, AmongMoves
  <2>2. Among(f, {"count"})' = Among(f, {"count"})
    <3>1. ~In(g, f, {"count"}) /\ ~In(g, f, {"count"})'
      BY <1>1, <1>3 DEF In
    <3> QED BY <3>1, <1>3, AmongMoves
  <2>3. /\ ended[f] + Among(f, {"size", "end"}) = Both(totals, f) + panics[f]
        /\ Both(durations, f) = Both(totals, f) + Among(f, {"count"})
    BY <1>7 DEF Sums, Agree
  <2>4. /\ Both(totals, f)' = Both(totals, f) /\ Both(durations, f)' = Both(durations, f)
        /\ panics' = panics
    BY <1>1 DEF Both
  <2>5. /\ ended[f] \in Nat /\ panics[f] \in Nat /\ Both(totals, f) \in Nat
        /\ ended'[f] = ended[f] + IF f = k THEN 1 ELSE 0
    BY <1>5, FamilyKnown, Numbers DEF TracingInv
  <2>6. ended'[f] + Among(f, {"size", "end"})' = Both(totals, f) + panics[f]
    BY <2>1, <2>3, <2>5
  <2> QED BY <2>2, <2>3, <2>4, <2>6 DEF Agree
<1>9. Sums'
  <2>1. ~In(g, "batch", {"size"}) /\ ~In(g, "batch", {"size"})'
    BY <1>1, <1>3 DEF In
  <2>2. Among("batch", {"size"})' = Among("batch", {"size"})
    BY <2>1, <1>3, AmongMoves
  <2> QED BY <1>1, <1>7, <1>8, <2>2 DEF Sums, Both
<1>10. \A s \in Statuses : Unsized(s)' = Unsized(s)
  <2>1. \A s : ~ToSize(g, s) /\ ~ToSize(g, s)'
    BY <1>1, <1>3 DEF ToSize
  <2> QED BY <2>1, <1>3, UnsizedMoves
<1>11. Sized'
  BY <1>1, <1>10 DEF TracingInv, Sized
<1>12. StopCompletes'
  BY <1>1, <1>3, StopStays DEF TracingInv, TracingSound
<1> QED BY <1>3, <1>4, <1>6, <1>9, <1>11, <1>12, Settles

\* The deferred End of a call that panicked: the span ends, and no metric.
LEMMA PanicKeeps == ASSUME TracingInv, NEW g \in SpanGoroutines, Panic(g) PROVE TracingInv'
<1> DEFINE k == FamilyAt(g)
<1>1. /\ phase[g] = "inner" /\ UNCHANGED <<durations, totals, sizes>>
      /\ ended' = [ended EXCEPT ![k] = @ + 1]
      /\ panics' = [panics EXCEPT ![k] = @ + 1]
      /\ UNCHANGED <<tracer, stopped, failed>>
  BY DEF Panic, At, EndSpan, countvars
<1>2. k \in Families
  BY FamilyKnown DEF TracingInv, SpansTyped, SpanCalls, FamilyAt
<1>3. /\ phase' \in [SpanGoroutines -> SpanPhases]
      /\ current' \in [SpanGoroutines -> SpanCalls]
      /\ phase'[g] = "idle" /\ Moves(g)
  BY Finished DEF Panic, TracingInv
<1>4. SpansTyped'
  BY <1>1, <1>2, <1>3 DEF TracingInv, SpansTyped
<1>5. \A f \in Families : /\ ended'[f] = ended[f] + IF f = k THEN 1 ELSE 0
                          /\ panics'[f] = panics[f] + IF f = k THEN 1 ELSE 0
  BY <1>1, <1>2 DEF TracingInv, SpansTyped
<1> HIDE DEF k
<1>6. RightPhase'
  BY <1>1, <1>3, RightStays DEF TracingInv
<1>7. Sums
  BY InSums DEF TracingInv, TracingSound
<1>8. ASSUME NEW f \in Families, NEW steps \in {{"count"}, {"size"}, {"size", "end"}}
      PROVE  Among(f, steps) \in Nat /\ Among(f, steps)' = Among(f, steps)
  <2>1. ~In(g, f, steps) /\ ~In(g, f, steps)'
    BY <1>1, <1>3, <1>8 DEF In
  <2> QED BY <2>1, <1>3, AmongMoves
<1>9. ASSUME NEW f \in Counted PROVE Agree(f)'
  <2>1. /\ ended[f] + Among(f, {"size", "end"}) = Both(totals, f) + panics[f]
        /\ Both(durations, f) = Both(totals, f) + Among(f, {"count"})
    BY <1>7 DEF Sums, Agree
  <2>2. Both(totals, f)' = Both(totals, f) /\ Both(durations, f)' = Both(durations, f)
    BY <1>1 DEF Both
  <2>3. /\ ended[f] \in Nat /\ panics[f] \in Nat /\ Both(totals, f) \in Nat
        /\ ended'[f] = ended[f] + IF f = k THEN 1 ELSE 0
        /\ panics'[f] = panics[f] + IF f = k THEN 1 ELSE 0
    BY <1>5, FamilyKnown, Numbers DEF TracingInv
  <2>4. /\ Among(f, {"size", "end"}) \in Nat
        /\ Among(f, {"size", "end"})' = Among(f, {"size", "end"})
        /\ Among(f, {"count"})' = Among(f, {"count"})
    BY <1>8, FamilyKnown
  <2>5. ended'[f] + Among(f, {"size", "end"})' = Both(totals, f) + panics'[f]
    BY <2>1, <2>3, <2>4
  <2> QED BY <2>1, <2>2, <2>4, <2>5 DEF Agree
<1>10. Sums'
  BY <1>1, <1>7, <1>8, <1>9, FamilyKnown DEF Sums, Both
<1>11. \A s \in Statuses : Unsized(s)' = Unsized(s)
  <2>1. \A s : ~ToSize(g, s) /\ ~ToSize(g, s)'
    BY <1>1, <1>3 DEF ToSize
  <2> QED BY <2>1, <1>3, UnsizedMoves
<1>12. Sized'
  BY <1>1, <1>11 DEF TracingInv, Sized
<1>13. StopCompletes'
  BY <1>1, <1>3, StopStays DEF TracingInv, TracingSound
<1> QED BY <1>3, <1>4, <1>6, <1>10, <1>12, <1>13, Settles

\* A call begins, or the wrapped call of one returns.
LEMMA StartKeeps ==
  ASSUME TracingInv, NEW g \in SpanGoroutines, NEW t \in Wrapped, NEW op \in Operations,
         NEW m \in Methods, StartSpan(g, t, op, m)
  PROVE  TracingInv'
<1>1. PICK r \in ShouldSample(SpanMethod(op, m)) :
        current' = [current EXCEPT ![g] = [NoCall EXCEPT !.op = op, !.method = m,
                                                         !.transport = t, !.recorded = r]]
  BY DEF StartSpan
<1>2. r \in BOOLEAN
  BY DEF ShouldSample
<1>3. [NoCall EXCEPT !.op = op, !.method = m, !.transport = t, !.recorded = r] \in SpanCalls
  BY <1>2, ObservabilityAssumption DEF NoCall, SpanCalls, Statuses
<1>4. /\ phase[g] = "idle" /\ phase' = [phase EXCEPT ![g] = "inner"]
      /\ UNCHANGED <<countvars, ended, panics>>
      /\ UNCHANGED <<durations, totals, sizes, ended, panics>>
      /\ UNCHANGED <<tracer, stopped, failed>>
  BY DEF StartSpan, At, GoOn, countvars, spanvars
<1>5. SpansTyped'
  BY <1>1, <1>3, <1>4 DEF TracingInv, SpansTyped, SpanPhases
<1>6. phase'[g] = "inner" /\ Moves(g)
  BY <1>1, <1>4 DEF TracingInv, SpansTyped, Moves
<1>7. RightPhase'
  BY <1>4, <1>6, RightStays DEF TracingInv
<1>8. StopCompletes'
  BY <1>4, <1>6, StopStays DEF TracingInv, TracingSound
<1> QED BY <1>4, <1>5, <1>6, <1>7, <1>8, QuietKeeps

LEMMA ReturnKeeps == ASSUME TracingInv, NEW g \in SpanGoroutines, InnerReturns(g) PROVE TracingInv'
<1>1. PICK s \in Statuses : current' = [current EXCEPT ![g].status = s]
  BY DEF InnerReturns
<1>2. /\ phase[g] = "inner" /\ phase' = [phase EXCEPT ![g] = "observe"]
      /\ UNCHANGED <<countvars, ended, panics>>
      /\ UNCHANGED <<durations, totals, sizes, ended, panics>>
      /\ UNCHANGED <<tracer, stopped, failed>>
  BY DEF InnerReturns, At, GoOn, countvars, spanvars
<1>3. SpansTyped'
  BY <1>1, <1>2 DEF TracingInv, SpansTyped, SpanPhases, SpanCalls
<1>4. phase'[g] = "observe" /\ Moves(g)
  BY <1>1, <1>2 DEF TracingInv, SpansTyped, Moves
<1>5. RightPhase'
  BY <1>2, <1>4, RightStays DEF TracingInv
<1>6. StopCompletes'
  BY <1>2, <1>4, StopStays DEF TracingInv, TracingSound
<1> QED BY <1>2, <1>3, <1>4, <1>5, <1>6, QuietKeeps

\* The steps of Stop.
LEMMA StopKeeps ==
  ASSUME TracingInv, NEW g \in SpanGoroutines, NEW t \in Wrapped,
         \/ StopCalled(g, t) \/ StopInner(g) \/ StopTracer(g)
         \/ TracerClosed(g) \/ StopMetrics(g)
  PROVE  TracingInv'
<1>0. SpansTyped /\ RightPhase /\ StopCompletes
  BY DEF TracingInv, TracingSound
<1>1. CASE StopCalled(g, t)
  <2>1. /\ phase[g] = "idle" /\ phase' = [phase EXCEPT ![g] = "stop"]
        /\ current' = [current EXCEPT ![g].transport = t]
        /\ UNCHANGED <<countvars, ended, panics>>
        /\ UNCHANGED <<durations, totals, sizes, ended, panics>>
        /\ UNCHANGED <<tracer, stopped, failed>>
    BY <1>1 DEF StopCalled, At, GoOn, countvars, spanvars
  <2>2. SpansTyped'
    BY <1>0, <2>1 DEF SpansTyped, SpanPhases, SpanCalls, Stopping
  <2>3. phase'[g] = "stop" /\ Moves(g)
    BY <1>0, <2>1 DEF SpansTyped, Moves
  <2>4. RightPhase' /\ StopCompletes'
    BY <1>0, <2>1, <2>3, RightStays, StopStays
  <2> QED BY <2>1, <2>2, <2>3, <2>4, QuietKeeps
<1>2. CASE StopInner(g)
  <2>1. PICK s \in Statuses : current' = [current EXCEPT ![g].status = s]
    BY <1>2 DEF StopInner
  <2>2. /\ phase[g] = "stop" /\ phase' = [phase EXCEPT ![g] = "stopTracer"]
        /\ UNCHANGED <<countvars, ended, panics>>
        /\ UNCHANGED <<durations, totals, sizes, ended, panics>>
        /\ UNCHANGED <<tracer, stopped, failed>>
    BY <1>2 DEF StopInner, At, GoOn, countvars, spanvars
  <2>3. SpansTyped'
    BY <1>0, <2>1, <2>2 DEF SpansTyped, SpanPhases, SpanCalls, Stopping
  <2>4. phase'[g] = "stopTracer" /\ Moves(g)
    BY <1>0, <2>1, <2>2 DEF SpansTyped, Moves
  <2>5. RightPhase' /\ StopCompletes'
    BY <1>0, <2>2, <2>4, RightStays, StopStays
  <2> QED BY <2>2, <2>3, <2>4, <2>5, QuietKeeps
<1>3. CASE StopTracer(g)
  <2>1. PICK q \in {"closing", "stopMetrics"} : phase' = [phase EXCEPT ![g] = q]
    BY <1>3 DEF StopTracer, GoOn
  <2>2. /\ phase[g] = "stopTracer" /\ current' = current
        /\ tracer' # "up" /\ (tracer' = "left" => tracer = "left")
        /\ UNCHANGED <<countvars, ended, panics>>
        /\ UNCHANGED <<durations, totals, sizes, ended, panics>>
        /\ UNCHANGED <<stopped, failed>>
    BY <1>3 DEF StopTracer, At, GoOn, countvars, spanvars
  <2>3. SpansTyped' /\ phase'[g] = q /\ Moves(g)
    BY <1>0, <2>1, <2>2 DEF SpansTyped, SpanPhases, Stopping, Moves
  <2>4. RightPhase'
    BY <1>0, <2>1, <2>2, <2>3, RightStays
  <2>5. StopCompletes'
    BY <1>0, <2>2, <2>3 DEF StopCompletes, Moves
  <2> QED BY <2>1, <2>2, <2>3, <2>4, <2>5, QuietKeeps
<1>4. CASE TracerClosed(g)
  <2>1. /\ phase[g] = "closing" /\ phase' = [phase EXCEPT ![g] = "stopMetrics"]
        /\ \/ tracer' = "down" /\ current' = current
           \/ /\ tracer' \in {"down", "left"}
              /\ current' = [current EXCEPT ![g].status = "error"]
        /\ UNCHANGED <<countvars, ended, panics>>
        /\ UNCHANGED <<durations, totals, sizes, ended, panics>>
        /\ UNCHANGED <<stopped, failed>>
    BY <1>4 DEF TracerClosed, At, GoOn, countvars, spanvars
  <2>2. SpansTyped'
    BY <1>0, <2>1 DEF SpansTyped, SpanPhases, SpanCalls, Statuses, Stopping
  <2>3. phase'[g] = "stopMetrics" /\ Moves(g)
    BY <1>0, <2>1 DEF SpansTyped, Moves
  <2>4. RightPhase'
    BY <1>0, <2>1, <2>3, RightStays
  <2>5. tracer' = "left" => current'[g].status = "error"
    BY <1>0, <2>1 DEF SpansTyped, SpanCalls
  <2>6. StopCompletes'
    BY <2>1, <2>3, <2>5 DEF StopCompletes
  <2> QED BY <2>1, <2>2, <2>3, <2>4, <2>6, QuietKeeps
<1>5. CASE StopMetrics(g)
  <2>1. /\ phase[g] = "stopMetrics"
        /\ UNCHANGED <<countvars, ended, panics>>
        /\ UNCHANGED <<durations, totals, sizes, ended, panics>>
        /\ failed' = IF current[g].status = "error" THEN failed \cup {current[g].transport}
                     ELSE failed
        /\ tracer' = tracer
    BY <1>5 DEF StopMetrics, At, countvars, spanvars
  <2>2. /\ phase' \in [SpanGoroutines -> SpanPhases]
        /\ current' \in [SpanGoroutines -> SpanCalls]
        /\ phase'[g] = "idle" /\ Moves(g)
    BY <1>0, <1>5, Finished DEF StopMetrics
  <2>3. SpansTyped'
    BY <1>0, <2>1, <2>2 DEF SpansTyped
  <2>4. RightPhase'
    BY <1>0, <2>1, <2>2, RightStays
  <2>5. tracer # "up"
    BY <1>0, <2>1 DEF RightPhase
  <2>6. StopCompletes'
    <3>1. CASE current[g].status = "error"
      BY <2>1, <2>5, <3>1 DEF StopCompletes
    <3>2. CASE current[g].status # "error"
      BY <1>0, <2>1, <2>2, <2>5, <3>2 DEF StopCompletes, Moves
    <3> QED BY <3>1, <3>2
  <2> QED BY <2>1, <2>2, <2>3, <2>4, <2>6, QuietKeeps
<1> QED BY <1>1, <1>2, <1>3, <1>4, <1>5

LEMMA TracingStarts == ASSUME ObsInit PROVE TracingInv
<1> USE DEF ObsInit
<1>1. NoCall \in SpanCalls
  BY ObservabilityAssumption DEF NoCall, SpanCalls, Operations, Statuses
<1>2. SpansTyped
  BY <1>1 DEF SpansTyped, SpanPhases
<1>3. RightPhase
  BY DEF RightPhase
<1>4. ASSUME NEW f, NEW steps \in {{"count"}, {"size"}, {"size", "end"}}
      PROVE  Among(f, steps) = 0
  <2>1. {g \in SpanGoroutines : phase[g] \in steps /\ FamilyAt(g) = f} = {}
    BY <1>4
  <2> QED BY <2>1, FS_EmptySet DEF Among
<1>5. ASSUME NEW s PROVE Unsized(s) = 0
  <2>1. {g \in SpanGoroutines : phase[g] = "size" /\ current[g].status = s} = {}
    OBVIOUS
  <2> QED BY <2>1, FS_EmptySet DEF Unsized
<1>6. /\ \A f \in Counted, s \in Statuses : totals[<<f, s>>] = 0 /\ durations[<<f, s>>] = 0
      /\ \A s \in Statuses : sizes[s] = 0
      /\ \A f \in Counted : ended[f] = 0 /\ panics[f] = 0
  BY FamilyKnown
<1>7. Sized
  BY <1>5, <1>6, FamilyKnown DEF Sized
<1>8. TracesMatchMetrics
  <2>1. "success" \in Statuses /\ "error" \in Statuses /\ "batch" \in Counted
    BY FamilyKnown DEF Statuses
  <2> QED BY <2>1, <1>4, <1>6 DEF TracesMatchMetrics
<1>9. StopCompletes
  BY DEF StopCompletes
<1> QED BY <1>2, <1>3, <1>7, <1>8, <1>9 DEF TracingInv, TracingSound

LEMMA NextTracingInv == TracingInv /\ [ObsNext]_obsvars => TracingInv'
<1> SUFFICES ASSUME TracingInv, [ObsNext]_obsvars PROVE TracingInv'
  OBVIOUS
<1>1. ASSUME NEW g \in SpanGoroutines, NEW t \in Wrapped, NEW m \in Methods,
             \/ TracedSendRequest(g, t, m) \/ TracedSendNotification(g, t, m)
             \/ TracedHandleRequest(g, t, m) \/ TracedHandleNotification(g, t, m)
      PROVE  TracingInv'
  BY <1>1, StartKeeps DEF TracedSendRequest, TracedSendNotification,
     TracedHandleRequest, TracedHandleNotification, Operations
<1>2. ASSUME NEW g \in SpanGoroutines, NEW t \in Wrapped,
             \/ TracedSendBatchRequest(g, t) \/ TracedHandleBatchRequest(g, t)
             \/ TracedInitialize(g, t)
      PROVE  TracingInv'
  <2>1. NoCall.method \in Methods
    BY ObservabilityAssumption DEF NoCall
  <2> QED BY <1>2, <2>1, StartKeeps DEF TracedSendBatchRequest,
          TracedHandleBatchRequest, TracedInitialize, Operations
<1>3. ASSUME NEW g \in SpanGoroutines,
             \/ InnerReturns(g) \/ Panic(g) \/ Observe(g) \/ CountOne(g)
             \/ ObserveSize(g) \/ FinishSpan(g)
      PROVE  TracingInv'
  BY <1>3, ReturnKeeps, PanicKeeps, ObserveKeeps, CountKeeps, SizeKeeps, FinishKeeps
<1>4. ASSUME NEW g \in SpanGoroutines,
             \/ \E t \in Wrapped : StopCalled(g, t)
             \/ StopInner(g) \/ StopTracer(g) \/ TracerClosed(g) \/ StopMetrics(g)
      PROVE  TracingInv'
  BY <1>4, ObservabilityAssumption, StopKeeps
<1>5. CASE UNCHANGED obsvars
  <2>1. UNCHANGED <<phase, current, durations, totals, sizes, ended, panics, tracer,
                    stopped, failed>>
    BY <1>5 DEF obsvars
  <2>2. \A f, steps : Among(f, steps)' = Among(f, steps)
    BY <2>1 DEF Among, FamilyAt
  <2>3. \A s : Unsized(s)' = Unsized(s)
    BY <2>1 DEF Unsized
  <2>4. TracesMatchMetrics' /\ Sized'
    BY <2>1, <2>2, <2>3 DEF TracingInv, TracingSound, TracesMatchMetrics, Sized
  <2>5. SpansTyped' /\ RightPhase' /\ StopCompletes'
    BY <2>1 DEF TracingInv, TracingSound, SpansTyped, RightPhase, FamilyAt, StopCompletes
  <2> QED BY <2>4, <2>5 DEF TracingInv, TracingSound
<1> QED BY <1>1, <1>2, <1>3, <1>4, <1>5 DEF ObsNext

\* Every call that a span reports as over is counted and timed once, and a
\* batch sized once, whoever calls, panics or stops the transports meanwhile.
THEOREM TracingInductive == ObsSpec => []TracingInv
<1>1. ObsInit => TracingInv
  BY TracingStarts
<1> QED BY <1>1, NextTracingInv, PTL DEF ObsSpec

\* What tracing and metrics report of the calls agrees.  A Stop that has returned
\* has called the tracer provider's Shutdown, whatever the wrapped transport's
\* Stop came to; when that Shutdown gives up, and spans go on being exported,
\* one caller of Stop is told (observabilityTransport.Stop).
THEOREM TracesAgreeWithMetrics == ObsSpec => []TracingSound
<1>1. TracingInv => TracingSound
  BY DEF TracingInv
<1> QED BY <1>1, TracingInductive, PTL

\* Spans ended, calls under way, and where a call has its duration recorded
\* and its span still open.
SpansEnded == ended["request"] + ended["notification"] + ended["batch"]
              + ended["incoming"] + ended["event"]
CallPhases == {"inner", "observe", "count", "size", "end"}
InCalls    == Cardinality({g \in SpanGoroutines : phase[g] \in CallPhases})
Timed      == {"count", "size", "end"}

\* The books of the middleware: a call that was begun is under way or its span
\* has ended, a span is exported once at most, and every duration belongs to a
\* span that has ended, or will, without a panic.
Books ==
  /\ callsMade \in 0..MaxTraced
  /\ exported \in Nat /\ exported <= SpansEnded
  /\ SpansEnded + InCalls = callsMade
  /\ \A f \in Families : Both(durations, f) + panics[f] = ended[f] + Among(f, Timed)

RestTyped ==
  /\ tracer \in {"up", "closing", "down", "left"}
  /\ stopped \subseteq Wrapped /\ failed \subseteq stopped

Ind(b) == IF b THEN 1 ELSE 0
Only(f, k, n) == IF f = k THEN n ELSE 0

LEMMA InCallsMove ==
  ASSUME NEW g \in SpanGoroutines, Moves(g)
  PROVE  /\ InCalls \in Nat /\ InCalls' \in Nat
         /\ InCalls' + Ind(phase[g] \in CallPhases) = InCalls + Ind(phase'[g] \in CallPhases)
<1> DEFINE S == {h \in SpanGoroutines : phase[h] \in CallPhases}
           T == {h \in SpanGoroutines : phase'[h] \in CallPhases}
<1>1. \A h \in SpanGoroutines : h # g => (h \in S <=> h \in T)
  BY DEF Moves
<1>2. InCalls = Cardinality(S) /\ InCalls' = Cardinality(T)
  BY DEF InCalls
<1>3. (g \in S <=> phase[g] \in CallPhases) /\ (g \in T <=> phase'[g] \in CallPhases)
  OBVIOUS
<1>4. S \in SUBSET SpanGoroutines /\ T \in SUBSET SpanGoroutines
  OBVIOUS
<1> HIDE DEF S, T
<1>5. /\ Cardinality(S) \in Nat /\ Cardinality(T) \in Nat
      /\ (g \in S <=> g \in T) => Cardinality(T) = Cardinality(S)
      /\ g \notin S /\ g \in T => Cardinality(T) = Cardinality(S) + 1
      /\ g \in S /\ g \notin T => Cardinality(S) = Cardinality(T) + 1
  BY <1>1, <1>4, OneMoves
<1> QED BY <1>2, <1>3, <1>5 DEF Ind

LEMMA TimedMoves ==
  ASSUME NEW g \in SpanGoroutines, Moves(g), NEW f
  PROVE  /\ Among(f, Timed) \in Nat /\ Among(f, Timed)' \in Nat
         /\ Among(f, Timed)' + Ind(In(g, f, Timed)) = Among(f, Timed) + Ind(In(g, f, Timed)')
<1>1. /\ Among(f, Timed) \in Nat /\ Among(f, Timed)' \in Nat
      /\ (In(g, f, Timed) <=> In(g, f, Timed)') => Among(f, Timed)' = Among(f, Timed)
      /\ ~In(g, f, Timed) /\ In(g, f, Timed)' => Among(f, Timed)' = Among(f, Timed) + 1
      /\ In(g, f, Timed) /\ ~In(g, f, Timed)' => Among(f, Timed) = Among(f, Timed)' + 1
  BY AmongMoves DEF Timed
<1> QED BY <1>1 DEF Ind

\* What any family's numbers are.
LEMMA FamilyNumbers ==
  ASSUME SpansTyped, NEW f \in Families
  PROVE  ended[f] \in Nat /\ panics[f] \in Nat /\ Both(durations, f) \in Nat
<1>1. "success" \in Statuses /\ "error" \in Statuses
  BY DEF Statuses
<1> QED BY <1>1 DEF SpansTyped, Both

\* Two sums that are moved over.
LEMMA MovedOver ==
  ASSUME NEW s \in Nat, NEW i \in Nat, NEW j \in Nat, NEW x \in Nat, NEW y \in Nat,
         NEW e \in Nat, NEW c \in Nat, y + e = x + c, j + x = i + y
  PROVE  (s + e) + j = (s + i) + c
OBVIOUS

LEMMA BothMovedOver ==
  ASSUME NEW b \in Nat, NEW q \in Nat, NEW s \in Nat, NEW n \in Nat, NEW m \in Nat,
         NEW x \in Nat, NEW y \in Nat, NEW oe \in Nat, NEW op \in Nat, NEW od \in Nat,
         y + oe = x + (od + op), m + x = n + y, b + q = s + n
  PROVE  (b + od) + (q + op) = (s + oe) + m
OBVIOUS

\* A step that ends e spans of family k, p of them by a panic, records d
\* durations and begins c calls keeps the books if the goroutine moves with it.
LEMMA BooksBalance ==
  ASSUME SpansTyped, Books, NEW g \in SpanGoroutines, Moves(g), NEW k \in Families,
         NEW e \in {0, 1}, NEW p \in {0, 1}, NEW d \in {0, 1}, NEW c \in {0, 1},
         \A f \in Families : /\ ended'[f] = ended[f] + Only(f, k, e)
                             /\ panics'[f] = panics[f] + Only(f, k, p)
                             /\ Both(durations, f)' = Both(durations, f) + Only(f, k, d),
         callsMade' = callsMade + c, callsMade' <= MaxTraced,
         exported' \in {exported, exported + e},
         Ind(phase'[g] \in CallPhases) + e = Ind(phase[g] \in CallPhases) + c,
         \A f \in Families :
           Ind(In(g, f, Timed)') + Only(f, k, e) = Ind(In(g, f, Timed)) + Only(f, k, d + p)
  PROVE  Books'
<1>1. \A f \in Families : /\ ended[f] \in Nat /\ panics[f] \in Nat
                          /\ Both(durations, f) \in Nat
  BY FamilyNumbers
<1>2. SpansEnded \in Nat /\ SpansEnded' = SpansEnded + e
  BY <1>1 DEF SpansEnded, Only, Families
<1>3. /\ InCalls \in Nat /\ InCalls' \in Nat
      /\ InCalls' + Ind(phase[g] \in CallPhases) = InCalls + Ind(phase'[g] \in CallPhases)
  BY InCallsMove
<1>4. Ind(phase[g] \in CallPhases) \in Nat /\ Ind(phase'[g] \in CallPhases) \in Nat
  BY DEF Ind
<1>5. /\ callsMade \in Nat /\ callsMade' \in 0..MaxTraced
      /\ exported' \in Nat /\ exported' <= SpansEnded'
  BY <1>2, ObservabilityAssumption DEF Books
<1>6. SpansEnded' + InCalls' = callsMade'
  <2> DEFINE x == Ind(phase[g] \in CallPhases)
             y == Ind(phase'[g] \in CallPhases)
  <2>1. x \in Nat /\ y \in Nat /\ y + e = x + c /\ InCalls' + x = InCalls + y
    BY <1>3, <1>4
  <2>2. SpansEnded + InCalls = callsMade
    BY DEF Books
  <2> HIDE DEF x, y
  <2>3. e \in Nat /\ c \in Nat
    OBVIOUS
  <2>4. (SpansEnded + e) + InCalls' = (SpansEnded + InCalls) + c
    <3>1. PICK s \in Nat : s = SpansEnded
      BY <1>2
    <3>2. PICK i \in Nat : i = InCalls
      BY <1>3
    <3>3. PICK j \in Nat : j = InCalls'
      BY <1>3
    <3>4. x \in Nat /\ y \in Nat /\ y + e = x + c /\ j + x = i + y
      BY <2>1, <3>2, <3>3, Zenon
    <3>5. (s + e) + j = (s + i) + c
      BY <2>3, <3>4, MovedOver
    <3> QED BY <3>1, <3>2, <3>3, <3>5, Zenon
  <2> QED BY <1>2, <2>2, <2>4, Zenon
<1>7. ASSUME NEW f \in Families
      PROVE  Both(durations, f)' + panics'[f] = ended'[f] + Among(f, Timed)'
  <2> DEFINE x == Ind(In(g, f, Timed))
             y == Ind(In(g, f, Timed)')
             n == Among(f, Timed)
  <2>1. /\ n \in Nat /\ n' \in Nat /\ n' + x = n + y
    BY TimedMoves
  <2>2. x \in Nat /\ y \in Nat /\ y + Only(f, k, e) = x + Only(f, k, d + p)
    BY DEF Ind
  <2>3. /\ Only(f, k, d + p) = Only(f, k, d) + Only(f, k, p)
        /\ Only(f, k, d) \in Nat /\ Only(f, k, p) \in Nat /\ Only(f, k, e) \in Nat
    BY DEF Only
  <2>4. Both(durations, f) + panics[f] = ended[f] + n
    BY DEF Books
  <2>5. /\ ended'[f] = ended[f] + Only(f, k, e)
        /\ panics'[f] = panics[f] + Only(f, k, p)
        /\ Both(durations, f)' = Both(durations, f) + Only(f, k, d)
    OBVIOUS
  <2>6. Both(durations, f)' + panics'[f] = ended'[f] + n'
    <3> HIDE DEF x, y, n
    <3> DEFINE oe == Only(f, k, e)
               op == Only(f, k, p)
               od == Only(f, k, d)
               b == Both(durations, f)
    <3>1. /\ oe \in Nat /\ op \in Nat /\ od \in Nat /\ y + oe = x + (od + op)
          /\ b + panics[f] = ended[f] + n /\ b \in Nat
          /\ panics[f] \in Nat /\ ended[f] \in Nat
      BY <1>1, <2>2, <2>3, <2>4, Zenon
    <3>2. (b + od) + (panics[f] + op) = (ended[f] + oe) + n'
      <4> HIDE DEF oe, op, od, b
      <4>1. PICK m \in Nat : m = n'
        BY <2>1
      <4>2. PICK q \in Nat : q = panics[f]
        BY <3>1
      <4>3. PICK s \in Nat : s = ended[f]
        BY <3>1
      <4>4. /\ y + oe = x + (od + op) /\ m + x = n + y /\ b + q = s + n
            /\ x \in Nat /\ y \in Nat /\ n \in Nat
        BY <2>1, <2>2, <3>1, <4>1, <4>2, <4>3, Zenon
      <4>5. (b + od) + (q + op) = (s + oe) + m
        BY <3>1, <4>4, BothMovedOver
      <4> QED BY <4>1, <4>2, <4>3, <4>5, Zenon
    <3> QED BY <2>5, <3>2, Zenon
  <2> QED BY <2>6
<1> QED BY <1>5, <1>6, <1>7 DEF Books

\* Nothing is entered.
LEMMA BooksStay ==
  ASSUME SpansTyped, Books, NEW g \in SpanGoroutines, Moves(g),
         UNCHANGED <<ended, panics, durations, exported, callsMade>>,
         phase[g] \in CallPhases <=> phase'[g] \in CallPhases,
         \A f \in Families : In(g, f, Timed) <=> In(g, f, Timed)'
  PROVE  Books'
<1>1. "event" \in Families
  BY DEF Families
<1>2. \A f \in Families :
        /\ ended[f] \in Nat /\ panics[f] \in Nat /\ Both(durations, f) \in Nat
        /\ Both(durations, f)' = Both(durations, f)
  BY FamilyNumbers DEF Both
<1>3. \A f \in Families : /\ ended'[f] = ended[f] + Only(f, "event", 0)
                          /\ panics'[f] = panics[f] + Only(f, "event", 0)
                          /\ Both(durations, f)' = Both(durations, f) + Only(f, "event", 0)
  BY <1>2 DEF Only
<1>4. /\ callsMade' = callsMade + 0 /\ callsMade' <= MaxTraced
      /\ exported' \in {exported, exported + 0}
  BY ObservabilityAssumption DEF Books
<1>5. /\ Ind(phase'[g] \in CallPhases) + 0 = Ind(phase[g] \in CallPhases) + 0
      /\ \A f \in Families :
           Ind(In(g, f, Timed)') + Only(f, "event", 0)
             = Ind(In(g, f, Timed)) + Only(f, "event", 0 + 0)
  BY DEF Ind, Only
<1>6. 0 \in {0, 1}
  OBVIOUS
<1> QED BY <1>1, <1>3, <1>4, <1>5, <1>6, BooksBalance

LEMMA StartBooks ==
  ASSUME SpansTyped, Books, NEW g \in SpanGoroutines, NEW t \in Wrapped, NEW op \in Operations,
         NEW m \in Methods, StartSpan(g, t, op, m)
  PROVE  Books'
<1>1. PICK x : current' = [current EXCEPT ![g] = x]
  BY DEF StartSpan
<1>2. /\ phase[g] = "idle" /\ phase' = [phase EXCEPT ![g] = "inner"]
      /\ UNCHANGED <<durations, ended, panics, exported>>
      /\ callsMade < MaxTraced /\ callsMade' = callsMade + 1
  BY DEF StartSpan, At, GoOn, countvars, spanvars
<1>3. phase'[g] = "inner" /\ Moves(g)
  BY <1>1, <1>2 DEF SpansTyped, Moves
<1>4. \A f \in Families :
        /\ ended[f] \in Nat /\ panics[f] \in Nat /\ Both(durations, f) \in Nat
        /\ Both(durations, f)' = Both(durations, f)
  BY <1>2, FamilyNumbers DEF Both
<1>5. \A f \in Families : /\ ended'[f] = ended[f] + Only(f, "event", 0)
                          /\ panics'[f] = panics[f] + Only(f, "event", 0)
                          /\ Both(durations, f)' = Both(durations, f) + Only(f, "event", 0)
  BY <1>2, <1>4 DEF Only
<1>6. /\ callsMade' <= MaxTraced /\ exported' \in {exported, exported + 0}
  BY <1>2, ObservabilityAssumption DEF Books
<1>7. /\ Ind(phase'[g] \in CallPhases) + 0 = Ind(phase[g] \in CallPhases) + 1
      /\ \A f \in Families :
           Ind(In(g, f, Timed)') + Only(f, "event", 0)
             = Ind(In(g, f, Timed)) + Only(f, "event", 0 + 0)
  <2>1. phase'[g] \in CallPhases /\ phase[g] \notin CallPhases
    BY <1>2, <1>3 DEF CallPhases
  <2>2. \A f \in Families : ~In(g, f, Timed)' /\ ~In(g, f, Timed)
    BY <1>2, <1>3 DEF In, Timed
  <2> QED BY <2>1, <2>2 DEF Ind, Only
<1>8. 0 \in {0, 1} /\ 1 \in {0, 1} /\ "event" \in Families
  BY DEF Families
<1> QED BY <1>2, <1>3, <1>5, <1>6, <1>7, <1>8, BooksBalance

LEMMA ObserveBooks ==
  ASSUME SpansTyped, Books, NEW g \in SpanGoroutines, Observe(g)
  PROVE  Books'
<1> DEFINE k == FamilyAt(g)
           s0 == current[g].status
<1>1. /\ phase[g] = "observe" /\ current' = current
      /\ UNCHANGED <<ended, panics, exported, callsMade>>
      /\ phase' = [phase EXCEPT ![g] = IF k \in Counted THEN "count" ELSE "end"]
      /\ durations' = [durations EXCEPT ![<<k, s0>>] = @ + 1]
  BY DEF Observe, At, GoOn, Label, spanvars
<1>2. k \in Families /\ s0 \in Statuses
  BY FamilyKnown DEF SpansTyped, SpanCalls, FamilyAt
<1>3. phase'[g] \in {"count", "end"} /\ Moves(g) /\ FamilyAt(g)' = k
  BY <1>1 DEF SpansTyped, Moves, FamilyAt
<1>4. \A f \in Families : In(g, f, Timed)' <=> f = k
  BY <1>3 DEF In, Timed
<1> HIDE DEF k, s0
<1>5. /\ Both(durations', k) = Both(durations, k) + 1
      /\ \A f \in Families : f # k => Both(durations', f) = Both(durations, f)
  <2>1. durations \in [Families \X Statuses -> Nat]
    BY DEF SpansTyped
  <2>2. OneMoreOf(durations, durations', Families, k, s0)
    BY <1>1, <1>2, <2>1 DEF OneMoreOf
  <2>3. /\ s0 \in {"success", "error"} /\ "success" \in Statuses /\ "error" \in Statuses
        /\ \A f \in Families, s \in Statuses : durations[<<f, s>>] \in Nat
    BY <1>2, <2>1 DEF Statuses
  <2>4. Both(durations', k) = Both(durations, k) + 1
    BY <1>2, <2>2, <2>3 DEF Both, OneMoreOf
  <2>5. \A f \in Families : f # k => Both(durations', f) = Both(durations, f)
    BY <2>2, <2>3 DEF Both, OneMoreOf
  <2> QED BY <2>4, <2>5
<1>6. \A f \in Families :
        /\ ended[f] \in Nat /\ panics[f] \in Nat /\ Both(durations, f) \in Nat
        /\ Both(durations, f)' = Both(durations', f)
  BY FamilyNumbers DEF Both
<1>7. \A f \in Families : /\ ended'[f] = ended[f] + Only(f, k, 0)
                          /\ panics'[f] = panics[f] + Only(f, k, 0)
                          /\ Both(durations, f)' = Both(durations, f) + Only(f, k, 1)
  <2> SUFFICES ASSUME NEW f \in Families
               PROVE  /\ ended'[f] = ended[f] + Only(f, k, 0)
                      /\ panics'[f] = panics[f] + Only(f, k, 0)
                      /\ Both(durations, f)' = Both(durations, f) + Only(f, k, 1)
    OBVIOUS
  <2>1. ended' = ended /\ panics' = panics
    BY <1>1
  <2>2. Both(durations, f)' = Both(durations, f) + IF f = k THEN 1 ELSE 0
    <3>1. Both(durations, f) \in Nat /\ Both(durations, f)' = Both(durations', f)
      BY <1>6
    <3>2. CASE f = k
      BY <1>5, <3>1, <3>2
    <3>3. CASE f # k
      BY <1>5, <3>1, <3>3
    <3> QED BY <3>2, <3>3
  <2>3. ended[f] \in Nat /\ panics[f] \in Nat
    BY <1>6
  <2> QED BY <2>1, <2>2, <2>3 DEF Only
<1>8. /\ callsMade' = callsMade + 0 /\ callsMade' <= MaxTraced
      /\ exported' \in {exported, exported + 0}
  BY <1>1, ObservabilityAssumption DEF Books
<1>9. /\ Ind(phase'[g] \in CallPhases) + 0 = Ind(phase[g] \in CallPhases) + 0
      /\ \A f \in Families :
           Ind(In(g, f, Timed)') + Only(f, k, 0) = Ind(In(g, f, Timed)) + Only(f, k, 1 + 0)
  <2>1. phase'[g] \in CallPhases /\ phase[g] \in CallPhases
    BY <1>1, <1>3 DEF CallPhases
  <2>2. \A f \in Families : ~In(g, f, Timed)
    BY <1>1 DEF In, Timed
  <2> QED BY <1>4, <2>1, <2>2 DEF Ind, Only
<1>10. 0 \in {0, 1} /\ 1 \in {0, 1}
  OBVIOUS
<1> QED BY <1>2, <1>3, <1>7, <1>8, <1>9, <1>10, BooksBalance

\* The span is ended by the defer, after the metrics or instead of them.
LEMMA EndBooks ==
  ASSUME SpansTyped, Books, NEW g \in SpanGoroutines, FinishSpan(g) \/ Panic(g)
  PROVE  Books'
<1> DEFINE k == FamilyAt(g)
<1>1. k \in Families
  BY FamilyKnown DEF SpansTyped, SpanCalls, FamilyAt
<1>2. /\ phase[g] \in {"inner", "end"}
      /\ ended' = [ended EXCEPT ![k] = @ + 1]
      /\ panics' = IF phase[g] = "inner" THEN [panics EXCEPT ![k] = @ + 1] ELSE panics
      /\ exported' \in {exported, exported + 1} /\ UNCHANGED <<durations, callsMade>>
  BY DEF FinishSpan, Panic, At, EndSpan, countvars
<1>3. phase'[g] = "idle" /\ Moves(g)
  BY Finished DEF FinishSpan, Panic
<1>4. PICK p \in {0, 1} : p = IF phase[g] = "inner" THEN 1 ELSE 0
  OBVIOUS
<1>5. \A f \in Families : In(g, f, Timed) <=> phase[g] = "end" /\ f = k
  BY <1>2 DEF In, Timed
<1>a. \A f \in Families :
        /\ ended[f] \in Nat /\ panics[f] \in Nat /\ Both(durations, f) \in Nat
        /\ Both(durations, f)' = Both(durations, f)
  BY <1>2, FamilyNumbers DEF Both
<1>6. \A f \in Families :
        /\ ended'[f] = IF f = k THEN ended[f] + 1 ELSE ended[f]
        /\ panics'[f] = IF f = k /\ phase[g] = "inner" THEN panics[f] + 1 ELSE panics[f]
  BY <1>1, <1>2 DEF SpansTyped
<1> HIDE DEF k
<1>7. \A f \in Families : /\ ended'[f] = ended[f] + Only(f, k, 1)
                          /\ panics'[f] = panics[f] + Only(f, k, p)
                          /\ Both(durations, f)' = Both(durations, f) + Only(f, k, 0)
  BY <1>4, <1>6, <1>a DEF Only
<1>8. callsMade' = callsMade + 0 /\ callsMade' <= MaxTraced
  BY <1>2, ObservabilityAssumption DEF Books
<1>9. /\ Ind(phase'[g] \in CallPhases) + 1 = Ind(phase[g] \in CallPhases) + 0
      /\ \A f \in Families :
           Ind(In(g, f, Timed)') + Only(f, k, 1) = Ind(In(g, f, Timed)) + Only(f, k, 0 + p)
  <2>1. phase'[g] \notin CallPhases /\ phase[g] \in CallPhases
    BY <1>2, <1>3 DEF CallPhases
  <2>2. \A f \in Families : ~In(g, f, Timed)'
    BY <1>3 DEF In, Timed
  <2>3. 0 + p = p /\ (p = 1 \/ (p = 0 /\ phase[g] = "end"))
    BY <1>2, <1>4
  <2>4. p = 1 => phase[g] = "inner"
    BY <1>4
  <2> QED BY <1>5, <2>1, <2>2, <2>3, <2>4 DEF Ind, Only
<1>10. 0 \in {0, 1} /\ 1 \in {0, 1}
  OBVIOUS
<1> QED BY <1>1, <1>2, <1>3, <1>7, <1>8, <1>9, <1>10, BooksBalance

\* The other steps of a goroutine.
LEMMA QuietBooks ==
  ASSUME TracingInv, Books, NEW g \in SpanGoroutines,
         \/ InnerReturns(g) \/ CountOne(g) \/ ObserveSize(g)
         \/ \E t \in Wrapped : StopCalled(g, t)
         \/ StopInner(g) \/ StopTracer(g) \/ TracerClosed(g) \/ StopMetrics(g)
  PROVE  Books'
<1>0. SpansTyped
  BY DEF TracingInv
<1>1. UNCHANGED <<ended, panics, durations, exported, callsMade>>
  BY DEF InnerReturns, CountOne, ObserveSize, StopCalled, StopInner, StopTracer, TracerClosed,
         StopMetrics, countvars, spanvars
<1>2. CASE CountOne(g) \/ ObserveSize(g)
  <2>1. /\ current' = current /\ phase[g] \in {"count", "size"}
        /\ \E q \in {"size", "end"} : phase' = [phase EXCEPT ![g] = q]
    BY <1>2 DEF CountOne, ObserveSize, At, GoOn
  <2>2. /\ Moves(g) /\ phase'[g] \in {"size", "end"} /\ FamilyAt(g)' = FamilyAt(g)
    BY <1>0, <2>1 DEF SpansTyped, Moves, FamilyAt
  <2>3. /\ phase[g] \in CallPhases /\ phase'[g] \in CallPhases
        /\ \A f \in Families : In(g, f, Timed) <=> In(g, f, Timed)'
    BY <2>1, <2>2 DEF CallPhases, In, Timed
  <2> QED BY <1>0, <1>1, <2>2, <2>3, BooksStay
<1>3. CASE \/ InnerReturns(g) \/ \E t \in Wrapped : StopCalled(g, t)
           \/ StopInner(g) \/ StopTracer(g) \/ TracerClosed(g) \/ StopMetrics(g)
  <2>1. /\ \E x : current' = [current EXCEPT ![g] = x] \/ current' = current
        /\ \/ /\ phase[g] \in {"idle"} \cup Stopping
              /\ \E q \in {"idle"} \cup Stopping : phase' = [phase EXCEPT ![g] = q]
           \/ phase[g] = "inner" /\ phase' = [phase EXCEPT ![g] = "observe"]
    BY <1>3 DEF InnerReturns, StopCalled, StopInner, StopTracer, TracerClosed, StopMetrics,
       At, GoOn, Finish, Stopping
  <2>2. Moves(g)
    BY <1>0, <2>1 DEF SpansTyped, Moves
  <2>3. \/ phase[g] \in {"idle"} \cup Stopping /\ phase'[g] \in {"idle"} \cup Stopping
        \/ phase[g] = "inner" /\ phase'[g] = "observe"
    BY <1>0, <2>1 DEF SpansTyped
  <2>4. /\ phase[g] \in CallPhases <=> phase'[g] \in CallPhases
        /\ \A f \in Families : ~In(g, f, Timed) /\ ~In(g, f, Timed)'
    BY <2>3 DEF CallPhases, In, Timed, Stopping
  <2> QED BY <1>0, <1>1, <2>2, <2>4, BooksStay
<1> QED BY <1>2, <1>3

LEMMA UnchangedBooks ==
  ASSUME Books, UNCHANGED <<phase, current, ended, panics, durations, exported, callsMade>>
  PROVE  Books'
<1>1. \A f, steps : Among(f, steps)' = Among(f, steps)
  BY DEF Among, FamilyAt
<1>2. InCalls' = InCalls /\ SpansEnded' = SpansEnded
  BY DEF InCalls, SpansEnded
<1>3. \A f : Both(durations, f)' = Both(durations, f)
  BY DEF Both
<1> QED BY <1>1, <1>2, <1>3 DEF Books

LEMMA NextBooks == ASSUME TracingInv, Books, [ObsNext]_obsvars PROVE Books'
<1>0. SpansTyped
  BY DEF TracingInv
<1>1. ASSUME NEW g \in SpanGoroutines, NEW t \in Wrapped, NEW m \in Methods,
             \/ TracedSendRequest(g, t, m) \/ TracedSendNotification(g, t, m)
             \/ TracedHandleRequest(g, t, m) \/ TracedHandleNotification(g, t, m)
      PROVE  Books'
  BY <1>0, <1>1, StartBooks DEF TracedSendRequest, TracedSendNotification,
     TracedHandleRequest, TracedHandleNotification, Operations
<1>2. ASSUME NEW g \in SpanGoroutines, NEW t \in Wrapped,
             \/ TracedSendBatchRequest(g, t) \/ TracedHandleBatchRequest(g, t)
             \/ TracedInitialize(g, t)
      PROVE  Books'
  <2>1. NoCall.method \in Methods
    BY ObservabilityAssumption DEF NoCall
  <2> QED BY <1>0, <1>2, <2>1, StartBooks DEF TracedSendBatchRequest,
          TracedHandleBatchRequest, TracedInitialize, Operations
<1>3. ASSUME NEW g \in SpanGoroutines, Observe(g) \/ FinishSpan(g) \/ Panic(g)
      PROVE  Books'
  BY <1>0, <1>3, ObserveBooks, EndBooks
<1>4. ASSUME NEW g \in SpanGoroutines,
             \/ InnerReturns(g) \/ CountOne(g) \/ ObserveSize(g)
             \/ \E t \in Wrapped : StopCalled(g, t)
             \/ StopInner(g) \/ StopTracer(g) \/ TracerClosed(g) \/ StopMetrics(g)
      PROVE  Books'
  BY <1>4, QuietBooks
<1>5. CASE UNCHANGED obsvars
  BY <1>5, UnchangedBooks DEF obsvars
<1> QED BY <1>1, <1>2, <1>3, <1>4, <1>5 DEF ObsNext

LEMMA NextRest ==
  ASSUME TracingInv, RestTyped, [ObsNext]_obsvars PROVE RestTyped'
<1> USE DEF RestTyped
<1>1. CASE UNCHANGED <<tracer, stopped, failed>>
  BY <1>1
<1>2. ASSUME NEW g \in SpanGoroutines, NEW t \in Wrapped, NEW op, NEW m, StartSpan(g, t, op, m)
      PROVE  UNCHANGED <<tracer, stopped, failed>>
  BY <1>2 DEF StartSpan
<1>3. ASSUME NEW g \in SpanGoroutines,
             \/ InnerReturns(g) \/ Panic(g) \/ Observe(g) \/ CountOne(g)
             \/ ObserveSize(g) \/ FinishSpan(g)
             \/ \E t \in Wrapped : StopCalled(g, t)
             \/ StopInner(g)
      PROVE  UNCHANGED <<tracer, stopped, failed>>
  BY <1>3 DEF InnerReturns, Panic, Observe, CountOne, ObserveSize, FinishSpan, StopCalled,
              StopInner
<1>4. ASSUME NEW g \in SpanGoroutines, StopTracer(g) \/ TracerClosed(g) PROVE RestTyped'
  BY <1>4 DEF StopTracer, TracerClosed
<1>5. ASSUME NEW g \in SpanGoroutines, StopMetrics(g) PROVE RestTyped'
  <2>1. current[g].transport \in Wrapped
    BY DEF TracingInv, SpansTyped, SpanCalls
  <2> QED BY <1>5, <2>1 DEF StopMetrics
<1>6. ASSUME NEW g \in SpanGoroutines, NEW t \in Wrapped,
             \/ \E m \in Methods :
                  \/ TracedSendRequest(g, t, m) \/ TracedSendNotification(g, t, m)
                  \/ TracedHandleRequest(g, t, m) \/ TracedHandleNotification(g, t, m)
             \/ TracedSendBatchRequest(g, t) \/ TracedHandleBatchRequest(g, t)
             \/ TracedInitialize(g, t)
      PROVE  RestTyped'
  <2>1. \E op, m : StartSpan(g, t, op, m)
    BY <1>6 DEF TracedSendRequest, TracedSendNotification, TracedHandleRequest,
       TracedHandleNotification, TracedSendBatchRequest, TracedHandleBatchRequest,
       TracedInitialize
  <2> QED BY <1>1, <1>2, <2>1
<1>7. CASE UNCHANGED obsvars
  BY <1>7 DEF obsvars
<1> QED BY <1>1, <1>3, <1>4, <1>5, <1>6, <1>7 DEF ObsNext

LEMMA BooksStart == ASSUME ObsInit PROVE Books /\ RestTyped
<1> USE DEF ObsInit
<1>1. 0 \in 0..MaxTraced
  BY ObservabilityAssumption
<1>2. /\ \A f \in Families : ended[f] = 0 /\ panics[f] = 0
      /\ \A f \in Families, s \in Statuses : durations[<<f, s>>] = 0
  OBVIOUS
<1>3. SpansEnded = 0
  BY <1>2 DEF SpansEnded, Families
<1>4. InCalls = 0
  <2>1. {g \in SpanGoroutines : phase[g] \in CallPhases} = {}
    BY DEF CallPhases
  <2> QED BY <2>1, FS_EmptySet DEF InCalls
<1>5. ASSUME NEW f PROVE Among(f, Timed) = 0
  <2>1. {g \in SpanGoroutines : phase[g] \in Timed /\ FamilyAt(g) = f} = {}
    BY DEF Timed
  <2> QED BY <2>1, FS_EmptySet DEF Among
<1> HIDE DEF ObsInit
<1>6. \A f \in Families : Both(durations, f) = 0
  <2>1. \A f \in Families : durations[<<f, "success">>] = 0 /\ durations[<<f, "error">>] = 0
    BY <1>2 DEF Statuses
  <2>2. 0 + 0 = 0
    OBVIOUS
  <2> QED BY <2>1, <2>2 DEF Both
<1>a. \A f \in Families : Both(durations, f) + panics[f] = ended[f] + Among(f, Timed)
  BY <1>2, <1>5, <1>6
<1>7. Books
  <2>1. callsMade = 0 /\ exported = 0
    BY DEF ObsInit
  <2> QED BY <1>1, <1>3, <1>4, <1>a, <2>1 DEF Books
<1>8. RestTyped
  BY DEF RestTyped, ObsInit
<1> QED BY <1>7, <1>8

\* So many calls bound all the numbers.
LEMMA ObsTyping == TracingInv /\ Books /\ RestTyped => ObsTypeOK
<1> SUFFICES ASSUME TracingInv, Books, RestTyped PROVE ObsTypeOK
  OBVIOUS
<1>1. SpansTyped /\ MaxTraced \in Nat
  BY ObservabilityAssumption DEF TracingInv
<1>a. \A f \in Families : /\ ended[f] \in Nat /\ panics[f] \in Nat
                          /\ Both(durations, f) \in Nat
  BY <1>1, FamilyNumbers
<1>2. \A f \in Families : ended[f] <= SpansEnded
  BY <1>a DEF SpansEnded, Families
<1>3. SpansEnded \in Nat
  BY <1>a DEF SpansEnded, Families
<1>4. ASSUME NEW f PROVE /\ Among(f, Timed) \in Nat /\ InCalls \in Nat
                         /\ Among(f, Timed) <= InCalls
  <2> DEFINE S == {g \in SpanGoroutines : phase[g] \in Timed /\ FamilyAt(g) = f}
             T == {g \in SpanGoroutines : phase[g] \in CallPhases}
  <2>1. S \subseteq T /\ T \subseteq SpanGoroutines
    BY DEF Timed, CallPhases
  <2>2. IsFiniteSet(T)
    BY <2>1, ObservabilityAssumption, FS_Subset
  <2>3. IsFiniteSet(S) /\ Cardinality(S) <= Cardinality(T)
    BY <2>1, <2>2, FS_Subset
  <2>4. Cardinality(S) \in Nat /\ Cardinality(T) \in Nat
    BY <2>2, <2>3, FS_CardinalityType
  <2> QED BY <2>3, <2>4 DEF Among, InCalls
<1>5. SpansEnded + InCalls <= MaxTraced /\ InCalls \in Nat
  BY <1>1, <1>4 DEF Books
<1>6. exported \in 0..MaxTraced
  BY <1>1, <1>3, <1>5 DEF Books
<1>7. ASSUME NEW f \in Families
      PROVE  /\ ended[f] \in 0..MaxTraced /\ panics[f] \in 0..MaxTraced
             /\ Both(durations, f) <= MaxTraced
  <2>1. Both(durations, f) + panics[f] = ended[f] + Among(f, Timed)
    BY DEF Books
  <2>2. ended[f] + Among(f, Timed) <= MaxTraced
    BY <1>1, <1>2, <1>3, <1>4, <1>5, <1>a
  <2> QED BY <1>1, <1>4, <1>a, <2>1, <2>2
<1>8. ASSUME NEW f \in Families, NEW s \in Statuses
      PROVE  durations[<<f, s>>] \in 0..MaxTraced
  <2>1. /\ durations[<<f, "success">>] \in Nat /\ durations[<<f, "error">>] \in Nat
        /\ s = "success" \/ s = "error"
    BY <1>1 DEF SpansTyped, Statuses
  <2>2. durations[<<f, "success">>] + durations[<<f, "error">>] <= MaxTraced
    BY <1>7 DEF Both
  <2> QED BY <1>1, <2>1, <2>2
<1>9. ASSUME NEW f \in Counted, NEW s \in Statuses
      PROVE  totals[<<f, s>>] \in 0..MaxTraced
  <2>1. /\ totals[<<f, "success">>] \in Nat /\ totals[<<f, "error">>] \in Nat
        /\ s = "success" \/ s = "error"
    BY <1>1 DEF SpansTyped, Statuses
  <2>2. Both(durations, f) = Both(totals, f) + Among(f, {"count"})
    BY InSums DEF TracingInv, TracingSound, Sums, Agree
  <2>3. Among(f, {"count"}) \in Nat
    <3> DEFINE S == {g \in SpanGoroutines : phase[g] \in {"count"} /\ FamilyAt(g) = f}
    <3>1. IsFiniteSet(S)
      BY ObservabilityAssumption, FS_Subset
    <3> QED BY <3>1, FS_CardinalityType DEF Among
  <2>4. Both(durations, f) \in Nat /\ Both(durations, f) <= MaxTraced
    BY <1>7, <1>a, FamilyKnown
  <2>5. totals[<<f, "success">>] + totals[<<f, "error">>] <= MaxTraced
    BY <1>1, <2>1, <2>2, <2>3, <2>4 DEF Both
  <2> QED BY <1>1, <2>1, <2>5
<1>10. ASSUME NEW s \in Statuses PROVE sizes[s] \in 0..MaxTraced
  <2>1. sizes[s] \in Nat /\ sizes[s] <= totals[<<"batch", s>>]
    BY <1>1 DEF SpansTyped, TracingInv, TracingSound, TracesMatchMetrics
  <2>2. totals[<<"batch", s>>] \in 0..MaxTraced
    BY <1>9, FamilyKnown
  <2> QED BY <1>1, <2>1, <2>2
<1>11. /\ durations \in [Families \X Statuses -> 0..MaxTraced]
       /\ totals \in [Counted \X Statuses -> 0..MaxTraced]
       /\ sizes \in [Statuses -> 0..MaxTraced]
       /\ ended \in [Families -> 0..MaxTraced]
       /\ panics \in [Families -> 0..MaxTraced]
  BY <1>1, <1>7, <1>8, <1>9, <1>10 DEF SpansTyped
<1>12. callsMade \in 0..MaxTraced
  BY DEF Books
<1> QED BY <1>1, <1>6, <1>11, <1>12 DEF SpansTyped, SpanPhases, SpanCalls, RestTyped, ObsTypeOK

\* The middleware reports no more than it was asked: no family counts, times
\* or exports more calls than there were (SendRequest to HandleBatchRequest).
THEOREM TracingTypeCorrect == ObsSpec => []ObsTypeOK
<1>1. ObsInit => TracingInv /\ Books /\ RestTyped
  BY TracingStarts, BooksStart
<1>2. TracingInv /\ Books /\ RestTyped /\ [ObsNext]_obsvars
        => TracingInv' /\ Books' /\ RestTyped'
  BY NextTracingInv, NextBooks, NextRest
<1> QED BY <1>1, <1>2, ObsTyping, PTL DEF ObsSpec

-----------------------------------------------------------------------------
(* Pagination                                                               *)

PagesTyped ==
  /\ kind \in ListKinds /\ items \subseteq Items /\ templates \subseteq Templates
  /\ known \subseteq items \cup templates
  /\ place \in {"idle", "fetch", "done", "error"}
  /\ params \in [limit : Int, cursor : Nat \cup {NoCursor, Garbage}]
  /\ got \in Seq(items \cup templates)

\* Only resources have templates beside them.
OneList == kind # "resources" => templates = {}

\* The next page begins where the collected items end.
NextFollows == place = "fetch" /\ Decodes(params.cursor) => decodeCursor(params.cursor) = Len(got)

PagesInv == PagesTyped /\ OneList /\ NextFollows /\ PagesTile

\* A walk over a map meets everything in it, once.
LEMMA Walk ==
  ASSUME NEW S, IsFiniteSet(S), NEW o \in SetToSeqs(S)
  PROVE  o \in Seq(S) /\ Len(o) = Cardinality(S) /\ Cardinality(S) \in Nat
<1>1. Cardinality(S) \in Nat
  BY FS_CardinalityType
<1>2. o \in [1..Cardinality(S) -> S]
  BY DEF SetToSeqs
<1> QED BY <1>1, <1>2, IsASeq, LenProperties

\* What is registered counts together.
LEMMA Total ==
  ASSUME PagesTyped
  PROVE  /\ IsFiniteSet(items) /\ IsFiniteSet(templates) /\ IsFiniteSet(items \cup templates)
         /\ Cardinality(items) \in Nat /\ Cardinality(templates) \in Nat
         /\ Cardinality(items \cup templates) = Cardinality(items) + Cardinality(templates)
<1>1. IsFiniteSet(items) /\ IsFiniteSet(templates)
  BY PaginationAssumption, FS_Subset DEF PagesTyped
<1>2. items \cap templates = {}
  BY PaginationAssumption DEF PagesTyped
<1>3. Cardinality(items) \in Nat /\ Cardinality(templates) \in Nat
  BY <1>1, FS_CardinalityType
<1>4. Cardinality(items \cap templates) = 0
  BY <1>2, FS_EmptySet
<1>5. /\ IsFiniteSet(items \cup templates)
      /\ Cardinality(items \cup templates)
           = Cardinality(items) + Cardinality(templates) - Cardinality(items \cap templates)
  BY <1>1, FS_Union
<1> QED BY <1>1, <1>3, <1>4, <1>5

\* A piece of a list.
LEMMA Piece ==
  ASSUME NEW S, NEW o \in Seq(S), NEW a \in Nat, NEW b \in Int, b <= Len(o)
  PROVE  /\ SubSeq(o, a + 1, b) \in Seq(S)
         /\ Len(SubSeq(o, a + 1, b)) = IF a < b THEN b - a ELSE 0
<1>1. \A i \in a + 1 .. b : o[i] \in S
  BY LenProperties, ElementOfSeq
<1>2. a + 1 \in Int
  OBVIOUS
<1>3. /\ SubSeq(o, a + 1, b) \in Seq(S)
      /\ Len(SubSeq(o, a + 1, b)) = IF a + 1 <= b THEN b - (a + 1) + 1 ELSE 0
  BY <1>1, <1>2, SubSeqProperties
<1> QED BY <1>3

\* What a page must be for the pages to tile what is registered: it goes on
\* from start, to an end that is the next cursor unless it is the end of all.
Continues(S, a, start, total) ==
  /\ a.items \in Seq(S)
  /\ start + Len(a.items) <= total
  /\ a.more <=> start + Len(a.items) < total
  /\ a.more => a.next = start + Len(a.items)

LEMMA OnePage ==
  ASSUME NEW S, NEW o \in Seq(S), NEW p \in [limit : Int, cursor : Int],
         decodeCursor(p.cursor) \in 0..Len(o)
  PROVE  Continues(S, PageOf(o, p), decodeCursor(p.cursor), Len(o))
<1> DEFINE start == decodeCursor(p.cursor)
           end == Least(start + ServerLimit(p), Len(o))
<1>1. ServerLimit(p) \in Nat \ {0} /\ Len(o) \in Nat
  BY PaginationAssumption, LenProperties DEF ServerLimit
<1>2. PageOf(o, p) = IF start < Len(o) THEN PageReply(SubSeq(o, start + 1, end), end, Len(o))
                                       ELSE PageReply(<<>>, Len(o), Len(o))
  BY DEF PageOf
<1>3. start \in Nat /\ start <= Len(o)
  BY <1>1
<1> HIDE DEF start
<1>4. end \in Nat /\ end <= Len(o) /\ (start < Len(o) => start < end)
  BY <1>1, <1>3 DEF Least
<1> HIDE DEF end
<1>5. /\ SubSeq(o, start + 1, end) \in Seq(S)
      /\ start < Len(o) => Len(SubSeq(o, start + 1, end)) = end - start
  BY <1>3, <1>4, Piece
<1>6. <<>> \in Seq(S) /\ Len(<<>>) = 0
  BY EmptySeq
<1> DEFINE a == PageOf(o, p)
<1>7. ASSUME start < Len(o) PROVE Continues(S, a, start, Len(o))
  <2>1. /\ a.items = SubSeq(o, start + 1, end) /\ (a.more <=> end < Len(o))
        /\ end < Len(o) => a.next = end
    <3>1. a = PageReply(SubSeq(o, start + 1, end), end, Len(o))
      BY <1>2, <1>7
    <3> HIDE DEF a
    <3>2. a.more <=> end < Len(o)
      BY <3>1, Zenon DEF PageReply
    <3>3. a.items = SubSeq(o, start + 1, end) /\ (end < Len(o) => a.next = end)
      BY <3>1 DEF PageReply, encodeCursor
    <3> QED BY <3>2, <3>3
  <2> HIDE DEF a
  <2> QED BY <1>1, <1>3, <1>4, <1>5, <1>7, <2>1 DEF Continues
<1>8. ASSUME ~(start < Len(o)) PROVE Continues(S, a, start, Len(o))
  <2>1. a.items = <<>> /\ ~a.more
    <3>1. a = PageReply(<<>>, Len(o), Len(o))
      BY <1>2, <1>8
    <3> HIDE DEF a
    <3>2. a.more <=> Len(o) < Len(o)
      BY <3>1, Zenon DEF PageReply
    <3>3. a.items = <<>>
      BY <3>1 DEF PageReply
    <3> QED BY <1>1, <3>2, <3>3
  <2> HIDE DEF a
  <2> QED BY <1>1, <1>3, <1>6, <1>8, <2>1 DEF Continues
<1> QED BY <1>7, <1>8 DEF start

\* The two lists of resources are cut with one offset: the first page that
\* begins beyond the resources is longer than the limit, and still follows.
LEMMA TwoLists ==
  ASSUME NEW S, NEW o \in Seq(S), NEW t \in Seq(S),
         NEW p \in [limit : Int, cursor : Int],
         decodeCursor(p.cursor) \in 0..(Len(o) + Len(t))
  PROVE  Continues(S, ResourcesPage(o, t, p), decodeCursor(p.cursor), Len(o) + Len(t))
<1> DEFINE start == decodeCursor(p.cursor)
           L == ServerLimit(p)
           rEnd == Least(Len(o), start + L)
           tFrom == Most(0, start - Len(o))
           tEnd == Least(Len(t), tFrom + L - (rEnd - start))
           x == SubSeq(o, start + 1, rEnd)
           y == SubSeq(t, tFrom + 1, tEnd)
<1>1. L \in Nat \ {0} /\ Len(o) \in Nat /\ Len(t) \in Nat
  BY PaginationAssumption, LenProperties DEF ServerLimit
<1>2. ResourcesPage(o, t, p) = PageReply(x \o y, rEnd + tEnd, Len(o) + Len(t))
  BY DEF ResourcesPage
<1>3. start \in Nat /\ start <= Len(o) + Len(t)
  BY <1>1
<1> HIDE DEF start, L
<1>4. /\ rEnd \in Nat /\ rEnd <= Len(o)
      /\ start <= Len(o) => start <= rEnd
      /\ start > Len(o) => rEnd = Len(o)
      /\ rEnd - start <= L
  BY <1>1, <1>3 DEF Least
<1>5. /\ tFrom \in Nat /\ tFrom <= Len(t)
      /\ tFrom = IF start > Len(o) THEN start - Len(o) ELSE 0
  BY <1>1, <1>3 DEF Most
<1> HIDE DEF rEnd, tFrom
<1>6. tEnd \in Nat /\ tFrom <= tEnd /\ tEnd <= Len(t)
  <2>1. tFrom + L - (rEnd - start) \in Int /\ tFrom <= tFrom + L - (rEnd - start)
    BY <1>1, <1>3, <1>4, <1>5
  <2> QED BY <1>1, <1>5, <2>1 DEF Least
<1> HIDE DEF tEnd
<1>7. /\ x \in Seq(S)
      /\ Len(x) = IF start < rEnd THEN rEnd - start ELSE 0
  BY <1>3, <1>4, Piece
<1>8. /\ y \in Seq(S)
      /\ Len(y) = tEnd - tFrom
  <2>1. /\ y \in Seq(S)
        /\ Len(y) = IF tFrom < tEnd THEN tEnd - tFrom ELSE 0
    BY <1>1, <1>5, <1>6, Piece, SMTT(30)
  <2> HIDE DEF y
  <2>2. tFrom \in Int /\ tEnd \in Int /\ tFrom <= tEnd
    BY <1>5, <1>6
  <2> QED BY <2>1, <2>2
<1> HIDE DEF x, y
<1>9. x \o y \in Seq(S) /\ Len(x \o y) = Len(x) + Len(y)
  BY <1>7, <1>8, ConcatProperties
<1>10. start + Len(x \o y) = rEnd + tEnd
  <2>1. CASE start <= Len(o)
    <3>1. tFrom = 0
      BY <1>1, <1>3, <1>5, <2>1
    <3>2. start \in Int /\ rEnd \in Int /\ start <= rEnd
      BY <1>3, <1>4, <2>1
    <3>3. Len(x) = rEnd - start
      BY <1>7, <3>2
    <3> QED BY <1>3, <1>4, <1>6, <1>8, <1>9, <3>1, <3>3
  <2>2. CASE start > Len(o)
    <3>1. tFrom = start - Len(o) /\ rEnd = Len(o) /\ Len(x) = 0
      BY <1>1, <1>3, <1>4, <1>5, <1>7, <2>2
    <3> QED BY <1>1, <1>3, <1>6, <1>8, <1>9, <3>1
  <2> QED BY <1>1, <1>3, <2>1, <2>2
<1>11. rEnd + tEnd \in Nat /\ rEnd + tEnd <= Len(o) + Len(t)
  BY <1>1, <1>4, <1>6
<1> DEFINE a == ResourcesPage(o, t, p)
           n == rEnd + tEnd
<1>12. Continues(S, a, start, Len(o) + Len(t))
  <2>1. /\ a.items = x \o y /\ (a.more <=> n < Len(o) + Len(t))
        /\ n < Len(o) + Len(t) => a.next = n
    <3>1. a = PageReply(x \o y, n, Len(o) + Len(t))
      BY <1>2
    <3> HIDE DEF a, n
    <3>2. a.more <=> n < Len(o) + Len(t)
      BY <3>1, Zenon DEF PageReply
    <3>3. a.items = x \o y /\ (n < Len(o) + Len(t) => a.next = n)
      BY <3>1 DEF PageReply, encodeCursor
    <3> QED BY <3>2, <3>3
  <2> HIDE DEF a
  <2> QED BY <1>9, <1>10, <1>11, <2>1 DEF Continues
<1> QED BY <1>12 DEF start

LEMMA PagesContinue ==
  ASSUME PagesInv, Decodes(params.cursor), place = "fetch", NEW a \in Pages(params)
  PROVE  Continues(items \cup templates, a, Len(got), Cardinality(items \cup templates))
<1> DEFINE S == items \cup templates
<1>1. /\ params \in [limit : Int, cursor : Int]
      /\ decodeCursor(params.cursor) = Len(got)
      /\ Len(got) \in Nat /\ Len(got) <= Cardinality(items \cup templates)
  BY LenProperties DEF PagesInv, PagesTyped, NextFollows, PagesTile, NoCursor, Garbage
<1>2. /\ IsFiniteSet(items) /\ IsFiniteSet(templates)
      /\ Cardinality(items) \in Nat /\ Cardinality(templates) \in Nat
      /\ Cardinality(items \cup templates) = Cardinality(items) + Cardinality(templates)
  BY Total DEF PagesInv
<1>3. ASSUME NEW T \in {items, templates}, NEW o \in SetToSeqs(T)
      PROVE  o \in Seq(S) /\ Len(o) = Cardinality(T)
  <2>1. T \subseteq S /\ IsFiniteSet(T)
    BY <1>2 DEF PagesInv, PagesTyped
  <2>2. o \in Seq(T) /\ Len(o) = Cardinality(T)
    BY <2>1, Walk
  <2> QED BY <2>1, <2>2, SeqMonotonic
<1>4. CASE kind = "resources"
  <2>1. PICK o \in SetToSeqs(items), t \in SetToSeqs(templates) : a = ResourcesPage(o, t, params)
    BY <1>4 DEF Pages
  <2>2. /\ o \in Seq(S) /\ t \in Seq(S)
        /\ Len(o) = Cardinality(items) /\ Len(t) = Cardinality(templates)
    BY <1>3
  <2>3. decodeCursor(params.cursor) \in 0..(Len(o) + Len(t))
    BY <1>1, <1>2, <2>2
  <2>4. Continues(S, a, decodeCursor(params.cursor), Len(o) + Len(t))
    BY <1>1, <2>1, <2>2, <2>3, TwoLists
  <2> QED BY <1>1, <1>2, <2>2, <2>4
<1>5. CASE kind # "resources"
  <2>1. kind \in {"tools", "prompts", "roots"}
    BY <1>5 DEF PagesInv, PagesTyped, ListKinds
  <2>2. PICK o \in SetToSeqs(items) : a = PageOf(o, params)
    BY <1>5, <2>1 DEF Pages, ToolsPage, PromptsPage, RootsPage
  <2>3. o \in Seq(S) /\ Len(o) = Cardinality(items)
    BY <1>3
  <2>4. Cardinality(items \cup templates) = Cardinality(items)
    <3>1. templates = {}
      BY <1>5 DEF PagesInv, OneList
    <3> QED BY <3>1
  <2>5. decodeCursor(params.cursor) \in 0..Len(o)
    BY <1>1, <1>2, <2>3, <2>4
  <2>6. Continues(S, a, decodeCursor(params.cursor), Len(o))
    BY <1>1, <2>2, <2>3, <2>5, OnePage
  <2> QED BY <1>1, <2>3, <2>4, <2>6
<1> QED BY <1>4, <1>5

\* A page is received: the listing goes on where it ends, or is complete.
LEMMA FetchKeeps == ASSUME PagesInv, FetchAllPages PROVE PagesInv'
<1> DEFINE total == Cardinality(items \cup templates)
<1>1. /\ place = "fetch" /\ UNCHANGED <<kind, items, templates, known>>
      /\ total' = total /\ total \in Nat
      /\ got \in Seq(items \cup templates) /\ Len(got) \in Nat /\ Len(got) <= total
  <2>1. total \in Nat
    BY Total, FS_CardinalityType DEF PagesInv
  <2> QED BY <2>1, LenProperties DEF FetchAllPages, PagesInv, PagesTyped, PagesTile
<1>2. Cardinality(known) <= total
  BY Total, FS_Subset DEF PagesInv, PagesTyped
<1> HIDE DEF total
<1>3. CASE place' = "error" /\ UNCHANGED <<got, params>>
  <2>1. PagesTyped' /\ OneList' /\ NextFollows'
    BY <1>1, <1>3 DEF PagesInv, PagesTyped, OneList, NextFollows
  <2>2. PagesTile'
    BY <1>1, <1>3 DEF PagesTile, total
  <2> QED BY <2>1, <2>2 DEF PagesInv
<1>4. ASSUME NEW a \in Pages(params), Decodes(params.cursor),
             got' = got \o a.items,
             place' = IF CollectorHasMore(a) THEN "fetch" ELSE "done",
             params' = IF CollectorHasMore(a) THEN NextParams(params, a) ELSE params
      PROVE  PagesInv'
  <2>1. Continues(items \cup templates, a, Len(got), total)
    BY <1>1, <1>4, PagesContinue DEF total
  <2>2. /\ got' \in Seq(items \cup templates)
        /\ Len(got') = Len(got) + Len(a.items) /\ Len(got') \in Nat
        /\ Len(got') <= total
    <3>1. a.items \in Seq(items \cup templates) /\ Len(got) + Len(a.items) <= total
      BY <2>1 DEF Continues
    <3>2. /\ got \o a.items \in Seq(items \cup templates)
          /\ Len(got \o a.items) = Len(got) + Len(a.items)
      BY <1>1, <3>1, ConcatProperties
    <3> QED BY <1>4, <3>1, <3>2, LenProperties
  <2>3. /\ a.more <=> Len(got') < total
        /\ a.more => a.next = Len(got')
    BY <2>1, <2>2 DEF Continues
  <2>4. CollectorHasMore(a) <=> Len(got') < total
    BY <2>2, <2>3 DEF CollectorHasMore, NoCursor
  <2>5. CASE Len(got') < total
    <3>1. /\ place' = "fetch" /\ params' = NextParams(params, a)
          /\ a.next = Len(got')
      BY <1>4, <2>3, <2>4, <2>5
    <3>2. /\ params' \in [limit : Int, cursor : Nat \cup {NoCursor, Garbage}]
          /\ params'.cursor = Len(got')
      <4>1. params \in [limit : Int, cursor : Nat \cup {NoCursor, Garbage}]
        BY DEF PagesInv, PagesTyped
      <4>2. ApplyDefaults(params) \in [limit : Int, cursor : Nat \cup {NoCursor, Garbage}]
        BY <4>1, PaginationAssumption DEF ApplyDefaults, Least
      <4> QED BY <2>2, <3>1, <4>2 DEF NextParams
    <3>3. PagesTyped' /\ OneList'
      BY <1>1, <2>2, <3>1, <3>2 DEF PagesInv, PagesTyped, OneList
    <3>4. NextFollows'
      BY <2>2, <3>2 DEF NextFollows, decodeCursor, NoCursor
    <3>5. PagesTile'
      BY <1>1, <2>2, <3>1 DEF PagesTile, total
    <3> QED BY <3>3, <3>4, <3>5 DEF PagesInv
  <2>6. CASE ~(Len(got') < total)
    <3>1. place' = "done" /\ params' = params
      BY <1>4, <2>4, <2>6
    <3>2. PagesTyped' /\ OneList' /\ NextFollows'
      BY <1>1, <2>2, <3>1 DEF PagesInv, PagesTyped, OneList, NextFollows
    <3>3. Len(got') = total
      BY <1>1, <2>2, <2>6
    <3>4. PagesTile'
      BY <1>1, <1>2, <2>2, <3>1, <3>3 DEF PagesTile, total
    <3> QED BY <3>2, <3>4 DEF PagesInv
  <2> QED BY <2>5, <2>6
<1> QED BY <1>3, <1>4 DEF FetchAllPages

\* A listing begins with nothing collected.
LEMMA BeginKeeps ==
  ASSUME PagesInv, NEW p \in [limit : Int, cursor : {NoCursor, Garbage}], BeginList(p)
  PROVE  PagesInv'
<1>1. /\ UNCHANGED <<kind, items, templates>> /\ got' = <<>>
      /\ known' = items \cup templates
      /\ place' \in {"fetch", "error"} /\ params' = ApplyDefaults(p)
  BY DEF BeginList
<1>2. /\ params' \in [limit : Int, cursor : Nat \cup {NoCursor, Garbage}]
      /\ params'.cursor \in {NoCursor, Garbage}
  BY <1>1, PaginationAssumption DEF ApplyDefaults, Least
<1>3. got' \in Seq(items \cup templates) /\ Len(got') = 0
  BY <1>1, EmptySeq
<1>4. PagesTyped' /\ OneList'
  BY <1>1, <1>2, <1>3 DEF PagesInv, PagesTyped, OneList
<1>5. NextFollows'
  BY <1>2, <1>3 DEF NextFollows, Decodes, decodeCursor
<1>6. PagesTile'
  <2>1. Cardinality(items \cup templates) \in Nat
    BY Total, FS_CardinalityType DEF PagesInv
  <2> QED BY <1>1, <1>3, <2>1 DEF PagesTile
<1> QED BY <1>4, <1>5, <1>6 DEF PagesInv

\* More is registered while the listing is under way or over.
LEMMA RegisterKeeps ==
  ASSUME PagesInv, UNCHANGED <<kind, known, place, params, got>>,
         items \subseteq items', items' \subseteq Items,
         templates \subseteq templates', templates' \subseteq Templates,
         kind # "resources" => templates' = templates
  PROVE  PagesInv'
<1>1. PagesTyped' /\ OneList' /\ NextFollows'
  <2>1. got' \in Seq(items' \cup templates')
    <3>1. got \in Seq(items \cup templates) /\ got' = got
      BY DEF PagesInv, PagesTyped
    <3>2. items \cup templates \subseteq items' \cup templates'
      OBVIOUS
    <3> QED BY <3>1, <3>2, SeqMonotonic
  <2> QED BY <2>1 DEF PagesInv, PagesTyped, OneList, NextFollows
<1>2. /\ Cardinality(items \cup templates) \in Nat
      /\ Cardinality(items' \cup templates') \in Nat
      /\ Cardinality(items \cup templates) <= Cardinality(items' \cup templates')
  <2>1. IsFiniteSet(Items \cup Templates)
    BY PaginationAssumption, FS_Union
  <2>2. items' \cup templates' \subseteq Items \cup Templates
    OBVIOUS
  <2>3. IsFiniteSet(items' \cup templates')
    BY <2>1, <2>2, FS_Subset
  <2>4. items \cup templates \subseteq items' \cup templates'
    OBVIOUS
  <2> QED BY <2>3, <2>4, FS_Subset, FS_CardinalityType
<1>3. Len(got) \in Nat
  BY LenProperties DEF PagesInv, PagesTyped
<1>4. PagesTile'
  BY <1>2, <1>3 DEF PagesInv, PagesTile
<1> QED BY <1>1, <1>4 DEF PagesInv

LEMMA TakeKeeps == ASSUME PagesInv, TakeResult PROVE PagesInv'
<1>1. /\ UNCHANGED <<kind, items, templates>> /\ got' = <<>> /\ known' = {}
      /\ place' = "idle" /\ params' = [limit |-> 0, cursor |-> NoCursor]
  BY DEF TakeResult
<1>2. got' \in Seq(items \cup templates) /\ Len(got') = 0
  BY <1>1, EmptySeq
<1>3. PagesTyped' /\ OneList' /\ NextFollows'
  BY <1>1, <1>2 DEF PagesInv, PagesTyped, OneList, NextFollows
<1>4. Cardinality(items \cup templates) \in Nat
  BY Total, FS_CardinalityType DEF PagesInv
<1>5. PagesTile'
  BY <1>1, <1>2, <1>4 DEF PagesTile
<1> QED BY <1>3, <1>5 DEF PagesInv

LEMMA PagesStart == ASSUME PaginationInit PROVE PagesInv
<1>1. /\ PagesTyped /\ OneList /\ NextFollows
  BY EmptySeq DEF PaginationInit, PagesTyped, OneList, NextFollows
<1>2. Len(got) = 0 /\ Cardinality(items \cup templates) = 0
  BY EmptySeq, FS_EmptySet DEF PaginationInit
<1>3. PagesTile
  BY <1>2 DEF PagesTile, PaginationInit
<1> QED BY <1>1, <1>3 DEF PagesInv

LEMMA NextPagesInv == PagesInv /\ [PaginationNext]_pagevars => PagesInv'
<1> SUFFICES ASSUME PagesInv, [PaginationNext]_pagevars PROVE PagesInv'
  OBVIOUS
<1>1. ASSUME NEW i \in Items, RegisterItem(i) PROVE PagesInv'
  <2>1. /\ items \subseteq items' /\ items' \subseteq Items /\ templates' = templates
        /\ templates \subseteq Templates /\ UNCHANGED <<kind, known, place, params, got>>
    BY <1>1 DEF RegisterItem, PagesInv, PagesTyped
  <2> QED BY <2>1, RegisterKeeps
<1>2. ASSUME NEW t \in Templates, RegisterTemplate(t) PROVE PagesInv'
  <2>1. /\ templates \subseteq templates' /\ templates' \subseteq Templates
        /\ items' = items /\ items \subseteq Items /\ kind = "resources"
        /\ UNCHANGED <<kind, known, place, params, got>>
    BY <1>2 DEF RegisterTemplate, PagesInv, PagesTyped
  <2> QED BY <2>1, RegisterKeeps
<1>3. CASE ListAllTools \/ ListAllPrompts \/ ListAllRoots \/ ListAllResources
  <2>1. FirstPage \in [limit : Int, cursor : {NoCursor, Garbage}]
    BY PaginationAssumption DEF FirstPage
  <2> QED BY <1>3, <2>1, BeginKeeps
          DEF ListAllTools, ListAllPrompts, ListAllRoots, ListAllResources
<1>4. ASSUME NEW l \in Limits, NEW c \in {NoCursor, Garbage},
             BeginList([limit |-> l, cursor |-> c])
      PROVE  PagesInv'
  <2>1. [limit |-> l, cursor |-> c] \in [limit : Int, cursor : {NoCursor, Garbage}]
    BY PaginationAssumption
  <2> QED BY <1>4, <2>1, BeginKeeps
<1>5. CASE FetchAllPages
  BY <1>5, FetchKeeps
<1>6. CASE TakeResult
  BY <1>6, TakeKeeps
<1>7. CASE UNCHANGED pagevars
  <2>1. UNCHANGED <<kind, items, templates, known, place, params, got>>
    BY <1>7 DEF pagevars
  <2>2. items \subseteq Items /\ templates \subseteq Templates
    BY DEF PagesInv, PagesTyped
  <2> QED BY <2>1, <2>2, RegisterKeeps
<1> QED BY <1>1, <1>2, <1>3, <1>4, <1>5, <1>6, <1>7 DEF PaginationNext

LEMMA PagesTyping == PagesInv => PaginationTypeOK
BY DEF PagesInv, PagesTyped, PaginationTypeOK, NoCursor, Garbage

\* The inductive invariant of a listing, whatever is registered meanwhile.
THEOREM PagesInductive == PaginationSpec => []PagesInv
<1>1. PaginationInit => PagesInv
  BY PagesStart
<1> QED BY <1>1, NextPagesInv, PTL DEF PaginationSpec

\* What FetchAllPages has collected is registered, and so is everything it is
\* measured against; a cursor is an offset, or what a caller made of it.
THEOREM PagesTypeCorrect == PaginationSpec => []PaginationTypeOK
<1>1. PagesInv => PaginationTypeOK
  BY PagesTyping
<1> QED BY <1>1, PagesInductive, PTL

\* A listing collects as many items as were registered at its beginning, and
\* never more than there are, whatever the limits.
THEOREM ListingsTile == PaginationSpec => []PagesTile
<1>1. PagesInv => PagesTile
  BY DEF PagesInv
<1> QED BY <1>1, PagesInductive, PTL

-----------------------------------------------------------------------------
(* HTTPBatch                                                                *)

BatchTyped ==
  /\ content \in [Batches -> Seq(IDs)]
  /\ at \in [Batches -> {"idle", "post", "read", "collect", "cleanup", "close", "done"}]
  /\ chans \in [Batches \X IDs -> {"none", "open", "removed", "closed"}]
  /\ box \in [Batches \X IDs -> Seq(Response)]
  /\ responses \in [Batches -> Seq(Response)]
  /\ result \in [Batches -> Seq(Response)]
  /\ due \subseteq Response /\ IsFiniteSet(due)
  /\ mail \in [Participants -> Seq(Response)]
  /\ hand \in [Participants -> Batches \cup {NoBatch}]
  /\ handlers \in [IDs -> Batches \cup {NoBatch}]
  /\ ran \subseteq Participants

\* The responses that answer a request of a batch that was sent.
Sent == {r \in Response : r.id \in Ids(r.of) /\ at[r.of] # "idle"}

UnderWay ==
  /\ \A r \in due : r \in Sent
  /\ \A g \in Participants : \A n \in DOMAIN mail[g] : mail[g][n] \in Sent

\* A goroutine that has a handler in hand, or has run it, still has the
\* response in front of it.
InHand ==
  \A g \in Participants :
    /\ hand[g] # NoBatch => mail[g] # <<>> /\ g \notin ran
    /\ g \in ran => mail[g] # <<>>

\* A call has nothing to handle before its POST is answered.
NoMailYet == \A b \in Batches : at[b] \in {"idle", "post"} => mail[b] = <<>>

\* A channel only holds a response with its own id.
Boxed ==
  \A b \in Batches, i \in IDs :
    /\ Len(box[<<b, i>>]) <= 1
    /\ \A n \in DOMAIN box[<<b, i>>] :
         box[<<b, i>>][n] \in Sent /\ box[<<b, i>>][n].id = i

\* What a call has collected came out of channels of its own, each of which
\* has left responseMap.
CollectedOnce ==
  \A b \in Batches :
    /\ at[b] = "idle" => responses[b] = <<>>
    /\ \A n \in DOMAIN responses[b] :
         LET r == responses[b][n]
         IN /\ r \in Sent /\ r.id \in Ids(b) /\ chans[<<b, r.id>>] = "removed"
            /\ \A m \in DOMAIN responses[b] : responses[b][m].id = r.id => m = n

\* What a call returns answers its requests one by one.
InOrderReturned ==
  \A b \in Batches :
    result[b] # <<>> =>
      /\ Len(result[b]) = Len(content[b])
      /\ \A k \in DOMAIN result[b] :
           result[b][k] \in Sent /\ result[b][k].id = content[b][k]

BatchInv ==
  /\ BatchTyped /\ UnderWay /\ InHand /\ NoMailYet
  /\ Boxed /\ CollectedOnce /\ InOrderReturned

\* No step changes what the batches hold, or makes a call begin again.
Onward == content' = content /\ \A c \in Batches : at'[c] = "idle" => at[c] = "idle"

LEMMA StillSent == ASSUME Onward, BatchTyped PROVE Sent \subseteq Sent'
  BY DEF Onward, Sent, Ids, Response

\* The positions of a sequence.
LEMMA Positions == ASSUME NEW n \in Nat PROVE IsFiniteSet(1..n) /\ Cardinality(1..n) = n
<1>1. /\ IsFiniteSet(1..n)
      /\ Cardinality(1..n) = IF 1 > n THEN 0 ELSE n - 1 + 1
  BY FS_Interval
<1> QED BY <1>1

\* SetToSeq makes a sequence of a finite set.
LEMMA OrderedSet ==
  ASSUME NEW X, NEW S \in SUBSET X, IsFiniteSet(S)
  PROVE  SetToSeq(S) \in Seq(X) /\ \A n \in DOMAIN SetToSeq(S) : SetToSeq(S)[n] \in S
<1>1. Cardinality(S) \in Nat /\ ExistsBijection(1..Cardinality(S), S)
  BY FS_CardinalityType
<1>2. PICK f \in [1..Cardinality(S) -> S] : IsInjective(f)
  BY <1>1 DEF ExistsBijection, Bijection, Injection, IsInjective
<1>3. SetToSeq(S) \in [1..Cardinality(S) -> S]
  BY <1>2 DEF SetToSeq
<1> HIDE DEF SetToSeq
<1>4. SetToSeq(S) \in [1..Cardinality(S) -> X]
  BY <1>3
<1> QED BY <1>1, <1>3, <1>4, IsASeq

\* The answers to some requests of a batch.
LEMMA AnswersTo ==
  ASSUME BatchTyped, NEW b \in Batches, NEW now \in SUBSET Ids(b)
  PROVE  LET A == {[of |-> b, id |-> i] : i \in now}
         IN A \subseteq Response /\ IsFiniteSet(A) /\ \A r \in A : r.of = b /\ r.id \in now
<1> DEFINE A == {[of |-> b, id |-> i] : i \in now}
           N == Len(content[b])
           f == [n \in 1..N |-> content[b][n]]
           g == [i \in now |-> [of |-> b, id |-> i]]
<1>1. content[b] \in Seq(IDs) /\ N \in Nat /\ DOMAIN content[b] = 1..N
  BY LenProperties DEF BatchTyped
<1>2. \A n \in 1..N : content[b][n] \in IDs
  BY <1>1, ElementOfSeq
<1>3. Ids(b) \subseteq IDs
  BY <1>1, <1>2 DEF Ids, ToSet
<1>4. IsFiniteSet(Ids(b))
  <2>1. f \in Surjection(1..N, Ids(b))
    BY <1>1 DEF Surjection, Ids, ToSet
  <2>2. IsFiniteSet(1..N)
    BY <1>1, Positions
  <2> QED BY <2>1, <2>2, FS_Surjection
<1>5. IsFiniteSet(now)
  BY <1>4, FS_Subset
<1>6. g \in Surjection(now, A)
  BY DEF Surjection
<1>7. IsFiniteSet(A)
  BY <1>5, <1>6, FS_Surjection
<1>8. A \subseteq Response
  BY <1>3 DEF Response
<1>9. \A r \in A : r.of = b /\ r.id \in now
  OBVIOUS
<1> QED BY <1>7, <1>8, <1>9

\* What a step leaves alone stays as it should be.
LEMMA FrameBatch ==
  ASSUME BatchInv, Onward
  PROVE  /\ UNCHANGED <<due, mail>> => UnderWay'
         /\ UNCHANGED box => Boxed'
         /\ UNCHANGED result => InOrderReturned'
         /\ UNCHANGED <<mail, hand, ran>> => InHand'
<1>1. Sent \subseteq Sent'
  BY StillSent DEF BatchInv
<1>2. ASSUME UNCHANGED <<due, mail>> PROVE UnderWay'
  BY <1>1, <1>2 DEF BatchInv, UnderWay
<1>3. ASSUME UNCHANGED box PROVE Boxed'
  BY <1>1, <1>3 DEF BatchInv, Boxed
<1>4. ASSUME UNCHANGED result PROVE InOrderReturned'
  BY <1>1, <1>4 DEF BatchInv, InOrderReturned, Onward
<1>5. ASSUME UNCHANGED <<mail, hand, ran>> PROVE InHand'
  BY <1>5 DEF BatchInv, InHand
<1> QED BY <1>2, <1>3, <1>4, <1>5

\* The channels that gave a response stay removed.
LEMMA StillCollected ==
  ASSUME BatchInv, Onward, UNCHANGED responses,
         \A c \in Batches, i \in IDs :
           chans[<<c, i>>] = "removed" /\ at[c] # "idle" => chans'[<<c, i>>] = "removed"
  PROVE  CollectedOnce'
<1>1. Sent \subseteq Sent'
  BY StillSent DEF BatchInv
<1> SUFFICES ASSUME NEW b \in Batches
             PROVE  /\ at'[b] = "idle" => responses[b] = <<>>
                    /\ \A n \in DOMAIN responses[b] :
                         /\ responses[b][n] \in Sent'
                         /\ responses[b][n].id \in Ids(b)'
                         /\ chans'[<<b, responses[b][n].id>>] = "removed"
                         /\ \A m \in DOMAIN responses[b] :
                              responses[b][m].id = responses[b][n].id => m = n
  BY DEF CollectedOnce
<1>2. at'[b] = "idle" => responses[b] = <<>>
  BY DEF Onward, BatchInv, CollectedOnce
<1>3. ASSUME NEW n \in DOMAIN responses[b]
      PROVE  /\ responses[b][n] \in Sent' /\ responses[b][n].id \in Ids(b)'
             /\ chans'[<<b, responses[b][n].id>>] = "removed"
             /\ \A m \in DOMAIN responses[b] :
                  responses[b][m].id = responses[b][n].id => m = n
  <2>1. /\ responses[b][n] \in Sent /\ responses[b][n].id \in Ids(b)
        /\ chans[<<b, responses[b][n].id>>] = "removed"
        /\ \A m \in DOMAIN responses[b] :
             responses[b][m].id = responses[b][n].id => m = n
    BY DEF BatchInv, CollectedOnce
  <2>2. Ids(b)' = Ids(b)
    BY DEF Onward, Ids
  <2>3. at[b] # "idle"
    BY DEF BatchInv, CollectedOnce
  <2>4. responses[b][n].id \in IDs
    BY <2>1 DEF Sent, Response
  <2> QED BY <1>1, <2>1, <2>2, <2>3, <2>4
<1> QED BY <1>2, <1>3

\* A call moves on.
LEMMA CallMoves ==
  ASSUME BatchInv, NEW b \in Batches, NEW from, NEW to \in {"post", "read", "collect",
         "cleanup", "close", "done"}, GoFrom(b, from, to), content' = content
  PROVE  /\ Onward
         /\ at[b] = from /\ at'[b] = to
         /\ \A c \in Batches : c # b => at'[c] = at[c]
         /\ at' \in [Batches -> {"idle", "post", "read", "collect", "cleanup", "close", "done"}]
  BY DEF BatchInv, BatchTyped, GoFrom, Onward

LEMMA RegisterKeepsBatch == ASSUME BatchInv, NEW b \in Batches, Register(b) PROVE BatchInv'
<1>1. /\ UNCHANGED <<content, box, responses, result, due, mail, hand, ran>>
      /\ Onward /\ at[b] = "idle" /\ at'[b] = "post"
      /\ \A c \in Batches : c # b => at'[c] = at[c]
      /\ at' \in [Batches -> {"idle", "post", "read", "collect", "cleanup", "close", "done"}]
  BY CallMoves DEF Register
<1>2. UnderWay' /\ Boxed' /\ InOrderReturned' /\ InHand'
  BY <1>1, FrameBatch
<1>3. \A c \in Batches, i \in IDs :
        c # b => chans'[<<c, i>>] = chans[<<c, i>>]
  BY DEF Register
<1>4. CollectedOnce'
  BY <1>1, <1>3, StillCollected
<1>5. NoMailYet'
  BY <1>1 DEF BatchInv, NoMailYet
<1>6. BatchTyped'
  <2>1. handlers' \in [IDs -> Batches \cup {NoBatch}]
        /\ chans' \in [Batches \X IDs -> {"none", "open", "removed", "closed"}]
    BY DEF Register, BatchInv, BatchTyped
  <2> QED BY <1>1, <2>1 DEF BatchInv, BatchTyped, Response
<1> QED BY <1>2, <1>4, <1>5, <1>6 DEF BatchInv

LEMMA PostAnsweredKeeps == ASSUME BatchInv, NEW b \in Batches, PostAnswered(b) PROVE BatchInv'
<1>1. /\ UNCHANGED <<content, handlers, chans, box, responses, result, hand, ran>>
      /\ Onward /\ at[b] = "post" /\ at'[b] = "read"
      /\ \A c \in Batches : c # b => at'[c] = at[c]
      /\ at' \in [Batches -> {"idle", "post", "read", "collect", "cleanup", "close", "done"}]
  BY CallMoves DEF PostAnswered
<1>2. PICK now \in SUBSET Ids(b) :
        /\ mail' = [mail EXCEPT ![b] = SetToSeq({[of |-> b, id |-> i] : i \in now})]
        /\ due' = due \cup {[of |-> b, id |-> i] : i \in Ids(b) \ now}
  BY DEF PostAnswered
<1> DEFINE A == {[of |-> b, id |-> i] : i \in now}
           B == {[of |-> b, id |-> i] : i \in Ids(b) \ now}
<1>3. BatchTyped /\ b \in Participants
  BY DEF BatchInv, Participants
<1>4. /\ A \subseteq Response /\ IsFiniteSet(A) /\ \A r \in A : r.of = b /\ r.id \in now
      /\ B \subseteq Response /\ IsFiniteSet(B) /\ \A r \in B : r.of = b /\ r.id \in Ids(b)
  <2>1. Ids(b) \ now \in SUBSET Ids(b)
    OBVIOUS
  <2> QED BY <1>3, <2>1, AnswersTo
<1>5. mail' = [mail EXCEPT ![b] = SetToSeq(A)] /\ due' = due \cup B
  BY <1>2
<1>6. \A r \in A \cup B : r \in Sent'
  <2>1. Ids(b)' = Ids(b)
    BY <1>1 DEF Ids
  <2> QED BY <1>1, <1>4, <2>1 DEF Sent, Response
<1> HIDE DEF A, B
<1>7. SetToSeq(A) \in Seq(Response) /\ \A n \in DOMAIN SetToSeq(A) : SetToSeq(A)[n] \in A
  BY <1>4, OrderedSet
<1> DEFINE s == SetToSeq(A)
<1>8. mail'[b] = s /\ \A g \in Participants : g # b => mail'[g] = mail[g]
  BY <1>3, <1>5 DEF BatchTyped
<1>9. mail' \in [Participants -> Seq(Response)]
  BY <1>3, <1>5, <1>7 DEF BatchTyped
<1> HIDE DEF s
<1>10. UnderWay'
  <2>1. Sent \subseteq Sent'
    BY <1>1, StillSent DEF BatchInv
  <2>2. \A r \in due' : r \in Sent'
    BY <1>5, <1>6, <2>1 DEF BatchInv, UnderWay
  <2>3. ASSUME NEW g \in Participants, NEW n \in DOMAIN mail'[g] PROVE mail'[g][n] \in Sent'
    <3>1. CASE g = b
      <4>1. mail'[g][n] \in A
        BY <1>7, <1>8, <2>3, <3>1 DEF s
      <4> QED BY <1>6, <4>1
    <3>2. CASE g # b
      <4>1. mail'[g] = mail[g]
        BY <1>8, <3>2
      <4>2. mail[g][n] \in Sent
        BY <2>3, <4>1 DEF BatchInv, UnderWay
      <4> QED BY <2>1, <4>1, <4>2
    <3> QED BY <3>1, <3>2
  <2> QED BY <2>2, <2>3 DEF UnderWay
<1>11. InHand'
  <2>1. hand[b] = NoBatch /\ b \notin ran
    BY <1>1, <1>3 DEF BatchInv, InHand, NoMailYet
  <2> QED BY <1>1, <1>8, <2>1 DEF BatchInv, InHand
<1>12. NoMailYet'
  <2>1. Batches \subseteq Participants
    BY DEF Participants
  <2> QED BY <1>1, <1>8, <2>1 DEF BatchInv, NoMailYet
<1>13. Boxed' /\ InOrderReturned'
  BY <1>1, FrameBatch
<1>14. CollectedOnce'
  BY <1>1, StillCollected
<1>15. BatchTyped'
  <2>1. IsFiniteSet(due')
    BY <1>3, <1>4, <1>5, FS_Union DEF BatchTyped
  <2> QED BY <1>1, <1>3, <1>4, <1>5, <1>9, <2>1 DEF BatchTyped, Response
<1> QED BY <1>10, <1>11, <1>12, <1>13, <1>14, <1>15 DEF BatchInv

LEMMA PostFailsKeeps == ASSUME BatchInv, NEW b \in Batches, PostFails(b) PROVE BatchInv'
<1>1. /\ UNCHANGED <<content, handlers, chans, box, responses, result, mail, hand, ran>>
      /\ Onward /\ at[b] = "post" /\ at'[b] = "cleanup"
      /\ \A c \in Batches : c # b => at'[c] = at[c]
      /\ at' \in [Batches -> {"idle", "post", "read", "collect", "cleanup", "close", "done"}]
  BY CallMoves DEF PostFails
<1> DEFINE B == {[of |-> b, id |-> i] : i \in Ids(b)}
<1>2. B \subseteq Response /\ IsFiniteSet(B) /\ \A r \in B : r.of = b /\ r.id \in Ids(b)
  <2>1. Ids(b) \in SUBSET Ids(b) /\ BatchTyped
    BY DEF BatchInv
  <2> QED BY <2>1, AnswersTo
<1>3. due' = due \/ due' = due \cup B
  BY DEF PostFails
<1>4. \A r \in B : r \in Sent'
  <2>1. Ids(b)' = Ids(b)
    BY <1>1 DEF Ids
  <2> QED BY <1>1, <1>2, <2>1 DEF Sent, Response
<1> HIDE DEF B
<1>5. UnderWay'
  <2>1. Sent \subseteq Sent'
    BY <1>1, StillSent DEF BatchInv
  <2> QED BY <1>1, <1>3, <1>4, <2>1 DEF BatchInv, UnderWay
<1>6. Boxed' /\ InOrderReturned' /\ InHand'
  BY <1>1, FrameBatch
<1>7. CollectedOnce'
  BY <1>1, StillCollected
<1>8. NoMailYet'
  BY <1>1 DEF BatchInv, NoMailYet
<1>9. BatchTyped'
  <2>1. IsFiniteSet(due) /\ due \subseteq Response
    BY DEF BatchInv, BatchTyped
  <2>2. IsFiniteSet(due \cup B)
    BY <1>2, <2>1, FS_Union
  <2>3. IsFiniteSet(due') /\ due' \subseteq Response
    BY <1>2, <1>3, <2>1, <2>2
  <2> QED BY <1>1, <2>3 DEF BatchInv, BatchTyped, Response
<1> QED BY <1>5, <1>6, <1>7, <1>8, <1>9 DEF BatchInv

\* A set of natural numbers has a least element.
LEMMA LeastElement ==
  ASSUME NEW T, T \subseteq Nat, T # {}
  PROVE  \E x \in T : \A y \in T : x <= y
<1>1. IsWellFoundedOn(OpToRel(<, Nat), Nat)
  BY NatLessThanWellFounded
<1>2. PICK x \in T : \A y \in T : <<y, x>> \notin OpToRel(<, Nat)
  BY <1>1, WFMin
<1>3. \A y \in T : ~(y < x)
  BY <1>2 DEF OpToRel
<1> QED BY <1>3

\* A call with as many responses as requests has one for each id.
LEMMA AllCollected ==
  ASSUME BatchInv, NEW b \in Batches, Len(responses[b]) = Len(content[b]), NEW i \in Ids(b)
  PROVE  \E n \in DOMAIN responses[b] : responses[b][n].id = i
<1> DEFINE N == Len(content[b])
           f == [n \in 1..N |-> responses[b][n].id]
           c == [n \in 1..N |-> content[b][n]]
<1>1. /\ content[b] \in Seq(IDs) /\ responses[b] \in Seq(Response) /\ N \in Nat
      /\ DOMAIN content[b] = 1..N /\ DOMAIN responses[b] = 1..N
  BY LenProperties DEF BatchInv, BatchTyped
<1>2. f \in Injection(1..N, Ids(b))
  <2>1. \A n \in 1..N : /\ responses[b][n].id \in Ids(b)
                        /\ \A m \in 1..N : responses[b][m].id = responses[b][n].id => m = n
    BY <1>1 DEF BatchInv, CollectedOnce
  <2> QED BY <2>1 DEF Injection, IsInjective
<1>3. c \in Surjection(1..N, Ids(b))
  BY <1>1 DEF Surjection, Ids, ToSet
<1>4. IsFiniteSet(1..N) /\ Cardinality(1..N) = N
  BY <1>1, Positions
<1>5. IsFiniteSet(Ids(b)) /\ Cardinality(Ids(b)) <= N
  BY <1>3, <1>4, FS_Surjection
<1>6. N <= Cardinality(Ids(b)) /\ (N = Cardinality(Ids(b)) <=> f \in Surjection(1..N, Ids(b)))
  BY <1>2, <1>4, <1>5, FS_Injection
<1>7. f \in Surjection(1..N, Ids(b))
  BY <1>1, <1>5, <1>6, FS_CardinalityType
<1>8. PICK n \in 1..N : f[n] = i
  BY <1>7 DEF Surjection
<1> QED BY <1>1, <1>8

\* The first response with an id that one has.
LEMMA FirstHasId ==
  ASSUME BatchInv, NEW b \in Batches, NEW i, NEW n \in DOMAIN responses[b],
         responses[b][n].id = i
  PROVE  \E m \in DOMAIN responses[b] :
           First(b, i) = <<responses[b][m]>> /\ responses[b][m].id = i
<1> DEFINE found == {m \in DOMAIN responses[b] : responses[b][m].id = i}
<1>1. DOMAIN responses[b] \subseteq Nat
  BY LenProperties DEF BatchInv, BatchTyped
<1>2. found # {} /\ found \subseteq Nat
  BY <1>1
<1>3. \E x \in found : \A y \in found : x <= y
  BY <1>2, LeastElement
<1>4. Min(found) \in found
  BY <1>3 DEF Min
<1>5. First(b, i) = <<responses[b][Min(found)]>>
  BY <1>2 DEF First
<1> HIDE DEF First
<1> QED BY <1>4, <1>5

\* What a call returns that has collected all of its responses.
LEMMA OrderedAnswers ==
  ASSUME BatchInv, NEW b \in Batches, Len(responses[b]) = Len(content[b])
  PROVE  /\ Ordered(b) \in Seq(Response)
         /\ Len(Ordered(b)) = Len(content[b])
         /\ \A k \in 1..Len(content[b]) :
              /\ Ordered(b)[k].id = content[b][k]
              /\ \E m \in DOMAIN responses[b] : Ordered(b)[k] = responses[b][m]
<1> DEFINE N == Len(content[b])
           s == [k \in 1..N |-> responses[b][CHOOSE m \in DOMAIN responses[b] :
                   /\ First(b, content[b][k]) = <<responses[b][m]>>
                   /\ responses[b][m].id = content[b][k]]]
<1>1. /\ content[b] \in Seq(IDs) /\ responses[b] \in Seq(Response) /\ N \in Nat
      /\ DOMAIN content[b] = 1..N /\ DOMAIN responses[b] = 1..N
  BY LenProperties DEF BatchInv, BatchTyped
<1>2. ASSUME NEW k \in 1..N
      PROVE  /\ First(b, content[b][k]) = <<s[k]>> /\ s[k].id = content[b][k]
             /\ \E m \in DOMAIN responses[b] : s[k] = responses[b][m]
  <2>1. content[b][k] \in Ids(b)
    BY <1>1 DEF Ids, ToSet
  <2>2. PICK n \in DOMAIN responses[b] : responses[b][n].id = content[b][k]
    BY <2>1, AllCollected
  <2>3. \E m \in DOMAIN responses[b] :
           First(b, content[b][k]) = <<responses[b][m]>> /\ responses[b][m].id = content[b][k]
    BY <2>2, FirstHasId
  <2> QED BY <2>3
<1> HIDE DEF s
<1>3. \A k \in 1..N : s[k] \in Response
  BY <1>1, <1>2, ElementOfSeq
<1> DEFINE Builds(f) == f = [k \in 0..N |-> IF k = 0 THEN <<>>
                                            ELSE f[k - 1] \o First(b, content[b][k])]
           prefix(k) == [j \in 1..k |-> s[j]]
<1>4. ASSUME NEW k \in 0..N
      PROVE  /\ prefix(k) \in Seq(Response) /\ Len(prefix(k)) = k
             /\ k = 0 => prefix(k) = <<>>
             /\ k # 0 => prefix(k) = prefix(k - 1) \o First(b, content[b][k])
  <2>1. \A l \in 0..N : prefix(l) \in Seq(Response) /\ Len(prefix(l)) = l
    <3> TAKE l \in 0..N
    <3>1. l \in Nat /\ prefix(l) \in [1..l -> Response]
      BY <1>3
    <3> HIDE DEF prefix
    <3> QED BY <3>1, IsASeq, LenProperties
  <2>2. CASE k = 0
    BY <2>1, <2>2, EmptySeq
  <2>3. CASE k # 0
    <3>1. k \in 1..N /\ k - 1 \in 0..N
      BY <2>3
    <3>2. First(b, content[b][k]) = <<s[k]>> /\ s[k] \in Response
      BY <1>2, <1>3, <3>1
    <3>3. prefix(k) = prefix(k - 1) \o <<s[k]>>
      <4> DEFINE p == prefix(k - 1)
                 q == p \o <<s[k]>>
      <4>1. p \in Seq(Response) /\ Len(p) = k - 1
        BY <2>1, <3>1
      <4>2. <<s[k]>> \in Seq(Response) /\ Len(<<s[k]>>) = 1
        BY <3>2
      <4>3. \A j \in 1..(k - 1) : p[j] = s[j]
        OBVIOUS
      <4>4. q \in Seq(Response) /\ Len(q) = k /\ \A j \in 1..k : q[j] = s[j]
        <5> HIDE DEF p
        <5>1. Len(q) = Len(p) + 1 /\ q \in Seq(Response)
          BY <4>1, <4>2, ConcatProperties
        <5>2. ASSUME NEW j \in 1..k PROVE q[j] = s[j]
          BY <3>1, <4>1, <4>2, <4>3, <5>2, ConcatProperties
        <5> QED BY <3>1, <4>1, <5>1, <5>2
      <4>5. prefix(k) \in Seq(Response) /\ Len(prefix(k)) = k
            /\ \A j \in 1..k : prefix(k)[j] = s[j]
        BY <2>1
      <4> HIDE DEF prefix, q
      <4>6. prefix(k) = q
        BY <4>4, <4>5, SeqEqual
      <4> QED BY <4>6 DEF q
    <3> HIDE DEF prefix
    <3> QED BY <2>1, <2>3, <3>2, <3>3
  <2> QED BY <2>2, <2>3
<1> HIDE DEF prefix
<1>5. \E f : Builds(f)
  <2> DEFINE f == [k \in 0..N |-> prefix(k)]
  <2>1. ASSUME NEW k \in 0..N
        PROVE  f[k] = IF k = 0 THEN <<>> ELSE f[k - 1] \o First(b, content[b][k])
    <3>1. CASE k = 0
      BY <1>4, <3>1
    <3>2. CASE k # 0
      <4>1. k - 1 \in 0..N
        BY <1>1, <3>2
      <4> QED BY <1>4, <3>2, <4>1
    <3> QED BY <3>1, <3>2
  <2>2. Builds(f)
    BY <2>1
  <2> QED BY <2>2
<1>6. PICK f : Builds(f) /\ Ordered(b) = f[N]
  <2> DEFINE g == CHOOSE f : Builds(f)
  <2>1. Ordered(b) = g[N]
    BY DEF Ordered
  <2>2. Builds(g)
    BY <1>5
  <2> QED BY <2>1, <2>2
<1>7. \A k \in 0..N : f[k] = prefix(k)
  <2> DEFINE Bad == {k \in 0..N : f[k] # prefix(k)}
  <2> SUFFICES ASSUME Bad # {} PROVE FALSE
    OBVIOUS
  <2>1. Bad \subseteq Nat
    BY <1>1
  <2>2. PICK k \in Bad : \A y \in Bad : k <= y
    BY <2>1, LeastElement
  <2>3. f[k] = IF k = 0 THEN <<>> ELSE f[k - 1] \o First(b, content[b][k])
    BY <1>6
  <2>4. k # 0
    BY <1>4, <2>3
  <2>5. k - 1 \in 0..N /\ k - 1 \notin Bad
    BY <1>1, <2>1, <2>2, <2>4
  <2>6. f[k - 1] = prefix(k - 1)
    BY <2>5
  <2> QED BY <1>4, <2>3, <2>4, <2>6
<1>8. Ordered(b) = prefix(N) /\ N \in 0..N
  BY <1>1, <1>6, <1>7
<1>9. \A k \in 1..N : prefix(N)[k] = s[k]
  BY DEF prefix
<1> HIDE DEF Ordered
<1> QED BY <1>2, <1>4, <1>8, <1>9

\* A call moves on and touches nothing that the invariant is about.
LEMMA QuietMove ==
  ASSUME BatchInv, NEW b \in Batches, NEW from,
         NEW to \in {"collect", "cleanup", "close", "done"}, GoFrom(b, from, to),
         UNCHANGED <<content, chans, box, responses, result, due, mail, hand, ran>>,
         handlers' \in [IDs -> Batches \cup {NoBatch}]
  PROVE  BatchInv'
<1>1. /\ Onward /\ at[b] = from /\ at'[b] = to
      /\ \A c \in Batches : c # b => at'[c] = at[c]
      /\ at' \in [Batches -> {"idle", "post", "read", "collect", "cleanup", "close", "done"}]
  BY CallMoves
<1>2. UnderWay' /\ Boxed' /\ InOrderReturned' /\ InHand'
  BY <1>1, FrameBatch
<1>3. CollectedOnce'
  BY <1>1, StillCollected
<1>4. NoMailYet'
  BY <1>1 DEF BatchInv, NoMailYet
<1>5. BatchTyped'
  BY <1>1 DEF BatchInv, BatchTyped, Response
<1> QED BY <1>2, <1>3, <1>4, <1>5 DEF BatchInv

LEMMA CloseKeeps == ASSUME BatchInv, NEW b \in Batches, CloseChannels(b) PROVE BatchInv'
<1>1. /\ UNCHANGED <<content, handlers, box, responses, result, due, mail, hand, ran>>
      /\ Onward /\ at'[b] = "done"
      /\ \A c \in Batches : c # b => at'[c] = at[c]
      /\ at' \in [Batches -> {"idle", "post", "read", "collect", "cleanup", "close", "done"}]
  BY CallMoves DEF CloseChannels
<1>2. /\ chans' \in [Batches \X IDs -> {"none", "open", "removed", "closed"}]
      /\ \A c \in Batches, i \in IDs :
           chans[<<c, i>>] = "removed" => chans'[<<c, i>>] = "removed"
  BY DEF CloseChannels, BatchInv, BatchTyped
<1>3. UnderWay' /\ Boxed' /\ InOrderReturned' /\ InHand'
  BY <1>1, FrameBatch
<1>4. CollectedOnce'
  BY <1>1, <1>2, StillCollected
<1>5. NoMailYet'
  BY <1>1 DEF BatchInv, NoMailYet
<1>6. BatchTyped'
  BY <1>1, <1>2 DEF BatchInv, BatchTyped, Response
<1> QED BY <1>3, <1>4, <1>5, <1>6 DEF BatchInv

\* A sequence of at most one element that is not empty, and what it adds.
LEMMA Single == ASSUME NEW S, NEW x \in Seq(S), x # <<>>, Len(x) <= 1 PROVE Len(x) = 1
<1>1. Len(x) \in Nat \ {0}
  BY EmptySeq
<1> QED BY <1>1

LEMMA OneAppended ==
  ASSUME NEW S, NEW s \in Seq(S), NEW x \in Seq(S), Len(x) = 1
  PROVE  /\ s \o x \in Seq(S) /\ Len(s \o x) = Len(s) + 1
         /\ \A n \in 1..Len(s) : (s \o x)[n] = s[n]
         /\ (s \o x)[Len(s) + 1] = x[1]
<1>1. /\ s \o x \in Seq(S) /\ Len(s \o x) = Len(s) + Len(x)
      /\ \A n \in 1..(Len(s) + Len(x)) : (s \o x)[n] = IF n <= Len(s) THEN s[n]
                                                    ELSE x[n - Len(s)]
  BY ConcatProperties
<1>2. Len(s) \in Nat
  BY LenProperties
<1> QED BY <1>1, <1>2

\* A response leaves its channel, and the channel responseMap.
LEMMA CollectKeepsBatch == ASSUME BatchInv, NEW b \in Batches, Collect(b) PROVE BatchInv'
<1>1. PICK i \in Ids(b) :
        /\ at[b] = "collect"
        /\ chans[<<b, i>>] = "open" /\ box[<<b, i>>] # <<>>
        /\ responses' = [responses EXCEPT ![b] = @ \o box[<<b, i>>]]
        /\ box' = [box EXCEPT ![<<b, i>>] = <<>>]
        /\ chans' = [chans EXCEPT ![<<b, i>>] = "removed"]
        /\ UNCHANGED <<content, at, handlers, result, due, mail, hand>>
  BY DEF Collect
<1>2. Onward /\ UNCHANGED ran
  BY <1>1 DEF Onward, Collect
<1>3. Sent \subseteq Sent' /\ \A c : Ids(c)' = Ids(c)
  BY <1>2, StillSent DEF BatchInv, Onward, Ids
<1>4. i \in IDs
  <2>1. content[b] \in Seq(IDs)
    BY DEF BatchInv, BatchTyped
  <2> QED BY <2>1, LenProperties, ElementOfSeq DEF Ids, ToSet
<1>5. <<b, i>> \in Batches \X IDs
  BY <1>4
<1>6. /\ \A c \in Batches, j \in IDs : <<c, j>> # <<b, i>> =>
           box'[<<c, j>>] = box[<<c, j>>] /\ chans'[<<c, j>>] = chans[<<c, j>>]
      /\ box'[<<b, i>>] = <<>> /\ chans'[<<b, i>>] = "removed"
      /\ \A c \in Batches : c # b => responses'[c] = responses[c]
      /\ responses'[b] = responses[b] \o box[<<b, i>>]
  BY <1>1, <1>5 DEF BatchInv, BatchTyped
<1> DEFINE r == box[<<b, i>>][1]
           N == Len(responses[b])
<1>7. /\ box[<<b, i>>] \in Seq(Response) /\ Len(box[<<b, i>>]) = 1
      /\ r \in Sent /\ r.id = i /\ r \in Response
  <2>1. box[<<b, i>>] \in Seq(Response) /\ Len(box[<<b, i>>]) <= 1
    BY <1>4, <1>5 DEF BatchInv, BatchTyped, Boxed
  <2>2. Len(box[<<b, i>>]) = 1
    BY <1>1, <2>1, Single
  <2>3. 1 \in DOMAIN box[<<b, i>>]
    BY <2>1, <2>2, LenProperties
  <2>4. r \in Sent /\ r.id = i
    BY <1>4, <2>3 DEF BatchInv, Boxed
  <2> QED BY <2>1, <2>2, <2>4 DEF Sent
<1>8. /\ responses[b] \in Seq(Response) /\ N \in Nat /\ DOMAIN responses[b] = 1..N
      /\ responses'[b] \in Seq(Response) /\ DOMAIN responses'[b] = 1..(N + 1)
      /\ \A n \in 1..N : responses'[b][n] = responses[b][n]
      /\ responses'[b][N + 1] = r
  <2>1. responses[b] \in Seq(Response) /\ N \in Nat /\ DOMAIN responses[b] = 1..N
    BY LenProperties DEF BatchInv, BatchTyped
  <2>2. /\ responses'[b] \in Seq(Response) /\ Len(responses'[b]) = N + 1
        /\ \A n \in 1..N : responses'[b][n] = responses[b][n]
        /\ responses'[b][N + 1] = r
    <3>1. box[<<b, i>>] \in Seq(Response) /\ Len(box[<<b, i>>]) = 1
      BY <1>7
    <3> DEFINE x == box[<<b, i>>]
               t == responses[b] \o x
    <3>2. /\ t \in Seq(Response) /\ Len(t) = N + 1
          /\ \A n \in 1..N : t[n] = responses[b][n]
          /\ t[N + 1] = x[1]
      <4> HIDE DEF x
      <4>1. x \in Seq(Response) /\ Len(x) = 1
        BY <3>1 DEF x
      <4> QED BY <2>1, <4>1, OneAppended
    <3>3. responses'[b] = t
      BY <1>6
    <3> HIDE DEF t
    <3> QED BY <3>2, <3>3
  <2>3. DOMAIN responses'[b] = 1..(N + 1)
    BY <2>2, LenProperties
  <2> QED BY <2>1, <2>2, <2>3
<1> HIDE DEF r, N
<1>9. CollectedOnce'
  <2> SUFFICES ASSUME NEW c \in Batches
               PROVE  /\ at'[c] = "idle" => responses'[c] = <<>>
                      /\ \A n \in DOMAIN responses'[c] :
                           /\ responses'[c][n] \in Sent'
                           /\ responses'[c][n].id \in Ids(c)'
                           /\ chans'[<<c, responses'[c][n].id>>] = "removed"
                           /\ \A m \in DOMAIN responses'[c] :
                                responses'[c][m].id = responses'[c][n].id => m = n
    BY DEF CollectedOnce
  <2>1. /\ at[c] = "idle" => responses[c] = <<>>
        /\ \A n \in DOMAIN responses[c] :
             /\ responses[c][n] \in Sent /\ responses[c][n].id \in Ids(c)
             /\ responses[c][n].id \in IDs
             /\ chans[<<c, responses[c][n].id>>] = "removed"
             /\ \A m \in DOMAIN responses[c] :
                  responses[c][m].id = responses[c][n].id => m = n
    BY DEF BatchInv, CollectedOnce, Sent, Response
  <2>2. CASE c # b
    <3>1. responses'[c] = responses[c] /\ at' = at
      BY <1>1, <1>6, <2>2
    <3>2. \A j \in IDs : chans'[<<c, j>>] = chans[<<c, j>>]
      BY <1>6, <2>2
    <3> QED BY <1>3, <2>1, <3>1, <3>2
  <2>3. CASE c = b
    <3>1. at'[c] # "idle"
      BY <1>1, <2>3
    <3>2. \A n \in 1..N : responses[b][n].id # i
      BY <1>1, <1>8, <2>1, <2>3
    <3>3. ASSUME NEW n \in 1..N
          PROVE  /\ responses'[b][n] \in Sent' /\ responses'[b][n].id \in Ids(b)'
                 /\ chans'[<<b, responses'[b][n].id>>] = "removed"
                 /\ \A m \in 1..(N + 1) :
                      responses'[b][m].id = responses'[b][n].id => m = n
      <4>1. responses'[b][n] = responses[b][n] /\ n \in DOMAIN responses[b]
        BY <1>8
      <4>2. chans'[<<b, responses[b][n].id>>] = "removed"
        BY <1>6, <2>1, <2>3, <3>2, <4>1
      <4>3. \A m \in 1..(N + 1) : responses'[b][m].id = responses'[b][n].id => m = n
        <5> TAKE m \in 1..(N + 1)
        <5>1. CASE m = N + 1
          BY <1>7, <1>8, <3>2, <4>1, <5>1
        <5>2. CASE m # N + 1
          <6>1. m \in 1..N
            BY <1>8, <5>2
          <6> QED BY <1>8, <2>1, <2>3, <4>1, <6>1
        <5> QED BY <5>1, <5>2
      <4> QED BY <1>3, <2>1, <2>3, <4>1, <4>2, <4>3
    <3>4. /\ responses'[b][N + 1] \in Sent' /\ responses'[b][N + 1].id \in Ids(b)'
          /\ chans'[<<b, responses'[b][N + 1].id>>] = "removed"
          /\ \A m \in 1..(N + 1) :
               responses'[b][m].id = responses'[b][N + 1].id => m = N + 1
      <4>1. \A m \in 1..(N + 1) : responses'[b][m].id = i => m = N + 1
        <5> TAKE m \in 1..(N + 1)
        <5>1. m # N + 1 => m \in 1..N
          BY <1>8
        <5> QED BY <1>8, <3>2, <5>1
      <4> QED BY <1>1, <1>3, <1>6, <1>7, <1>8, <4>1
    <3>5. \A n \in 1..(N + 1) : n \in 1..N \/ n = N + 1
      BY <1>8
    <3> QED BY <1>8, <2>3, <3>1, <3>3, <3>4, <3>5
  <2> QED BY <2>2, <2>3
<1>10. Boxed'
  <2> SUFFICES ASSUME NEW c \in Batches, NEW j \in IDs
               PROVE  /\ Len(box'[<<c, j>>]) <= 1
                      /\ \A n \in DOMAIN box'[<<c, j>>] :
                           box'[<<c, j>>][n] \in Sent' /\ box'[<<c, j>>][n].id = j
    BY DEF Boxed
  <2>1. /\ Len(box[<<c, j>>]) <= 1
        /\ \A n \in DOMAIN box[<<c, j>>] :
             box[<<c, j>>][n] \in Sent /\ box[<<c, j>>][n].id = j
    BY DEF BatchInv, Boxed
  <2>2. CASE <<c, j>> = <<b, i>>
    <3>1. box'[<<c, j>>] = <<>>
      BY <1>6, <2>2
    <3> QED BY <3>1, EmptySeq
  <2>3. CASE <<c, j>> # <<b, i>>
    BY <1>3, <1>6, <2>1, <2>3
  <2> QED BY <2>2, <2>3
<1>11. UnderWay' /\ InOrderReturned' /\ InHand'
  BY <1>1, <1>2, FrameBatch
<1>12. NoMailYet'
  BY <1>1 DEF BatchInv, NoMailYet
<1>13. BatchTyped'
  <2>1. responses' \in [Batches -> Seq(Response)]
    BY <1>1, <1>6, <1>8 DEF BatchInv, BatchTyped
  <2>2. /\ box' \in [Batches \X IDs -> Seq(Response)]
        /\ chans' \in [Batches \X IDs -> {"none", "open", "removed", "closed"}]
    BY <1>1, <1>5, EmptySeq DEF BatchInv, BatchTyped
  <2> QED BY <1>1, <1>2, <2>1, <2>2 DEF BatchInv, BatchTyped, Response
<1> QED BY <1>9, <1>10, <1>11, <1>12, <1>13 DEF BatchInv

\* All responses are there: they are returned, in the order of the requests.
LEMMA CollectedKeeps == ASSUME BatchInv, NEW b \in Batches, Collected(b) PROVE BatchInv'
<1>1. /\ UNCHANGED <<content, handlers, chans, box, responses, due, mail, hand, ran>>
      /\ Len(responses[b]) = Len(content[b])
      /\ result' = [result EXCEPT ![b] = Ordered(b)]
      /\ Onward /\ at'[b] = "cleanup"
      /\ \A c \in Batches : c # b => at'[c] = at[c]
      /\ at' \in [Batches -> {"idle", "post", "read", "collect", "cleanup", "close", "done"}]
  BY CallMoves DEF Collected
<1>2. /\ Ordered(b) \in Seq(Response) /\ Len(Ordered(b)) = Len(content[b])
      /\ \A k \in 1..Len(content[b]) :
           /\ Ordered(b)[k].id = content[b][k]
           /\ \E m \in DOMAIN responses[b] : Ordered(b)[k] = responses[b][m]
  BY <1>1, OrderedAnswers
<1>3. Sent \subseteq Sent'
  BY <1>1, StillSent DEF BatchInv
<1>4. /\ result'[b] = Ordered(b) /\ result' \in [Batches -> Seq(Response)]
      /\ \A c \in Batches : c # b => result'[c] = result[c]
  BY <1>1, <1>2 DEF BatchInv, BatchTyped
<1>5. InOrderReturned'
  <2> SUFFICES ASSUME NEW c \in Batches, result'[c] # <<>>
               PROVE  /\ Len(result'[c]) = Len(content'[c])
                      /\ \A k \in DOMAIN result'[c] :
                           /\ result'[c][k] \in Sent'
                           /\ result'[c][k].id = content'[c][k]
    BY DEF InOrderReturned
  <2>1. CASE c # b
    BY <1>1, <1>3, <1>4, <2>1 DEF BatchInv, InOrderReturned
  <2>2. CASE c = b
    <3>1. DOMAIN Ordered(b) = 1..Len(content[b])
      BY <1>2, LenProperties
    <3>2. ASSUME NEW k \in 1..Len(content[b]) PROVE Ordered(b)[k] \in Sent
      BY <1>2 DEF BatchInv, CollectedOnce
    <3> QED BY <1>1, <1>2, <1>3, <1>4, <2>2, <3>1, <3>2
  <2> QED BY <2>1, <2>2
<1>6. UnderWay' /\ Boxed' /\ InHand'
  BY <1>1, FrameBatch
<1>7. CollectedOnce'
  BY <1>1, StillCollected
<1>8. NoMailYet'
  BY <1>1 DEF BatchInv, NoMailYet
<1>9. BatchTyped'
  BY <1>1, <1>4 DEF BatchInv, BatchTyped, Response
<1> QED BY <1>5, <1>6, <1>7, <1>8, <1>9 DEF BatchInv

\* Neither what the calls have nor where they are changes.
CallsApart == UNCHANGED <<content, at, chans, responses, result>>

LEMMA FrameCalls ==
  ASSUME BatchInv, CallsApart
  PROVE  /\ Onward /\ Sent' = Sent /\ InOrderReturned' /\ CollectedOnce'
<1>1. Onward /\ Sent' = Sent
  BY DEF CallsApart, Onward, Sent, Ids, Response
<1>2. InOrderReturned'
  BY <1>1, FrameBatch DEF CallsApart
<1>3. CollectedOnce'
  BY <1>1, StillCollected DEF CallsApart
<1> QED BY <1>1, <1>2, <1>3

LEMMA ArriveKeeps == ASSUME BatchInv, MessageArrives PROVE BatchInv'
<1>1. CallsApart /\ UNCHANGED <<handlers, box, hand, ran>> /\ mail[Listener] = <<>>
  BY DEF MessageArrives, CallsApart
<1>2. PICK rs \in SUBSET due :
        mail' = [mail EXCEPT ![Listener] = SetToSeq(rs)] /\ due' = due \ rs
  BY DEF MessageArrives
<1>3. Onward /\ Sent' = Sent /\ InOrderReturned' /\ CollectedOnce' /\ Boxed'
  BY <1>1, FrameCalls, FrameBatch
<1>4. rs \subseteq Response /\ rs \subseteq Sent /\ IsFiniteSet(rs) /\ IsFiniteSet(due \ rs)
  <2>1. IsFiniteSet(due) /\ due \subseteq Response /\ due \subseteq Sent
    BY DEF BatchInv, BatchTyped, UnderWay
  <2>2. due \ rs \in SUBSET due
    OBVIOUS
  <2> QED BY <2>1, <2>2, FS_Subset
<1>5. SetToSeq(rs) \in Seq(Response) /\ \A n \in DOMAIN SetToSeq(rs) : SetToSeq(rs)[n] \in rs
  BY <1>4, OrderedSet
<1> DEFINE s == SetToSeq(rs)
<1>6. Listener \in Participants /\ Listener \notin Batches
  BY BatchAssumption DEF Participants
<1> HIDE DEF s
<1>7. /\ mail'[Listener] = s /\ \A g \in Participants : g # Listener => mail'[g] = mail[g]
      /\ mail' \in [Participants -> Seq(Response)]
  BY <1>2, <1>5, <1>6 DEF BatchInv, BatchTyped, s
<1>8. UnderWay'
  <2>1. \A r \in due' : r \in Sent'
    BY <1>2, <1>3 DEF BatchInv, UnderWay
  <2>2. ASSUME NEW g \in Participants, NEW n \in DOMAIN mail'[g] PROVE mail'[g][n] \in Sent'
    <3>1. CASE g = Listener
      BY <1>3, <1>4, <1>5, <1>7, <2>2, <3>1 DEF s
    <3>2. CASE g # Listener
      BY <1>3, <1>7, <2>2, <3>2 DEF BatchInv, UnderWay
    <3> QED BY <3>1, <3>2
  <2> QED BY <2>1, <2>2 DEF UnderWay
<1>9. InHand'
  BY <1>1, <1>7 DEF BatchInv, InHand
<1>10. NoMailYet'
  <2>1. \A b \in Batches : b \in Participants /\ b # Listener
    BY <1>6 DEF Participants
  <2> QED BY <1>1, <1>7, <2>1 DEF BatchInv, NoMailYet, CallsApart
<1>11. BatchTyped'
  BY <1>1, <1>2, <1>4, <1>7 DEF BatchInv, BatchTyped, CallsApart, Response
<1> QED BY <1>3, <1>8, <1>9, <1>10, <1>11 DEF BatchInv

\* A response is done with.
LEMMA NextResponse ==
  ASSUME BatchInv, NEW g \in Participants, mail[g] # <<>>, hand[g] = NoBatch,
         mail' = [mail EXCEPT ![g] = Tail(@)], ran' = ran \ {g}, hand' = hand,
         CallsApart, UNCHANGED <<box, due>>,
         handlers' \in [IDs -> Batches \cup {NoBatch}]
  PROVE  BatchInv'
<1>1. Onward /\ Sent' = Sent /\ InOrderReturned' /\ CollectedOnce' /\ Boxed'
  BY FrameCalls, FrameBatch
<1>2. /\ Tail(mail[g]) \in Seq(Response)
      /\ \A n \in DOMAIN Tail(mail[g]) :
           n + 1 \in DOMAIN mail[g] /\ Tail(mail[g])[n] = mail[g][n + 1]
  <2>1. mail[g] \in Seq(Response)
    BY DEF BatchInv, BatchTyped
  <2>2. /\ Tail(mail[g]) \in Seq(Response) /\ Len(Tail(mail[g])) = Len(mail[g]) - 1
        /\ \A n \in 1..Len(Tail(mail[g])) : Tail(mail[g])[n] = mail[g][n + 1]
    BY <2>1, HeadTailProperties
  <2>3. /\ DOMAIN Tail(mail[g]) = 1..Len(Tail(mail[g]))
        /\ DOMAIN mail[g] = 1..Len(mail[g]) /\ Len(mail[g]) \in Nat
    BY <2>1, <2>2, LenProperties
  <2> QED BY <2>2, <2>3
<1>3. /\ mail'[g] = Tail(mail[g])
      /\ \A h \in Participants : h # g => mail'[h] = mail[h]
      /\ mail' \in [Participants -> Seq(Response)]
  BY <1>2 DEF BatchInv, BatchTyped
<1>4. UnderWay'
  <2>1. \A r \in due' : r \in Sent'
    BY <1>1 DEF BatchInv, UnderWay
  <2>2. ASSUME NEW h \in Participants, NEW n \in DOMAIN mail'[h] PROVE mail'[h][n] \in Sent'
    <3>1. CASE h = g
      BY <1>1, <1>2, <1>3, <2>2, <3>1 DEF BatchInv, UnderWay
    <3>2. CASE h # g
      BY <1>1, <1>3, <2>2, <3>2 DEF BatchInv, UnderWay
    <3> QED BY <3>1, <3>2
  <2> QED BY <2>1, <2>2 DEF UnderWay
<1>5. InHand'
  BY <1>3 DEF BatchInv, InHand
<1>6. NoMailYet'
  <2>1. \A b \in Batches : b \in Participants
    BY DEF Participants
  <2> QED BY <1>3, <2>1 DEF BatchInv, NoMailYet, CallsApart
<1>7. BatchTyped'
  BY <1>3 DEF BatchInv, BatchTyped, CallsApart, Response
<1> QED BY <1>1, <1>4, <1>5, <1>6, <1>7 DEF BatchInv

LEMMA FindKeeps == ASSUME BatchInv, NEW g \in Participants, FindHandler(g) PROVE BatchInv'
<1>1. /\ CallsApart /\ UNCHANGED <<handlers, box, due, ran>>
      /\ mail[g] # <<>> /\ hand[g] = NoBatch /\ g \notin ran
      /\ handlers' \in [IDs -> Batches \cup {NoBatch}]
  BY DEF FindHandler, CallsApart, BatchInv, BatchTyped
<1>2. CASE mail' = [mail EXCEPT ![g] = Tail(@)] /\ UNCHANGED hand
  <2>1. ran' = ran \ {g}
    BY <1>1
  <2> QED BY <1>1, <1>2, <2>1, NextResponse
<1>3. CASE hand' = [hand EXCEPT ![g] = handlers[Head(mail[g]).id]] /\ UNCHANGED mail
  <2>1. Onward /\ InOrderReturned' /\ CollectedOnce' /\ Boxed' /\ UnderWay'
    BY <1>1, <1>3, FrameCalls, FrameBatch
  <2>2. handlers[Head(mail[g]).id] \in Batches \cup {NoBatch}
    <3>1. Head(mail[g]) \in Response
      BY <1>1, HeadTailProperties DEF BatchInv, BatchTyped
    <3>2. Head(mail[g]).id \in IDs
      BY <3>1 DEF Response
    <3> QED BY <3>2 DEF BatchInv, BatchTyped
  <2>3. /\ hand' \in [Participants -> Batches \cup {NoBatch}]
        /\ \A h \in Participants : h # g => hand'[h] = hand[h]
    BY <1>3, <2>2 DEF BatchInv, BatchTyped
  <2>4. InHand'
    BY <1>1, <1>3, <2>3 DEF BatchInv, InHand
  <2>5. NoMailYet'
    BY <1>1, <1>3 DEF BatchInv, NoMailYet, CallsApart
  <2>6. BatchTyped'
    BY <1>1, <1>3, <2>3 DEF BatchInv, BatchTyped, CallsApart, Response
  <2> QED BY <2>1, <2>4, <2>5, <2>6 DEF BatchInv
<1> QED BY <1>2, <1>3 DEF FindHandler

\* The handler puts the response into the channel of its id.
LEMMA CallHandlerKeeps == ASSUME BatchInv, NEW g \in Participants, CallHandler(g) PROVE BatchInv'
<1> DEFINE i == Head(mail[g]).id
           x == <<hand[g], i>>
           s == <<Head(mail[g])>>
<1>1. /\ CallsApart /\ UNCHANGED <<handlers, due, mail>>
      /\ hand[g] # NoBatch /\ hand' = [hand EXCEPT ![g] = NoBatch]
  BY DEF CallHandler, CallsApart
<1>2. /\ Onward /\ Sent' = Sent /\ InOrderReturned' /\ CollectedOnce'
      /\ UNCHANGED <<due, mail>>
  BY <1>1, FrameCalls
<1>3. UnderWay' /\ NoMailYet'
  BY <1>1, <1>2, FrameBatch DEF BatchInv, NoMailYet, CallsApart
<1>4. /\ mail[g] # <<>> /\ g \notin ran
      /\ hand' \in [Participants -> Batches \cup {NoBatch}] /\ hand'[g] = NoBatch
      /\ \A h \in Participants : h # g => hand'[h] = hand[h]
  BY <1>1 DEF BatchInv, BatchTyped, InHand
<1>5. Head(mail[g]) \in Sent /\ Head(mail[g]) \in Response
  <2>1. mail[g] \in Seq(Response) /\ Head(mail[g]) = mail[g][1]
    BY DEF BatchInv, BatchTyped
  <2>2. Len(mail[g]) \in Nat \ {0} /\ DOMAIN mail[g] = 1..Len(mail[g])
    BY <1>4, <2>1, EmptySeq, LenProperties
  <2>3. 1 \in DOMAIN mail[g]
    BY <2>2
  <2> QED BY <2>1, <2>3 DEF BatchInv, UnderWay, Sent
<1>6. hand[g] \in Batches /\ i \in IDs /\ x \in Batches \X IDs
  BY <1>1, <1>5 DEF BatchInv, BatchTyped, Response
<1>7. CASE UNCHANGED <<box, ran>>
  <2>1. Boxed'
    BY <1>2, <1>7, FrameBatch
  <2>2. InHand'
    BY <1>1, <1>4, <1>7 DEF BatchInv, InHand
  <2>3. BatchTyped'
    BY <1>1, <1>4, <1>7 DEF BatchInv, BatchTyped, CallsApart, Response
  <2> QED BY <1>2, <1>3, <2>1, <2>2, <2>3 DEF BatchInv
<1>8. CASE /\ box' = [box EXCEPT ![x] = IF @ = <<>> THEN s ELSE @]
           /\ ran' = ran \cup {g}
  <2>1. s \in Seq(Response) /\ Len(s) = 1 /\ \A n \in DOMAIN s : s[n] = Head(mail[g])
    <3> DEFINE r == Head(mail[g])
    <3>1. r \in Response
      BY <1>5
    <3> HIDE DEF r
    <3>2. <<r>> \in Seq(Response) /\ Len(<<r>>) = 1 /\ \A n \in DOMAIN <<r>> : <<r>>[n] = r
      BY <3>1
    <3> QED BY <3>2 DEF r
  <2> HIDE DEF s
  <2>2. /\ \A c \in Batches, j \in IDs : <<c, j>> # x => box'[<<c, j>>] = box[<<c, j>>]
        /\ box'[x] = box[x] \/ box'[x] = s
        /\ box' \in [Batches \X IDs -> Seq(Response)]
    BY <1>6, <1>8, <2>1 DEF BatchInv, BatchTyped
  <2>3. Boxed'
    <3> SUFFICES ASSUME NEW c \in Batches, NEW j \in IDs
                 PROVE  /\ Len(box'[<<c, j>>]) <= 1
                        /\ \A n \in DOMAIN box'[<<c, j>>] :
                             box'[<<c, j>>][n] \in Sent' /\ box'[<<c, j>>][n].id = j
      BY DEF Boxed
    <3>1. /\ Len(box[<<c, j>>]) <= 1
          /\ \A n \in DOMAIN box[<<c, j>>] :
               box[<<c, j>>][n] \in Sent /\ box[<<c, j>>][n].id = j
      BY DEF BatchInv, Boxed
    <3>2. CASE box'[<<c, j>>] = box[<<c, j>>]
      BY <1>2, <3>1, <3>2
    <3>3. CASE <<c, j>> = x /\ box'[x] = s
      <4>1. box'[<<c, j>>] = s /\ j = i
        BY <3>3
      <4>2. Len(s) <= 1 /\ \A n \in DOMAIN s : s[n] \in Sent /\ s[n].id = i
        BY <1>5, <2>1
      <4> QED BY <1>2, <4>1, <4>2
    <3> QED BY <2>2, <3>2, <3>3
  <2>4. InHand'
    BY <1>1, <1>4, <1>8 DEF BatchInv, InHand
  <2>5. BatchTyped'
    BY <1>1, <1>4, <1>8, <2>2 DEF BatchInv, BatchTyped, CallsApart, Response
  <2> QED BY <1>2, <1>3, <2>3, <2>4, <2>5 DEF BatchInv
<1> QED BY <1>7, <1>8 DEF CallHandler

LEMMA ForgetKeeps == ASSUME BatchInv, NEW g \in Participants, ForgetHandler(g) PROVE BatchInv'
<1>1. /\ g \in ran /\ ran' = ran \ {g} /\ mail' = [mail EXCEPT ![g] = Tail(@)]
      /\ handlers' = [handlers EXCEPT ![Head(mail[g]).id] = NoBatch]
      /\ CallsApart /\ UNCHANGED <<box, due, hand>>
  BY DEF ForgetHandler, CallsApart
<1>2. mail[g] # <<>> /\ hand[g] = NoBatch
  BY <1>1 DEF BatchInv, InHand
<1>3. handlers' \in [IDs -> Batches \cup {NoBatch}]
  BY <1>1 DEF BatchInv, BatchTyped
<1> QED BY <1>1, <1>2, <1>3, NextResponse

LEMMA BatchStarts == ASSUME BatchInit PROVE BatchInv
<1>1. BatchTyped
  BY BatchAssumption, EmptySeq, FS_EmptySet DEF BatchInit, BatchTyped, Response
<1>2. UnderWay /\ InHand /\ NoMailYet
  BY DEF BatchInit, UnderWay, InHand, NoMailYet, Participants
<1>3. Boxed /\ CollectedOnce /\ InOrderReturned
  BY EmptySeq DEF BatchInit, Boxed, CollectedOnce, InOrderReturned
<1> QED BY <1>1, <1>2, <1>3 DEF BatchInv

LEMMA NextBatchInv == BatchInv /\ [BatchNext]_batchvars => BatchInv'
<1> SUFFICES ASSUME BatchInv, [BatchNext]_batchvars PROVE BatchInv'
  OBVIOUS
<1>1. ASSUME NEW b \in Batches, Register(b) PROVE BatchInv'
  BY <1>1, RegisterKeepsBatch
<1>2. ASSUME NEW b \in Batches, PostAnswered(b) PROVE BatchInv'
  BY <1>2, PostAnsweredKeeps
<1>3. ASSUME NEW b \in Batches, PostFails(b) PROVE BatchInv'
  BY <1>3, PostFailsKeeps
<1>4. handlers \in [IDs -> Batches \cup {NoBatch}]
  BY DEF BatchInv, BatchTyped
<1>5. ASSUME NEW b \in Batches, PostDone(b) PROVE BatchInv'
  <2>1. /\ UNCHANGED <<content, chans, box, responses, result, due, mail, hand, ran, handlers>>
        /\ GoFrom(b, "read", "cleanup") \/ GoFrom(b, "read", "collect")
    BY <1>5 DEF PostDone
  <2> QED BY <1>4, <2>1, QuietMove
<1>6. ASSUME NEW b \in Batches, GiveUp(b) PROVE BatchInv'
  <2>1. /\ UNCHANGED <<content, chans, box, responses, result, due, mail, hand, ran, handlers>>
        /\ GoFrom(b, "collect", "cleanup")
    BY <1>6 DEF GiveUp
  <2> QED BY <1>4, <2>1, QuietMove
<1>7. ASSUME NEW b \in Batches, DeleteHandlers(b) PROVE BatchInv'
  <2>1. /\ UNCHANGED <<content, chans, box, responses, result, due, mail, hand, ran>>
        /\ GoFrom(b, "cleanup", "close")
        /\ handlers' \in [IDs -> Batches \cup {NoBatch}]
    BY <1>4, <1>7 DEF DeleteHandlers
  <2> QED BY <2>1, QuietMove
<1>8. ASSUME NEW b \in Batches, Collect(b) PROVE BatchInv'
  BY <1>8, CollectKeepsBatch
<1>9. ASSUME NEW b \in Batches, Collected(b) PROVE BatchInv'
  BY <1>9, CollectedKeeps
<1>10. ASSUME NEW b \in Batches, CloseChannels(b) PROVE BatchInv'
  BY <1>10, CloseKeeps
<1>11. CASE MessageArrives
  BY <1>11, ArriveKeeps
<1>12. ASSUME NEW g \in Participants, FindHandler(g) \/ CallHandler(g) \/ ForgetHandler(g)
       PROVE  BatchInv'
  BY <1>12, FindKeeps, CallHandlerKeeps, ForgetKeeps
<1>13. CASE UNCHANGED batchvars
  <2>1. CallsApart /\ UNCHANGED <<handlers, box, due, mail, hand, ran>>
    BY <1>13 DEF batchvars, CallsApart
  <2>2. /\ Onward /\ InOrderReturned' /\ CollectedOnce' /\ Boxed' /\ UnderWay' /\ InHand'
    BY <2>1, FrameCalls, FrameBatch
  <2>3. NoMailYet' /\ BatchTyped'
    BY <2>1 DEF BatchInv, NoMailYet, BatchTyped, CallsApart, Response
  <2> QED BY <2>2, <2>3 DEF BatchInv
<1> QED BY <1>1, <1>2, <1>3, <1>5, <1>6, <1>7, <1>8, <1>9, <1>10, <1>11, <1>12, <1>13
        DEF BatchNext

\* The inductive invariant of the batches, whatever ids their callers choose:
\* the channels of a batch (streamable_http.go:671-685) only get responses with
\* their ids, and give one each (727-746).
THEOREM BatchInductive == BatchSpec => []BatchInv
<1>1. BatchInit => BatchInv
  BY BatchStarts
<1> QED BY <1>1, NextBatchInv, PTL DEF BatchSpec

\* A batch that returns has a response to each request, in their order, and to
\* its own requests when no other batch that was sent has its ids
\* (streamable_http.go:747-761).
THEOREM BatchesGetTheirAnswers == BatchSpec => []BatchAnswersOwn
<1>1. ASSUME BatchInv PROVE BatchAnswersOwn
  <2> SUFFICES ASSUME NEW b \in Batches, result[b] # <<>>
               PROVE  /\ [k \in DOMAIN result[b] |-> result[b][k].id] = content[b]
                      /\ \/ \E c \in Batches \ {b} :
                              at[c] # "idle" /\ Ids(c) \cap Ids(b) # {}
                         \/ \A k \in DOMAIN result[b] : result[b][k].of = b
    BY DEF BatchAnswersOwn
  <2>1. /\ content[b] \in Seq(IDs) /\ result[b] \in Seq(Response)
        /\ Len(result[b]) = Len(content[b])
        /\ \A k \in DOMAIN result[b] :
             result[b][k] \in Sent /\ result[b][k].id = content[b][k]
    BY <1>1 DEF BatchInv, BatchTyped, InOrderReturned
  <2>2. DOMAIN result[b] = DOMAIN content[b] /\ content[b] \in [DOMAIN content[b] -> IDs]
    BY <2>1, LenProperties
  <2>3. [k \in DOMAIN result[b] |-> result[b][k].id] = content[b]
    BY <2>1, <2>2
  <2>4. ASSUME NEW k \in DOMAIN result[b], result[b][k].of # b
        PROVE  \E c \in Batches \ {b} : at[c] # "idle" /\ Ids(c) \cap Ids(b) # {}
    <3> DEFINE r == result[b][k]
    <3>1. r \in Response /\ r.id \in Ids(r.of) /\ at[r.of] # "idle"
      BY <2>1 DEF Sent
    <3>2. r.id \in Ids(b)
      BY <2>1, <2>2 DEF Ids, ToSet
    <3>3. r.of \in Batches \ {b}
      BY <2>4, <3>1 DEF Response
    <3> QED BY <3>1, <3>2, <3>3
  <2> QED BY <2>3, <2>4
<1> QED BY <1>1, BatchInductive, PTL
\* A call's channels hold one response each, and the process is dead or not.
BatchTypeInv == BatchInv /\ content \in Contents /\ dead \in BOOLEAN

LEMMA BatchTypesStart == BatchInit => BatchTypeInv
BY BatchStarts DEF BatchInit, BatchTypeInv

LEMMA NextBatchTypes ==
  ASSUME BatchTypeInv, [BatchNext]_batchvars
  PROVE  BatchTypeInv'
<1>1. BatchInv'
  BY NextBatchInv DEF BatchTypeInv
<1>2. content' = content
  BY DEF BatchNext, batchvars, Register, PostAnswered, PostFails, PostDone, Collect,
         Collected, GiveUp, DeleteHandlers, CloseChannels, MessageArrives, FindHandler,
         CallHandler, ForgetHandler
<1>3. dead' \in {dead, TRUE}
  BY DEF BatchNext, batchvars, Register, PostAnswered, PostFails, PostDone, Collect,
         Collected, GiveUp, DeleteHandlers, CloseChannels, MessageArrives, FindHandler,
         CallHandler, ForgetHandler
<1> QED BY <1>1, <1>2, <1>3 DEF BatchTypeInv

LEMMA BatchTypes == BatchTypeInv => BatchTypeOK
<1> SUFFICES ASSUME BatchTypeInv PROVE BatchTypeOK
  OBVIOUS
<1>1. \A x \in Batches \X IDs : x = <<x[1], x[2]>> /\ x[1] \in Batches /\ x[2] \in IDs
  OBVIOUS
<1>2. \A x \in Batches \X IDs : box[x] \in Seq(Response) /\ Len(box[x]) <= 1
  BY <1>1 DEF BatchTypeInv, BatchInv, BatchTyped, Boxed
<1> QED BY <1>2 DEF BatchTypeInv, BatchInv, BatchTyped, BatchTypeOK

\* A response channel of a batch never holds more than its capacity of one
\* (streamable_http.go, SendBatchRequest: make(chan ..., 1)).
THEOREM BatchTypeCorrect == BatchSpec => []BatchTypeOK
<1>1. BatchTypeInv /\ [BatchNext]_batchvars => BatchTypeInv'
  BY NextBatchTypes
<1> QED BY <1>1, BatchTypesStart, BatchTypes, PTL DEF BatchSpec

-----------------------------------------------------------------------------
(* MC_Components: the part that moves keeps its own invariant, and the      *)
(* others stay as they are.                                                 *)

PartNames == {"tokens", "roles", "metrics", "tracing", "batches", "session", "lists",
              "streaming"}

\* What is inductive of each part, its types among it.
PartInv ==
  /\ part \in PartNames
  /\ part = "tokens"    => IInv /\ Chain
  /\ part = "roles"     => RBACInv
  /\ part = "metrics"   => MetricsInv /\ SnapTyped
  /\ part = "tracing"   => TracingInv /\ Books /\ RestTyped
  /\ part = "batches"   => BatchTypeInv
  /\ part = "session"   => SessionInv /\ FieldsTyped /\ IdsInRange
  /\ part = "lists"     => PagesInv
  /\ part = "streaming" => StreamingTypeOK

LEMMA PartsStart == MCInit => PartInv
<1>1. ASSUME MCInit
      PROVE  /\ part \in PartNames /\ Init /\ RBACInit /\ MetricsInit /\ ObsInit
             /\ BatchInit /\ ClientServerInit /\ PaginationInit /\ StreamingInit
  BY <1>1 DEF MCInit, PartNames
<1> QED
  BY <1>1, Start, ChainStarts, RBACStarts, MetricsStart, SnapStarts, TracingStarts, BooksStart,
     BatchTypesStart, SessionStarts, FieldsStart, PagesStart, StreamingStarts DEF PartInv

\* One part moves, or none.
LEMMA OnePartMoves ==
  ASSUME [MCNext]_allvars
  PROVE  /\ part' = part
         /\ part = "tokens"    => [Next]_vars
         /\ part = "roles"     => [RBACNext]_rbacvars
         /\ part = "metrics"   => [MetricsNext]_metricvars
         /\ part = "tracing"   => [ObsNext]_obsvars
         /\ part = "batches"   => [BatchNext]_batchvars
         /\ part = "session"   => [ClientServerNext]_csvars
         /\ part = "lists"     => [PaginationNext]_pagevars
         /\ part = "streaming" => [StreamingNext]_streamvars
BY DEF MCNext, allvars

LEMMA NextPartInv == ASSUME PartInv, [MCNext]_allvars PROVE PartInv'
<1>1. part' = part /\ part \in PartNames
  BY OnePartMoves DEF PartInv
<1>2. CASE part = "tokens"
  <2>1. IInv' /\ Chain'
    BY <1>2, OnePartMoves, NextTokens DEF PartInv
  <2> QED BY <1>1, <1>2, <2>1 DEF PartInv
<1>3. CASE part = "roles"
  <2>1. RBACInv'
    BY <1>3, OnePartMoves, NextRBACInv DEF PartInv
  <2> QED BY <1>1, <1>3, <2>1 DEF PartInv
<1>4. CASE part = "metrics"
  <2>1. MetricsInv' /\ SnapTyped'
    BY <1>4, OnePartMoves, NextMetricsInv, NextSnap DEF PartInv
  <2> QED BY <1>1, <1>4, <2>1 DEF PartInv
<1>5. CASE part = "tracing"
  <2>1. TracingInv' /\ Books' /\ RestTyped'
    BY <1>5, OnePartMoves, NextTracingInv, NextBooks, NextRest DEF PartInv
  <2> QED BY <1>1, <1>5, <2>1 DEF PartInv
<1>6. CASE part = "batches"
  <2>1. BatchTypeInv'
    BY <1>6, OnePartMoves, NextBatchTypes DEF PartInv
  <2> QED BY <1>1, <1>6, <2>1 DEF PartInv
<1>7. CASE part = "session"
  <2>1. SessionInv' /\ FieldsTyped' /\ IdsInRange'
    BY <1>7, OnePartMoves, NextSessionInv, NextFields DEF PartInv
  <2> QED BY <1>1, <1>7, <2>1 DEF PartInv
<1>8. CASE part = "lists"
  <2>1. PagesInv'
    BY <1>8, OnePartMoves, NextPagesInv DEF PartInv
  <2> QED BY <1>1, <1>8, <2>1 DEF PartInv
<1>9. CASE part = "streaming"
  <2>1. StreamingTypeOK'
    BY <1>9, OnePartMoves, NextStreamingTypes DEF PartInv
  <2> QED BY <1>1, <1>9, <2>1 DEF PartInv
<1> QED BY <1>1, <1>2, <1>3, <1>4, <1>5, <1>6, <1>7, <1>8, <1>9 DEF PartNames

\* Whichever part moves, its variables keep their types, for all values of the
\* constants: tokens, roles, metrics, spans, batches, client and server, lists
\* and streaming calls (bearer.go, rbac.go, observability_middleware.go,
\* pkg/observability, streamable_http.go, client.go, server.go, pagination.go,
\* streaming.go).
THEOREM ComponentsTypeCorrect == MCSpec => []TypesOK
<1>1. PartInv => TypesOK
  <2> SUFFICES ASSUME PartInv PROVE TypesOK
    OBVIOUS
  <2>1. /\ part = "tokens"    => TypeOK
        /\ part = "roles"     => RBACTypeOK
        /\ part = "metrics"   => MetricsTypeOK
        /\ part = "tracing"   => ObsTypeOK
        /\ part = "batches"   => BatchTypeOK
        /\ part = "session"   => ClientServerTypeOK
        /\ part = "lists"     => PaginationTypeOK
        /\ part = "streaming" => StreamingTypeOK
    BY MetricsTyping, ObsTyping, BatchTypes, SessionTyping, PagesTyping
       DEF PartInv, IInv, RBACInv
  <2> QED BY <2>1 DEF TypesOK, PartInv, PartNames
<1>2. PartInv /\ [MCNext]_allvars => PartInv'
  BY NextPartInv
<1> QED BY <1>1, <1>2, PartsStart, PTL DEF MCSpec
=============================================================================
