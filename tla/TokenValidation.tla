--------------------------- MODULE TokenValidation ---------------------------
(***************************************************************************)
(* The authentication middleware with its cache of validated tokens, over  *)
(* the provider of API keys (pkg/auth/middleware.go, apikey.go).           *)
(*                                                                         *)
(* validateToken is not atomic: it looks into the cache, asks the          *)
(* provider, which itself looks a record up under its lock and checks it   *)
(* without, and stores the answer, each in a step of its own.  The cache   *)
(* knows a token as it was presented and the provider as TrimSpace leaves  *)
(* it, so that a key padded with spaces has an entry of its own.  Keys are *)
(* never generated twice; the record of a key outlives its removal from    *)
(* the provider's map for as long as a validation holds it.  Users, scopes *)
(* and rate limits of keys, and a ValidateCallback, are left out.          *)
(***************************************************************************)
EXTENDS Integers, FiniteSets

CONSTANTS
  Clients,        \* goroutines that send or handle requests
  Keys,           \* the keys the provider generates
  Tokens,         \* what calls present: keys, padded keys, anything else
  TrimSpace,      \* strings.TrimSpace of each token
  Expiring,       \* those that were given an ExpiresAt
  NoToken,        \* the empty token
  CacheTTL,       \* config.CacheConfig.TTL, in ticks
  CacheSize,      \* config.CacheConfig.MaxSize
  Required,       \* config.Required
  AllowAnonymous, \* config.AllowAnonymous
  RBACEnabled,    \* config.RBAC.Enabled
  Permissions,    \* config.RBAC.ResourcePermissions: method -> permissions
  RolesOf,        \* the roles of each key's user
  GrantedTo       \* the permissions of each key's user

ASSUME ValidationAssumption == CacheTTL \in Nat /\ NoToken \notin Tokens

VARIABLES
  keys,      \* the provider's map, as the set of keys in it
  dead,      \* keys whose record says Revoked
  expired,   \* keys whose ExpiresAt has passed
  cache,     \* the token cache: ticks an entry has left, Absent, or Stale
  doing,     \* where each client is in its call
  token,     \* the token it came with, as it was presented
  wanted     \* the methods it asks for that need permissions

cachevars == <<keys, dead, expired, cache, doing, token, wanted>>

Absent == -2
Stale  == -1     \* expiresAt has passed
\* Those that need permissions, and one that anonymous callers may have.
Methods == DOMAIN Permissions \cup {"initialize"}

ValidationTypeOK ==
  /\ keys \subseteq Keys /\ dead \subseteq Keys /\ expired \subseteq Keys
  /\ cache \in [Tokens -> {Absent, Stale} \cup 0..CacheTTL]
  /\ doing \in [Clients -> {"idle", "cache", "find", "check", "store", "permission",
                            "forwarded", "refused"}]
  /\ token \in [Clients -> Tokens \cup {NoToken}]
  /\ wanted \in [Clients -> SUBSET Methods]

ValidationInit ==
  /\ keys = {} /\ dead = {} /\ expired = {}
  /\ cache = [t \in Tokens |-> Absent]
  /\ doing = [c \in Clients |-> "idle"]
  /\ token = [c \in Clients |-> NoToken]
  /\ wanted = [c \in Clients |-> {}]

\* A call goes on, and forgets its token and methods when it is over.
Go(c, from, to) ==
  /\ doing[c] = from
  /\ doing' = [doing EXCEPT ![c] = to]
  /\ IF to \in {"forwarded", "refused"}
     THEN token' = [token EXCEPT ![c] = NoToken] /\ wanted' = [wanted EXCEPT ![c] = {}]
     ELSE UNCHANGED <<token, wanted>>

-----------------------------------------------------------------------------
(* APIKeyProvider                                                           *)

\* A key of this model is created once.
CreateAPIKey(k) ==
  /\ k \notin keys \cup dead \cup expired
  /\ keys' = keys \cup {k}
  /\ UNCHANGED <<dead, expired, cache, doing, token, wanted>>

Revoke(k) ==
  /\ k \in keys
  /\ dead' = dead \cup {k}
  /\ UNCHANGED <<keys, expired, cache, doing, token, wanted>>

CleanupExpired ==
  /\ keys \cap (dead \cup expired) # {}
  /\ keys' = keys \ (dead \cup expired)
  /\ UNCHANGED <<dead, expired, cache, doing, token, wanted>>

\* The key's ExpiresAt passes.
Expire(k) ==
  /\ k \in (keys \cap Expiring) \ expired
  /\ expired' = expired \cup {k}
  /\ UNCHANGED <<keys, dead, cache, doing, token, wanted>>

\* The key a call's token stands for.
KeyOf(c) == TrimSpace[token[c]]

\* Validate trims the token and looks it up under the read lock; a token
\* without the prefix, which every key has, is refused before that ...
ValidateLookup(c) ==
  /\ Go(c, "find", IF KeyOf(c) \in keys THEN "check" ELSE "refused")
  /\ UNCHANGED <<keys, dead, expired, cache>>

\* ... and reads the record without it.
ValidateCheck(c) ==
  /\ Go(c, "check", IF KeyOf(c) \in dead \cup expired THEN "refused" ELSE "store")
  /\ UNCHANGED <<keys, dead, expired, cache>>

-----------------------------------------------------------------------------
(* TokenCache                                                               *)

Fresh(t) == cache[t] >= 0
Entries  == {t \in Tokens : cache[t] # Absent}

\* Mutant of CacheGet: a hit renews the entry.
CacheGetRenews(c) ==
  /\ Go(c, "cache", IF Fresh(token[c]) THEN "permission" ELSE "find")
  /\ cache' = IF Fresh(token[c]) THEN [cache EXCEPT ![token[c]] = CacheTTL] ELSE cache
  /\ UNCHANGED <<keys, dead, expired>>

CacheGet(c) ==
  /\ Go(c, "cache", IF Fresh(token[c]) THEN "permission" ELSE "find")
  /\ UNCHANGED <<keys, dead, expired, cache>>

\* At capacity some entry goes, whichever the map yields first, even when the
\* token has an entry already.
CacheSet(c) ==
  /\ Go(c, "store", "permission")
  /\ \E gone \in IF Cardinality(Entries) >= CacheSize
                 THEN {{t} : t \in Entries} ELSE {{}} :
       cache' = [t \in Tokens |-> IF t = token[c] THEN CacheTTL
                                  ELSE IF t \in gone THEN Absent ELSE cache[t]]
  /\ UNCHANGED <<keys, dead, expired>>

CacheCleanup ==
  /\ \E t \in Tokens : cache[t] = Stale
  /\ cache' = [t \in Tokens |-> IF cache[t] = Stale THEN Absent ELSE cache[t]]
  /\ UNCHANGED <<keys, dead, expired, doing, token, wanted>>

\* The clock.
CacheClock ==
  /\ \E t \in Tokens : Fresh(t)
  /\ cache' = [t \in Tokens |-> IF Fresh(t) THEN cache[t] - 1 ELSE cache[t]]
  /\ UNCHANGED <<keys, dead, expired, doing, token, wanted>>

-----------------------------------------------------------------------------
(* AuthMiddleware                                                           *)

isAnonymousAllowed(m) == AllowAnonymous /\ m \in {"initialize", "ping", "health"}

RolePermissions(r) == CASE r = "admin" -> {"*"}
                        [] r = "user"  -> {"read", "list"}
                        [] r = "guest" -> {"read"}
                        [] OTHER       -> {}

hasRolePermission(r, required) ==
  RolePermissions(r) \cap (required \cup {"*"}) # {}

checkPermission(k, m) ==
  (RBACEnabled /\ m \in DOMAIN Permissions) =>
    \/ GrantedTo[k] \cap Permissions[m] # {}
    \/ \E r \in RolesOf[k] : hasRolePermission(r, Permissions[m])

\* A call enters with a token or without; without one it is refused when one
\* is required, and forwarded unchecked otherwise.
Enter(c, ms, anonymous) ==
  /\ doing[c] \in {"idle", "forwarded", "refused"}
  /\ \E t \in Tokens \cup {NoToken} :
       /\ token' = [token EXCEPT ![c] = t]
       /\ wanted' = [wanted EXCEPT ![c] = IF t = NoToken THEN {}
                                          ELSE ms \cap DOMAIN Permissions]
       /\ doing' = [doing EXCEPT ![c] = IF t # NoToken THEN "cache"
                                        ELSE IF Required /\ ~anonymous THEN "refused"
                                        ELSE "forwarded"]
  /\ UNCHANGED <<keys, dead, expired, cache>>

\* The three take their token from the context, the context and the params.
AuthSendRequest(c)      == \E m \in Methods : Enter(c, {m}, isAnonymousAllowed(m))
AuthSendNotification(c) == \E m \in Methods : Enter(c, {m}, isAnonymousAllowed(m))
AuthHandleRequest(c)    == \E m \in Methods : Enter(c, {m}, isAnonymousAllowed(m))

\* Anonymous batches are refused whatever is in them; methods that need no
\* permission make no difference.
AuthSendBatchRequest(c) == \E ms \in SUBSET DOMAIN Permissions : Enter(c, ms, FALSE)

\* The permissions of every method of the call, after its token is valid.
CheckPermissions(c) ==
  /\ Go(c, "permission",
        IF \A m \in wanted[c] : checkPermission(KeyOf(c), m)
        THEN "forwarded" ELSE "refused")
  /\ UNCHANGED <<keys, dead, expired, cache>>

Serve(c) == CacheGet(c) \/ ValidateLookup(c) \/ ValidateCheck(c)
            \/ CacheSet(c) \/ CheckPermissions(c)

ValidationNext ==
  \/ \E c \in Clients :
       \/ AuthSendRequest(c) \/ AuthSendNotification(c) \/ AuthHandleRequest(c)
       \/ AuthSendBatchRequest(c) \/ Serve(c)
  \/ \E k \in Keys : CreateAPIKey(k) \/ Revoke(k) \/ Expire(k)
  \/ CleanupExpired \/ CacheCleanup \/ CacheClock

\* Time passes, and a call that has begun goes on.
ValidationFairness == WF_cachevars(CacheClock) /\ \A c \in Clients : WF_cachevars(Serve(c))

ValidationSpec == ValidationInit /\ [][ValidationNext]_cachevars /\ ValidationFairness

-----------------------------------------------------------------------------
(* Properties *)

\* Calls that the key k is letting in, under whatever padding.
LetInBy(k) == {c \in Clients : doing[c] \in {"store", "permission"} /\ KeyOf(c) = k}

\* A key that has been revoked or has expired is refused for good, padded or
\* not, once its cache entries have run out and the validations that had
\* already passed the provider are over: nothing in the cache renews itself
\* (pkg/auth/middleware.go:299).
RevocationTakesHold == \A k \in Keys : k \in dead \cup expired ~> [](LetInBy(k) = {})

\* Keys that have been created, whatever became of them.
Issued == keys \cup dead \cup expired

\* The cache holds, and a call is checked for permissions with, no token but
\* a key that was issued, or such a key with spaces around it (apikey.go:137):
\* nothing on the way from the provider through the cache mixes up the tokens
\* of two calls (middleware.go:299-341).
NeverInvented ==
  /\ \A t \in Entries : TrimSpace[t] \in Issued
  /\ \A c \in Clients : doing[c] \in {"check", "store", "permission"} => KeyOf(c) \in Issued

\* Validations of a token that are past the provider's check of its record and
\* will put it into the cache.
Storing(t) == {c \in Clients : doing[c] = "store" /\ token[c] = t}

\* A token whose key is revoked or has expired can be cached anew only by a
\* validation that had passed the provider before, once by each, and no other
\* passes any more; a hit does not renew an entry.
WindsDown ==
  \A t \in Tokens : TrimSpace[t] \in dead \cup expired =>
    /\ Storing(t)' \subseteq Storing(t)
    /\ cache'[t] > cache[t] => Storing(t)' # Storing(t)
RevocationWindsDown == [][WindsDown]_cachevars

\* Nobody is let in with a key that is revoked or has expired, or will be,
\* and the cache knows it under no padding.
Shut(k) ==
  /\ k \in dead \cup expired
  /\ \A t \in Tokens : TrimSpace[t] = k => ~Fresh(t)
  /\ LetInBy(k) = {}

\* Once a revoked or expired key has run out of the cache and of the calls
\* under way it is refused for good, whatever is asked with it: the safety
\* half of RevocationTakesHold.
RefusedForGood == [][\A k \in Keys : Shut(k) => Shut(k)']_cachevars
=============================================================================
