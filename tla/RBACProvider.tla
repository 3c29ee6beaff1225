----------------------------- MODULE RBACProvider -----------------------------
(***************************************************************************)
(* Role-based access control: roles with inheritance, their assignment to  *)
(* users, and the reader/writer lock that every operation takes            *)
(* (pkg/auth/rbac.go).                                                     *)
(*                                                                         *)
(* A writer's section is one action.  A reader is not: HasPermission holds *)
(* the read lock while GetUserRoles takes it again, and CanAccessResource  *)
(* holds it around both.  Go's RWMutex keeps a writer that waits from      *)
(* being overtaken: from its announcement on, no read lock is granted.     *)
(*                                                                         *)
(* Permissions are elements of a set; Matches says which a pattern stands  *)
(* for.  Descriptions are left out.                                        *)
(***************************************************************************)
EXTENDS Integers, FiniteSets, Sequences

CONSTANTS
  Readers, Writers,  \* goroutines that check, goroutines that administrate
  Users,
  RoleNames,         \* names of roles, those of initializeDefaultRoles included
  DefaultRole,
  InitialRoles,      \* what NewRBACProvider leaves: name -> permissions, parents
  RolesToMake,       \* the arguments of CreateRole: name, permissions, parents
  Matches,           \* permission patterns -> the permissions they match
  Requirements,      \* what a resource may require: sequences of permissions
  NoRole

Asked == UNION {Matches[p] : p \in DOMAIN Matches}

\* A resource that requires nothing is not asked about (rbac.go:201).
ASSUME RBACAssumption ==
  /\ Users # {}
  /\ DOMAIN InitialRoles = RoleNames
  /\ Requirements \subseteq Seq(Asked) \ {<<>>}

VARIABLES
  roles,      \* name -> [permissions, parents], or NoRole
  userRoles,  \* user -> set of role names
  required,   \* the permissions that the resource requires
  holds,      \* how many read locks a reader holds
  announced,  \* writers that have called Lock, in order
  stage,      \* where a reader is
  user, need  \* whom and what it asks about

rbacvars == <<roles, userRoles, required, holds, announced, stage, user, need>>
tables   == <<roles, userRoles, required>>
checks   == <<holds, stage, user, need>>

RBACTypeOK ==
  /\ DOMAIN roles = RoleNames
  /\ userRoles \in [Users -> SUBSET RoleNames]
  /\ required \in Requirements
  /\ holds \in [Readers -> 0..3]
  /\ announced \in Seq(Writers)
  /\ stage \in [Readers -> {"idle", "has", "roles", "walk", "granted", "denied"}]
  /\ user \in [Readers -> Users]
  /\ need \in [Readers -> Seq(Asked)]

\* NewRBACProvider, initializeDefaultRoles: a role of the configuration keeps
\* its entry, because CreateRole refuses a name that exists.
RBACInit ==
  /\ roles = InitialRoles
  /\ userRoles = [u \in Users |-> {}]
  /\ required \in Requirements
  /\ holds = [r \in Readers |-> 0]
  /\ announced = <<>>
  /\ stage = [r \in Readers |-> "idle"]
  /\ user \in [Readers -> {CHOOSE u \in Users : TRUE}]
  /\ need = [r \in Readers |-> <<>>]

Known == {n \in RoleNames : roles[n] # NoRole}

-----------------------------------------------------------------------------
(* The tables                                                               *)

\* The names that roleHasPermission visits from a role: it follows the parents
\* and comes to none twice, cycles or not.
Ancestors(n) ==
  LET up[S \in SUBSET RoleNames] ==
        LET more == S \cup UNION {roles[m].parents : m \in S \cap Known}
        IN IF more = S THEN S ELSE up[more]
  IN up[{n}] \cap Known

roleHasPermission(n, p) ==
  \E m \in Ancestors(n) : \E q \in roles[m].permissions : p \in Matches[q]

\* What GetUserRoles answers.
Effective(u) == IF userRoles[u] = {} THEN {DefaultRole} ELSE userRoles[u]

Allowed(u, p) == \E n \in Effective(u) : roleHasPermission(n, p)

\* Lock is called: the writer waits for the readers to leave.
Lock(w) ==
  /\ w \notin {announced[i] : i \in DOMAIN announced}
  /\ announced' = Append(announced, w)
  /\ UNCHANGED <<tables, checks>>

\* The first of the waiting writers does its work and unlocks.
Write(w) ==
  /\ announced # <<>> /\ Head(announced) = w
  /\ \A r \in Readers : holds[r] = 0
  /\ announced' = Tail(announced)
  /\ UNCHANGED checks

CreateRole(w) ==
  /\ Write(w)
  /\ \E n \in DOMAIN RolesToMake :
       roles' = IF n \in Known THEN roles ELSE [roles EXCEPT ![n] = RolesToMake[n]]
  /\ UNCHANGED <<userRoles, required>>

\* Mutant of DeleteRole: the users keep the name of the role.
DeleteRoleKeepsUsers(w) ==
  /\ Write(w)
  /\ \E n \in RoleNames \ {DefaultRole} : roles' = [roles EXCEPT ![n] = NoRole]
  /\ UNCHANGED <<userRoles, required>>

\* The role goes, and from every user; other roles keep it as a parent.
DeleteRole(w) ==
  /\ Write(w)
  /\ \E n \in RoleNames \ {DefaultRole} :
       /\ roles' = [roles EXCEPT ![n] = NoRole]
       /\ userRoles' = [u \in Users |-> userRoles[u] \ {n}]
  /\ UNCHANGED required

\* DeleteRole of the default role changes nothing.
DeleteDefaultRole(w) == Write(w) /\ UNCHANGED tables

AssignRole(w) ==
  /\ Write(w)
  /\ \E u \in Users, n \in RoleNames :
       userRoles' = IF n \in Known THEN [userRoles EXCEPT ![u] = @ \cup {n}]
                    ELSE userRoles
  /\ UNCHANGED <<roles, required>>

RemoveRole(w) ==
  /\ Write(w)
  /\ \E u \in Users, n \in RoleNames : userRoles' = [userRoles EXCEPT ![u] = @ \ {n}]
  /\ UNCHANGED <<roles, required>>

SetResourcePermissions(w) ==
  /\ Write(w)
  /\ required' \in Requirements
  /\ UNCHANGED <<roles, userRoles>>

-----------------------------------------------------------------------------
(* The readers                                                              *)

RLock(r)   == announced = <<>> /\ holds' = [holds EXCEPT ![r] = @ + 1]
RUnlock(r, n) == holds' = [holds EXCEPT ![r] = @ - n]

Goto(r, from, to) == stage[r] = from /\ stage' = [stage EXCEPT ![r] = to]
Free(r) == stage[r] \in {"idle", "granted", "denied"} /\ holds[r] = 0

\* CanAccessResource takes the read lock and goes through the permissions that
\* the resource requires: the first that HasPermission grants will do.
CanAccessResource(r) ==
  /\ Free(r)
  /\ RLock(r)
  /\ stage' = [stage EXCEPT ![r] = "has"]
  /\ user' \in {[user EXCEPT ![r] = u] : u \in Users}
  /\ need' = [need EXCEPT ![r] = required]
  /\ UNCHANGED <<tables, announced>>

\* HasPermission called from outside, or by EnforcePermission.
HasPermission(r) ==
  /\ Free(r)
  /\ RLock(r)
  /\ stage' = [stage EXCEPT ![r] = "roles"]
  /\ \E u \in Users, p \in Asked :
       /\ user' = [user EXCEPT ![r] = u]
       /\ need' = [need EXCEPT ![r] = <<p>>]
  /\ UNCHANGED <<tables, announced>>

\* HasPermission called by CanAccessResource.
HasPermissionInner(r) ==
  /\ Goto(r, "has", "roles")
  /\ RLock(r)
  /\ UNCHANGED <<tables, announced, user, need>>

\* GetUserRoles called by HasPermission: the lock is taken once more and given
\* back with the copy.
GetUserRoles(r) ==
  /\ Goto(r, "roles", "walk")
  /\ announced = <<>>
  /\ UNCHANGED <<tables, announced, holds, user, need>>

\* The walk over the roles; then the locks are given back.
Decide(r) ==
  LET p == Head(need[r])  ok == Allowed(user[r], p)
  IN /\ stage[r] = "walk"
     /\ IF ok \/ Len(need[r]) = 1
        THEN /\ stage' = [stage EXCEPT ![r] = IF ok THEN "granted" ELSE "denied"]
             /\ RUnlock(r, holds[r])
             /\ need' = [need EXCEPT ![r] = <<>>]
        ELSE /\ stage' = [stage EXCEPT ![r] = "has"]
             /\ RUnlock(r, 1)
             /\ need' = [need EXCEPT ![r] = Tail(@)]
     /\ UNCHANGED <<tables, announced, user>>

\* EnforceRole only asks for the roles, with the lock taken once.
EnforceRole(r) ==
  /\ Free(r)
  /\ announced = <<>>
  /\ \E u \in Users, S \in SUBSET RoleNames :
       /\ user' = [user EXCEPT ![r] = u]
       /\ stage' = [stage EXCEPT ![r] = IF Effective(u) \cap S # {} THEN "granted" ELSE "denied"]
  /\ UNCHANGED <<tables, announced, holds, need>>

Check(r) == HasPermissionInner(r) \/ GetUserRoles(r) \/ Decide(r)

Administer(w) ==
  \/ CreateRole(w) \/ DeleteRole(w) \/ DeleteDefaultRole(w)
  \/ AssignRole(w) \/ RemoveRole(w) \/ SetResourcePermissions(w)

RBACNext ==
  \/ \E r \in Readers : 
       CanAccessResource(r) \/ HasPermission(r) \/ EnforceRole(r) \/ Check(r)
  \/ \E w \in Writers : Lock(w) \/ Administer(w)

\* A check that has begun goes on, a writer that can have the lock takes it.
RBACFairness ==
  /\ \A r \in Readers : WF_rbacvars(Check(r))
  /\ \A w \in Writers : WF_rbacvars(Administer(w))

RBACSpec == RBACInit /\ [][RBACNext]_rbacvars /\ RBACFairness

-----------------------------------------------------------------------------
(* Properties *)

\* A user only ever has roles that exist: a role that is deleted is gone from
\* every user, and a role made later under its name is nobody's
\* (rbac.go:99-102).
AssignedRolesExist == \A u \in Users : userRoles[u] \subseteq Known

\* "HasPermission checks if a user has a specific permission", and
\* "CanAccessResource checks if a user can access a resource": both return.
ChecksReturn == \A r \in Readers : holds[r] > 0 ~> holds[r] = 0
=============================================================================
