------------------------------ MODULE MC_RBAC ------------------------------
(* Small instances of RBACProvider.                                         *)
EXTENDS RBACProvider, TLC
CONSTANTS r1, r2, w1, w2, u1

\* "guest" may read, "user" may also create; "auditor" inherits from "guest"
\* and "guest", once it is made again, from "auditor".
MCRoleNames == {"user", "guest", "auditor"}
MCMatches   == ("read" :> {"read"}) @@ ("create" :> {"create"})
               @@ ("*" :> {"read", "create"})
MCInitialRoles ==
  [user    |-> [permissions |-> {"read", "create"}, parents |-> {}],
   guest   |-> [permissions |-> {"read"}, parents |-> {}],
   auditor |-> NoRole]
MCRolesToMake ==
  [guest   |-> [permissions |-> {}, parents |-> {"auditor"}],
   auditor |-> [permissions |-> {"create"}, parents |-> {"guest"}]]
MCRequirements == { <<"create", "read">>, <<"read">> }
=============================================================================
