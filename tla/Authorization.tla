--------------------------- MODULE Authorization ---------------------------
(***************************************************************************)
(* The two checks of a request: RequireEndpoint when a handler is entered, *)
(* and ServiceAuthorizer before a service builds its query (auth.go,       *)
(* authorization.go).  The principal comes from a session record; rules,   *)
(* policies and requests are whatever the callers of the checks pass.      *)
(***************************************************************************)
EXTENDS Integers, FiniteSets

CONSTANTS Accounts, Strange, None,
          Kinds       \* of fields: read, write, filter, sort

VARIABLES
  session,      \* the record in Redis that Require reads
  principal,    \* what it makes of it, or None
  stage,        \* the check that is next
  rule,         \* of the endpoint
  entry,        \* the policy of a service: its place in Resources, and itself
  request, constraint

vars == <<session, principal, stage, rule, entry, request, constraint>>

rolePermissions ==
  [user |-> {"buy", "chat", "sell"},
   support |-> {"chat", "handle_ticket"},
   admin |-> {"manage_user", "manage_system"}]

KnownRoles == DOMAIN rolePermissions
KnownPermissions == UNION {rolePermissions[role] : role \in KnownRoles}

Blank == ""
Scopes == {"self", "global", "assigned_customers"}
Fields == {"owner", Blank}

(* None is nobody, and no account.                                         *)
AuthorizationAssumption ==
  /\ Strange \notin KnownRoles \union KnownPermissions \union {Blank}
  /\ None \notin Accounts
  /\ None \notin [user : Accounts \union {Blank},
                  role : KnownRoles \union {Strange, Blank},
                  permissions : SUBSET (KnownPermissions \union {Strange, Blank})]

Sessions ==
  [user : Accounts \union {Blank}, role : {"user", "admin", Strange, Blank},
   permissions : SUBSET {"sell", "manage_user", Strange} \union {{"sell", Blank}}]
Rules == [role : {"user", "admin", Strange, Blank},
          permission : {"sell", "manage_user", Strange, Blank}]
Places == {<<"orders", "user", "read">>, <<"orders", "admin", "read">>,
           <<"orders", "user", "delete">>}
Policies == [Allowed : BOOLEAN, RequiredPermission : {"sell", Blank},
             Fields : [Kinds -> {{}, {"owner"}}], Scope : Scopes \union {Blank},
             named : BOOLEAN]   \* the fields that its scope is expressed with
Requests == [Resource : {"orders"}, Operation : {"read"},
             Fields : [Kinds -> {{}, {"owner"}, {Blank}}]]

TypeOK ==
  /\ session \in Sessions /\ principal \in Sessions \union {None}
  /\ stage \in {"require", "endpoint", "service", "served", "denied"}
  /\ rule \in Rules \union {None}
  /\ request \in Requests \union {None}
  /\ constraint = None \/ constraint.Kind \in Scopes

Init ==
  /\ session \in Sessions
  /\ principal = None /\ stage = "require" /\ rule = None
  /\ entry = None /\ request = None /\ constraint = None

-----------------------------------------------------------------------------
newPrincipal(s) ==
  IF Blank \in {s.user, s.role} \union s.permissions THEN None ELSE s

(* Fault: a permission that the vocabulary knows is enough.                *)
KnowsPermission(p, permission) == permission \in KnownPermissions

HasPermission(p, permission) == permission \in p.permissions

KnownPrincipal(p) == p.role \in KnownRoles /\ p.permissions \subseteq KnownPermissions

(* EndpointAuthorizer.                                                     *)
AuthorizeEndpoint(p, r) ==
  /\ p # None
  /\ r.role # Blank \/ r.permission # Blank
  /\ r.role # Blank => r.role \in KnownRoles /\ p.role = r.role
  /\ r.permission # Blank =>
       r.permission \in KnownPermissions /\ HasPermission(p, r.permission)
  /\ KnownPrincipal(p)

deriveConstraint(p, policy) ==
  CASE policy.Scope = "global" -> [Kind |-> "global", UserID |-> None]
    [] policy.Scope \in {"self", "assigned_customers"} /\ policy.named ->
         [Kind |-> policy.Scope, UserID |-> p.user]
    [] OTHER -> None

checkFields(actual, allowed) == Blank \notin actual /\ actual \subseteq allowed

(* ServiceAuthorizer: the range a query is limited to, None if denied.     *)
AuthorizeService(p, place, policy, q) ==
  IF /\ p # None /\ KnownPrincipal(p)
     /\ place = <<q.Resource, p.role, q.Operation>> /\ policy.Allowed
     /\ policy.RequiredPermission \in KnownPermissions
     /\ HasPermission(p, policy.RequiredPermission)
     /\ \A kind \in Kinds : checkFields(q.Fields[kind], policy.Fields[kind])
  THEN deriveConstraint(p, policy)
  ELSE None

-----------------------------------------------------------------------------
(* Require: the session of the token, if there is one.                     *)
Require ==
  /\ stage = "require"
  /\ principal' = newPrincipal(session)
  /\ stage' = IF principal' = None THEN "denied" ELSE "endpoint"
  /\ UNCHANGED <<session, rule, entry, request, constraint>>

RequireEndpoint(r) ==
  /\ stage = "endpoint"
  /\ rule' = r
  /\ stage' = IF AuthorizeEndpoint(principal, r) THEN "service" ELSE "denied"
  /\ UNCHANGED <<session, principal, entry, request, constraint>>

Serve(place, policy, q) ==
  /\ stage = "service"
  /\ entry' = <<place, policy>> /\ request' = q
  /\ constraint' = AuthorizeService(principal, place, policy, q)
  /\ stage' = IF constraint' = None THEN "denied" ELSE "served"
  /\ rule' = None
  /\ UNCHANGED <<session, principal>>

Next ==
  \/ Require
  \/ \E r \in Rules : RequireEndpoint(r)
  \/ \E place \in Places, policy \in Policies, q \in Requests : Serve(place, policy, q)

-----------------------------------------------------------------------------
(* What is served is justified, and what is justified is served            *)
(* (EndpointAuthorizer, ServiceAuthorizer): the account has the role and   *)
(* the permissions that rule and policy ask for; its query is limited to   *)
(* its own id unless the policy is global; and one more permission that is *)
(* known never closes a door.                                              *)
GrantsAreJustified ==
  LET place == entry[1]  policy == entry[2]
      wider == {[principal EXCEPT !.permissions = @ \union {k}] : k \in KnownPermissions}
      meets(r) == (r.role # Blank => r.role = session.role)
                    /\ r.permission \in session.permissions \union {Blank}
  IN /\ stage = "service" =>
          /\ meets(rule) /\ rule # [role |-> Blank, permission |-> Blank]
          /\ session.role \in KnownRoles /\ session.permissions \subseteq KnownPermissions
          /\ \A p \in wider : AuthorizeEndpoint(p, rule)
     /\ stage = "served" =>
          /\ meets([role |-> place[2], permission |-> policy.RequiredPermission])
          /\ constraint.Kind = policy.Scope
          /\ (policy.Scope # "global") = (constraint.UserID = session.user)
          /\ \A kind \in Kinds : request.Fields[kind] \subseteq policy.Fields[kind]
          /\ \A p \in wider : AuthorizeService(p, place, policy, request) = constraint
     /\ stage = "denied" /\ rule # None /\ rule.role # Blank /\ request = None =>
          ~meets(rule) \/ ~KnownPrincipal(session)
=============================================================================
