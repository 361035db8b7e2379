------------------------------- MODULE Access -------------------------------
(***************************************************************************)
(* What requests an account gets through to, from the day it is made.  The *)
(* guards read the account once, when a request arrives; the handler runs  *)
(* later.  Only the handlers that write what the guards read are steps     *)
(* here, and each is one step: what its own statements may meet is in the  *)
(* modules about them.                                                     *)
(***************************************************************************)
EXTENDS Routes

CONSTANTS
    Users,          \* each of them an employee
    Founder,        \* the one registerOrganization makes
    Hired,          \* the roles that others are given
    Visitor,        \* whoever calls without a token
    Operator,       \* whoever calls with a token of the platform
    Requests

ASSUME FounderIsUser == Founder \in Users
ASSUME HiredAreRoles == Hired \subseteq DOMAIN PermissionsOf

VARIABLES
    account,        \* user -> mustChangePassword, the employee's status, the roles
    request         \* what the guards have let through

accessVars == <<account, request>>

Statuses == {"PRE_BOARDING", "ACTIVE"}
Accounts == [must : BOOLEAN, status : Statuses \cup {"NONE"}, roles : SUBSET (Hired \cup {"org_admin"})]
NoAccount == [must |-> FALSE, status |-> "NONE", roles |-> {}]
NoRequest == [by |-> Visitor, route |-> 0, handler |-> 0, gated |-> FALSE]

Existing == {u \in Users : account[u] # NoAccount}
Idle(r) == request[r] = NoRequest

AccessTypeOK ==
    /\ account \in [Users -> Accounts]
    /\ request \in [Requests -> [by : Users \cup {Visitor, Operator}, gated : BOOLEAN,
                                 route : 0 .. Len(Table), handler : 0 .. Len(Table)]]

Handles(m, path) == CHOOSE i \in DOMAIN Table : Table[i].method = m /\ Table[i].path = path

ChangePassword == Handles("PUT", <<"auth", "change-password">>)
ResetPassword == Handles("POST", <<"auth", "reset-password">>)
PatchStatus == Handles("PATCH", <<"employees", Id, "status">>)
CreateEmployee == Handles("POST", <<"employees">>)
ApproveLink == Handles("POST", <<"onboarding-links", Id, "approve">>)
AssignRole == Handles("POST", <<"roles", "assign">>)
RemoveRole == Handles("DELETE", <<"roles", "assign", Id, Id>>)

Writers == {ChangePassword, ResetPassword, PatchStatus, CreateEmployee, ApproveLink,
            AssignRole, RemoveRole}

(* Of the table, which has no parameter: its routes are numbered, and what *)
(* reaches the activation of an employee is held back by both gates.       *)
ASSUME ActivationIsGuarded ==
    /\ Len(Table) \in Nat /\ DOMAIN Table = 1 .. Len(Table) /\ Writers \subseteq DOMAIN Table
    /\ Table[PatchStatus].needs \notin {Public, Platform}
    /\ \A i \in DOMAIN Table : HandlerOf(i) = PatchStatus => ~Exempt(Asked(i).path)

(* registerOrganization makes an org_admin, whose employee is active.      *)
AccessInit ==
    /\ account = [u \in Users |->
          IF u = Founder THEN [must |-> TRUE, status |-> "ACTIVE", roles |-> {"org_admin"}]
          ELSE NoAccount]
    /\ request = [r \in Requests |-> NoRequest]

-----------------------------------------------------------------------------
(* THE GUARDS *)

(* Fault: an account that waits for its activation is not held back. *)
GatedByPassword(caller) == caller \in Existing /\ account[caller].must

(* mustChangePassword and PRE_BOARDING hold an account back alike. *)
Gated(caller) ==
    caller \in Existing /\ (account[caller].must \/ account[caller].status = "PRE_BOARDING")

(* JwtStrategy.validate collects the permissions of all roles. *)
PermissionsHeld(u) == UNION {PermissionsOf[n] : n \in account[u].roles}

Passes(caller, path, needs) ==
    \/ needs = Public
    \/ needs = Platform /\ caller = Operator
    \/ /\ needs \notin {Public, Platform} /\ caller \in Existing
       /\ Gated(caller) => Exempt(path)
       /\ Grants(PermissionsHeld(caller), needs)

(* A request whose handler writes nothing here meets no other. *)
Expected ==
    IF \A s \in Requests : Idle(s) THEN DOMAIN Table
    ELSE {i \in Writers : \A s \in Requests : Idle(s) \/ request[s].route \in Writers}

Arrive(r, caller, i) ==
    /\ Passes(caller, Asked(i).path, Table[HandlerOf(i)].needs)
    /\ request' = [request EXCEPT ![r] =
          [by |-> caller, route |-> i, handler |-> HandlerOf(i), gated |-> Gated(caller)]]
    /\ UNCHANGED account

(* The handler ends: it has nothing to write here, or refuses to. *)
Answer(r) ==
    /\ ~Idle(r)
    /\ request' = [request EXCEPT ![r] = NoRequest]
    /\ UNCHANGED account

-----------------------------------------------------------------------------
(* THE HANDLERS *)

Handle(r, h) == request[r].handler = h /\ request' = [request EXCEPT ![r] = NoRequest]
Set(u, a) == account' = [account EXCEPT ![u] = a]

DoChangePassword(r) ==
    /\ Handle(r, ChangePassword)
    /\ Set(request[r].by, [account[request[r].by] EXCEPT !.must = FALSE])

(* The link, not the caller, says whose password it is. *)
DoResetPassword(r, u) ==
    /\ u \in Existing
    /\ Handle(r, ResetPassword)
    /\ Set(u, [account[u] EXCEPT !.must = FALSE])

(* The one transition that the guards tell apart; the statuses that follow *)
(* ACTIVE are ACTIVE to them.                                              *)
DoPatchStatus(r, u) ==
    /\ u \in Existing /\ account[u].status = "PRE_BOARDING"
    /\ Handle(r, PatchStatus)
    /\ Set(u, [account[u] EXCEPT !.status = "ACTIVE"])

DoCreateEmployee(r, u) ==
    /\ u \notin Existing
    /\ Handle(r, CreateEmployee)
    /\ Set(u, [must |-> TRUE, status |-> "PRE_BOARDING", roles |-> {}])

(* The joining date says whether the employee is active at once. *)
DoApproveLink(r, u, status, roles) ==
    /\ u \notin Existing
    /\ Handle(r, ApproveLink)
    /\ Set(u, [must |-> TRUE, status |-> status, roles |-> roles])

DoAssignRole(r, u, n) ==
    /\ u \in Existing
    /\ Handle(r, AssignRole)
    /\ Set(u, [account[u] EXCEPT !.roles = @ \cup {n}])

DoRemoveRole(r, u, n) ==
    /\ u \in Existing /\ n \in account[u].roles
    /\ Handle(r, RemoveRole)
    /\ Set(u, [account[u] EXCEPT !.roles = @ \ {n}])

AccessNext ==
    \E r \in Requests :
        \/ /\ Idle(r)
           /\ \E c \in Users \cup {Visitor, Operator}, i \in Expected : Arrive(r, c, i)
        \/ Answer(r)
        \/ DoChangePassword(r)
        \/ \E u \in Users :
              \/ DoResetPassword(r, u) \/ DoPatchStatus(r, u) \/ DoCreateEmployee(r, u)
              \/ \E s \in Statuses, R \in SUBSET Hired : DoApproveLink(r, u, s, R)
              \/ \E n \in Hired : DoAssignRole(r, u, n) \/ DoRemoveRole(r, u, n)

AccessSpec == AccessInit /\ [][AccessNext]_accessVars

-----------------------------------------------------------------------------
(* PROPERTIES *)

(* A request is handled by the route it was made for: none is hidden by an *)
(* earlier one (attendance.module.ts says so of attendance/od).            *)
NoRouteIsHidden == \A r \in Requests : request[r].handler = request[r].route

(* An account that must change its password or is not activated does       *)
(* nothing that asks for its token but log out, look at itself and change  *)
(* the password (the comments of roles.guard.ts and of the e2e tests).     *)
GatedDoLittle ==
    \A r \in Requests :
        request[r].gated =>
            \/ Table[request[r].handler].needs = Public
            \/ Table[request[r].handler].path \in
                  {<<"auth", "change-password">>, <<"auth", "logout">>, <<"auth", "me">>}

(* Whoever may decide on a row by its id may look at rows of its kind, in  *)
(* every canonical role, but for an employee's own profile.                *)
MayLook(P, area) ==
    \E i \in DOMAIN Table :
        /\ Table[i].method = "GET" /\ Table[i].path[1] = area
        /\ Table[i].needs \notin {Public, Platform} /\ Grants(P, Table[i].needs)
DecidersMayLook ==
    \A n \in DOMAIN PermissionsOf, i \in DOMAIN Table :
        /\ Table[i].method # "GET" /\ Id \in ToSet(Table[i].path)
        /\ Table[i].needs \notin {LoggedIn, Public, Platform, {"profile:update"}}
        /\ Grants(PermissionsOf[n], Table[i].needs)
        => MayLook(PermissionsOf[n], Table[i].path[1])

(* Nobody is activated by their own request, not even after having been    *)
(* given the permission; and a password that must be changed is, by its    *)
(* owner or by a link.                                                     *)
LiftedBy(r, u) ==
    /\ request'[r] = NoRequest
    /\ \/ request[r].handler = ChangePassword /\ request[r].by = u
       \/ request[r].handler = ResetPassword
OthersActivate ==
    \A u \in Existing :
        /\ account[u].status = "PRE_BOARDING" /\ account'[u].status = "ACTIVE" =>
              \E r \in Requests : /\ request[r].handler = PatchStatus /\ request[r].by # u
                                  /\ request'[r] = NoRequest
        /\ account[u].must /\ ~account'[u].must => \E r \in Requests : LiftedBy(r, u)
=============================================================================
