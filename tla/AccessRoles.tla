----------------------------- MODULE AccessRoles -----------------------------
(***************************************************************************)
(* The roles of an organization and who has them: the requests of          *)
(* RolesService, and the refresh that brings the canonical roles of a new  *)
(* release to every organization.  A request reads and checks in one       *)
(* statement and writes in the next.                                       *)
(***************************************************************************)
EXTENDS Naturals, Sequences, Functions

CONSTANTS
    Users,
    Ids,            \* of roles
    Names,
    Permissions,
    All,            \* '*', which stands for every permission
    Releases,       \* the SYSTEM_ROLES of each release: name -> set of permissions
    Granted,        \* the sets of permissions a request may give a role
    NoUser, NoId, Nameless,
    Workers

VARIABLES
    release,
    role,           \* id -> Role
    has,            \* UserRole: (user, role) pairs
    pc, job,
    pass            \* the refresh: canonical names it has yet to see, and the one in hand

vars == <<release, role, has, pc, job, pass>>

Deleted == "DELETED"
Roles == [name : Names \cup {Nameless, Deleted}, perms : SUBSET Permissions, system : BOOLEAN]
NoRole == [name |-> Nameless, perms |-> {}, system |-> FALSE]
NoJob == [id |-> NoId, user |-> NoUser, name |-> Nameless, perms |-> {}]
NoPass == [names |-> {}, name |-> Nameless, id |-> NoId, perms |-> {}]

TypeOK ==
    /\ release \in DOMAIN Releases
    /\ role \in [Ids -> Roles]
    /\ has \subseteq Users \X Ids
    /\ pc \in [Workers -> {"idle", "create", "update", "remove", "assign"}]
    /\ job \in [Workers -> [id : Ids \cup {NoId}, user : Users \cup {NoUser},
                            name : Names \cup {Nameless}, perms : SUBSET Permissions]]
    /\ pass \in [names : SUBSET Names, name : Names \cup {Nameless}, id : Ids \cup {NoId},
                 perms : SUBSET Permissions]

Canonical == Releases[release]
Exists(r) == role[r].name \notin {Nameless, Deleted}
Named(n) == {r \in Ids : role[r].name = n}
Fresh == {r \in Ids : role[r] = NoRole}
Having(r) == {u \in Users : <<u, r>> \in has}

Init ==
    /\ release = 1
    /\ role = [r \in Ids |-> NoRole]
    /\ has = {}
    /\ pc = [w \in Workers |-> "idle"] /\ job = [w \in Workers |-> NoJob]
    /\ pass = NoPass

Goto(w, to, j) == pc' = [pc EXCEPT ![w] = to] /\ job' = [job EXCEPT ![w] = j]
Finish(w) == Goto(w, "idle", NoJob)
Read(w, to, j) == pc[w] = "idle" /\ Goto(w, to, j) /\ UNCHANGED <<release, role, has, pass>>

(* A name is unique in the organization: whoever comes second fails. *)
Insert(n, P, sys) ==
    IF Named(n) # {} THEN UNCHANGED role
    ELSE \E r \in Fresh : role' = [role EXCEPT ![r] = [name |-> n, perms |-> P, system |-> sys]]

(* The permissions a request of the user carries, and what they permit.    *)
Effective(u) == UNION {role[r].perms : r \in {i \in Ids : <<u, i>> \in has}}
May(u, p) == All \in Effective(u) \/ p \in Effective(u)

-----------------------------------------------------------------------------
(* registerOrganization seeds the roles of the release. *)
Register ==
    /\ Fresh = Ids
    /\ \E id \in [DOMAIN Canonical -> Ids] :
          /\ IsInjective(id)
          /\ role' = [r \in Ids |->
                IF r \in Range(id)
                THEN LET n == CHOOSE m \in DOMAIN id : id[m] = r
                     IN [name |-> n, perms |-> Canonical[n], system |-> TRUE]
                ELSE NoRole]
    /\ UNCHANGED <<release, has, pc, job, pass>>

CreateRead(w, n, P) ==
    /\ Fresh # Ids
    /\ Named(n) = {}
    /\ Read(w, "create", [NoJob EXCEPT !.name = n, !.perms = P])

CreateWrite(w) ==
    /\ pc[w] = "create"
    /\ Insert(job[w].name, job[w].perms, FALSE)
    /\ Finish(w)
    /\ UNCHANGED <<release, has, pass>>

(* A request gives a name, permissions, or both: Nameless and {} are not   *)
(* given.                                                                  *)
UpdateRead(w, r, n, P) ==
    /\ Exists(r) /\ ~role[r].system
    /\ n = Nameless \/ Named(n) \subseteq {r}
    /\ Read(w, "update", [NoJob EXCEPT !.id = r, !.name = n, !.perms = P])

UpdateWrite(w) ==
    LET r == job[w].id
        n == IF job[w].name = Nameless THEN role[r].name ELSE job[w].name
        P == IF job[w].perms = {} THEN role[r].perms ELSE job[w].perms
    IN /\ pc[w] = "update"
       /\ role' = IF Exists(r) /\ Named(n) \subseteq {r}
                  THEN [role EXCEPT ![r].name = n, ![r].perms = P] ELSE role
       /\ Finish(w)
       /\ UNCHANGED <<release, has, pass>>

RemoveRead(w, r) ==
    /\ Exists(r) /\ ~role[r].system
    /\ Having(r) = {}
    /\ Read(w, "remove", [NoJob EXCEPT !.id = r])

(* The delete cascades to who has the role by now. *)
RemoveWrite(w) ==
    LET r == job[w].id
    IN /\ pc[w] = "remove"
       /\ role' = [role EXCEPT ![r] = [NoRole EXCEPT !.name = Deleted]]
       /\ has' = {p \in has : p[2] # r}
       /\ Finish(w)
       /\ UNCHANGED <<release, pass>>

AssignRead(w, u, r) == Exists(r) /\ Read(w, "assign", [NoJob EXCEPT !.id = r, !.user = u])

AssignWrite(w) ==
    /\ pc[w] = "assign"
    /\ has' = IF Exists(job[w].id) THEN has \cup {<<job[w].user, job[w].id>>} ELSE has
    /\ Finish(w)
    /\ UNCHANGED <<release, role, pass>>

RemoveRole(u, r) ==
    /\ <<u, r>> \in has
    /\ has' = has \ {<<u, r>>}
    /\ UNCHANGED <<release, role, pc, job, pass>>

-----------------------------------------------------------------------------
(* refreshRbacPolicies, one canonical role after the other.                *)

Refresh ==
    /\ pass = NoPass /\ Fresh # Ids
    /\ pass' = [NoPass EXCEPT !.names = DOMAIN Canonical]
    /\ UNCHANGED <<release, role, has, pc, job>>

RefreshRead(n) ==
    /\ n \in pass.names /\ pass.name = Nameless
    /\ \/ \E r \in Named(n) : pass' = [pass EXCEPT !.name = n, !.id = r, !.perms = role[r].perms]
       \/ Named(n) = {} /\ pass' = [pass EXCEPT !.name = n]
    /\ UNCHANGED <<release, role, has, pc, job>>

(* Fault: the role takes the canonical permissions and no others. *)
Replaced(existing, canonical) == canonical

(* What a role that has these permissions is updated to. *)
Merged(existing, canonical) ==
    IF All \in existing THEN existing
    ELSE IF canonical = {All} THEN canonical
    ELSE existing \cup canonical

(* A row that has gone, or a name that is taken by now, ends the pass. *)
RefreshWrite ==
    LET n == pass.name
        new == Merged(pass.perms, Canonical[n])
        lost == IF pass.id = NoId THEN Named(n) # {} ELSE new # pass.perms /\ ~Exists(pass.id)
    IN /\ n # Nameless
       /\ IF pass.id = NoId THEN Insert(n, Canonical[n], TRUE)
          ELSE role' = IF lost \/ new = pass.perms THEN role
                       ELSE [role EXCEPT ![pass.id].perms = new]
       /\ pass' = IF lost THEN NoPass ELSE [NoPass EXCEPT !.names = pass.names \ {n}]
       /\ UNCHANGED <<release, has, pc, job>>

(* A new release is deployed: the process ends with all it was doing.      *)
Deploy ==
    /\ release < Len(Releases)
    /\ release' = release + 1
    /\ pc' = [w \in Workers |-> "idle"] /\ job' = [w \in Workers |-> NoJob]
    /\ pass' = NoPass
    /\ UNCHANGED <<role, has>>

Next ==
    \/ \E w \in Workers :
          \/ \E n \in Names, P \in Granted : CreateRead(w, n, P)
          \/ \E r \in Ids : \/ RemoveRead(w, r)
                            \/ \E u \in Users : AssignRead(w, u, r)
                            \/ \E n \in Names \cup {Nameless}, P \in Granted \cup {{}} :
                                  UpdateRead(w, r, n, P)
          \/ CreateWrite(w) \/ UpdateWrite(w) \/ RemoveWrite(w) \/ AssignWrite(w)
    \/ \E u \in Users, r \in Ids : RemoveRole(u, r)
    \/ Register \/ Refresh \/ RefreshWrite
    \/ \E n \in Names : RefreshRead(n)
    \/ Deploy

Spec == Init /\ [][Next]_vars

-----------------------------------------------------------------------------
(* PROPERTIES *)

(* A refresh, or the removal of a role, takes no permission from anybody.  *)
NothingIsTaken ==
    (pass' # pass \/ \E r \in Ids : Exists(r) /\ role'[r].name = Deleted) =>
        \A u \in Users, p \in Permissions : May(u, p) => May(u, p)'

(* A refresh that has seen the last name leaves every canonical role with  *)
(* all its permissions.                                                    *)
LastOne == pass.name # Nameless /\ pass.names = {pass.name}
RefreshCompletes ==
    LastOne /\ pass' = NoPass /\ release' = release =>
        \A n \in DOMAIN Canonical : \E r \in Ids :
            /\ role'[r].name = n
            /\ All \in role'[r].perms \/ Canonical[n] \subseteq role'[r].perms

(* Two requests, or a request and the refresh, are under way at a time. *)
Overlap ==
    \E w \in Workers : pc[w] # "idle" /\ (pass # NoPass \/ \E v \in Workers \ {w} : pc[v] # "idle")
=============================================================================
