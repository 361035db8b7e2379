------------------------------- MODULE MCOrg -------------------------------
(***************************************************************************)
(* What administrators set up: organizations and their bills, roles,       *)
(* departments, the items employees are assigned to, leave policies, and   *)
(* the accounts that all requests are made from.  No two of the six write  *)
(* a row of one another, so a behaviour takes the steps of one of them.    *)
(***************************************************************************)
EXTENDS TLC, Access

CONSTANTS
    Workers, NoId, None, Root, Same,
    o1, o2, Orgs, NoOrg, MaxDay, MaxInvoices, MaxBilled, MaxBills,
    i1, i2, i3, Ids, Names, Holders, NoUser, DeptNames, Types,
    de, dg, st, zo, Employees

VARIABLES
    day, active, sub, invoices, jobs, admin, billed,
    contested, \* organizations suspended or activated by two at a time, or by half
    release, role, has, rpc, rjob, pass,
    dept, djob, changed,
    live, assigned, linked, mjob, chosen,
    row, used, pjob, answer, updated,
    side,     \* which of the six
    raced,    \* what one request has read, another one has changed
    died      \* a request or a job has died half way

DaysIn == [c \in {"monthly", "quarterly"} |-> IF c = "monthly" THEN 1 ELSE 2]
TwoReleases == <<[n \in {"admin"} |-> {"all"}],
                 [n \in {"admin", "it"} |-> IF n = "admin" THEN {"all"} ELSE {"p"}]>>
Kind == de :> "department" @@ dg :> "designation" @@ st :> "structure" @@ zo :> "zone"

(* A mark of what is not there is none of what may be there.               *)
ASSUME OrgAssumption ==
    /\ {"admin", "it"} \subseteq Names /\ {"NONE", "DELETED"} \cap Names = {}
    /\ NoOrg \notin Orgs /\ NoId \notin Ids /\ NoUser \notin Holders /\ "none" \notin Types
    /\ None \notin DOMAIN Kind /\ Employees \cap DOMAIN Kind = {}
    /\ {Root, Same} \cap (Ids \cup DeptNames) = {} /\ Root # Same
    /\ MaxBilled \in Nat /\ MaxBills \in Nat
    /\ Visitor # Operator /\ {Visitor, Operator} \cap Users = {}

B == INSTANCE Billing WITH
        Cycles <- DOMAIN DaysIn, Length <- DaysIn, DueAfter <- 1, Grace <- 0,
        MaxAsked <- MaxBilled, Admins <- Workers, Crashes <- TRUE, job <- jobs, asked <- billed
R == INSTANCE AccessRoles WITH
        Permissions <- {"p", "q", "all"}, All <- "all", Releases <- TwoReleases,
        Users <- Holders, Granted <- {{"q"}}, Nameless <- "NONE", pc <- rpc, job <- rjob
D == INSTANCE DepartmentTree WITH
        Depts <- Ids, Names <- DeptNames, MaxLevel <- 2, MaxAsked <- 2, Crashes <- TRUE,
        job <- djob, asked <- changed
M == INSTANCE Masters WITH
        Items <- DOMAIN Kind, KindOf <- Kind, MaxAsked <- 4, job <- mjob, asked <- chosen
P == INSTANCE PolicyTypes WITH
        MaxItems <- 2, MaxAsked <- 2, job <- pjob, asked <- updated

billsVars == <<day, active, sub, invoices, jobs, admin, billed, contested>>
rolesVars == <<release, role, has, rpc, rjob, pass>>
departmentsVars == <<dept, djob, changed>>
itemsVars == <<live, assigned, linked, mjob, chosen>>
policiesVars == <<row, used, pjob, answer, updated>>
vars == <<billsVars, rolesVars, departmentsVars, itemsVars, policiesVars, accessVars>>

Symmetry == Permutations(Workers) \cup Permutations(Ids)

MCInit ==
    /\ B!Init /\ R!Init /\ D!Init /\ M!Init /\ P!Init /\ AccessInit
    /\ side \in {"bills", "roles", "departments", "items", "policies", "access"}
    /\ contested = {} /\ raced = FALSE /\ died = FALSE

(* The more organizations, the fewer requests. *)
BillsStep ==
    /\ side = "bills"
    /\ B!Next
    /\ contested' = contested \cup {o \in Orgs : B!Meet(o)' \/ (B!Crash /\ B!Busy(o))}
    /\ raced' = (raced \/ B!Contended')
    /\ died' = (died \/ B!Crash)
    /\ Cardinality({o \in Orgs : B!Exists(o)})' + billed' <= MaxBills
    /\ UNCHANGED <<rolesVars, departmentsVars, itemsVars, policiesVars, accessVars>>

RolesStep ==
    /\ side = "roles"
    /\ R!Next
    /\ raced' = (raced \/ R!Overlap')
    /\ UNCHANGED <<billsVars, departmentsVars, itemsVars, policiesVars, accessVars, died>>

(* Nothing is claimed once two moves of departments have met. *)
DepartmentsStep ==
    /\ side = "departments"
    /\ D!Next /\ ~D!MovesMeet
    /\ raced' = (raced \/ D!Overlap')
    /\ died' = (died \/ \E w \in Workers : D!Fail(w) \/ D!RestoreWrite(w))
    /\ UNCHANGED <<billsVars, rolesVars, itemsVars, policiesVars, accessVars>>

ItemsStep ==
    /\ side = "items"
    /\ M!Next
    /\ raced' = (raced \/ M!Overlap')
    /\ UNCHANGED <<billsVars, rolesVars, departmentsVars, policiesVars, accessVars, died>>

PoliciesStep ==
    /\ side = "policies"
    /\ P!Next
    /\ raced' = (raced \/ P!Overlap')
    /\ UNCHANGED <<billsVars, rolesVars, departmentsVars, itemsVars, accessVars, died>>

AccessStep ==
    /\ side = "access"
    /\ AccessNext
    /\ UNCHANGED <<billsVars, rolesVars, departmentsVars, itemsVars, policiesVars, raced, died>>

MCNext ==
    /\ \/ BillsStep \/ RolesStep \/ DepartmentsStep
       \/ ItemsStep \/ PoliciesStep \/ AccessStep
    /\ UNCHANGED side

MCSpec == MCInit /\ [][MCNext]_<<vars, side, raced, died>>

-----------------------------------------------------------------------------
TypesAreOK == B!TypeOK /\ R!TypeOK /\ D!TypeOK /\ M!TypeOK /\ P!TypeOK /\ AccessTypeOK

(* generateRenewalInvoices leaves no gap between an organization's invoices *)
(* and bills a period twice only if the process died in between; and        *)
(* suspension, by hand or by autoSuspendOverdue, reaches an organization    *)
(* and its subscription alike, whatever happens to others, unless two of    *)
(* them meet on this one or the process dies between its two writes.        *)
BillsAreInOrder == B!PeriodsFollowOn(died) /\ B!StatusesAgree(contested)

(* validateParentChange keeps the departments a tree unless two moves meet; *)
(* with cascadeHierarchyLevels their levels follow it, requests one at a    *)
(* time, none dead and nothing restored.  What a live employee is assigned  *)
(* to is not removed, unless the two requests meet; a leave type that       *)
(* balances or applications refer to is not, even then.                     *)
StructureIsSound ==
    /\ ~D!MovesMeet => D!Acyclic
    /\ ~raced /\ ~died => D!TreeIsSound
    /\ ~raced => M!AssignedIsLive
    /\ P!UsedStays

(* Every request is handled by the route it was made for; an account that   *)
(* must change its password or is not activated gets through to nothing     *)
(* else; and every canonical role that may decide on rows may list them.    *)
RequestsGoWhereTheyMay == NoRouteIsHidden /\ GatedDoLittle /\ DecidersMayLook

(* A paid invoice is not made overdue by a reminder; the refresh of the     *)
(* roles and their removal take no permission from anybody, and a refresh   *)
(* that ends has done every role; an update of a leave policy is answered   *)
(* when it has the types asked for.  One request on a row at a time; and    *)
(* however requests meet, nobody activates their own account.               *)
StepsDoAsTheySay ==
    [][~raced' => /\ B!PaidStaysPaid
                  /\ R!NothingIsTaken /\ R!RefreshCompletes
                  /\ P!AnsweredAsAsked
                  /\ OthersActivate]_vars
=============================================================================
