--------------------------- MODULE ExitSettlement ---------------------------
(***************************************************************************)
(* The exit of an employee: the clearance checklist kept as one JSON       *)
(* column, the settlement, and the employee's own status and chat          *)
(* memberships, beside the assets AssetCustody models.  updateClearance    *)
(* reads the record, counts assets and writes checklist and status back;   *)
(* settle writes the record first and deactivates the employee afterwards. *)
(***************************************************************************)
EXTENDS AssetCustody

CONSTANTS
    Departments,
    Seeded,         \* the departments create() puts on the checklist
    Reasons,        \* is ExitRecord.reason non-empty?  a subset of BOOLEAN
    Dtos,           \* the clearance requests that are sent, a subset of Changes
    Patches,        \* the statuses HR may PATCH an employee to
    Officers,       \* concurrently served exit and status requests
    Crashes         \* a request may die between two statements

Changes == [dept : [Departments -> {"keep", "open", "cleared"}],
            transfer : {"keep", "yes", "no"}, advance : BOOLEAN]

ASSUME ExitAssumption ==
    Seeded \subseteq Departments /\ Reasons \subseteq BOOLEAN /\ Dtos \subseteq Changes

VARIABLES
    exit, emp,
    member,     \* employee -> is it an active member of some room?
    back,       \* employees admitted to a room since the last revocation  (history)
    xpc, xjob

exits == <<exit, emp, member, back, xpc, xjob>>
vars == <<exits, custody>>

ExitStatus == {"NONE", "INITIATED", "CLEARANCE_PENDING", "CLEARED", "SETTLED"}
EmployeeStatus == {"PRE_BOARDING", "ACTIVE", "ON_LEAVE", "SUSPENDED", "EXITED"}

ASSUME PatchAssumption == Patches \subseteq EmployeeStatus

(* VALID_STATUS_TRANSITIONS and REASON_REQUIRED_TRANSITIONS *)
Allowed(from) ==
    CASE from = "PRE_BOARDING" -> {"ACTIVE", "EXITED"}
      [] from = "ACTIVE" -> {"ON_LEAVE", "SUSPENDED", "EXITED"}
      [] from = "ON_LEAVE" -> {"ACTIVE", "EXITED"}
      [] from = "SUSPENDED" -> {"ACTIVE", "EXITED"}
      [] from = "EXITED" -> {}
NeedsReason == {<<"ACTIVE", "SUSPENDED">>, <<"ACTIVE", "EXITED">>, <<"PRE_BOARDING", "EXITED">>}

Checklist == [dept : [Departments -> {"unlisted", "open", "cleared"}],
              handover : BOOLEAN, transfer : BOOLEAN]
Complete(list) ==
    /\ \A d \in Departments : list.dept[d] # "open"
    /\ list.handover
    /\ list.transfer

Blank == [dept |-> [d \in Departments |-> IF d \in Seeded THEN "open" ELSE "unlisted"],
          handover |-> FALSE, transfer |-> FALSE]
NoRecord == [status |-> "NONE", list |-> Blank, noc |-> FALSE, reason |-> TRUE]
NoChange == [dept |-> [d \in Departments |-> "keep"], transfer |-> "keep", advance |-> TRUE]
Idle == [emp |-> CHOOSE e \in Employees : TRUE, list |-> Blank, status |-> "NONE",
         advance |-> FALSE, to |-> "ACTIVE", reason |-> TRUE]

TypeOK ==
    /\ CustodyTypeOK
    /\ exit \in [Employees -> [status : ExitStatus, list : Checklist,
                               noc : BOOLEAN, reason : BOOLEAN]]
    /\ emp \in [Employees -> EmployeeStatus]
    /\ member \in [Employees -> BOOLEAN] /\ back \subseteq Employees
    /\ xpc \in [Officers -> {"idle", "count", "write", "settle",
                             "patchRead", "patchWrite", "revoke"}]
    /\ xjob \in [Officers -> [emp : Employees, list : Checklist, status : ExitStatus,
                              advance : BOOLEAN, to : EmployeeStatus, reason : BOOLEAN]]

Init ==
    /\ CustodyInit
    /\ exit = [e \in Employees |-> NoRecord]
    /\ emp = [e \in Employees |-> "ACTIVE"]
    /\ member = [e \in Employees |-> TRUE] /\ back = {}
    /\ xpc = [w \in Officers |-> "idle"]
    /\ xjob = [w \in Officers |-> Idle]

Goto(w, to) == xpc' = [xpc EXCEPT ![w] = to]
Note(w, j) == xjob' = [xjob EXCEPT ![w] = j]
Done(w) == Goto(w, "idle") /\ Note(w, Idle)

-----------------------------------------------------------------------------
(* ExitService.create; employeeId is unique, so of two requests one fails. *)
Create(e, r) ==
    /\ e \notin gone
    /\ exit[e].status = "NONE"
    /\ exit' = [exit EXCEPT ![e] = [status |-> "INITIATED", list |-> Blank,
                                    noc |-> FALSE, reason |-> r]]
    /\ UNCHANGED <<emp, member, back, xpc, xjob, custody>>

(* Fault: a department the request leaves out is overwritten all the same. *)
MergedBlindly(old, dto) ==
    [old EXCEPT !.dept = dto.dept,
                !.transfer = IF dto.transfer = "keep" THEN @ ELSE dto.transfer = "yes"]

Merged(old, dto) ==
    [old EXCEPT !.dept = [d \in Departments |->
                             IF dto.dept[d] = "keep" THEN old.dept[d] ELSE dto.dept[d]],
                !.transfer = IF dto.transfer = "keep" THEN @ ELSE dto.transfer = "yes"]

(* Fault: a settled record is updated too. *)
UpdateAnytime(w, e, dto) ==
    /\ xpc[w] = "idle"
    /\ exit[e].status # "NONE"
    /\ Note(w, [xjob[w] EXCEPT !.emp = e, !.list = Merged(exit[e].list, dto),
                               !.status = exit[e].status, !.advance = dto.advance])
    /\ Goto(w, "count")
    /\ UNCHANGED <<exit, emp, member, back, custody>>

(* updateClearance: the record is read and the request's changes applied. *)
UpdateRead(w, e, dto) ==
    /\ xpc[w] = "idle"
    /\ exit[e].status \notin {"NONE", "SETTLED"}
    /\ Note(w, [xjob[w] EXCEPT !.emp = e, !.list = Merged(exit[e].list, dto),
                               !.status = exit[e].status, !.advance = dto.advance])
    /\ Goto(w, "count")
    /\ UNCHANGED <<exit, emp, member, back, custody>>

UpdateCount(w) ==
    /\ xpc[w] = "count"
    /\ Note(w, [xjob[w] EXCEPT !.list.handover = ~HoldsAssets(xjob[w].emp)])
    /\ Goto(w, "write")
    /\ UNCHANGED <<exit, emp, member, back, custody>>

NextStatus(j) ==
    IF j.advance /\ Complete(j.list) THEN "CLEARED"
    ELSE IF j.status = "INITIATED" THEN "CLEARANCE_PENDING" ELSE j.status

UpdateWrite(w) ==
    /\ xpc[w] = "write"
    /\ LET j == xjob[w]
       IN exit' = [exit EXCEPT ![j.emp] =
              [@ EXCEPT !.list = j.list,
                        !.status = NextStatus(j),
                        !.noc = exit[j.emp].noc \/ NextStatus(j) = "CLEARED"]]
    /\ Done(w)
    /\ UNCHANGED <<emp, member, back, custody>>

-----------------------------------------------------------------------------
(* settle.  Its reason is record.reason ?? 'Exit settled': the column is   *)
(* never null, but it may be the empty string.                             *)
SettleRead(w, e) ==
    /\ xpc[w] = "idle"
    /\ exit[e].status = "CLEARED"
    /\ Note(w, [xjob[w] EXCEPT !.emp = e, !.to = "EXITED", !.reason = exit[e].reason])
    /\ Goto(w, "settle")
    /\ UNCHANGED <<exit, emp, member, back, custody>>

(* Fault: the settlement forgets to deactivate the employee. *)
SettleOnly(w) ==
    /\ xpc[w] = "settle"
    /\ exit' = [exit EXCEPT ![xjob[w].emp] = [@ EXCEPT !.status = "SETTLED"]]
    /\ Done(w)
    /\ UNCHANGED <<emp, member, back, custody>>

(* The two reads for the summary come first and change nothing. *)
SettleWrite(w) ==
    /\ xpc[w] = "settle"
    /\ exit' = [exit EXCEPT ![xjob[w].emp] = [@ EXCEPT !.status = "SETTLED"]]
    /\ Goto(w, "patchRead")
    /\ UNCHANGED <<emp, member, back, xjob, custody>>

(* PATCH /employees/:id/status *)
PatchEmployee(w, e, to, given) ==
    /\ xpc[w] = "idle"
    /\ Note(w, [xjob[w] EXCEPT !.emp = e, !.to = to, !.reason = given])
    /\ Goto(w, "patchRead")
    /\ UNCHANGED <<exit, emp, member, back, custody>>

(* EmployeesService.patchStatus, called by settle too: 404 for an employee *)
(* who has been removed, 400 for a step not allowed or without a reason.   *)
PatchRead(w) ==
    /\ xpc[w] = "patchRead"
    /\ LET e == xjob[w].emp
           from == emp[e]
           to == xjob[w].to
       IN IF /\ e \notin gone
             /\ to \in Allowed(from) /\ (<<from, to>> \in NeedsReason => xjob[w].reason)
          THEN Goto(w, "patchWrite") /\ UNCHANGED xjob
          ELSE Done(w)
    /\ UNCHANGED <<exit, emp, member, back, custody>>

PatchWrite(w) ==
    /\ xpc[w] = "patchWrite"
    /\ emp' = [emp EXCEPT ![xjob[w].emp] = xjob[w].to]
    /\ IF xjob[w].to \in {"EXITED", "SUSPENDED"}
       THEN Goto(w, "revoke") /\ UNCHANGED xjob
       ELSE Done(w)
    /\ UNCHANGED <<exit, member, back, custody>>

(* ChatService.revokeAllForEmployee *)
Revoke(w) ==
    /\ xpc[w] = "revoke"
    /\ member' = [member EXCEPT ![xjob[w].emp] = FALSE]
    /\ back' = back \ {xjob[w].emp}
    /\ Done(w)
    /\ UNCHANGED <<exit, emp, custody>>

(* ChatService.createRoom makes an employee a member, or one again, and    *)
(* does not look at the status of those it is asked for.                   *)
Readmit(e) ==
    /\ member' = [member EXCEPT ![e] = TRUE]
    /\ back' = back \cup {e}
    /\ UNCHANGED <<exit, emp, xpc, xjob, custody>>

Crash(w) ==
    /\ Crashes
    /\ xpc[w] # "idle"
    /\ Done(w)
    /\ UNCHANGED <<exit, emp, member, back, custody>>

Handle(w) ==
    \/ \E e \in Employees, dto \in Dtos : UpdateRead(w, e, dto)
    \/ UpdateCount(w) \/ UpdateWrite(w)
    \/ \E e \in Employees : SettleRead(w, e)
    \/ SettleWrite(w)
    \/ \E e \in Employees, to \in Patches, given \in BOOLEAN : PatchEmployee(w, e, to, given)
    \/ PatchRead(w) \/ PatchWrite(w) \/ Revoke(w)
    \/ Crash(w)

Next ==
    \/ \E e \in Employees, r \in Reasons : Create(e, r)
    \/ \E e \in Employees : Readmit(e)
    \/ \E w \in Officers : Handle(w)
    \/ CustodyNext /\ UNCHANGED exits

Spec == Init /\ [][Next]_vars

-----------------------------------------------------------------------------
(* PROPERTIES *)

(* A settled exit has had its NOC, however requests overwrite each other's *)
(* status.                                                                 *)
SettledHasNoc == \A e \in Employees : exit[e].status = "SETTLED" => exit[e].noc

(* Clearance can no longer be updated after settlement: SETTLED is final.  *)
SettledStays == \A e \in Employees : exit[e].status = "SETTLED" => exit'[e].status = "SETTLED"

AtRest(e) == \A w \in Officers : xpc[w] = "idle" \/ xjob[w].emp # e

(* When the requests about an employee have ended, a settled exit has      *)
(* deactivated the employee, unless that was refused: an employee who has  *)
(* been removed is not found, and an empty reason is none.                 *)
SettledIsExited ==
    \A e \in Employees \ removed :
        exit[e].status = "SETTLED" /\ exit[e].reason /\ AtRest(e) => emp[e] = "EXITED"

(* ... and an exited employee is in no chat room, except those it has been *)
(* admitted to since.                                                      *)
ExitedIsRevoked ==
    \A e \in Employees \ back : emp[e] = "EXITED" /\ AtRest(e) => ~member[e]

(* Two exit or status requests are being served at the same time. *)
Racing == \E v, w \in Officers : v # w /\ xpc[v] # "idle" /\ xpc[w] # "idle"
=============================================================================
