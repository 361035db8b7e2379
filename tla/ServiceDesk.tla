---------------------------- MODULE ServiceDesk ----------------------------
(***************************************************************************)
(* Service requests from raising to closing.  Every handler reads the row, *)
(* checks its status, and writes by id; granting special leave writes the  *)
(* leave and the request in one transaction.  Comments, priorities and the *)
(* deadlines computed from them change no status and are left out.         *)
(***************************************************************************)
EXTENDS Naturals

CONSTANTS
    Requests, People,
    Nobody,             \* the requester of an anonymous request; nobody assigned
    Desks               \* concurrently served calls

VARIABLES
    request,            \* id -> ServiceRequest
    leaves,             \* id -> special leaves granted for it
    call                \* desk -> what it has checked and will write

vars == <<request, leaves, call>>

Statuses == {"OPEN", "ASSIGNED", "IN_PROGRESS", "RESOLVED", "CLOSED"}
Someone == People \cup {Nobody}
NoRow == [status |-> "NONE", special |-> FALSE, employee |-> Nobody, assignedTo |-> Nobody,
          resolvedAt |-> FALSE, closedAt |-> FALSE]
NoCall == [op |-> "idle", id |-> Nobody, status |-> "NONE", user |-> Nobody]

TypeOK ==
    /\ request \in [Requests -> [status : Statuses \cup {"NONE"}, special : BOOLEAN,
                                 employee : Someone, assignedTo : Someone,
                                 resolvedAt : BOOLEAN, closedAt : BOOLEAN]]
    /\ leaves \in [Requests -> Nat]
    /\ call \in [Desks -> [op : {"idle", "assign", "resolve", "grant", "status"},
                           id : Requests \cup {Nobody}, status : Statuses \cup {"NONE"},
                           user : Someone]]

Init ==
    /\ request = [q \in Requests |-> NoRow]
    /\ leaves = [q \in Requests |-> 0]
    /\ call = [d \in Desks |-> NoCall]

Begin(d, op, q, status, user) ==
    /\ call[d] = NoCall
    /\ call' = [call EXCEPT ![d] = [op |-> op, id |-> q, status |-> status, user |-> user]]
    /\ UNCHANGED <<request, leaves>>

Write(d, op, row) ==
    /\ call[d].op = op
    /\ request' = [request EXCEPT ![call[d].id] = row]
    /\ call' = [call EXCEPT ![d] = NoCall]

-----------------------------------------------------------------------------
(* A special leave is raised for an employee, by another one; only other   *)
(* requests may be anonymous.                                              *)
Create(q, special, employee) ==
    /\ request[q].status = "NONE"
    /\ special => employee # Nobody
    /\ request' = [request EXCEPT ![q] = [NoRow EXCEPT !.status = "OPEN", !.special = special,
                                                       !.employee = employee]]
    /\ UNCHANGED <<leaves, call>>

AssignRead(d, q, user) ==
    /\ request[q].status \in {"OPEN", "ASSIGNED", "IN_PROGRESS"}
    /\ Begin(d, "assign", q, IF request[q].status = "OPEN" THEN "ASSIGNED"
                             ELSE request[q].status, user)

AssignWrite(d) ==
    /\ Write(d, "assign", [request[call[d].id] EXCEPT !.status = call[d].status,
                                                      !.assignedTo = call[d].user])
    /\ UNCHANGED leaves

(* Fault: special leave may be resolved like any other request. *)
ResolveAny(d, q, user) ==
    /\ request[q].employee # user \/ user = Nobody
    /\ request[q].status \in {"ASSIGNED", "IN_PROGRESS"}
    /\ Begin(d, "resolve", q, "RESOLVED", user)

(* user is Nobody for one who is no employee. *)
ResolveRead(d, q, user) ==
    /\ ~request[q].special
    /\ request[q].employee # user \/ user = Nobody
    /\ request[q].status \in {"ASSIGNED", "IN_PROGRESS"}
    /\ Begin(d, "resolve", q, "RESOLVED", user)

ResolveWrite(d) ==
    /\ Write(d, "resolve", [request[call[d].id] EXCEPT !.status = "RESOLVED", !.resolvedAt = TRUE])
    /\ UNCHANGED leaves

(* The dates overlap no application, one granted for this request included. *)
GrantRead(d, q, user) ==
    /\ request[q].special
    /\ request[q].status \in {"OPEN", "ASSIGNED", "IN_PROGRESS"}
    /\ request[q].employee # user
    /\ leaves[q] = 0
    /\ Begin(d, "grant", q, "RESOLVED", user)

GrantWrite(d) ==
    /\ Write(d, "grant", [request[call[d].id] EXCEPT !.status = "RESOLVED", !.resolvedAt = TRUE])
    /\ leaves' = [leaves EXCEPT ![call[d].id] = @ + 1]

StatusRead(d, q) ==
    \E from, to \in Statuses :
        /\ <<from, to>> \in {<<"ASSIGNED", "IN_PROGRESS">>, <<"RESOLVED", "CLOSED">>}
        /\ request[q].status = from
        /\ Begin(d, "status", q, to, Nobody)

StatusWrite(d) ==
    /\ Write(d, "status", [request[call[d].id] EXCEPT !.status = call[d].status,
                                                      !.closedAt = @ \/ call[d].status = "CLOSED"])
    /\ UNCHANGED leaves

(* The write fails, the transaction with it. *)
Fail(d) ==
    /\ call[d] # NoCall
    /\ call' = [call EXCEPT ![d] = NoCall]
    /\ UNCHANGED <<request, leaves>>

Next ==
    \/ \E q \in Requests, special \in BOOLEAN, e \in Someone : Create(q, special, e)
    \/ \E d \in Desks, q \in Requests :
          \/ \E p \in People : AssignRead(d, q, p)
          \/ \E p \in Someone : ResolveRead(d, q, p) \/ GrantRead(d, q, p)
          \/ StatusRead(d, q)
    \/ \E d \in Desks :
          \/ AssignWrite(d) \/ ResolveWrite(d) \/ GrantWrite(d) \/ StatusWrite(d)
          \/ Fail(d)

Spec == Init /\ [][Next]_vars

-----------------------------------------------------------------------------
(* PROPERTIES *)

(* Two calls about one request are being served. *)
Overlap == \E c, d \in Desks : c # d /\ call[c] # NoCall /\ call[c].id = call[d].id

(* However calls interleave, a request for special leave is resolved or    *)
(* closed only with a leave granted: resolve refuses it, and only          *)
(* grantSpecialLeave does both, in one transaction.                        *)
ResolvedIsGranted ==
    \A q \in Requests : request[q].special /\ request[q].status \in {"RESOLVED", "CLOSED"} =>
        leaves[q] >= 1

(* One leave is granted for a request, which is then resolved for good;    *)
(* the status never contradicts the times the row carries.                 *)
ResolvedStaysResolved ==
    \A q \in Requests :
        /\ leaves[q] <= 1
        /\ leaves[q] = 1 => request[q].status \in {"RESOLVED", "CLOSED"}
        /\ request[q].resolvedAt <=> request[q].status \in {"RESOLVED", "CLOSED"}
        /\ request[q].closedAt <=> request[q].status = "CLOSED"
=============================================================================
