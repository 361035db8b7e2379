------------------------------ MODULE Masters ------------------------------
(***************************************************************************)
(* The items employees are assigned to (departments, designations, payroll *)
(* structures, leave policies, zones), all removed by a mark and most of   *)
(* them restorable.  An assignment checks that the item is live, a removal *)
(* that nobody is assigned; both write in a later statement.               *)
(***************************************************************************)
EXTENDS Naturals

CONSTANTS
    Employees,
    Items, KindOf,      \* item -> department, designation, structure, policy or zone
    None,
    MaxAsked,           \* bound on the requests
    Workers             \* concurrently served requests

VARIABLES
    live,               \* items and employees without deletedAt
    assigned,           \* employee -> kind -> item
    linked,             \* designation -> payrollStructureId
    job,
    asked               \* requests so far

vars == <<live, assigned, linked, job, asked>>

Kinds == {KindOf[i] : i \in Items}
Of(kind) == {i \in Items : KindOf[i] = kind}
NoJob == [op |-> "idle", item |-> None, who |-> None]

TypeOK ==
    /\ live \subseteq Items \cup Employees /\ asked \in 0 .. MaxAsked
    /\ \A e \in Employees, k \in Kinds : assigned[e][k] \in Of(k) \cup {None}
    /\ linked \in [Of("designation") -> Of("structure") \cup {None}]
    /\ job \in [Workers -> [op : {"idle", "assign", "remove", "link"}, item : Items \cup {None},
                            who : Employees \cup Items \cup {None}]]

Init ==
    /\ live = Items \cup Employees
    /\ assigned = [e \in Employees |-> [k \in Kinds |-> None]]
    /\ linked = [d \in Of("designation") |-> None]
    /\ job = [w \in Workers |-> NoJob] /\ asked = 0

Ask == asked < MaxAsked /\ asked' = asked + 1
Begin(w, op, i, who) ==
    /\ job[w] = NoJob /\ Ask
    /\ job' = [job EXCEPT ![w] = [op |-> op, item |-> i, who |-> who]]
    /\ UNCHANGED <<live, assigned, linked>>
Done(w) == job' = [job EXCEPT ![w] = NoJob] /\ UNCHANGED asked

-----------------------------------------------------------------------------
(* EmployeesService.update, one reference of it. *)
AssignRead(w, e, i) == {e, i} \subseteq live /\ Begin(w, "assign", i, e)

(* Fault: whatever is assigned goes to one column. *)
AssignColumn(w) ==
    /\ job[w].op = "assign"
    /\ assigned' = [assigned EXCEPT ![job[w].who]["designation"] = job[w].item]
    /\ Done(w) /\ UNCHANGED <<live, linked>>

AssignWrite(w) ==
    LET i == job[w].item
    IN /\ job[w].op = "assign"
       /\ assigned' = [assigned EXCEPT ![job[w].who][KindOf[i]] = i]
       /\ Done(w) /\ UNCHANGED <<live, linked>>

(* assignDesignation, and create and update of a designation. *)
LinkRead(w, d, s) == {d, s} \subseteq live /\ Begin(w, "link", s, d)

LinkWrite(w) ==
    /\ job[w].op = "link"
    /\ linked' = [linked EXCEPT ![job[w].who] = job[w].item]
    /\ Done(w) /\ UNCHANGED <<live, assigned>>

Unlink(d) ==
    /\ linked[d] # None /\ Ask
    /\ linked' = [linked EXCEPT ![d] = None]
    /\ UNCHANGED <<live, assigned, job>>

(* Fault: deleted employees do not count anywhere. *)
CountedLive(i) == {e \in Employees \cap live : assigned[e][KindOf[i]] = i}

(* The relation count of Prisma includes deleted employees; departments    *)
(* and zones count those that are not.                                     *)
CountsDeleted(i) == KindOf[i] \notin {"department", "zone"}
Counted(i) ==
    {e \in Employees : assigned[e][KindOf[i]] = i /\ (CountsDeleted(i) \/ e \in live)}

(* The designations of a department count as well; those of a structure do *)
(* not.  (Designations are not given a department here.)                   *)
RemoveRead(w, i) == i \in live /\ Counted(i) = {} /\ Begin(w, "remove", i, None)

RemoveWrite(w) ==
    /\ job[w].op = "remove"
    /\ live' = live \ {job[w].item}
    /\ Done(w) /\ UNCHANGED <<assigned, linked>>

(* Zones cannot be restored. *)
RestoreItem(i) ==
    /\ i \notin live /\ KindOf[i] # "zone" /\ Ask
    /\ live' = live \cup {i}
    /\ UNCHANGED <<assigned, linked, job>>

RemoveEmployee(e) ==
    /\ e \in live /\ Ask
    /\ live' = live \ {e}
    /\ UNCHANGED <<assigned, linked, job>>

RestoreEmployee(e) ==
    /\ e \notin live /\ Ask
    /\ live' = live \cup {e}
    /\ UNCHANGED <<assigned, linked, job>>

Next ==
    \/ \E w \in Workers :
          \/ \E e \in Employees, i \in Items : AssignRead(w, e, i)
          \/ \E d \in Of("designation"), s \in Of("structure") : LinkRead(w, d, s)
          \/ \E i \in Items : RemoveRead(w, i)
          \/ AssignWrite(w) \/ LinkWrite(w) \/ RemoveWrite(w)
    \/ \E i \in Items : RestoreItem(i)
    \/ \E d \in Of("designation") : Unlink(d)
    \/ \E e \in Employees : RemoveEmployee(e) \/ RestoreEmployee(e)

Spec == Init /\ [][Next]_vars

-----------------------------------------------------------------------------
(* PROPERTIES *)

(* An assignment and a removal of one item are under way. *)
Overlap == \E v, w \in Workers : v # w /\ job[v] # NoJob /\ job[v].item = job[w].item

(* A live employee is assigned to live items, although employees are       *)
(* removed and restored: of the kinds whose removal counts deleted         *)
(* employees.                                                              *)
AssignedIsLive ==
    \A e \in Employees \cap live, i \in Items :
        CountsDeleted(i) /\ assigned[e][KindOf[i]] = i => i \in live
=============================================================================
