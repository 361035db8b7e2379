----------------------------- MODULE Appraisals -----------------------------
(***************************************************************************)
(* Performance cycles, and who may rate whom.  submitRating checks the     *)
(* cycle, then walks up from the employee one manager a query, and writes  *)
(* last; meanwhile the cycle may be closed and managers may change.        *)
(* EmployeesService lists the managers above an employee and the people    *)
(* below one with walks of its own.  Nothing keeps managers from forming a *)
(* ring.  The rating itself, its comments and the KPIs are left out.       *)
(***************************************************************************)
EXTENDS Naturals, Sequences, FiniteSets

CONSTANTS
    Employees, Cycles,
    NoOne, NoCycle,
    MaxHops,            \* MAX_REPORTING_HOPS, 20 in the code
    Depth,              \* of the tree of subordinates, 5 in the code: at most MaxHops
    MaxAsked,           \* bound on the changes of managers and the deletions
    Raters              \* concurrently served submissions

VARIABLES
    manager,            \* employee -> reportingManagerId
    gone,               \* soft-deleted employees
    cycle,              \* id -> status, "NONE" when there is no row
    ratedBy,            \* cycle -> employee -> rater, NoOne when not rated
    job,                \* rater -> submission under way
    asked               \* changes of managers and deletions so far

vars == <<manager, gone, cycle, ratedBy, job, asked>>

Someone == Employees \cup {NoOne}
NoJob == [at |-> "idle", cycle |-> NoCycle, employee |-> NoOne, by |-> NoOne,
          next |-> NoOne, visited |-> {}]

TypeOK ==
    /\ manager \in [Employees -> Someone] /\ gone \subseteq Employees
    /\ cycle \in [Cycles -> {"NONE", "DRAFT", "ACTIVE", "CLOSED"}]
    /\ ratedBy \in [Cycles -> [Employees -> Someone]]
    /\ asked \in 0 .. MaxAsked
    /\ job \in [Raters -> [at : {"idle", "ratee", "walk", "save", "activate", "close"},
                           cycle : Cycles \cup {NoCycle}, employee : Someone, by : Someone,
                           next : Someone, visited : SUBSET Employees]]

Init ==
    /\ manager = [e \in Employees |-> NoOne] /\ gone = {}
    /\ cycle = [c \in Cycles |-> "NONE"]
    /\ ratedBy = [c \in Cycles |-> [e \in Employees |-> NoOne]]
    /\ job = [r \in Raters |-> NoJob] /\ asked = 0

Begin(r, j) == job[r] = NoJob /\ job' = [job EXCEPT ![r] = j]
Goto(r, j) == job' = [job EXCEPT ![r] = j]
Done(r) == Goto(r, NoJob)
Live(e) == e \in Employees \ gone

-----------------------------------------------------------------------------
CreateCycle(c, status) ==
    /\ cycle[c] = "NONE"
    /\ cycle' = [cycle EXCEPT ![c] = status]
    /\ UNCHANGED <<manager, gone, ratedBy, job, asked>>

(* activateCycle and closeCycle *)
CycleRead(r, c, step) ==
    /\ cycle[c] = IF step = "activate" THEN "DRAFT" ELSE "ACTIVE"
    /\ Begin(r, [NoJob EXCEPT !.at = step, !.cycle = c])
    /\ UNCHANGED <<manager, gone, cycle, ratedBy, asked>>

CycleWrite(r) ==
    /\ job[r].at \in {"activate", "close"}
    /\ cycle' = [cycle EXCEPT ![job[r].cycle] =
                    IF job[r].at = "activate" THEN "ACTIVE" ELSE "CLOSED"]
    /\ Done(r)
    /\ UNCHANGED <<manager, gone, ratedBy, asked>>

(* Fault: a cycle that is not open is not refused. *)
SubmitAnyCycle(r, c, e, by) ==
    /\ cycle[c] # "NONE"
    /\ Begin(r, [NoJob EXCEPT !.at = "ratee", !.cycle = c, !.employee = e, !.by = by])
    /\ UNCHANGED <<manager, gone, cycle, ratedBy, asked>>

SubmitRead(r, c, e, by) ==
    /\ cycle[c] = "ACTIVE"
    /\ Begin(r, [NoJob EXCEPT !.at = "ratee", !.cycle = c, !.employee = e, !.by = by])
    /\ UNCHANGED <<manager, gone, cycle, ratedBy, asked>>

RateeRead(r) ==
    LET j == job[r]
    IN /\ j.at = "ratee"
       /\ IF Live(j.employee) /\ j.employee # j.by
          THEN Goto(r, [j EXCEPT !.at = "walk", !.visited = {j.employee},
                                 !.next = manager[j.employee]])
          ELSE Done(r)
       /\ UNCHANGED <<manager, gone, cycle, ratedBy, asked>>

(* One turn of assertRaterInReportingChain.  A turn adds a manager to      *)
(* visited, so their number is the number of hops.                         *)
Walk(r) ==
    LET j == job[r]
    IN /\ j.at = "walk"
       /\ IF \/ j.next = NoOne \/ Cardinality(j.visited) > MaxHops
             \/ j.next # j.by /\ (j.next \in j.visited \/ ~Live(j.next))
          THEN Done(r)
          ELSE IF j.next = j.by THEN Goto(r, [j EXCEPT !.at = "save"])
          ELSE Goto(r, [j EXCEPT !.visited = @ \cup {j.next}, !.next = manager[j.next]])
       /\ UNCHANGED <<manager, gone, cycle, ratedBy, asked>>

Save(r) ==
    /\ job[r].at = "save"
    /\ ratedBy' = [ratedBy EXCEPT ![job[r].cycle][job[r].employee] = job[r].by]
    /\ Done(r)
    /\ UNCHANGED <<manager, gone, cycle, asked>>

-----------------------------------------------------------------------------
(* EmployeesService.update with a reportingManagerId; remove and restore.  *)
Ask == asked < MaxAsked /\ asked' = asked + 1

SetManager(e, m) ==
    /\ Live(e) /\ Live(m) /\ manager[e] # m /\ Ask
    /\ manager' = [manager EXCEPT ![e] = m]
    /\ UNCHANGED <<gone, cycle, ratedBy, job>>

Remove(e) ==
    /\ Live(e) /\ Ask
    /\ gone' = gone \cup {e}
    /\ UNCHANGED <<manager, cycle, ratedBy, job>>

Restore(e) ==
    /\ e \in gone /\ Ask
    /\ gone' = gone \ {e}
    /\ UNCHANGED <<manager, cycle, ratedBy, job>>

Next ==
    \/ \E c \in Cycles, s \in {"DRAFT", "ACTIVE", "CLOSED"} : CreateCycle(c, s)
    \/ \E r \in Raters :
          \/ \E c \in Cycles : \/ \E step \in {"activate", "close"} : CycleRead(r, c, step)
                               \/ \E e, by \in Employees : SubmitRead(r, c, e, by)
          \/ CycleWrite(r) \/ RateeRead(r) \/ Walk(r) \/ Save(r)
    \/ \E e \in Employees : \/ Remove(e) \/ Restore(e)
                            \/ \E m \in Employees : SetManager(e, m)

Spec == Init /\ [][Next]_vars

-----------------------------------------------------------------------------
(* Fault: no guard against rings. *)
ReportingChainInRings(e) ==
    LET chain[n \in 0 .. MaxHops] ==
            IF n = 0 THEN <<>>
            ELSE LET above == chain[n - 1]
                     top == IF above = <<>> THEN e ELSE above[Len(above)]
                 IN IF Len(above) = n - 1 /\ Live(manager[top])
                    THEN Append(above, manager[top]) ELSE above
    IN chain[MaxHops]

(* getReportingChain: the managers above e, nearest first. *)
ReportingChain(e) ==
    LET chain[n \in 0 .. MaxHops] ==
            IF n = 0 THEN <<>>
            ELSE LET above == chain[n - 1]
                     top == IF above = <<>> THEN e ELSE above[Len(above)]
                     next == manager[top]
                 IN IF /\ Len(above) = n - 1 /\ Live(next) /\ next # e
                       /\ \A i \in DOMAIN above : above[i] # next
                    THEN Append(above, next) ELSE above
    IN chain[MaxHops]

(* getSubordinates: the level each employee below root is found at. *)
Subordinates(root) ==
    LET found[n \in 0 .. Depth] ==      \* visited, by level
            IF n = 0 THEN {<<root, 0>>}
            ELSE LET seen == found[n - 1]
                 IN seen \cup {<<e, n>> : e \in {e \in Employees \ gone :
                        /\ <<manager[e], n - 1>> \in seen
                        /\ \A k \in 0 .. n - 1 : <<e, k>> \notin seen}}
    IN found[Depth] \ {<<root, 0>>}

-----------------------------------------------------------------------------
(* PROPERTIES *)

(* A path of n managers leads from e up to m, through live ones. *)
Above(e, m) ==
    \E n \in 1 .. MaxHops : \E path \in [0 .. n -> Employees] :
        /\ path[0] = e /\ path[n] = m /\ m # e
        /\ \A i \in 0 .. n - 1 : manager[path[i]] = path[i + 1] /\ Live(path[i])

(* A rating is written in an open cycle, by a rater who stands above the   *)
(* employee.  (The rater may be deleted: the walk compares ids first.)     *)
RatedFromAbove ==
    \A c \in Cycles, e \in Employees :
        ratedBy'[c][e] # ratedBy[c][e] => cycle[c] = "ACTIVE" /\ Above(e, ratedBy'[c][e])

(* The two walks of the org chart agree, rings or not: an employee is on   *)
(* level n below a manager exactly when the manager is the n-th above.     *)
ChartsAgree ==
    \A m, e \in Employees \ gone : \A n \in 1 .. Depth :
        <<e, n>> \in Subordinates(m) <=>
            n <= Len(ReportingChain(e)) /\ ReportingChain(e)[n] = m

(* A submission is under way. *)
Submitting == \E r \in Raters : job[r].at \in {"ratee", "walk", "save"}
=============================================================================
