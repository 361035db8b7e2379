---------------------------- MODULE Disciplinary ----------------------------
(***************************************************************************)
(* Disciplinary memos of an employee, and the flag for a termination       *)
(* review that the fifth one raises.  create reads the employee, inserts   *)
(* the memo, counts, and flags by what it had read, in four statements.    *)
(* No code closes a memo or takes a flag back.                             *)
(***************************************************************************)
EXTENDS Naturals

CONSTANTS
    Employees,
    Threshold,          \* TERMINATION_REVIEW_THRESHOLD
    MaxMemos,           \* bound on the memos of an employee
    NoOne,
    Desks               \* concurrently served requests

VARIABLES
    memos,              \* employee -> active memos
    flagged,            \* employees with flaggedForTerminationReview
    notices,            \* employee -> mails about the review, up to two
    job

vars == <<memos, flagged, notices, job>>

NoJob == [at |-> "idle", employee |-> NoOne, flagged |-> FALSE]

TypeOK ==
    /\ memos \in [Employees -> 0 .. MaxMemos] /\ flagged \subseteq Employees
    /\ notices \in [Employees -> 0 .. 2]
    /\ job \in [Desks -> [at : {"idle", "insert", "count", "flag", "notify"},
                          employee : Employees \cup {NoOne}, flagged : BOOLEAN]]

Init ==
    /\ memos = [e \in Employees |-> 0] /\ flagged = {}
    /\ notices = [e \in Employees |-> 0]
    /\ job = [d \in Desks |-> NoJob]

Goto(d, at) == job' = [job EXCEPT ![d].at = at]
Done(d) == job' = [job EXCEPT ![d] = NoJob]

Read(d, e) ==
    /\ job[d] = NoJob
    /\ job' = [job EXCEPT ![d] = [at |-> "insert", employee |-> e, flagged |-> e \in flagged]]
    /\ UNCHANGED <<memos, flagged, notices>>

Insert(d) ==
    LET e == job[d].employee
    IN /\ job[d].at = "insert" /\ memos[e] < MaxMemos
       /\ memos' = [memos EXCEPT ![e] = @ + 1]
       /\ Goto(d, "count")
       /\ UNCHANGED <<flagged, notices>>

Count(d) ==
    /\ job[d].at = "count"
    /\ IF memos[job[d].employee] >= Threshold /\ ~job[d].flagged THEN Goto(d, "flag") ELSE Done(d)
    /\ UNCHANGED <<memos, flagged, notices>>

Flag(d) ==
    /\ job[d].at = "flag"
    /\ flagged' = flagged \cup {job[d].employee}
    /\ Goto(d, "notify")
    /\ UNCHANGED <<memos, notices>>

(* Errors of the mail are swallowed. *)
Notify(d) ==
    LET e == job[d].employee
    IN /\ job[d].at = "notify"
       /\ notices' = [notices EXCEPT ![e] = IF @ < 2 THEN @ + 1 ELSE @]
       /\ Done(d)
       /\ UNCHANGED <<memos, flagged>>

Fail(d) == job[d] # NoJob /\ Done(d) /\ UNCHANGED <<memos, flagged, notices>>

Next == \E d \in Desks :
    \/ \E e \in Employees : Read(d, e)
    \/ Insert(d) \/ Count(d) \/ Flag(d) \/ Notify(d) \/ Fail(d)

Spec == Init /\ [][Next]_vars

-----------------------------------------------------------------------------
(* PROPERTIES *)

Serving(e) == {d \in Desks : job[d].employee = e}
Overlap == \E e \in Employees : \E c, d \in Serving(e) : c # d

(* Whatever interleaves or dies, nobody is flagged, or written about,      *)
(* before the threshold.                                                   *)
FlagIsEarned ==
    \A e \in Employees : e \in flagged \/ notices[e] > 0 => memos[e] >= Threshold

(* When no request is served, an employee is flagged who has reached the   *)
(* threshold, and HR has been told once.                                   *)
ReviewIsDue ==
    \A e \in Employees : Serving(e) = {} =>
        /\ e \in flagged <=> memos[e] >= Threshold
        /\ notices[e] = IF e \in flagged THEN 1 ELSE 0
=============================================================================
