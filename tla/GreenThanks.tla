---------------------------- MODULE GreenThanks ----------------------------
(***************************************************************************)
(* Points that employees give each other within a quarterly limit, their   *)
(* approval or rejection, and their payment.  create sums what the sender  *)
(* gave this quarter in one statement and inserts in a later one; a review *)
(* checks the status and writes by id; payroll picks and marks.            *)
(***************************************************************************)
EXTENDS Integers, FiniteSetsExt

CONSTANTS
    Employees, Thanks,  \* GreenThanks ids
    Points,             \* values of dto.points
    Limit,              \* quarterlyLimitPoints
    Quarters,           \* the quarters considered, 1..n
    NoId, NoOne,
    Tabs,               \* requests to send that one employee has under way
    Approvers,          \* concurrently served reviews
    Passes              \* payroll passes under way at a time

Senders == Employees \X Tabs
Clients == Senders \cup Approvers \cup Passes

VARIABLES
    thanks,     \* id -> GreenThanks row, status "none" when there is none
    quarter,    \* the current quarter
    pc, job     \* client -> its next statement, and what it has read

vars == <<thanks, quarter, pc, job>>

NoRow == [from |-> NoOne, to |-> NoOne, points |-> 0, status |-> "none",
          quarter |-> 1, paid |-> FALSE]
NoJob == [to |-> NoOne, points |-> 0, id |-> NoId, picked |-> {}]

TypeOK ==
    /\ thanks \in [Thanks ->
           [from : Employees \cup {NoOne}, to : Employees \cup {NoOne},
            points : Points \cup {0}, quarter : Quarters, paid : BOOLEAN,
            status : {"none", "pending", "approved", "rejected"}]]
    /\ \A t \in Thanks : thanks[t].status # "none" => thanks[t].from # thanks[t].to
    /\ quarter \in Quarters
    /\ pc \in [Clients -> {"idle", "create", "approve", "reject", "mark"}]
    /\ job \in [Clients -> [to : Employees \cup {NoOne}, points : Points \cup {0},
                            id : Thanks \cup {NoId}, picked : SUBSET Thanks]]

Init ==
    /\ thanks = [t \in Thanks |-> NoRow]
    /\ quarter = 1
    /\ pc = [c \in Clients |-> "idle"]
    /\ job = [c \in Clients |-> NoJob]

Step(c, to, j) == pc' = [pc EXCEPT ![c] = to] /\ job' = [job EXCEPT ![c] = j]
Finish(c) == Step(c, "idle", NoJob)

-----------------------------------------------------------------------------
(* Fault: only what is approved counts against the limit. *)
SentApproved(e, q) ==
    MapThenSumSet(LAMBDA t : thanks[t].points,
        {t \in Thanks : /\ thanks[t].from = e /\ thanks[t].quarter = q
                        /\ thanks[t].status = "approved"})

(* What e has given in quarter q, as create() counts it. *)
Sent(e, q) ==
    MapThenSumSet(LAMBDA t : thanks[t].points,
        {t \in Thanks : /\ thanks[t].from = e /\ thanks[t].quarter = q
                        /\ thanks[t].status \notin {"none", "rejected"}})

(* Fault: the sender may be the receiver. *)
CreateToAnyone(c, to, points) ==
    /\ pc[c] = "idle"
    /\ Sent(c[1], quarter) + points <= Limit
    /\ Step(c, "create", [job[c] EXCEPT !.to = to, !.points = points])
    /\ UNCHANGED <<thanks, quarter>>

CreateRead(c, to, points) ==
    /\ pc[c] = "idle"
    /\ to # c[1]
    /\ Sent(c[1], quarter) + points <= Limit
    /\ Step(c, "create", [job[c] EXCEPT !.to = to, !.points = points])
    /\ UNCHANGED <<thanks, quarter>>

(* createdAt is set when the row is inserted. *)
CreateWrite(c, t) ==
    /\ pc[c] = "create"
    /\ thanks[t].status = "none"
    /\ thanks' = [thanks EXCEPT ![t] =
           [from |-> c[1], to |-> job[c].to, points |-> job[c].points,
            status |-> "pending", quarter |-> quarter, paid |-> FALSE]]
    /\ Finish(c)
    /\ UNCHANGED quarter

ReviewRead(c, t, verdict) ==
    /\ pc[c] = "idle"
    /\ thanks[t].status = "pending"
    /\ Step(c, verdict, [job[c] EXCEPT !.id = t])
    /\ UNCHANGED <<thanks, quarter>>

ApproveWrite(c) ==
    /\ pc[c] = "approve"
    /\ thanks' = [thanks EXCEPT ![job[c].id].status = "approved"]
    /\ Finish(c)
    /\ UNCHANGED quarter

RejectWrite(c) ==
    /\ pc[c] = "reject"
    /\ thanks' = [thanks EXCEPT ![job[c].id].status = "rejected"]
    /\ Finish(c)
    /\ UNCHANGED quarter

(* Approved and unpaid entries for one employee in the payroll's period.   *)
(* The period is not modelled: any part of them may belong to it.          *)
PickThanks(c, e, ids) ==
    /\ pc[c] = "idle"
    /\ ids # {}
    /\ \A t \in ids : /\ thanks[t].to = e /\ thanks[t].status = "approved"
                      /\ ~thanks[t].paid
    /\ Step(c, "mark", [job[c] EXCEPT !.picked = ids])
    /\ UNCHANGED <<thanks, quarter>>

MarkPaid(c) ==
    /\ pc[c] = "mark"
    /\ thanks' = [t \in Thanks |-> IF t \in job[c].picked THEN [thanks[t] EXCEPT !.paid = TRUE]
                                   ELSE thanks[t]]
    /\ Finish(c)
    /\ UNCHANGED quarter

NextQuarter ==
    /\ quarter + 1 \in Quarters
    /\ quarter' = quarter + 1
    /\ UNCHANGED <<thanks, pc, job>>

(* A statement fails, or the process dies: the request ends where it is. *)
Abandon(c) ==
    /\ pc[c] # "idle"
    /\ Finish(c)
    /\ UNCHANGED <<thanks, quarter>>

Next ==
    \/ NextQuarter
    \/ \E c \in Senders : \/ \E to \in Employees, p \in Points : CreateRead(c, to, p)
                          \/ \E t \in Thanks : CreateWrite(c, t)
    \/ \E c \in Approvers : \/ \E t \in Thanks, v \in {"approve", "reject"} : ReviewRead(c, t, v)
                            \/ ApproveWrite(c)
                            \/ RejectWrite(c)
    \/ \E c \in Passes : \/ \E e \in Employees, ids \in SUBSET Thanks : PickThanks(c, e, ids)
                         \/ MarkPaid(c)
    \/ \E c \in Clients : Abandon(c)

Spec == Init /\ [][Next]_vars

-----------------------------------------------------------------------------
(* PROPERTIES *)

(* Nobody gives more than the limit in a quarter: rejected points may be   *)
(* given again, approved and pending ones may not, and a request that      *)
(* straddles the quarter's end counts in the new one.                      *)
QuotaIsKept == \A e \in Employees, q \in Quarters : Sent(e, q) <= Limit

(* Payroll pays approved entries only, and what it paid stays approved. *)
PaidIsApproved == \A t \in Thanks : thanks[t].paid => thanks[t].status = "approved"
=============================================================================
