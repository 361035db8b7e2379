-------------------------- MODULE LeaveManagement --------------------------
(***************************************************************************)
(* Leave applications, the balance rows they are paid from, the monthly    *)
(* accrual job and the special leave granted through a service request.    *)
(*                                                                         *)
(* A handler is a sequence of awaited statements, one action each; what it *)
(* has read lives in job[w].  The deduction reads a balance row, checks it *)
(* and writes absolute values back, outside any transaction; the accrual   *)
(* increments in place; a special grant is one transaction that reads a    *)
(* snapshot and writes when it commits (InnoDB, repeatable read).          *)
(* Days are counted in units of the accrual, dates in days of a calendar.  *)
(***************************************************************************)
EXTENDS Integers, FiniteSetsExt

CONSTANTS
    Employees, Types,   \* LeavePolicyType rows of one organization
    Years, ThisYear,    \* ThisYear: the year the accrual job works on
    Spans,              \* the date ranges asked for, each a set of dates
    YearOf,             \* span -> the year of its fromDate
    Days,               \* values of dto.days
    Holidays,           \* dates of the organization's holidays
    MaxConsecutive,     \* LeavePolicyType.maxConsecutiveDays
    Monthly,            \* daysPerYear / 12
    DaysPerYear,
    Months,             \* the accrual job runs at most this often
    Applications,       \* LeaveApplication ids
    Requests,           \* ServiceRequest ids of category SPECIAL_LEAVE
    NoId,               \* no application or request
    Workers,            \* concurrently served requests
    Crashes             \* a handler may die between two statements

Rows == Employees \X Types \X Years

ASSUME ConstantsAssumption ==
    /\ Employees # {} /\ Types # {} /\ Spans # {} /\ ThisYear \in Years
    /\ YearOf \in [Spans -> Years]
    /\ Days \subseteq Nat \ {0} /\ Days # {}
    /\ {Monthly, DaysPerYear, Months, MaxConsecutive} \subseteq Nat
    /\ Crashes \in BOOLEAN

VARIABLES
    bal,        \* row -> LeaveBalance
    app,        \* id -> LeaveApplication, status "NONE" when there is no row
    request,    \* id -> ServiceRequest
    month,      \* how often the accrual job has started
    cron,       \* the rows the running accrual job has still to visit
    charged,    \* application -> how often its days were deducted (history)
    pc, job     \* worker -> its next statement, and what it has read

vars == <<bal, app, request, month, cron, charged, pc, job>>
books == <<bal, charged>>
accrual == <<month, cron>>

Row == [exists : BOOLEAN, entitled : Nat, taken : Nat, left : Int]
NoRow == [exists |-> FALSE, entitled |-> 0, taken |-> 0, left |-> 0]
FullYear == [exists |-> TRUE, entitled |-> DaysPerYear, taken |-> 0, left |-> DaysPerYear]

Status == {"NONE", "PENDING", "APPROVED", "REJECTED", "CANCELLED"}
Live == {"PENDING", "APPROVED"}
Leave == [row : Rows, span : Spans, days : Days]
AnyLeave == [row |-> CHOOSE r \in Rows : TRUE, span |-> CHOOSE s \in Spans : TRUE,
             days |-> CHOOSE d \in Days : TRUE]
Idle == [app |-> NoId, request |-> NoId, leave |-> AnyLeave, read |-> NoRow]

PC == {"idle", "checkBalance", "checkOverlap", "create", "cancel", "reject",
       "deductRead", "deductWrite", "approve", "grantOverlap", "grantBegin", "grantCommit"}

TypeOK ==
    /\ bal \in [Rows -> Row]
    /\ app \in [Applications -> [status : Status, special : BOOLEAN, leave : Leave]]
    /\ request \in [Requests -> [status : {"NONE", "OPEN", "RESOLVED"}, leave : Leave]]
    /\ month \in 0..Months
    /\ cron \in SUBSET Rows
    /\ charged \in [Applications -> Nat]
    /\ pc \in [Workers -> PC]
    /\ job \in [Workers -> [app : Applications \cup {NoId}, request : Requests \cup {NoId},
                            leave : Leave, read : Row]]

Init ==
    /\ bal = [r \in Rows |-> NoRow]
    /\ app = [a \in Applications |-> [status |-> "NONE", special |-> FALSE, leave |-> AnyLeave]]
    /\ request = [q \in Requests |-> [status |-> "NONE", leave |-> AnyLeave]]
    /\ month = 0 /\ cron = {}
    /\ charged = [a \in Applications |-> 0]
    /\ pc = [w \in Workers |-> "idle"]
    /\ job = [w \in Workers |-> Idle]

Goto(w, to) == pc' = [pc EXCEPT ![w] = to]
Note(w, j) == job' = [job EXCEPT ![w] = j]
Done(w) == Goto(w, "idle") /\ Note(w, Idle)

(* The dates of two ranges meet, for one employee, whatever the leave type. *)
Clash(l, k) == l.row[1] = k.row[1] /\ l.span \cap k.span # {}
Asked(e, t, s, d) == [row |-> <<e, t, YearOf[s]>>, span |-> s, days |-> d]

(* An id no row has and no request in flight is about to insert. *)
Fresh(a) ==
    /\ app[a].status = "NONE"
    /\ \A w \in Workers : pc[w] # "idle" => job[w].app # a

-----------------------------------------------------------------------------
(* initializeForEmployee: the upsert whose update is empty. *)
Initialized(r) == [bal EXCEPT ![r] = IF @.exists THEN @ ELSE FullYear]

(* getMyBalance, and the approval of an onboarding, initialize rows too. *)
InitBalance(r) ==
    /\ ~bal[r].exists
    /\ bal' = Initialized(r)
    /\ UNCHANGED <<app, request, accrual, charged, pc, job>>

-----------------------------------------------------------------------------
(* LeaveApplicationsService.apply.  The policy and the holidays are data   *)
(* this model keeps constant; the upsert is the first statement that counts. *)
Apply(w, a, e, t, s, d) ==
    /\ pc[w] = "idle"
    /\ Fresh(a)
    /\ d <= MaxConsecutive
    /\ s \cap Holidays = {}
    /\ bal' = Initialized(<<e, t, YearOf[s]>>)
    /\ Note(w, [job[w] EXCEPT !.app = a, !.leave = Asked(e, t, s, d)])
    /\ Goto(w, "checkBalance")
    /\ UNCHANGED <<app, request, accrual, charged>>

CheckBalance(w) ==
    /\ pc[w] = "checkBalance"
    /\ IF bal[job[w].leave.row].left < job[w].leave.days
       THEN Done(w)
       ELSE Goto(w, "checkOverlap") /\ UNCHANGED job
    /\ UNCHANGED <<books, app, request, accrual>>

(* Fault: the query forgets the approved applications. *)
OverlapsPending(l) == \E b \in Applications : app[b].status = "PENDING" /\ Clash(app[b].leave, l)

Overlaps(l) == \E b \in Applications : app[b].status \in Live /\ Clash(app[b].leave, l)

CheckOverlap(w) ==
    /\ pc[w] = "checkOverlap"
    /\ IF Overlaps(job[w].leave) THEN Done(w) ELSE Goto(w, "create") /\ UNCHANGED job
    /\ UNCHANGED <<books, app, request, accrual>>

CreateApplication(w) ==
    /\ pc[w] = "create"
    /\ app' = [app EXCEPT ![job[w].app] =
                  [status |-> "PENDING", special |-> FALSE, leave |-> job[w].leave]]
    /\ Done(w)
    /\ UNCHANGED <<books, request, accrual>>

-----------------------------------------------------------------------------
(* cancel, reject and approve read the application, check that it is       *)
(* PENDING, and later write its status by id alone.                        *)

Decide(w, a, to) ==
    /\ pc[w] = "idle"
    /\ app[a].status = "PENDING"
    /\ Note(w, [job[w] EXCEPT !.app = a, !.leave = app[a].leave])
    /\ Goto(w, to)
    /\ UNCHANGED <<books, app, request, accrual>>

CancelRead(w, a) == Decide(w, a, "cancel")
RejectRead(w, a) == Decide(w, a, "reject")
(* Fault: the status is written without the deduction. *)
ApproveUncharged(w, a) == Decide(w, a, "approve")
ApproveRead(w, a) == Decide(w, a, "deductRead")

WriteStatus(w, at, to) ==
    /\ pc[w] = at
    /\ app' = [app EXCEPT ![job[w].app] = [@ EXCEPT !.status = to]]
    /\ Done(w)
    /\ UNCHANGED <<books, request, accrual>>

CancelWrite(w) == WriteStatus(w, "cancel", "CANCELLED")
RejectWrite(w) == WriteStatus(w, "reject", "REJECTED")
ApproveWrite(w) == WriteStatus(w, "approve", "APPROVED")

(* Fault: the sufficiency check is left out, as if force were the default. *)
DeductReadForced(w) ==
    /\ pc[w] = "deductRead"
    /\ Note(w, [job[w] EXCEPT !.read = bal[job[w].leave.row]])
    /\ Goto(w, "deductWrite")
    /\ UNCHANGED <<books, app, request, accrual>>

(* deductBalance *)
DeductRead(w) ==
    /\ pc[w] = "deductRead"
    /\ LET row == bal[job[w].leave.row]
       IN IF row.exists /\ row.left >= job[w].leave.days
          THEN Note(w, [job[w] EXCEPT !.read = row]) /\ Goto(w, "deductWrite")
          ELSE Done(w)
    /\ UNCHANGED <<books, app, request, accrual>>

(* Fault: takenDays is set to the days of this leave alone. *)
SpentOverwrites(row, read, d) == [row EXCEPT !.taken = d, !.left = read.left - d]

(* The columns deductBalance writes, computed from the row as it was read. *)
Spent(row, read, d) == [row EXCEPT !.taken = read.taken + d, !.left = read.left - d]

DeductWrite(w) ==
    /\ pc[w] = "deductWrite"
    /\ LET l == job[w].leave
       IN bal' = [bal EXCEPT ![l.row] = Spent(@, job[w].read, l.days)]
    /\ charged' = [charged EXCEPT ![job[w].app] = @ + 1]
    /\ Goto(w, "approve")
    /\ UNCHANGED <<app, request, accrual, job>>

-----------------------------------------------------------------------------
(* ServiceRequestsService: SPECIAL_LEAVE requests and grantSpecialLeave.    *)
(* "OPEN" stands for every status but RESOLVED and CLOSED.                  *)
RaiseRequest(q, e, t, s, d) ==
    /\ request[q].status = "NONE"
    /\ request' = [request EXCEPT ![q] = [status |-> "OPEN", leave |-> Asked(e, t, s, d)]]
    /\ UNCHANGED <<books, app, accrual, pc, job>>

GrantRead(w, q, a) ==
    /\ pc[w] = "idle"
    /\ request[q].status = "OPEN"
    /\ Fresh(a)
    /\ request[q].leave.span \cap Holidays = {}
    /\ Note(w, [job[w] EXCEPT !.app = a, !.request = q, !.leave = request[q].leave])
    /\ Goto(w, "grantOverlap")
    /\ UNCHANGED <<books, app, request, accrual>>

GrantOverlap(w) ==
    /\ pc[w] = "grantOverlap"
    /\ IF Overlaps(job[w].leave) THEN Done(w) ELSE Goto(w, "grantBegin") /\ UNCHANGED job
    /\ UNCHANGED <<books, app, request, accrual>>

(* The transaction's snapshot. *)
GrantBegin(w) ==
    /\ pc[w] = "grantBegin"
    /\ Note(w, [job[w] EXCEPT !.read = bal[job[w].leave.row]])
    /\ Goto(w, "grantCommit")
    /\ UNCHANGED <<books, app, request, accrual>>

(* The transaction's writes.  It fails on the unique key when it found no  *)
(* row and somebody has inserted one since.                                *)
GrantCommit(w) ==
    LET l == job[w].leave
        seen == IF job[w].read.exists THEN job[w].read ELSE FullYear
    IN /\ pc[w] = "grantCommit"
       /\ \/ /\ bal[l.row].exists = job[w].read.exists
             /\ bal' = [bal EXCEPT ![l.row] =
                           Spent(IF @.exists THEN @ ELSE FullYear, seen, l.days)]
             /\ app' = [app EXCEPT ![job[w].app] =
                           [status |-> "APPROVED", special |-> TRUE, leave |-> l]]
             /\ request' = [request EXCEPT ![job[w].request] = [@ EXCEPT !.status = "RESOLVED"]]
             /\ charged' = [charged EXCEPT ![job[w].app] = @ + 1]
          \/ /\ bal[l.row].exists # job[w].read.exists
             /\ UNCHANGED <<books, app, request>>
       /\ Done(w)
       /\ UNCHANGED accrual

-----------------------------------------------------------------------------
(* accrueMonthly: the rows of the active employees whose policy accrues    *)
(* monthly (any of them), listed once, then one upsert per row.            *)
AccrueStart ==
    /\ cron = {}
    /\ month < Months
    /\ month' = month + 1
    /\ \E S \in SUBSET (Employees \X Types \X {ThisYear}) : cron' = S
    /\ UNCHANGED <<books, app, request, pc, job>>

(* Fault: the increment leaves out entitledDays. *)
AccruedLeftOnly(row) ==
    [exists |-> TRUE, entitled |-> IF row.exists THEN row.entitled ELSE Monthly,
     taken |-> row.taken, left |-> row.left + Monthly]

Accrued(row) ==
    [exists |-> TRUE, entitled |-> row.entitled + Monthly,
     taken |-> row.taken, left |-> row.left + Monthly]

AccrueRow(r) ==
    /\ r \in cron
    /\ bal' = [bal EXCEPT ![r] = Accrued(@)]
    /\ cron' = cron \ {r}
    /\ UNCHANGED <<app, request, month, charged, pc, job>>

-----------------------------------------------------------------------------
(* The process dies, or a statement fails: the handler stops where it is.  *)
Crash(w) ==
    /\ Crashes
    /\ pc[w] # "idle"
    /\ Done(w)
    /\ UNCHANGED <<books, app, request, accrual>>

CrashCron ==
    /\ Crashes
    /\ cron # {}
    /\ cron' = {}
    /\ UNCHANGED <<books, app, request, month, pc, job>>

Serve(w) ==
    \/ \E a \in Applications, e \in Employees, t \in Types, s \in Spans, d \in Days :
          Apply(w, a, e, t, s, d)
    \/ CheckBalance(w) \/ CheckOverlap(w) \/ CreateApplication(w)
    \/ \E a \in Applications : CancelRead(w, a) \/ RejectRead(w, a) \/ ApproveRead(w, a)
    \/ CancelWrite(w) \/ RejectWrite(w) \/ ApproveWrite(w)
    \/ DeductRead(w) \/ DeductWrite(w)
    \/ \E q \in Requests, a \in Applications : GrantRead(w, q, a)
    \/ GrantOverlap(w) \/ GrantBegin(w) \/ GrantCommit(w)
    \/ Crash(w)

Next ==
    \/ \E w \in Workers : Serve(w)
    \/ \E r \in Rows : InitBalance(r) \/ AccrueRow(r)
    \/ \E q \in Requests, e \in Employees, t \in Types, s \in Spans, d \in Days :
          RaiseRequest(q, e, t, s, d)
    \/ AccrueStart
    \/ CrashCron

Spec == Init /\ [][Next]_vars

-----------------------------------------------------------------------------
(* PROPERTIES *)

(* No balance row accounts for more days than it is entitled to, however   *)
(* deductions, grants and the accrual overwrite each other: a lost update  *)
(* may lose days, it never makes them.  Until the accrual first runs not   *)
(* even that: taken and remaining days add up to the entitlement, also     *)
(* after racing or repeated deductions.                                    *)
DaysAddUp ==
    \A r \in Rows :
        /\ bal[r].taken + bal[r].left <= bal[r].entitled
        /\ month = 0 => bal[r].taken + bal[r].left = bal[r].entitled

(* A balance below zero comes from a special leave, the one caller of      *)
(* deductBalance with force: stale reads never overdraw a row.             *)
OnlySpecialOverdraws ==
    \A r \in Rows : bal[r].left < 0 =>
        \E a \in Applications : app[a].special /\ app[a].leave.row = r

(* An approved leave was paid from its balance row at least once, whatever *)
(* died in between.                                                        *)
ApprovedIsCharged ==
    \A a \in Applications : app[a].status = "APPROVED" => charged[a] >= 1

(* No two live applications of one employee have a date in common. *)
NoOverlap ==
    \A a, b \in Applications :
        /\ a # b
        /\ app[a].status \in Live /\ app[b].status \in Live
        => ~Clash(app[a].leave, app[b].leave)

(* A row's taken days are the days deducted from it, counted application   *)
(* by application.                                                         *)
TakenIsCharged ==
    \A r \in Rows :
        bal[r].taken =
            MapThenSumSet(LAMBDA a : charged[a] * app[a].leave.days,
                {a \in Applications : app[a].status # "NONE" /\ app[a].leave.row = r})

(* Two requests are being served at the same time. *)
Racing == \E v, w \in Workers : v # w /\ pc[v] # "idle" /\ pc[w] # "idle"
=============================================================================
