------------------------------ MODULE LoanBook ------------------------------
(***************************************************************************)
(* The loans of one employee, from the application to the last deduction,  *)
(* with their amounts.  approve and reject check the status in one         *)
(* statement and write by id in a later one; approve writes the loan and   *)
(* its schedule together.  Payroll marks the instalments of a month as     *)
(* deducted and then closes the loans that have none left.                 *)
(***************************************************************************)
EXTENDS EmiSchedule, Sequences

CONSTANTS
    Loans,
    Amounts, Tenures,   \* values of amountRequested and tenureMonths
    Revised,            \* values of ApproveLoanDto.amountApproved, 0 when absent
    Terms,              \* values of ApproveLoanDto.tenureMonths, 0 when absent
    Rates,              \* ApproveLoanDto.interestRate as monthly fractions [num, den]
    Start,              \* the month in which loans are approved
    NoLoan,
    Officers,           \* concurrently served approvals and rejections
    Passes              \* payroll passes over the employee under way at a time

Desks == Officers \cup Passes

VARIABLES
    loan,       \* id -> LoanApplication
    schedule,   \* id -> its LoanEmiSchedule rows, in order of creation
    pc, job     \* desk -> its next statement, and what it has read

vars == <<loan, schedule, pc, job>>

NoTerms == [status |-> "NONE", amount |-> 0, tenure |-> 0]
NoJob == [loan |-> NoLoan, amount |-> 0, tenure |-> 0, rows |-> {}]

TypeOK ==
    /\ loan \in [Loans -> [status : {"NONE", "PENDING", "ACTIVE", "REJECTED", "CLOSED"},
                           amount : Nat, tenure : Nat]]
    /\ \A l \in Loans : schedule[l] \in
           Seq([emi : Int, principal : Int, interest : Nat, balance : Int,
                month : Nat, deducted : BOOLEAN])
    /\ pc \in [Desks -> {"idle", "approve", "reject", "mark", "close"}]
    /\ job \in [Desks -> [loan : Loans \cup {NoLoan}, amount : Nat, tenure : Nat,
                          rows : SUBSET (Loans \X Nat)]]

Init ==
    /\ loan = [l \in Loans |-> NoTerms]
    /\ schedule = [l \in Loans |-> <<>>]
    /\ pc = [d \in Desks |-> "idle"]
    /\ job = [d \in Desks |-> NoJob]

Rows == UNION {{l} \X DOMAIN schedule[l] : l \in Loans}
Row(r) == schedule[r[1]][r[2]]
RowsOf(l) == DOMAIN schedule[l]

Step(d, to, j) == pc' = [pc EXCEPT ![d] = to] /\ job' = [job EXCEPT ![d] = j]
Finish(d) == Step(d, "idle", NoJob)

-----------------------------------------------------------------------------
Apply(l, amount, tenure) ==
    /\ loan[l].status = "NONE"
    /\ loan' = [loan EXCEPT ![l] = [status |-> "PENDING", amount |-> amount, tenure |-> tenure]]
    /\ UNCHANGED <<schedule, pc, job>>

(* dto.amountApproved ?? amountRequested, dto.tenureMonths ?? tenureMonths *)
ApproveRead(d, l, revised, term) ==
    /\ pc[d] = "idle"
    /\ loan[l].status = "PENDING"
    /\ Step(d, "approve",
            [job[d] EXCEPT !.loan = l,
                           !.tenure = IF term = 0 THEN loan[l].tenure ELSE term,
                           !.amount = IF revised = 0 THEN loan[l].amount ELSE revised])
    /\ UNCHANGED <<loan, schedule>>

ApproveWrite(d, rate) ==
    LET l == job[d].loan
        rows == ComputeEmiSchedule(job[d].amount, rate, job[d].tenure, Start)
    IN /\ pc[d] = "approve"
       /\ loan' = [loan EXCEPT ![l] = [status |-> "ACTIVE", amount |-> job[d].amount,
                                       tenure |-> job[d].tenure]]
       /\ schedule' = [schedule EXCEPT ![l] = @ \o rows]
       /\ Finish(d)

RejectRead(d, l) ==
    /\ pc[d] = "idle"
    /\ loan[l].status = "PENDING"
    /\ Step(d, "reject", [job[d] EXCEPT !.loan = l])
    /\ UNCHANGED <<loan, schedule>>

RejectWrite(d) ==
    /\ pc[d] = "reject"
    /\ loan' = [loan EXCEPT ![job[d].loan].status = "REJECTED"]
    /\ Finish(d)
    /\ UNCHANGED schedule

(* getActiveLoanDeductionForPeriod; a run may be for any month. *)
DueRows(month) ==
    {r \in Rows : /\ Row(r).month = month /\ ~Row(r).deducted
                  /\ loan[r[1]].status = "ACTIVE"}

PickRows(d, month) ==
    /\ pc[d] = "idle"
    /\ DueRows(month) # {}
    /\ Step(d, "mark", [job[d] EXCEPT !.rows = DueRows(month)])
    /\ UNCHANGED <<loan, schedule>>

MarkRows(d) ==
    /\ pc[d] = "mark"
    /\ schedule' = [l \in Loans |-> [k \in RowsOf(l) |->
           IF <<l, k>> \in job[d].rows THEN [schedule[l][k] EXCEPT !.deducted = TRUE]
           ELSE schedule[l][k]]]
    /\ Step(d, "close", job[d])
    /\ UNCHANGED loan

(* Fault: a loan counts as repaid as soon as its last instalment is deducted. *)
RepaidByLast(l) == schedule[l][Len(schedule[l])].deducted

Repaid(l) == \A k \in RowsOf(l) : schedule[l][k].deducted

(* The loans the marked rows belong to, one after the other. *)
CloseLoan(d) ==
    /\ pc[d] = "close"
    /\ \E r \in job[d].rows :
          LET left == {s \in job[d].rows : s[1] # r[1]}
          IN /\ loan' = IF Repaid(r[1]) /\ loan[r[1]].status = "ACTIVE"
                        THEN [loan EXCEPT ![r[1]].status = "CLOSED"] ELSE loan
             /\ IF left = {} THEN Finish(d) ELSE Step(d, "close", [job[d] EXCEPT !.rows = left])
    /\ UNCHANGED schedule

(* A statement fails, or the process dies: the request ends where it is. *)
Abandon(d) ==
    /\ pc[d] # "idle"
    /\ Finish(d)
    /\ UNCHANGED <<loan, schedule>>

Decide(d) ==
    \/ \E l \in Loans, a \in Revised, t \in Terms : ApproveRead(d, l, a, t)
    \/ \E r \in Rates : ApproveWrite(d, r)
    \/ \E l \in Loans : RejectRead(d, l)
    \/ RejectWrite(d)

Deduct(d) ==
    \/ \E r \in Rows : PickRows(d, Row(r).month)
    \/ MarkRows(d)
    \/ CloseLoan(d)

Next ==
    \/ \E l \in Loans, a \in Amounts, t \in Tenures : Apply(l, a, t)
    \/ \E d \in Officers : Decide(d)
    \/ \E d \in Passes : Deduct(d)
    \/ \E d \in Desks : Abandon(d)

Spec == Init /\ [][Next]_vars

-----------------------------------------------------------------------------
(* PROPERTIES *)

PrincipalOf(l, rows) == MapThenSumSet(LAMBDA k : schedule[l][k].principal, rows)
Unpaid(l) == {k \in RowsOf(l) : ~schedule[l][k].deducted}

(* A granted loan has one schedule: its instalments' principals add up to  *)
(* the approved amount to the cent, each balance is what the later         *)
(* instalments repay, and the last one is zero.                            *)
ScheduleRepaysLoan ==
    \A l \in Loans : loan[l].status \in {"ACTIVE", "CLOSED"} =>
        /\ Len(schedule[l]) = loan[l].tenure
        /\ PrincipalOf(l, RowsOf(l)) = loan[l].amount
        /\ \A k \in RowsOf(l) : schedule[l][k].balance =
               PrincipalOf(l, {j \in RowsOf(l) : j > k})

(* Every instalment repays something and none leaves a negative balance:   *)
(* the balance falls from the approved amount to zero.  (True of amounts   *)
(* that are large against a cent for each instalment.)                     *)
BalanceFalls ==
    \A l \in Loans : \A k \in RowsOf(l) :
        schedule[l][k].principal > 0 /\ schedule[l][k].balance >= 0

(* Payroll closes a loan only when all its instalments are deducted,       *)
(* whatever order the months are run in.                                   *)
ClosedIsRepaid == \A l \in Loans : loan[l].status = "CLOSED" => Unpaid(l) = {}

(* getOutstandingBalanceForEmployee, per ACTIVE loan *)
Outstanding(l) ==
    IF loan[l].status # "ACTIVE" \/ Unpaid(l) = {} THEN 0
    ELSE LET next == CHOOSE k \in Unpaid(l) :
                 \A j \in Unpaid(l) : schedule[l][k].month <= schedule[l][j].month
         IN schedule[l][next].balance

(* The balance quoted at settlement is at least the principal still owed.  *)
OutstandingIsOwed ==
    \A l \in Loans : loan[l].status = "ACTIVE" =>
        Outstanding(l) >= PrincipalOf(l, Unpaid(l))
=============================================================================
