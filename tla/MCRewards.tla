----------------------------- MODULE MCRewards -----------------------------
(***************************************************************************)
(* Todos and Green Thanks, which earn what payroll pays out, loans, which  *)
(* payroll takes back, and the amounts of the slips.  No two of them write *)
(* a row of one another, so a behaviour takes the steps of one.            *)
(***************************************************************************)
EXTENDS TodoRewards, Sequences, FiniteSets, TLC

CONSTANTS t1, r1, r2, e1, e2, g1, g2, g3,
          Employees, Thanks, Points, Limit, Quarters, NoId, NoOne, Tabs, Approvers, Passes,
          Loans, Amounts, Tenures, Revised, Terms, Rates, Start, NoLoan, Officers, LoanPasses,
          DaysIn, Leaves, Spans, Salaries, Earned, Emis, Edited, Longer, MaxAsked

ASSUME ThanksAssumption ==
    /\ IsFiniteSet(Thanks) /\ NoId \notin Thanks
    /\ Points \subseteq Nat /\ Limit \in Nat
    /\ Quarters \subseteq Nat /\ 1 \in Quarters

VARIABLES thanks, quarter, tpc, tjob,
          loan, schedule, lpc, ljob,
          salary, leave, entry, fresh, asked,
          side,     \* which of the four
          raced     \* two submissions, or two reviews, have been under way at a time

GT == INSTANCE GreenThanks WITH pc <- tpc, job <- tjob

L == INSTANCE LoanBook WITH Passes <- LoanPasses, pc <- lpc, job <- ljob

(* What is granted, and over how many months. *)
Granted == Amounts \cup (Revised \ {0})
Spread == Tenures \cup (Terms \ {0})

ASSUME LoanAssumption ==
    /\ NoLoan \notin Loans /\ Start \in Nat
    /\ Granted \subseteq Nat /\ Spread \subseteq Nat \ {0}
    /\ Rates \subseteq [num : Nat, den : Nat \ {0}]
    /\ \A p \in Granted, r \in Rates, n \in Spread : L!Ample(p, r, n)

W == INSTANCE SalaryTerms

(* No leave ends before it begins, and each has a day in one of the months. *)
ASSUME SalaryAssumption ==
    /\ DaysIn \in Seq(28 .. 31) /\ IsFiniteSet(Leaves)
    /\ Spans \subseteq [from : Nat, to : Nat]
    /\ \A s \in Spans : s.from <= s.to /\ \E m \in W!Months : W!Touches(s, m)
    /\ Salaries \subseteq Nat /\ Earned \subseteq Nat /\ Emis \subseteq Nat
    /\ Edited \subseteq Nat /\ Longer \subseteq Nat

PointsOf == r1 :> 2 @@ r2 :> 5

(* No interest, 60 % and 300 % a year. *)
SomeRates == {[num |-> 0, den |-> 1], [num |-> 1, den |-> 20], [num |-> 1, den |-> 4]}

SomeMonths == <<28, 31>>

(* The first half and the second half of a month of 28 days, the first day *)
(* of the next, and a leave across the two.                                *)
SomeSpans == {[from |-> 1, to |-> 14], [from |-> 15, to |-> 28], [from |-> 29, to |-> 29],
              [from |-> 28, to |-> 29]}

thanksVars == <<thanks, quarter, tpc, tjob>>
loanVars == <<loan, schedule, lpc, ljob>>
salaryVars == <<salary, leave, entry, fresh, asked>>

Symmetry == Permutations(Submitters) \cup Permutations(Reviewers)

MCInit ==
    /\ Init /\ GT!Init /\ L!Init /\ W!Init
    /\ side \in {"todos", "thanks", "loans", "salaries"} /\ raced = FALSE
    /\ side = "salaries" \/ salary = (CHOOSE s \in Salaries : TRUE)     \* no other side reads it

TodoStep ==
    /\ side = "todos"
    /\ Next
    /\ raced' = (raced \/ Racing')
    /\ UNCHANGED <<thanksVars, loanVars, salaryVars>>

ThanksStep == side = "thanks" /\ GT!Next /\ UNCHANGED <<vars, loanVars, salaryVars, raced>>

LoanStep == side = "loans" /\ L!Next /\ UNCHANGED <<vars, thanksVars, salaryVars, raced>>

SalaryStep ==
    side = "salaries" /\ W!Next /\ UNCHANGED <<vars, thanksVars, loanVars, raced>>

MCNext == (TodoStep \/ ThanksStep \/ LoanStep \/ SalaryStep) /\ UNCHANGED side
MCSpec == MCInit /\ [][MCNext]_<<vars, thanksVars, loanVars, salaryVars, side, raced>>

-----------------------------------------------------------------------------
TypesAreOK == TypeOK /\ GT!TypeOK /\ L!TypeOK /\ W!TypeOK

(* approve pays the quantity of the todo at the rate of its rule, and no    *)
(* todo but an approved one has a ledger row, as long as its statements     *)
(* meet no other submission or review.                                      *)
LedgerMatchesTodos == ~raced => ApprovedIsPaid /\ OnlyApprovedEarns

(* create's limit, with one request of each sender at a time; approve's     *)
(* check and markGreenThanksPaid, with one review at a time.                *)
AwardsAreInOrder == GT!QuotaIsKept /\ GT!PaidIsApproved

(* computeEmiSchedule's instalments repay the approved amount, each one a   *)
(* part of it, and markEmiDeducted closes a loan that is repaid, although   *)
(* two passes take months of one employee in any order; the slips deduct    *)
(* each day of leave once, and neither contribution is missed or takes more *)
(* than there is, however passes, leaves and edits follow on one another.   *)
AmountsAddUp == /\ L!ScheduleRepaysLoan /\ L!BalanceFalls /\ L!ClosedIsRepaid
                /\ W!WagesAddUp
=============================================================================
