---------------------------- MODULE SalaryTerms ----------------------------
(***************************************************************************)
(* The amounts of an employee's slips: what processRun computes from the   *)
(* payroll structure, what was earned, and the approved leaves that touch  *)
(* the month.  A pass is one step here, and so is an edit: what may come   *)
(* between their statements is in PayrollCycle.  Every leave is of a type  *)
(* with isLopEligible.                                                     *)
(*                                                                         *)
(* Amounts are rupees; gross minus LOP, and the net, are in parts of a     *)
(* rupee, as many as the month has days, so that they are whole.  The code *)
(* computes in binary fractions: what it compares and rounds up may lie    *)
(* next to the amount (noise), on either side, if what a day is worth is   *)
(* no whole number of rupees.                                              *)
(***************************************************************************)
EXTENDS Integers, Sequences, FiniteSetsExt

CONSTANTS
    DaysIn,             \* of each month, the months being consecutive
    Leaves,
    Spans,              \* [from, to] of a leave, in days from the first month's first
    Salaries,           \* sums of the components of payroll structures
    Earned,             \* incentives and Green Thanks that may be due to a slip at a time
    Emis, Edited,       \* instalments due at a time, values of UpdatePayrollEntryDto
    Longer,             \* by how much dto.days may exceed the span's length
    MaxAsked            \* bounds the requests

Months == DOMAIN DaysIn

VARIABLES
    salary,             \* that of the structure the employee has
    leave,              \* id -> LeaveApplication
    entry,              \* month -> PayrollEntry
    fresh,              \* months whose leaves are those of the last pass  (history)
    asked

vars == <<salary, leave, entry, fresh, asked>>

PfFlatAmount == 1800
PfGrossThreshold == 15000
EsiGrossCeiling == 21001

NoLeave == [status |-> "NONE", from |-> 0, to |-> 0, days |-> 0]
NoEntry == [made |-> FALSE, earned |-> 0, gross |-> 0, lopDays |-> 0, pf |-> 0, esi |-> 0,
            emi |-> 0, other |-> 0, net |-> 0]

TypeOK ==
    /\ salary \in Salaries
    /\ leave \in [Leaves -> [status : {"NONE", "APPROVED", "WITHDRAWN"}, from : Nat, to : Nat,
                             days : Nat]]
    /\ entry \in [Months -> [made : BOOLEAN, earned : Nat, gross : Nat, lopDays : Nat, pf : Nat,
                             esi : Int, emi : Nat, other : Nat, net : Int]]
    /\ fresh \subseteq Months

Init ==
    /\ salary \in Salaries
    /\ leave = [l \in Leaves |-> NoLeave]
    /\ entry = [m \in Months |-> NoEntry]
    /\ fresh = {} /\ asked = 0

Ask == asked < MaxAsked /\ asked' = asked + 1

-----------------------------------------------------------------------------
(* THE CALCULATION *)

MonthStart(m) == 1 + MapThenSumSet(LAMBDA k : DaysIn[k], 1 .. m - 1)
MonthEnd(m) == MonthStart(m) + DaysIn[m] - 1

Touches(s, m) == s.from <= MonthEnd(m) /\ s.to >= MonthStart(m)

Approved(m) == {l \in Leaves : leave[l].status = "APPROVED" /\ Touches(leave[l], m)}

(* All days of each leave that touches the month. *)
LopDays(m) == MapThenSumSet(LAMBDA l : leave[l].days, Approved(m))

(* Gross minus LOP. *)
Wages(m, gross, lopDays) == gross * (DaysIn[m] - lopDays)

AtLeast(m, wages, noise, rupees) ==
    wages > rupees * DaysIn[m] \/ (wages = rupees * DaysIn[m] /\ noise >= 0)

Pf(m, wages, noise) == IF AtLeast(m, wages, noise, PfGrossThreshold) THEN PfFlatAmount ELSE 0

CeilDiv(a, b) == -((-a) \div b)

(* 0.75 per cent, rounded up: a whole amount of rupees may become the next. *)
Esi(m, wages, noise) ==
    LET parts == 10000 * DaysIn[m]
    IN IF AtLeast(m, wages, noise, EsiGrossCeiling) THEN 0
       ELSE CeilDiv(75 * wages, parts) + (IF noise > 0 /\ (75 * wages) % parts = 0 THEN 1 ELSE 0)

Net(m, e) == Wages(m, e.gross, e.lopDays) - DaysIn[m] * (e.pf + e.esi + e.emi + e.other)

-----------------------------------------------------------------------------
Approve(l, span, more) ==
    /\ leave[l] = NoLeave
    /\ leave' = [leave EXCEPT ![l] = [status |-> "APPROVED", from |-> span.from, to |-> span.to,
                                      days |-> span.to - span.from + 1 + more]]
    /\ fresh' = {m \in fresh : ~Touches(span, m)}
    /\ Ask
    /\ UNCHANGED <<salary, entry>>

(* A cancellation or a rejection that read the leave before its approval   *)
(* is written after it.                                                    *)
DecideLate(l) ==
    /\ leave[l].status = "APPROVED"
    /\ leave' = [leave EXCEPT ![l].status = "WITHDRAWN"]
    /\ fresh' = {m \in fresh : ~Touches(leave[l], m)}
    /\ UNCHANGED <<salary, entry, asked>>

AssignStructure(s) ==
    /\ s # salary /\ salary' = s
    /\ Ask
    /\ UNCHANGED <<leave, entry, fresh>>

(* What was earned, and what a loan takes, is added to what the slip has.  *)
(* The upsert leaves tds and otherDeductions alone, but the net is computed *)
(* as if there were none.                                                  *)
ProcessRun(m, more, emi, noise) ==
    LET earned == entry[m].earned + more
        gross == salary + earned
        lopDays == LopDays(m)
        wages == Wages(m, gross, lopDays)
        e == [made |-> TRUE, earned |-> earned, gross |-> gross, lopDays |-> lopDays,
              pf |-> Pf(m, wages, noise), esi |-> Esi(m, wages, noise),
              emi |-> entry[m].emi + emi, other |-> 0, net |-> 0]
    IN /\ lopDays = 0 \/ gross % DaysIn[m] = 0 => noise = 0
       /\ entry' = [entry EXCEPT ![m] = [e EXCEPT !.other = entry[m].other, !.net = Net(m, e)]]
       /\ fresh' = fresh \cup {m}
       /\ Ask
       /\ UNCHANGED <<salary, leave>>

(* tds and otherDeductions together. *)
UpdateEntry(m, other) ==
    LET e == [entry[m] EXCEPT !.other = other]
    IN /\ entry[m].made
       /\ entry' = [entry EXCEPT ![m] = [e EXCEPT !.net = Net(m, e)]]
       /\ Ask
       /\ UNCHANGED <<salary, leave, fresh>>

Next ==
    \/ \E l \in Leaves : \/ DecideLate(l)
                       \/ \E s \in Spans, more \in Longer : Approve(l, s, more)
    \/ \E s \in Salaries : AssignStructure(s)
    \/ \E m \in Months :
          \/ \E more \in Earned, emi \in Emis, noise \in -1 .. 1 : ProcessRun(m, more, emi, noise)
          \/ \E other \in Edited : UpdateEntry(m, other)

Spec == Init /\ [][Next]_vars

-----------------------------------------------------------------------------
(* PROPERTIES *)

Made == {m \in Months : entry[m].made}
InForce == {l \in Leaves : leave[l].status = "APPROVED"}
Crosses(l) == \E m \in Months : leave[l].from <= MonthEnd(m) /\ leave[l].to > MonthEnd(m)

(* Once the months were processed after the last decision about a leave,   *)
(* the slips deduct each day of leave once, whatever days the leaves begin *)
(* and end on, if none goes on into the next month.                        *)
LopDaysAddUp ==
    fresh = Months /\ (\A l \in InForce : ~Crosses(l)) =>
        MapThenSumSet(LAMBDA m : entry[m].lopDays, Months) =
            MapThenSumSet(LAMBDA l : leave[l].days, InForce)

(* ESI is 0.75 per cent of what is left of the gross, up to a rupee above  *)
(* the least whole amount that is not below it.                            *)
EsiIsRoundedUp ==
    \A m \in Made :
        LET w == Wages(m, entry[m].gross, entry[m].lopDays)
            part == 10000 * DaysIn[m]
        IN entry[m].esi # 0 => /\ part * entry[m].esi >= 75 * w
                               /\ part * (entry[m].esi - 2) < 75 * w

(* The two thresholds leave no gap: whoever is paid contributes to one of  *)
(* the two schemes.                                                        *)
PaidContributes ==
    \A m \in Made :
        Wages(m, entry[m].gross, entry[m].lopDays) > 0 => entry[m].pf + entry[m].esi > 0

(* Contributions take no more than there is, but for the rupee ESI may be  *)
(* rounded up to: a net below that comes from instalments, edits, or leaves *)
(* longer than the month.                                                  *)
NobodyOwes ==
    \A m \in Made :
        entry[m].lopDays <= DaysIn[m] =>
            entry[m].net + DaysIn[m] * (entry[m].emi + entry[m].other) >= -DaysIn[m]

WagesAddUp == LopDaysAddUp /\ EsiIsRoundedUp /\ PaidContributes /\ NobodyOwes
=============================================================================
