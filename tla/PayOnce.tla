------------------------------ MODULE PayOnce ------------------------------
(***************************************************************************)
(* What payroll promises about money that is owed: each pay item (a loan   *)
(* instalment, a released incentive, an approved Green Thanks award) goes  *)
(* into at most one pay slip, once, and the slip is its owner's.  The      *)
(* module knows nothing of runs, requests, reads or marks; PayrollCycle    *)
(* implements it.                                                          *)
(***************************************************************************)
EXTENDS Naturals

CONSTANTS Periods, Employees, Items, EmpOf

VARIABLE paid   \* slip -> item -> how often the item's amount is in the slip

Slips == Periods \X Employees

Init == paid = [s \in Slips |-> [i \in Items |-> 0]]

(* One slip takes in any set of its owner's items nobody was paid for yet. *)
Pay(s, S) ==
    /\ \A i \in S : EmpOf[i] = s[2] /\ \A t \in Slips : paid[t][i] = 0
    /\ paid' = [paid EXCEPT ![s] = [i \in Items |-> IF i \in S THEN 1 ELSE @[i]]]

Next == \E s \in Slips : \E S \in SUBSET Items : Pay(s, S)

Spec == Init /\ [][Next]_paid
=============================================================================
