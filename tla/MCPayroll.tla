----------------------------- MODULE MCPayroll -----------------------------
EXTENDS PayrollCycle, TLC

CONSTANTS e1, e2, p1, p2, l1, i1, i2, n1, t1

MCEmpOf == [i \in Items |-> e1]
MCLoanOf == [i \in Emis |-> l1]
MCDueIn == [i \in Emis |-> IF i = i1 THEN p1 ELSE p2]

WorkerSymmetry == Permutations(Workers)
=============================================================================
