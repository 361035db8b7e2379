------------------------------- MODULE MCLoan -------------------------------
EXTENDS LoanBook, TLC

CONSTANTS l1, l2

OneRate == {[num |-> 1, den |-> 10]}

Symmetry == Permutations(Officers) \cup Permutations(Passes) \cup Permutations(Loans)
=============================================================================
