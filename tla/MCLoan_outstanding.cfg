\* One request at a time: the balance quoted for a running loan.
CONSTANTS
    l1 = l1  l2 = l2
    Loans = {l1}
    Amounts = {10000}
    Tenures = {1, 3}
    Revised = {0}
    Terms = {0}
    Rates <- OneRate
    Start = 11
    NoLoan = NoLoan
    Officers = {o1}
    Passes = {p1}
SPECIFICATION Spec
INVARIANTS OutstandingIsOwed
SYMMETRY Symmetry
CHECK_DEADLOCK FALSE
