\* No crash, under the fairness of the event loop: two passes at a time over two periods
\* with a loan, or edits of tds and otherDeductions racing each other and the one pass.
CONSTANTS
    e1 = e1  e2 = e2  p1 = p1  p2 = p2  l1 = l1  i1 = i1  i2 = i2  n1 = n1  t1 = t1
    Employees = {e1}
    Periods = {p1, p2}
    Loans = {l1}
    Emis = {i1, i2}
    Incentives = {}
    Thanks = {t1}
    Workers = {w1, w2}
    Amounts = {0, 1}
    EmpOf <- MCEmpOf
    LoanOf <- MCLoanOf
    DueIn <- MCDueIn
    Keep = Keep
    NoEntry = NoEntry
    Reprocessing = FALSE
    MovesPeriod = FALSE
    Crashes = FALSE
SPECIFICATION LiveSpec
INVARIANTS NetMatchesTerms
PROPERTIES RunCompletes PaidLoanCloses
CHECK_DEADLOCK FALSE
