\* Two requests at a time, crashes and repeated passes; one employee with an
\* incentive beside a loan of two instalments due in two periods, or with a Green Thanks.
CONSTANTS
    e1 = e1  e2 = e2  p1 = p1  p2 = p2  l1 = l1  i1 = i1  i2 = i2  n1 = n1  t1 = t1
    Employees = {e1}
    Periods = {p1, p2}
    Loans = {l1}
    Emis = {i1, i2}
    Incentives = {n1}
    Thanks = {t1}
    Workers = {w1, w2}
    Amounts = {0}
    EmpOf <- MCEmpOf
    LoanOf <- MCLoanOf
    DueIn <- MCDueIn
    Keep = Keep
    NoEntry = NoEntry
    Reprocessing = TRUE
    MovesPeriod = FALSE
    Crashes = TRUE
SPECIFICATION PaySpec
INVARIANTS PaidAtMostOnce SettledIsPaid CompletedIsSettled ClosedIsPaid
PROPERTIES PaysOnce
SYMMETRY WorkerSymmetry
CHECK_DEADLOCK FALSE
