\* Two releases of one held incentive to different periods.
CONSTANTS
    e1 = e1  e2 = e2  p1 = p1  p2 = p2  l1 = l1  i1 = i1  i2 = i2  n1 = n1  t1 = t1
    Employees = {e1}
    Periods = {p1, p2}
    Loans = {}
    Emis = {}
    Incentives = {n1}
    Thanks = {}
    Workers = {w1, w2}
    Amounts = {0}
    EmpOf <- MCEmpOf
    LoanOf <- MCLoanOf
    DueIn <- MCDueIn
    Keep = Keep
    NoEntry = NoEntry
    Reprocessing = FALSE
    MovesPeriod = TRUE
    Crashes = FALSE
SPECIFICATION Spec
INVARIANTS PaidAtMostOnce
SYMMETRY WorkerSymmetry
CHECK_DEADLOCK FALSE
