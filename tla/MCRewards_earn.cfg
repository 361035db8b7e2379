\* Two submissions and two reviews of one todo at a time; Green Thanks of two
\* employees, one request each and one review at a time, beside payroll, with a
\* limit that two of the three entries reach; two loans, one decision at a time beside
\* two payroll passes, with amounts in cents that no tenure divides evenly; two leaves
\* and two slips, with salaries on both sides of every threshold.
CONSTANTS
    t1 = t1  r1 = r1  r2 = r2  e1 = e1  e2 = e2  g1 = g1  g2 = g2  g3 = g3
    Todos = {t1}
    Quantities = {0, 1, 3}
    Rules = {r1, r2}
    Rate <- PointsOf
    NoTodo = NoTodo
    NoRule = NoRule
    Submitters = {s1, s2}
    Reviewers = {v1, v2}
    Employees = {e1, e2}
    Thanks = {g1, g2, g3}
    Points = {2, 3}
    Limit = 5
    Quarters = {1, 2}
    NoId = NoId
    NoOne = NoOne
    Tabs = {b1}
    Approvers = {a1}
    Passes = {p1}
    Loans = {l1, l2}
    Amounts = {10000}
    Tenures = {1, 3}
    Revised = {0, 5003}
    Terms = {0}
    Rates <- SomeRates
    Start = 11
    NoLoan = NoLoan
    Officers = {o1}
    LoanPasses = {s1, s2}
    DaysIn <- SomeMonths
    Leaves = {x1, x2}
    Spans <- SomeSpans
    Salaries = {21000, 30000}
    Earned = {0, 1}
    Emis = {500}
    Edited = {700}
    Longer = {0, 1}
    MaxAsked = 4
SPECIFICATION MCSpec
INVARIANTS TypesAreOK LedgerMatchesTodos AwardsAreInOrder AmountsAddUp
SYMMETRY Symmetry
\* every todo may be approved, every entry decided and paid
CHECK_DEADLOCK FALSE
