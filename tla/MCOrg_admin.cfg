\* Two organizations over two days with one crash; two requests about roles beside the
\* refresh of the second release; three departments, four items and a policy of two leave
\* types, each with two requests at a time; requests, two at a time where they meet, of
\* the founder and one more employee, and of visitors and the platform, for every route.
CONSTANTS
    o1 = o1  o2 = o2  i1 = i1  i2 = i2  i3 = i3
    de = de  dg = dg  st = st  zo = zo
    Workers = {w1, w2}
    NoId = NoId  NoOrg = NoOrg  NoUser = NoUser  None = None  Root = Root  Same = Same
    Orgs = {o1, o2}
    MaxDay = 2
    MaxInvoices = 3
    MaxBilled = 2
    MaxBills = 3
    Ids = {i1, i2, i3}
    Names = {"admin", "it"}
    Holders = {u1}
    DeptNames = {n1, n2, n3}
    Types = {t1, t2}
    Employees = {e1}
    Users = {a, b}
    Founder = a
    Hired = {"hr_manager", "employee"}
    Visitor = v
    Operator = o
    Requests = {r1, r2}
SPECIFICATION MCSpec
INVARIANTS TypesAreOK BillsAreInOrder StructureIsSound RequestsGoWhereTheyMay
PROPERTIES StepsDoAsTheySay
SYMMETRY Symmetry
CHECK_DEADLOCK FALSE
