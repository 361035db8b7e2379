\* Two requests at a time, of exits, statuses and assets, with crashes; one employee,
\* removed and restored, with a reason or an empty one; one asset, returned as it was
\* or as available.
CONSTANTS
    e1 = e1  x1 = x1  d1 = d1  d2 = d2
    Assets = {x1}
    Employees = {e1}
    NewStatuses = {"AVAILABLE", "ASSIGNED"}
    MaxAssignments = 2
    Clerks = {c1, c2}
    Departments = {d1}
    Seeded = {d1}
    Reasons = {TRUE, FALSE}
    Dtos <- FewDtos
    Patches = {"ON_LEAVE", "EXITED"}
    Officers = {o1, o2}
    Crashes = TRUE
    MaxServed = 2
SPECIFICATION MCSpec
INVARIANTS TypeOK AssignedHasHolder OneHolderUnraced SettlementIsWhole
PROPERTIES HistoryIsKept SettledIsFinalUnraced
SYMMETRY Symmetry
CHECK_DEADLOCK FALSE
