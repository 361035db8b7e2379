\* Two requests at a time of each service: one user over two seconds and a night;
\* one service request; three employees and a cycle; three files; two chat members, two
\* rooms and a message; one notice over two minutes; one employee's memos.
CONSTANTS
    Workers = {w1, w2}
    Ids = {i1, i2, i3}
    Users = {u1}
    MaxTime = 2
    NoUser = NoUser
    Requests = {q1}
    People = {p1, p2}
    Nobody = Nobody
    Cycles = {c1}
    NoCycle = NoCycle
    NoOne = NoOne
    MaxHops = 2
    Depth = 2
    NoAsset = NoAsset
    Members = {m1, m2}
    Rooms = {r1, r2}
    Messages = {x1}
    NoRoom = NoRoom
    NoMessage = NoMessage
    Notices = {n1}
    Readers = {m1}
    Never = Never
    Same = Same
    NoNotice = NoNotice
    Staff = {s1}
    Threshold = 2
    MaxMemos = 4
SPECIFICATION MCSpec
INVARIANTS TypesAreOK SessionsEnd RequestsAreSettled RecordsAgree FilesAreAccounted RoomsAreForMembers
PROPERTIES StepsAreAllowed
SYMMETRY Symmetry
CHECK_DEADLOCK FALSE
