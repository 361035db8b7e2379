----------------------------- MODULE ChatRooms -----------------------------
(***************************************************************************)
(* Chat rooms, their members, and the way of a message from the sender's   *)
(* request through Redis to the sockets that joined the room.  Employees   *)
(* belong to one department.  Rooms are looked for in one statement and    *)
(* created in a later transaction; EmployeesService takes an employee's    *)
(* memberships away in a statement after the status.                       *)
(***************************************************************************)
EXTENDS Naturals, FiniteSets

CONSTANTS
    Employees, Rooms, Messages,
    NoRoom, NoMessage, NoOne,
    MaxAsked,           \* bound on the requests and socket events
    Workers             \* concurrently served requests and socket events

VARIABLES
    active,             \* employees whose status is ACTIVE
    room,               \* id -> its type and, per employee, the membership
    posted,             \* message -> room and sender, once stored
    wire,               \* messages published, not yet handed to the sockets
    joined,             \* employee -> rooms its socket has joined
    inbox,              \* employee -> messages its socket was sent
    job,                \* worker -> what it has checked
    insisted,           \* employees not active who had the department's room opened  (history)
    asked               \* requests and events so far

vars == <<active, room, posted, wire, joined, inbox, job, insisted, asked>>

Types == {"DIRECT", "GROUP", "DEPARTMENT"}
NoMembers == [e \in Employees |-> "no"]
NoRow == [type |-> "NONE", member |-> NoMembers]
NotPosted == [room |-> NoRoom, by |-> NoOne]
NoJob == [op |-> "idle", by |-> NoOne, room |-> NoRoom, who |-> {}, message |-> NoMessage]

TypeOK ==
    /\ active \subseteq Employees /\ insisted \subseteq Employees
    /\ room \in [Rooms -> [type : Types \cup {"NONE"},
                           member : [Employees -> {"no", "active", "revoked"}]]]
    /\ posted \in [Messages -> [room : Rooms \cup {NoRoom}, by : Employees \cup {NoOne}]]
    /\ wire \subseteq Messages /\ asked \in 0 .. MaxAsked
    /\ joined \in [Employees -> SUBSET Rooms] /\ inbox \in [Employees -> SUBSET Messages]
    /\ job \in [Workers -> [op : {"idle", "direct", "department", "send", "store", "publish",
                                  "join", "revoke"},
                            by : Employees \cup {NoOne}, room : Rooms \cup {NoRoom},
                            who : SUBSET Employees, message : Messages \cup {NoMessage}]]

Init ==
    /\ active = Employees /\ insisted = {}
    /\ room = [r \in Rooms |-> NoRow]
    /\ posted = [m \in Messages |-> NotPosted]
    /\ wire = {} /\ joined = [e \in Employees |-> {}] /\ inbox = [e \in Employees |-> {}]
    /\ job = [w \in Workers |-> NoJob] /\ asked = 0

Ask == asked < MaxAsked /\ asked' = asked + 1
Begin(w, j) == job[w] = NoJob /\ job' = [job EXCEPT ![w] = j] /\ Ask
Done(w) == job' = [job EXCEPT ![w] = NoJob]
Still == UNCHANGED <<posted, wire, joined, inbox>>
Quiet == Still /\ UNCHANGED insisted

OfType(type) == {r \in Rooms : room[r].type = type}
Between(S) == {r \in OfType("DIRECT") : {e \in Employees : room[r].member[e] # "no"} = S}
FirstOf(found) == IF found = {} THEN {NoRoom} ELSE found

(* The upsert, or the creation, of an active membership. *)
Admit(S, member) == [e \in Employees |-> IF e \in S THEN "active" ELSE member[e]]

-----------------------------------------------------------------------------
(* Whoever is logged in may ask, and a suspended employee still is; the    *)
(* other party need only be undeleted.                                     *)
DirectRead(w, e, f) ==
    /\ e # f
    /\ \E r \in FirstOf(Between({e, f})) :
          Begin(w, [NoJob EXCEPT !.op = "direct", !.by = e, !.room = r, !.who = {e, f}])
    /\ Quiet /\ UNCHANGED <<active, room>>

(* Fault: the employees of the department are taken whatever their status. *)
DepartmentAll(w, e) ==
    /\ \E r \in FirstOf(OfType("DEPARTMENT")) :
          Begin(w, [NoJob EXCEPT !.op = "department", !.by = e, !.room = r, !.who = Employees])
    /\ Quiet /\ UNCHANGED <<active, room>>

DepartmentRead(w, e) ==
    /\ \E r \in FirstOf(OfType("DEPARTMENT")) :
          Begin(w, [NoJob EXCEPT !.op = "department", !.by = e, !.room = r,
                                 !.who = active \cup {e}])
    /\ Quiet /\ UNCHANGED <<active, room>>

(* The room that was found takes its members back; else one is created.    *)
OpenRoom(w, type) ==
    LET found == job[w].room
    IN \E r \in IF found = NoRoom THEN {r \in Rooms : room[r].type = "NONE"} ELSE {found} :
          room' = [room EXCEPT ![r] = [type |-> type, member |-> Admit(job[w].who, @.member)]]

RoomWrite(w) ==
    /\ \/ job[w].op = "direct" /\ OpenRoom(w, "DIRECT")
       \/ job[w].op = "department" /\ OpenRoom(w, "DEPARTMENT")
    /\ insisted' = IF job[w].op = "department" THEN insisted \cup ({job[w].by} \ active) ELSE insisted
    /\ Done(w) /\ Still /\ UNCHANGED active

(* createGroupRoom reads nothing that changes here. *)
GroupRoom(e, S) ==
    /\ S # {} /\ Ask
    /\ \E r \in Rooms : /\ room[r].type = "NONE"
                        /\ room' = [room EXCEPT ![r] = [type |-> "GROUP",
                                                        member |-> Admit(S \cup {e}, NoMembers)]]
    /\ Quiet /\ UNCHANGED <<active, job>>

-----------------------------------------------------------------------------
Member(r, e) == room[r].member[e] = "active"

(* sendMessage through the gateway, which publishes, or through HTTP       *)
(* ("send"), which does not.  The gateway checks the membership twice.     *)
SendCheck(w, e, r, op) ==
    /\ Member(r, e)
    /\ \E m \in Messages :
          /\ posted[m] = NotPosted /\ \A v \in Workers : job[v].message # m
          /\ Begin(w, [NoJob EXCEPT !.op = op, !.by = e, !.room = r, !.message = m])
    /\ Quiet /\ UNCHANGED <<active, room>>

SendStore(w) ==
    LET j == job[w]
    IN /\ j.op \in {"send", "store"}
       /\ posted' = [posted EXCEPT ![j.message] = [room |-> j.room, by |-> j.by]]
       /\ IF j.op = "send" THEN Done(w) ELSE job' = [job EXCEPT ![w].op = "publish"]
       /\ UNCHANGED <<active, room, wire, joined, inbox, insisted>>

Publish(w) ==
    /\ job[w].op = "publish"
    /\ wire' = wire \cup {job[w].message}
    /\ Done(w) /\ UNCHANGED <<active, room, posted, joined, inbox, insisted>>

(* The subscriber passes it on to the sockets in the Socket.io room.       *)
Deliver(m) ==
    /\ m \in wire
    /\ wire' = wire \ {m}
    /\ inbox' = [e \in Employees |->
                    IF posted[m].room \in joined[e] THEN inbox[e] \cup {m} ELSE inbox[e]]
    /\ UNCHANGED <<active, room, posted, joined, job, insisted>>

JoinCheck(w, e, r) ==
    /\ Member(r, e)
    /\ Begin(w, [NoJob EXCEPT !.op = "join", !.by = e, !.room = r])
    /\ Quiet /\ UNCHANGED <<active, room>>

Join(w) ==
    /\ job[w].op = "join"
    /\ joined' = [joined EXCEPT ![job[w].by] = @ \cup {job[w].room}]
    /\ Done(w) /\ UNCHANGED <<active, room, posted, wire, inbox, insisted>>

Disconnect(e) ==
    /\ joined[e] # {}
    /\ joined' = [joined EXCEPT ![e] = {}]
    /\ UNCHANGED <<active, room, posted, wire, inbox, job, insisted>>

-----------------------------------------------------------------------------
(* patchStatus to SUSPENDED or EXITED, and its call of revokeAllForEmployee. *)
Suspend(w, e) ==
    /\ e \in active
    /\ active' = active \ {e}
    /\ Begin(w, [NoJob EXCEPT !.op = "revoke", !.by = e])
    /\ Quiet /\ UNCHANGED room

Revoke(w) ==
    LET e == job[w].by
    IN /\ job[w].op = "revoke"
       /\ room' = [r \in Rooms |-> IF Member(r, e) THEN [room[r] EXCEPT !.member[e] = "revoked"]
                                   ELSE room[r]]
       /\ insisted' = insisted \ {e}
       /\ Done(w) /\ Still /\ UNCHANGED active

Reinstate(e) ==
    /\ e \notin active
    /\ active' = active \cup {e}
    /\ Quiet /\ UNCHANGED <<room, job>>

Fail(w) ==
    /\ job[w] # NoJob
    /\ Done(w) /\ Quiet /\ UNCHANGED <<active, room>>

Next ==
    \/ \E w \in Workers :
          \/ \E e \in Employees : DepartmentRead(w, e) \/ Suspend(w, e)
          \/ \E e, f \in Employees : DirectRead(w, e, f)
          \/ \E e \in Employees, r \in Rooms : \/ JoinCheck(w, e, r)
                                               \/ \E op \in {"send", "store"} : SendCheck(w, e, r, op)
    \/ \E e \in Employees, S \in SUBSET Employees : GroupRoom(e, S)
    \/ /\ \/ \E w \in Workers : \/ RoomWrite(w) \/ SendStore(w) \/ Publish(w) \/ Join(w)
                                 \/ Revoke(w) \/ Fail(w)
          \/ \E e \in Employees : Disconnect(e) \/ Reinstate(e)
          \/ \E m \in Messages : Deliver(m)
       /\ UNCHANGED asked

Spec == Init /\ [][Next]_vars

-----------------------------------------------------------------------------
(* PROPERTIES *)

(* Two requests that open or close rooms to employees are being served.    *)
Opening(w) == job[w].op \in {"direct", "department", "revoke"}
Overlap == \E v, w \in Workers : v # w /\ Opening(v) /\ Opening(w)

(* Whatever interleaves: what a socket was sent is a stored message of a   *)
(* room the employee has been a member of, and so has its sender.          *)
SentToMembers ==
    \A e \in Employees : \A m \in inbox[e] :
        LET r == posted[m].room
        IN r # NoRoom /\ room[r].member[e] # "no" /\ room[r].member[posted[m].by] # "no"

(* Two employees have one direct room, and the department has one.         *)
OneRoomEach ==
    /\ \A S \in SUBSET Employees : Cardinality(S) = 2 => Cardinality(Between(S)) <= 1
    /\ Cardinality(OfType("DEPARTMENT")) <= 1

(* Nobody suspended is a member of the department's room who has not asked *)
(* for it since.                                                           *)
SuspendedIsOut ==
    (\A w \in Workers : job[w].op # "revoke") =>
        \A r \in OfType("DEPARTMENT"), e \in Employees \ (active \cup insisted) :
            ~Member(r, e)
=============================================================================
