--------------------------- MODULE DepartmentTree ---------------------------
(***************************************************************************)
(* The departments of an organization: their names, the tree of their      *)
(* parents, and the level each row carries.  A request reads, checks, and  *)
(* later writes by id; the reads a handler does in a row are one step, but *)
(* the walk up the tree, and the descent that corrects the levels, take    *)
(* one step for each row.                                                  *)
(***************************************************************************)
EXTENDS Integers, Sequences, SequencesExt

CONSTANTS
    Depts, Names,
    Root,           \* no parent
    Same,           \* a field the request leaves out
    MaxLevel,       \* bound on the levels
    MaxAsked,       \* bound on the requests about departments that exist
    Workers,        \* concurrently served requests
    Crashes

VARIABLES
    dept,           \* id -> Department, state "none" when there is no row
    job,            \* worker -> its request
    asked           \* requests so far

vars == <<dept, job, asked>>

Parents == Depts \cup {Root}
Fields == Depts \cup Names \cup {Root, Same}
Steps == {"idle", "insert", "walk", "level", "write", "cascade", "remove", "restore"}
Row(s, n, p, l) == [state |-> s, name |-> n, parent |-> p, level |-> l]
NoRow == Row("none", Same, Root, 0)
NoJob == [at |-> "idle", id |-> Root, name |-> Same, parent |-> Same, spot |-> Root,
          level |-> 0, todo |-> <<>>]

TypeOK ==
    /\ asked \in 0 .. MaxAsked
    /\ dept \in [Depts -> [state : {"none", "live", "deleted"}, name : Names \cup {Same},
                           parent : Parents, level : 0 .. MaxLevel]]
    /\ \A w \in Workers :
          LET j == job[w]
          IN /\ j.at \in Steps /\ {j.id, j.spot} \subseteq Parents /\ j.level \in 0 .. MaxLevel
             /\ {j.name, j.parent} \subseteq Fields
             /\ \A i \in DOMAIN j.todo : j.todo[i][1] \in Depts /\ j.todo[i][2] \in 0 .. MaxLevel + 1

Init ==
    /\ dept = [d \in Depts |-> NoRow]
    /\ job = [w \in Workers |-> NoJob]
    /\ asked = 0

Live(d) == d \in Depts /\ dept[d].state = "live"
Children(d) == {c \in Depts : Live(c) /\ dept[c].parent = d}
Begin(w, j) == job[w] = NoJob /\ job' = [job EXCEPT ![w] = j] /\ UNCHANGED dept
Ask == asked < MaxAsked /\ asked' = asked + 1
Done(w) == job' = [job EXCEPT ![w] = NoJob]
At(w, step) == job[w].at = step

(* The check that no other live department has the name. *)
Taken(n, d) == \E c \in Depts \ {d} : Live(c) /\ dept[c].name = n

-----------------------------------------------------------------------------
CreateRead(w, d, n, p) ==
    /\ dept[d].state = "none" /\ \A v \in Workers : job[v].id # d
    /\ ~Taken(n, d)
    /\ p = Root \/ Live(p)
    /\ p # Root => dept[p].level < MaxLevel
    /\ UNCHANGED asked
    /\ Begin(w, [NoJob EXCEPT !.at = "insert", !.id = d, !.name = n, !.parent = p,
                              !.level = IF p = Root THEN 0 ELSE dept[p].level + 1])

(* Names are unique in an organization, removed departments included.  The *)
(* write that another row's name is in the way of fails, whatever the check *)
(* has seen.                                                               *)
NameUsed(w) ==
    \E c \in Depts \ {job[w].id} : dept[c].state # "none" /\ dept[c].name = job[w].name

Refuse(w) ==
    /\ At(w, "insert") \/ At(w, "write")
    /\ NameUsed(w)
    /\ Done(w)
    /\ UNCHANGED dept

Insert(w) ==
    /\ At(w, "insert") /\ ~NameUsed(w)
    /\ dept' = [dept EXCEPT ![job[w].id] = Row("live", job[w].name, job[w].parent, job[w].level)]
    /\ Done(w)

(* Fault: the walk is left out. *)
ChangeUnwalked(w, d, n, p) ==
    /\ Live(d) /\ Ask
    /\ n # Same /\ n # dept[d].name => ~Taken(n, d)
    /\ p \in Depts => p # d /\ Live(p)
    /\ Begin(w, [NoJob EXCEPT !.at = IF p \in Depts THEN "level" ELSE "write",
                              !.id = d, !.name = n, !.parent = p])

(* update, and move, which gives no name. *)
ChangeRead(w, d, n, p) ==
    /\ Live(d) /\ Ask
    /\ n # Same /\ n # dept[d].name => ~Taken(n, d)
    /\ p \in Depts => p # d /\ Live(p)
    /\ Begin(w, [NoJob EXCEPT !.at = IF p \in Depts THEN "walk" ELSE "write",
                              !.id = d, !.name = n, !.parent = p,
                              !.spot = IF p = Same THEN Root ELSE p])

(* checkCircularReference, one ancestor a step; deleted ones included. *)
Walk(w) ==
    LET j == job[w]
    IN /\ At(w, "walk")
       /\ IF j.spot = j.id THEN Done(w)
          ELSE job' = [job EXCEPT ![w] =
                  IF j.spot = Root THEN [j EXCEPT !.at = "level"]
                  ELSE [j EXCEPT !.spot = dept[j.spot].parent]]
       /\ UNCHANGED dept

ReadLevel(w) ==
    /\ At(w, "level")
    /\ dept[job[w].parent].level < MaxLevel
    /\ job' = [job EXCEPT ![w].at = "write", ![w].level = dept[job[w].parent].level + 1]
    /\ UNCHANGED dept

(* The rows in the order the query happens to give them. *)
Orders(S, l) == SetToSeqs({<<c, l>> : c \in S})

ChangeWrite(w) ==
    LET j == job[w]
        moved == j.parent # Same
        old == dept[j.id]
    IN /\ At(w, "write") /\ ~NameUsed(w)
       /\ dept' = [dept EXCEPT ![j.id] =
             Row(old.state, IF j.name = Same THEN old.name ELSE j.name,
                 IF moved THEN j.parent ELSE old.parent, IF moved THEN j.level ELSE old.level)]
       /\ IF moved /\ Children(j.id) # {}
          THEN \E below \in Orders(Children(j.id), j.level + 1) :
                  job' = [job EXCEPT ![w] = [j EXCEPT !.at = "cascade", !.todo = below]]
          ELSE Done(w)

(* cascadeHierarchyLevels: a child's level, then the child's children. *)
Cascade(w) ==
    LET j == job[w]
        child == Head(j.todo)[1]
        level == Head(j.todo)[2]
    IN /\ At(w, "cascade")
       /\ level <= MaxLevel
       /\ dept' = [dept EXCEPT ![child].level = level]
       /\ \E below \in Orders(Children(child), level + 1) :
             LET rest == below \o Tail(j.todo)
             IN IF rest = <<>> THEN Done(w) ELSE job' = [job EXCEPT ![w].todo = rest]

(* The employees and designations remove counts as well are left out. *)
RemoveRead(w, d) ==
    /\ Live(d) /\ Children(d) = {} /\ Ask
    /\ Begin(w, [NoJob EXCEPT !.at = "remove", !.id = d])

RestoreRead(w, d) ==
    /\ dept[d].state = "deleted" /\ Ask
    /\ Begin(w, [NoJob EXCEPT !.at = "restore", !.id = d])

SetState(w, step, s) ==
    /\ At(w, step)
    /\ dept' = [dept EXCEPT ![job[w].id].state = s]
    /\ Done(w)

RemoveWrite(w) == SetState(w, "remove", "deleted")
RestoreWrite(w) == SetState(w, "restore", "live")

Fail(w) == Crashes /\ job[w] # NoJob /\ Done(w) /\ UNCHANGED dept

Next == \E w \in Workers :
    \/ \E d \in Depts, n \in Names, p \in Parents : CreateRead(w, d, n, p)
    \/ \E d \in Depts, n \in Names \cup {Same}, p \in Parents \cup {Same} : ChangeRead(w, d, n, p)
    \/ \E d \in Depts : RemoveRead(w, d) \/ RestoreRead(w, d)
    \/ /\ \/ Insert(w) \/ Refuse(w) \/ Walk(w) \/ ReadLevel(w) \/ ChangeWrite(w) \/ Cascade(w)
          \/ RemoveWrite(w) \/ RestoreWrite(w)
          \/ Fail(w)
       /\ UNCHANGED asked

Spec == Init /\ [][Next]_vars

-----------------------------------------------------------------------------
(* PROPERTIES *)

(* Two requests are being served at the same time. *)
Overlap == \E v, w \in Workers : v # w /\ job[v] # NoJob /\ job[w] # NoJob

(* Two requests that give a department a parent are on their way. *)
Moving(w) == job[w].parent \in Depts /\ job[w].at \in {"walk", "level", "write"}
MovesMeet == \E v, w \in Workers : v # w /\ Moving(v) /\ Moving(w)

(* No department is above itself, deleted or not: validateParentChange.    *)
(* Without it the walk and the descent would not end.                      *)
Acyclic ==
    \A S \in SUBSET {d \in Depts : dept[d].state # "none"} :
        S # {} => \E d \in S : dept[d].parent \notin S

(* Between requests, a live department has no deleted parent, and the      *)
(* level its place in the tree gives it.                                   *)
TreeIsSound ==
    (\A w \in Workers : job[w] = NoJob) =>
        \A d \in Depts : Live(d) =>
            /\ dept[d].parent # Root => Live(dept[d].parent)
            /\ dept[d].level = IF dept[d].parent = Root THEN 0
                               ELSE dept[dept[d].parent].level + 1
=============================================================================
