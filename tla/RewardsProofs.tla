--------------------------- MODULE RewardsProofs ---------------------------
(***************************************************************************)
(* Todos, Green Thanks, loans and slips, for any number of each, of        *)
(* employees, rules, quarters, months and concurrent requests, which may   *)
(* die wherever they are: what a todo earns, what an employee may give,    *)
(* how a loan is repaid, and what a slip deducts.                          *)
(***************************************************************************)
EXTENDS MCRewards, SumTheorems, SequenceTheorems

-----------------------------------------------------------------------------
(* Todos: what a request that waits has read of its todo. *)

Places == {"idle", "submit", "approve", "reject"}
Rows == [status : {"NONE", "PENDING", "SUBMITTED", "APPROVED", "REJECTED"},
         quantity : Quantities \cup {Null}, rule : Rules \cup {NoRule}]
Jobs == [todo : Todos \cup {NoTodo}, quantity : Quantities \cup {Null},
         rule : Rules \cup {NoRule}]

(* Only submissions submit and only reviews decide, and what they write is *)
(* a quantity and a rule.                                                  *)
Sound(w, p, j) ==
    /\ p # "idle" => j.todo \in Todos
    /\ p = "submit" => w \in Submitters
    /\ p \in {"approve", "reject"} => w \in Reviewers
    /\ p = "approve" => j.quantity \in Quantities /\ j.rule \in Rules

TodoTyped == TypeOK /\ \A w \in Workers : Sound(w, pc[w], job[w])

(* What was read of the todo is still so.                                  *)
Kept(p, j, td) ==
    /\ p = "submit" => td[j.todo].status \in {"PENDING", "REJECTED"}
    /\ p \in {"approve", "reject"} => td[j.todo].status = "SUBMITTED"
    /\ p = "approve" => j.quantity = td[j.todo].quantity

TodoCurrent ==
    /\ ~Racing /\ \A w \in Workers : Kept(pc[w], job[w], todo)
    /\ ApprovedIsPaid /\ OnlyApprovedEarns

TodoInv == TodoTyped /\ (~raced => TodoCurrent)

(* Nothing is missing from the sets of what there is.                      *)
LEMMA TodoConstants ==
    /\ NoTodo \notin Todos /\ Null \notin Nat /\ Quantities \subseteq Nat
    /\ \A q \in Quantities, r \in Rules : q * Rate[r] \in Nat
    /\ Submitters \cap Reviewers = {} /\ Workers = Submitters \cup Reviewers
<1>1. \A q \in Quantities, r \in Rules : q \in Nat /\ Rate[r] \in Nat
  BY TodoAssumption
<1>2. \A q, r \in Nat : q * r \in Nat
  OBVIOUS
<1> QED
  BY <1>1, <1>2, TodoAssumption DEF Null, Workers

LEMMA TodosStart == Init => TodoTyped /\ TodoCurrent
<1> SUFFICES ASSUME Init PROVE TodoTyped /\ TodoCurrent
  OBVIOUS
<1>1. NoRow \in Rows /\ NoJob \in Jobs
  BY DEF NoRow, NoJob, Rows, Jobs
<1>2. TodoTyped
  BY <1>1 DEF Init, TodoTyped, TypeOK, Sound, Rows, Jobs
<1>3. TodoCurrent
  BY DEF Init, TodoCurrent, Racing, Kept, ApprovedIsPaid, OnlyApprovedEarns, NoRow
<1> QED
  BY <1>2, <1>3

(* A request goes on, or ends.                                             *)
LEMMA TodoGoes ==
    ASSUME TodoTyped, NEW w \in Workers, NEW to \in Places, NEW j \in Jobs, Sound(w, to, j),
           Step(w, to, j)
    PROVE  /\ pc' \in [Workers -> Places] /\ job' \in [Workers -> Jobs]
           /\ pc'[w] = to /\ job'[w] = j
           /\ \A v \in Workers \ {w} : pc'[v] = pc[v] /\ job'[v] = job[v]
           /\ \A v \in Workers : Sound(v, pc'[v], job'[v])
<1>1. pc \in [Workers -> Places] /\ job \in [Workers -> Jobs]
  BY DEF TodoTyped, TypeOK, Places, Jobs
<1>2. /\ pc' \in [Workers -> Places] /\ job' \in [Workers -> Jobs]
      /\ pc'[w] = to /\ job'[w] = j
      /\ \A v \in Workers \ {w} : pc'[v] = pc[v] /\ job'[v] = job[v]
  BY <1>1 DEF Step
<1> QED
  BY <1>2 DEF TodoTyped

LEMMA TodoEnds ==
    ASSUME TodoTyped, NEW w \in Workers, Finish(w)
    PROVE  /\ pc' \in [Workers -> Places] /\ job' \in [Workers -> Jobs]
           /\ pc'[w] = "idle"
           /\ \A v \in Workers \ {w} : pc'[v] = pc[v] /\ job'[v] = job[v]
           /\ \A v \in Workers : Sound(v, pc'[v], job'[v])
<1>1. NoJob \in Jobs /\ "idle" \in Places /\ Sound(w, "idle", NoJob)
  BY DEF NoJob, Jobs, Places, Sound
<1> QED
  BY <1>1, TodoGoes DEF Finish

(* A handler has read a todo.                                              *)
LEMMA TodoRead ==
    ASSUME TodoInv, NEW w \in Workers, NEW to \in Places, NEW j \in Jobs, Sound(w, to, j),
           Step(w, to, j), Kept(to, j, todo), UNCHANGED <<todo, ledger>>,
           raced' = (raced \/ Racing')
    PROVE  TodoInv'
<1>1. TodoTyped'
  BY TodoGoes DEF TodoInv, TodoTyped, TypeOK, Places, Jobs
<1>2. ASSUME ~raced' PROVE TodoCurrent'
  <2>1. TodoCurrent /\ ~Racing'
    BY <1>2 DEF TodoInv
  <2>2. \A v \in Workers : Kept(pc'[v], job'[v], todo')
    BY <2>1, TodoGoes DEF TodoInv, TodoCurrent
  <2> QED
    BY <2>1, <2>2 DEF TodoCurrent, ApprovedIsPaid, OnlyApprovedEarns
<1> QED
  BY <1>1, <1>2 DEF TodoInv

(* A request writes its todo, and no other request of its kind is there.   *)
LEMMA TodoWrite ==
    ASSUME TodoInv, NEW w \in Workers, pc[w] # "idle", Finish(w),
           NEW r \in Rows, todo' = [todo EXCEPT ![job[w].todo] = r],
           ledger' \in [Todos -> Nat \cup {Null}],
           \A t \in Todos : t # job[w].todo => ledger'[t] = ledger[t],
           raced' = (raced \/ Racing'),
           ~raced => LET t == job[w].todo
                     IN /\ r.status = "APPROVED" => ledger'[t] = r.quantity * Rate[r.rule]
                        /\ ledger'[t] # Null => r.status = "APPROVED"
    PROVE  TodoInv'
<1> DEFINE t == job[w].todo
<1>1. t \in Todos /\ Sound(w, pc[w], job[w]) /\ todo \in [Todos -> Rows]
  BY DEF TodoInv, TodoTyped, TypeOK, Rows, Sound
<1>2. /\ todo' \in [Todos -> Rows] /\ todo'[t] = r
      /\ \A u \in Todos : u # t => todo'[u] = todo[u]
  BY <1>1
<1>3. TodoTyped'
  BY <1>2, TodoEnds DEF TodoInv, TodoTyped, TypeOK, Places, Jobs, Rows
<1>4. ASSUME ~raced' PROVE TodoCurrent'
  <2>1. TodoCurrent /\ ~Racing' /\ ~raced
    BY <1>4 DEF TodoInv
  <2>2. ASSUME NEW v \in Workers, v # w, pc[v] # "idle" PROVE job[v].todo # t
    <3>1. /\ Sound(v, pc[v], job[v]) /\ Kept(pc[v], job[v], todo) /\ Kept(pc[w], job[w], todo)
          /\ ~ (v \in Submitters <=> w \in Submitters)
      BY <2>1, <2>2 DEF TodoInv, TodoTyped, TodoCurrent, Racing
    <3>2. /\ pc[v] \in Places /\ pc[w] \in Places
      BY DEF TodoInv, TodoTyped, TypeOK, Places
    <3> HIDE DEF t
    <3> QED
      BY <1>1, <2>2, <3>1, <3>2, TodoConstants DEF Sound, Kept, Places, t
  <2>3. ASSUME NEW v \in Workers PROVE Kept(pc'[v], job'[v], todo')
    <3>1. CASE v = w
      BY <3>1, TodoEnds DEF TodoInv, Kept
    <3>2. CASE v # w
      <4>1. pc'[v] = pc[v] /\ job'[v] = job[v] /\ Kept(pc[v], job[v], todo)
        BY <2>1, <3>2, TodoEnds DEF TodoInv, TodoCurrent
      <4>2. pc[v] # "idle" => job[v].todo \in Todos
        BY DEF TodoInv, TodoTyped, Sound
      <4> HIDE DEF t
      <4>3. pc[v] # "idle" => todo'[job[v].todo] = todo[job[v].todo]
        BY <1>2, <2>2, <3>2, <4>2
      <4> QED
        BY <4>1, <4>3 DEF Kept
    <3> QED
      BY <3>1, <3>2
  <2>4. ApprovedIsPaid' /\ OnlyApprovedEarns'
    <3>1. /\ r.status = "APPROVED" => ledger'[t] = r.quantity * Rate[r.rule]
          /\ ledger'[t] # Null => r.status = "APPROVED"
          /\ \A u \in Todos : u # t => ledger'[u] = ledger[u]
      BY <2>1
    <3> HIDE DEF t
    <3> QED
      BY <1>2, <2>1, <3>1 DEF TodoCurrent, ApprovedIsPaid, OnlyApprovedEarns
  <2> QED
    BY <2>1, <2>3, <2>4 DEF TodoCurrent
<1> QED
  BY <1>3, <1>4 DEF TodoInv
(* What a waiting request reads of its todo.                               *)
LEMMA AtTodo ==
    ASSUME TodoInv, NEW w \in Workers, pc[w] # "idle"
    PROVE  /\ job[w].todo \in Todos /\ Sound(w, pc[w], job[w])
           /\ todo \in [Todos -> Rows] /\ todo[job[w].todo] \in Rows
           /\ ledger \in [Todos -> Nat \cup {Null}] /\ job[w] \in Jobs
           /\ ~raced => Kept(pc[w], job[w], todo)
BY DEF TodoInv, TodoTyped, TodoCurrent, TypeOK, Rows, Sound, Jobs

(* submit, reject and approve read a todo.                                 *)
LEMMA TodoReads ==
    ASSUME TodoInv, NEW w \in Workers, NEW t \in Todos, raced' = (raced \/ Racing'),
           \/ w \in Submitters /\ SubmitRead(w, t)
           \/ w \in Reviewers /\ RejectRead(w, t)
           \/ w \in Reviewers /\ \E r \in Rules \cup {NoRule} : ApproveRead(w, t, r)
    PROVE  TodoInv'
<1>1. job[w] \in Jobs /\ todo[t] \in Rows
  BY DEF TodoInv, TodoTyped, TypeOK, Jobs, Rows
<1>2. CASE (w \in Submitters /\ SubmitRead(w, t)) \/ (w \in Reviewers /\ RejectRead(w, t))
  <2> DEFINE j == [job[w] EXCEPT !.todo = t]
             to == IF SubmitRead(w, t) THEN "submit" ELSE "reject"
  <2>1. j \in Jobs /\ j.todo = t
    BY <1>1 DEF Jobs
  <2>2. Step(w, to, j) /\ UNCHANGED <<todo, ledger>>
    BY <1>2 DEF SubmitRead, RejectRead
  <2>3. /\ to = "submit" => w \in Submitters /\ todo[t].status \in {"PENDING", "REJECTED"}
        /\ to = "reject" => w \in Reviewers /\ todo[t].status = "SUBMITTED"
        /\ to \in {"submit", "reject"} /\ to \in Places
    BY <1>2, TodoConstants DEF SubmitRead, RejectRead, Places
  <2> HIDE DEF j, to
  <2>4. Sound(w, to, j) /\ Kept(to, j, todo)
    BY <2>1, <2>3 DEF Sound, Kept
  <2> QED
    BY <2>1, <2>2, <2>3, <2>4, TodoRead
<1>3. ASSUME w \in Reviewers, NEW r \in Rules \cup {NoRule}, ApproveRead(w, t, r) PROVE TodoInv'
  <2> DEFINE rule == IF r = NoRule THEN todo[t].rule ELSE r
             j == [todo |-> t, quantity |-> todo[t].quantity, rule |-> rule]
  <2>1. /\ todo[t].status = "SUBMITTED" /\ todo[t].quantity # Null /\ rule # NoRule
        /\ Step(w, "approve", j) /\ UNCHANGED <<todo, ledger>>
    BY <1>3 DEF ApproveRead
  <2>2. rule \in Rules /\ todo[t].quantity \in Quantities
    BY <1>1, <2>1 DEF Rows
  <2> HIDE DEF rule
  <2>3. j \in Jobs /\ Sound(w, "approve", j) /\ Kept("approve", j, todo) /\ "approve" \in Places
    BY <1>3, <2>1, <2>2 DEF Jobs, Sound, Kept, Places
  <2> QED
    BY <2>1, <2>3, TodoRead
<1> QED
  BY <1>2, <1>3

(* submit and reject write by id: the todo had not earned yet.             *)
LEMMA TodoWrites ==
    ASSUME TodoInv, NEW w \in Workers, raced' = (raced \/ Racing'),
           RejectWrite(w) \/ \E q \in Quantities : SubmitWrite(w, q)
    PROVE  TodoInv'
<1> DEFINE t == job[w].todo
<1>1. pc[w] \in {"submit", "reject"} /\ Finish(w) /\ UNCHANGED ledger
  BY DEF SubmitWrite, RejectWrite
<1>2. /\ t \in Todos /\ todo[t] \in Rows /\ ledger \in [Todos -> Nat \cup {Null}]
      /\ ~raced => Kept(pc[w], job[w], todo)
  BY <1>1, AtTodo
<1>3. ASSUME ~raced PROVE ledger[t] = Null
  <2>1. todo[t].status # "APPROVED"
    BY <1>1, <1>2, <1>3 DEF Kept
  <2> QED
    BY <1>2, <1>3, <2>1 DEF TodoInv, TodoCurrent, OnlyApprovedEarns
<1>4. PICK r \in Rows : r.status # "APPROVED" /\ todo' = [todo EXCEPT ![t] = r]
  <2>1. CASE RejectWrite(w)
    <3> DEFINE r == [todo[t] EXCEPT !.status = "REJECTED"]
    <3>1. r \in Rows /\ r.status = "REJECTED"
      BY <1>2 DEF Rows
    <3> QED
      BY <2>1, <3>1 DEF RejectWrite
  <2>2. ASSUME NEW q \in Quantities, SubmitWrite(w, q)
        PROVE  \E r \in Rows : r.status # "APPROVED" /\ todo' = [todo EXCEPT ![t] = r]
    <3> DEFINE r == [todo[t] EXCEPT !.status = "SUBMITTED", !.quantity = q]
    <3>1. r \in Rows /\ r.status = "SUBMITTED"
      BY <1>2 DEF Rows
    <3> QED
      BY <2>2, <3>1 DEF SubmitWrite
  <2> QED
    BY <2>1, <2>2
<1> QED
  BY <1>1, <1>2, <1>3, <1>4, TodoWrite

(* approve writes the ledger row and the todo.                             *)
LEMMA TodoApproves ==
    ASSUME TodoInv, NEW w \in Workers, raced' = (raced \/ Racing'), ApproveWrite(w)
    PROVE  TodoInv'
<1> DEFINE t == job[w].todo
           r == IF ledger[t] = Null
                THEN [todo[t] EXCEPT !.status = "APPROVED", !.rule = job[w].rule] ELSE todo[t]
           n == job[w].quantity * Rate[job[w].rule]
<1>1. pc[w] = "approve" /\ Finish(w)
  BY DEF ApproveWrite
<1>2. /\ t \in Todos /\ todo \in [Todos -> Rows] /\ todo[t] \in Rows
      /\ ledger \in [Todos -> Nat \cup {Null}]
      /\ ~raced => Kept("approve", job[w], todo)
      /\ job[w].quantity \in Quantities /\ job[w].rule \in Rules
  BY <1>1, AtTodo DEF Sound
<1>3. n \in Nat
  BY <1>2, TodoConstants
<1>4. /\ r \in Rows
      /\ ledger[t] = Null => /\ r.status = "APPROVED" /\ r.rule = job[w].rule
                             /\ r.quantity = todo[t].quantity
  BY <1>2 DEF Rows
<1>5. todo' = [todo EXCEPT ![t] = r]
  BY <1>2 DEF ApproveWrite
<1>6. IF ledger[t] = Null THEN ledger' = [ledger EXCEPT ![t] = n] ELSE UNCHANGED ledger
  BY DEF ApproveWrite
<1> HIDE DEF n, r
<1>7. ledger' \in [Todos -> Nat \cup {Null}]
  BY <1>2, <1>3, <1>6
<1>8. \A u \in Todos : u # t => ledger'[u] = ledger[u]
  BY <1>2, <1>6
<1>9. ASSUME ~raced PROVE ledger[t] = Null /\ ledger'[t] = r.quantity * Rate[r.rule]
  <2>1. todo[t].status = "SUBMITTED" /\ job[w].quantity = todo[t].quantity
    BY <1>2, <1>9 DEF Kept
  <2>2. ledger[t] = Null
    BY <1>2, <1>9, <2>1 DEF TodoInv, TodoCurrent, OnlyApprovedEarns
  <2> QED
    BY <1>2, <1>4, <1>6, <2>1, <2>2 DEF n
<1>10. ~raced => /\ r.status = "APPROVED" => ledger'[t] = r.quantity * Rate[r.rule]
                 /\ ledger'[t] # Null => r.status = "APPROVED"
  BY <1>4, <1>9
<1> QED
  BY <1>1, <1>4, <1>5, <1>7, <1>8, <1>10, TodoWrite

(* create, and a request that dies.                                        *)
LEMMA TodoElse ==
    ASSUME TodoInv, raced' = (raced \/ Racing'),
           \/ \E t \in Todos, q \in Quantities \cup {Null}, r \in Rules \cup {NoRule} : Create(t, q, r)
           \/ \E w \in Workers : Abandon(w)
    PROVE  TodoInv'
<1>1. ASSUME NEW t \in Todos, NEW q \in Quantities \cup {Null}, NEW r \in Rules \cup {NoRule},
             Create(t, q, r)
      PROVE  TodoInv'
  <2> DEFINE n == [status |-> "PENDING", quantity |-> q, rule |-> r]
  <2>1. /\ todo[t].status = "NONE" /\ todo' = [todo EXCEPT ![t] = n]
        /\ UNCHANGED <<ledger, pc, job>> /\ n \in Rows /\ n.status = "PENDING"
    BY <1>1 DEF Create, Rows
  <2> HIDE DEF n
  <2>2. /\ todo' \in [Todos -> Rows] /\ todo'[t] = n
        /\ \A u \in Todos : u # t => todo'[u] = todo[u]
    BY <2>1 DEF TodoInv, TodoTyped, TypeOK, Rows
  <2>3. TodoTyped'
    BY <2>1, <2>2 DEF TodoInv, TodoTyped, TypeOK, Rows
  <2>4. ASSUME TodoCurrent PROVE TodoCurrent'
    <3>1. ASSUME NEW w \in Workers PROVE Kept(pc[w], job[w], todo')
      <4>1. Kept(pc[w], job[w], todo) /\ pc[w] \in Places /\ (pc[w] # "idle" => job[w].todo \in Todos)
        BY <2>4 DEF TodoCurrent, TodoInv, TodoTyped, Sound, TypeOK, Places
      <4>2. pc[w] # "idle" => job[w].todo # t
        BY <2>1, <4>1 DEF Kept, Places
      <4> QED
        BY <2>2, <4>1, <4>2 DEF Kept
    <3>2. ledger[t] = Null
      BY <2>1, <2>4 DEF TodoInv, TodoTyped, TypeOK, TodoCurrent, OnlyApprovedEarns
    <3>3. ~Racing'
      BY <2>1, <2>4 DEF TodoCurrent, Racing
    <3> QED
      BY <2>1, <2>2, <2>4, <3>1, <3>2, <3>3 DEF TodoCurrent, ApprovedIsPaid, OnlyApprovedEarns
  <2> QED
    BY <2>3, <2>4 DEF TodoInv
<1>2. ASSUME NEW w \in Workers, Abandon(w) PROVE TodoInv'
  <2>1. Finish(w) /\ UNCHANGED <<todo, ledger>>
    BY <1>2 DEF Abandon
  <2>2. NoJob \in Jobs /\ Sound(w, "idle", NoJob) /\ Kept("idle", NoJob, todo) /\ "idle" \in Places
    BY DEF NoJob, Jobs, Sound, Kept, Places
  <2> QED
    BY <2>1, <2>2, TodoRead DEF Finish
<1> QED
  BY <1>1, <1>2

LEMMA TodosKeep == ASSUME TodoInv, Next, raced' = (raced \/ Racing') PROVE TodoInv'
<1>1. ASSUME NEW w \in Submitters, \/ \E t \in Todos : SubmitRead(w, t)
                                   \/ \E q \in Quantities : SubmitWrite(w, q)
      PROVE  TodoInv'
  BY <1>1, TodoReads, TodoWrites, TodoConstants
<1>2. ASSUME NEW w \in Reviewers, \/ \E t \in Todos : RejectRead(w, t)
                                  \/ RejectWrite(w)
                                  \/ \E t \in Todos, r \in Rules \cup {NoRule} : ApproveRead(w, t, r)
                                  \/ ApproveWrite(w)
      PROVE  TodoInv'
  BY <1>2, TodoReads, TodoWrites, TodoApproves, TodoConstants
<1> QED
  BY <1>1, <1>2, TodoElse DEF Next
-----------------------------------------------------------------------------
(* Green Thanks: what a sender has given, as a sum over entries. *)

Entries == [from : Employees \cup {NoOne}, to : Employees \cup {NoOne},
            points : Points \cup {0}, quarter : Quarters, paid : BOOLEAN,
            status : {"none", "pending", "approved", "rejected"}]

Given(th, e, q) ==
    {t \in Thanks : /\ th[t].from = e /\ th[t].quarter = q
                    /\ th[t].status \notin {"none", "rejected"}}
PointsIn(th) == [t \in Thanks |-> th[t].points]
Total(th, e, q) == SumOf(PointsIn(th), Given(th, e, q))

LEMMA GivenIsFinite ==
    ASSUME NEW th \in [Thanks -> Entries], NEW e, NEW q
    PROVE  /\ IsFiniteSet(Given(th, e, q)) /\ Given(th, e, q) \subseteq Thanks
           /\ \A t \in Thanks : PointsIn(th)[t] = th[t].points /\ th[t].points \in Nat
<1>1. Given(th, e, q) \in SUBSET Thanks
  BY DEF Given
<1>2. IsFiniteSet(Given(th, e, q))
  BY <1>1, ThanksAssumption, FS_Subset
<1>3. ASSUME NEW t \in Thanks PROVE PointsIn(th)[t] = th[t].points /\ th[t].points \in Nat
  <2>1. th[t].points \in Points \cup {0}
    BY DEF Entries
  <2>2. \A p \in Points \cup {0} : p \in Nat
    BY ThanksAssumption
  <2>3. PointsIn(th)[t] = th[t].points
    BY DEF PointsIn
  <2> QED
    BY <2>1, <2>2, <2>3
<1> QED
  BY <1>1, <1>2, <1>3

LEMMA TotalIsNat ==
    ASSUME NEW th \in [Thanks -> Entries], NEW e, NEW q
    PROVE  Total(th, e, q) \in Nat
<1>1. \A t \in Given(th, e, q) : PointsIn(th)[t] \in Nat
  BY GivenIsFinite
<1> QED
  BY <1>1, GivenIsFinite, SumIsNat DEF Total

(* create's sum is that of the entries.                                    *)
LEMMA SentIs ==
    ASSUME NEW th \in [Thanks -> Entries], NEW e, NEW q
    PROVE  MapThenSumSet(LAMBDA t : th[t].points, Given(th, e, q)) = Total(th, e, q)
<1> DEFINE S == Given(th, e, q)
           f == PointsIn(th)
           AddsUp(g) == g = [s \in SUBSET S |-> IF s = {} THEN 0
                                           ELSE th[Chosen(s)].points + g[s \ {Chosen(s)}]]
<1>1. MapThenSumSet(LAMBDA t : th[t].points, S) = (CHOOSE g : AddsUp(g))[S]
  BY DEF MapThenSumSet, MapThenFoldSet, Chosen
<1>2. IsFiniteSet(S) /\ S \subseteq Thanks
  BY GivenIsFinite
<1>3. \A s \in SUBSET S : s # {} => f[Chosen(s)] = th[Chosen(s)].points
  BY <1>2, ChosenIn, GivenIsFinite
<1> HIDE DEF S, f
<1>4. ASSUME NEW g PROVE AddsUp(g) <=> Adds(f, g, S)
  BY <1>3 DEF Adds
<1>5. \E g : AddsUp(g)
  BY <1>2, <1>4, SumExists
<1> DEFINE h == CHOOSE g : AddsUp(g)
<1>6. AddsUp(h)
  BY <1>5
<1>7. Adds(f, h, S)
  BY <1>4, <1>6
<1> HIDE DEF h, AddsUp
<1>8. h[S] = SumOf(f, S)
  BY <1>2, <1>7, SumIs
<1> QED
  BY <1>1, <1>8 DEF Total, S, f, h

(* The same entries add up to the same, fewer to no more, and one more to  *)
(* its points more.                                                        *)
LEMMA TotalOfFewer ==
    ASSUME NEW th \in [Thanks -> Entries], NEW uh \in [Thanks -> Entries], NEW e, NEW q,
           Given(uh, e, q) \subseteq Given(th, e, q),
           \A t \in Given(uh, e, q) : uh[t].points = th[t].points
    PROVE  Total(uh, e, q) <= Total(th, e, q)
<1> DEFINE S == Given(th, e, q)
           T == Given(uh, e, q)
<1>1. IsFiniteSet(S) /\ IsFiniteSet(T) /\ S \subseteq Thanks /\ T \subseteq S
  BY GivenIsFinite
<1>2. /\ \A t \in T : PointsIn(uh)[t] = PointsIn(th)[t]
      /\ \A t \in S : PointsIn(th)[t] \in Nat
  BY <1>1, GivenIsFinite
<1> HIDE DEF S, T
<1>3. SumOf(PointsIn(uh), T) = SumOf(PointsIn(th), T)
  BY <1>1, <1>2, SumAgrees
<1>4. SumOf(PointsIn(th), T) <= SumOf(PointsIn(th), S)
  BY <1>1, <1>2, SumOfPart
<1> QED
  BY <1>3, <1>4 DEF Total, S, T

LEMMA TotalOfMore ==
    ASSUME NEW th \in [Thanks -> Entries], NEW uh \in [Thanks -> Entries], NEW e, NEW q,
           NEW t \in Thanks, Given(uh, e, q) = Given(th, e, q) \cup {t}, t \notin Given(th, e, q),
           \A u \in Given(th, e, q) : uh[u].points = th[u].points
    PROVE  Total(uh, e, q) = Total(th, e, q) + uh[t].points
<1> DEFINE S == Given(th, e, q)
           T == Given(uh, e, q)
<1>1. IsFiniteSet(S) /\ IsFiniteSet(T) /\ S \subseteq Thanks /\ T \subseteq Thanks
  BY GivenIsFinite
<1>2. /\ \A u \in S : PointsIn(uh)[u] = PointsIn(th)[u]
      /\ \A u \in T : PointsIn(uh)[u] \in Int
      /\ PointsIn(uh)[t] = uh[t].points /\ uh[t].points \in Nat
  BY <1>1, GivenIsFinite
<1>3. t \in T /\ T \ {t} = S
  OBVIOUS
<1>4. SumOf(PointsIn(th), S) \in Nat
  BY TotalIsNat DEF Total
<1> HIDE DEF S, T
<1>5. SumOf(PointsIn(uh), T) = PointsIn(uh)[t] + SumOf(PointsIn(uh), T \ {t})
  BY <1>1, <1>2, <1>3, SumElement
<1>6. SumOf(PointsIn(uh), S) = SumOf(PointsIn(th), S)
  BY <1>1, <1>2, SumAgrees
<1>7. SumOf(PointsIn(uh), T \ {t}) = SumOf(PointsIn(uh), S)
  BY <1>3, Zenon
<1>8. SumOf(PointsIn(uh), T) = SumOf(PointsIn(th), S) + uh[t].points
  BY <1>2, <1>4, <1>5, <1>6, <1>7
<1> QED
  BY <1>8 DEF Total, S, T

LEMMA TotalIsSame ==
    ASSUME NEW th \in [Thanks -> Entries], NEW uh \in [Thanks -> Entries], NEW e, NEW q,
           Given(uh, e, q) = Given(th, e, q),
           \A t \in Given(th, e, q) : uh[t].points = th[t].points
    PROVE  Total(uh, e, q) = Total(th, e, q)
<1>1. Total(uh, e, q) <= Total(th, e, q) /\ Total(th, e, q) <= Total(uh, e, q)
  BY TotalOfFewer
<1> QED
  BY <1>1, TotalIsNat

(* The models sum is this one.                                             *)
LEMMA SentIsTotal ==
    ASSUME thanks \in [Thanks -> Entries], NEW e, NEW q
    PROVE  GT!Sent(e, q) = Total(thanks, e, q)
<1>1. GT!Sent(e, q) = MapThenSumSet(LAMBDA t : thanks[t].points, Given(thanks, e, q))
  BY DEF GT!Sent, Given, GT!MapThenSumSet, GT!MapThenFoldSet, MapThenSumSet, MapThenFoldSet
<1> QED
  BY <1>1, SentIs

-----------------------------------------------------------------------------
(* Each sender has one request under way, and there is one review.  Any    *)
(* number of employees, and of payroll passes, go on at once.              *)
OneAtATime == (\A a, b \in Tabs : a = b) /\ (\A a, b \in Approvers : a = b)

GTPlaces == {"idle", "create", "approve", "reject", "mark"}
GTJobs == [to : Employees \cup {NoOne}, points : Points \cup {0},
           id : Thanks \cup {NoId}, picked : SUBSET Thanks]

Waits(c, p, j) ==
    /\ p = "create" => c \in GT!Senders /\ j.to \in Employees /\ j.to # c[1]
    /\ p \in {"approve", "reject"} => c \in Approvers /\ j.id \in Thanks

ThanksTyped ==
    /\ GT!TypeOK
    /\ \A c \in GT!Clients : Waits(c, tpc[c], tjob[c])
    /\ \A t \in Thanks : thanks[t].status # "none" => thanks[t].quarter <= quarter

(* What was read still holds: of the entry to decide, of those picked, and *)
(* of what the sender has given, in this quarter and in those to come.     *)
Fits(c, p, j, th, n) ==
    /\ p \in {"approve", "reject"} => th[j.id].status = "pending"
    /\ p = "mark" => \A t \in j.picked : th[t].status = "approved"
    /\ p = "create" => \A q \in Quarters : n <= q => Total(th, c[1], q) + j.points <= Limit

ThanksInOrder ==
    /\ \A c \in GT!Clients : Fits(c, tpc[c], tjob[c], thanks, quarter)
    /\ GT!PaidIsApproved
    /\ \A e \in Employees, q \in Quarters : Total(thanks, e, q) <= Limit

ThanksInv == ThanksTyped /\ ThanksInOrder

(* The first quarter starts with nothing given.                            *)
LEMMA NothingGiven ==
    ASSUME NEW th \in [Thanks -> Entries], NEW e, NEW q, Given(th, e, q) = {}
    PROVE  Total(th, e, q) = 0
BY SumEmpty DEF Total

LEMMA ThanksStart == GT!Init => ThanksInv
<1> SUFFICES ASSUME GT!Init PROVE ThanksInv
  OBVIOUS
<1>1. GT!NoRow \in Entries /\ GT!NoJob \in GTJobs /\ quarter = 1
  BY ThanksAssumption DEF GT!NoRow, GT!NoJob, GT!Init, Entries, GTJobs
<1>2. thanks \in [Thanks -> Entries] /\ \A t \in Thanks : thanks[t] = GT!NoRow
  BY <1>1 DEF GT!Init
<1>3. /\ tpc \in [GT!Clients -> GTPlaces] /\ tjob \in [GT!Clients -> GTJobs]
      /\ \A c \in GT!Clients : tpc[c] = "idle"
  BY <1>1 DEF GT!Init, GTPlaces
<1>4. \A t \in Thanks : thanks[t].status = "none" /\ ~thanks[t].paid
  BY <1>2 DEF GT!NoRow
<1>5. ThanksTyped
  BY <1>1, <1>2, <1>3, <1>4, ThanksAssumption
  DEF ThanksTyped, GT!TypeOK, Entries, GTPlaces, GTJobs, Waits
<1>6. \A e \in Employees, q \in Quarters : Total(thanks, e, q) <= Limit
  <2> SUFFICES ASSUME NEW e \in Employees, NEW q \in Quarters
               PROVE  Total(thanks, e, q) <= Limit
    OBVIOUS
  <2>1. Given(thanks, e, q) = {}
    BY <1>4 DEF Given
  <2>2. Total(thanks, e, q) = 0
    BY <1>2, <2>1, NothingGiven
  <2> QED
    BY <2>2, ThanksAssumption
<1> QED
  BY <1>3, <1>4, <1>5, <1>6 DEF ThanksInv, ThanksInOrder, Fits, GT!PaidIsApproved

LEMMA ThanksGo ==
    ASSUME GT!TypeOK, NEW c \in GT!Clients, NEW to \in GTPlaces, NEW j \in GTJobs,
           GT!Step(c, to, j)
    PROVE  /\ tpc' \in [GT!Clients -> GTPlaces] /\ tjob' \in [GT!Clients -> GTJobs]
           /\ tpc'[c] = to /\ tjob'[c] = j
           /\ \A v \in GT!Clients \ {c} : tpc'[v] = tpc[v] /\ tjob'[v] = tjob[v]
<1>1. tpc \in [GT!Clients -> GTPlaces] /\ tjob \in [GT!Clients -> GTJobs]
  BY DEF GT!TypeOK, GTPlaces, GTJobs
<1> QED
  BY <1>1 DEF GT!Step

LEMMA ThanksEnd ==
    ASSUME GT!TypeOK, NEW c \in GT!Clients, GT!Finish(c)
    PROVE  /\ tpc' \in [GT!Clients -> GTPlaces] /\ tjob' \in [GT!Clients -> GTJobs]
           /\ tpc'[c] = "idle"
           /\ \A v \in GT!Clients \ {c} : tpc'[v] = tpc[v] /\ tjob'[v] = tjob[v]
<1>1. GT!NoJob \in GTJobs /\ "idle" \in GTPlaces
  BY DEF GT!NoJob, GTJobs, GTPlaces
<1> QED
  BY <1>1, ThanksGo DEF GT!Finish

(* A request has read what it will go by.                                  *)
LEMMA ThanksRead ==
    ASSUME ThanksInv, NEW c \in GT!Clients, NEW to \in GTPlaces, NEW j \in GTJobs,
           GT!Step(c, to, j), Waits(c, to, j), Fits(c, to, j, thanks, quarter),
           UNCHANGED <<thanks, quarter>>
    PROVE  ThanksInv'
<1>1. /\ tpc' \in [GT!Clients -> GTPlaces] /\ tjob' \in [GT!Clients -> GTJobs]
      /\ tpc'[c] = to /\ tjob'[c] = j
      /\ \A v \in GT!Clients \ {c} : tpc'[v] = tpc[v] /\ tjob'[v] = tjob[v]
  BY ThanksGo DEF ThanksInv, ThanksTyped
<1>2. \A v \in GT!Clients : Waits(v, tpc'[v], tjob'[v])
  BY <1>1 DEF ThanksInv, ThanksTyped
<1>3. ThanksTyped'
  BY <1>1, <1>2 DEF ThanksInv, ThanksTyped, GT!TypeOK, GTPlaces, GTJobs
<1>4. \A v \in GT!Clients : Fits(v, tpc'[v], tjob'[v], thanks, quarter)
  BY <1>1 DEF ThanksInv, ThanksInOrder
<1> QED
  BY <1>3, <1>4 DEF ThanksInv, ThanksInOrder, GT!PaidIsApproved

(* A request has written: what the others have read still holds.           *)
LEMMA ThanksWrite ==
    ASSUME ThanksInv, NEW c \in GT!Clients, GT!Finish(c), UNCHANGED quarter,
           thanks' \in [Thanks -> Entries],
           \A t \in Thanks : thanks'[t].status # "none" =>
               /\ thanks'[t].from # thanks'[t].to /\ thanks'[t].quarter <= quarter,
           \A t \in Thanks : thanks'[t].paid => thanks'[t].status = "approved",
           \A e \in Employees, q \in Quarters : Total(thanks', e, q) <= Limit,
           \A v \in GT!Clients \ {c} :
               tpc[v] # "idle" => Fits(v, tpc[v], tjob[v], thanks', quarter)
    PROVE  ThanksInv'
<1>1. /\ tpc' \in [GT!Clients -> GTPlaces] /\ tjob' \in [GT!Clients -> GTJobs]
      /\ tpc'[c] = "idle"
      /\ \A v \in GT!Clients \ {c} : tpc'[v] = tpc[v] /\ tjob'[v] = tjob[v]
  BY ThanksEnd DEF ThanksInv, ThanksTyped
<1>2. \A v \in GT!Clients : Waits(v, tpc'[v], tjob'[v])
  BY <1>1 DEF ThanksInv, ThanksTyped, Waits
<1>3. ThanksTyped'
  BY <1>1, <1>2 DEF ThanksInv, ThanksTyped, GT!TypeOK, GTPlaces, GTJobs, Entries
<1>4. \A v \in GT!Clients : Fits(v, tpc'[v], tjob'[v], thanks', quarter)
  BY <1>1 DEF Fits
<1> QED
  BY <1>3, <1>4 DEF ThanksInv, ThanksInOrder, GT!PaidIsApproved

LEMMA AtThanks ==
    ASSUME ThanksInv, NEW c \in GT!Clients
    PROVE  /\ thanks \in [Thanks -> Entries] /\ quarter \in Quarters /\ quarter \in Nat
           /\ tpc[c] \in GTPlaces /\ tjob[c] \in GTJobs
           /\ Waits(c, tpc[c], tjob[c]) /\ Fits(c, tpc[c], tjob[c], thanks, quarter)
BY ThanksAssumption
DEF ThanksInv, ThanksTyped, ThanksInOrder, GT!TypeOK, Entries, GTPlaces, GTJobs

(* create's check leaves room in this quarter, and nothing is given in a   *)
(* later one yet.                                                          *)
LEMMA RoomIsLeft ==
    ASSUME ThanksInv, NEW c \in GT!Senders, NEW p \in Points,
           GT!Sent(c[1], quarter) + p <= Limit, NEW q \in Quarters, quarter <= q
    PROVE  Total(thanks, c[1], q) + p <= Limit
<1>1. thanks \in [Thanks -> Entries] /\ quarter \in Nat /\ q \in Nat /\ p \in Nat /\ Limit \in Nat
  BY ThanksAssumption DEF ThanksInv, ThanksTyped, GT!TypeOK, Entries
<1>2. Total(thanks, c[1], quarter) + p <= Limit /\ Total(thanks, c[1], quarter) \in Nat
  BY <1>1, SentIsTotal, TotalIsNat
<1>3. CASE q = quarter
  BY <1>2, <1>3
<1>4. CASE q # quarter
  <2>1. Given(thanks, c[1], q) = {}
    BY <1>1, <1>4 DEF Given, ThanksInv, ThanksTyped
  <2>2. Total(thanks, c[1], q) = 0
    BY <1>1, <2>1, NothingGiven
  <2> QED
    BY <1>1, <1>2, <2>2
<1> QED
  BY <1>3, <1>4

LEMMA CreateReads ==
    ASSUME ThanksInv, NEW c \in GT!Senders, NEW to \in Employees, NEW p \in Points,
           GT!CreateRead(c, to, p)
    PROVE  ThanksInv'
<1> DEFINE j == [tjob[c] EXCEPT !.to = to, !.points = p]
<1>1. /\ to # c[1] /\ GT!Sent(c[1], quarter) + p <= Limit /\ GT!Step(c, "create", j)
      /\ UNCHANGED <<thanks, quarter>> /\ c \in GT!Clients
  BY DEF GT!CreateRead, GT!Clients
<1>2. j \in GTJobs /\ j.to = to /\ j.points = p
  BY <1>1, AtThanks DEF GTJobs
<1> HIDE DEF j
<1>3. Waits(c, "create", j) /\ Fits(c, "create", j, thanks, quarter)
  BY <1>1, <1>2, RoomIsLeft DEF Waits, Fits
<1> QED
  BY <1>1, <1>2, <1>3, ThanksRead DEF GTPlaces

LEMMA OtherReads ==
    ASSUME ThanksInv,
           \/ \E c \in Approvers, t \in Thanks, v \in {"approve", "reject"} : GT!ReviewRead(c, t, v)
           \/ \E c \in Passes, e \in Employees, ids \in SUBSET Thanks : GT!PickThanks(c, e, ids)
           \/ \E c \in GT!Clients : GT!Abandon(c)
    PROVE  ThanksInv'
<1>1. ASSUME NEW c \in Approvers, NEW t \in Thanks, NEW v \in {"approve", "reject"},
             GT!ReviewRead(c, t, v)
      PROVE  ThanksInv'
  <2> DEFINE j == [tjob[c] EXCEPT !.id = t]
  <2>1. /\ thanks[t].status = "pending" /\ GT!Step(c, v, j) /\ UNCHANGED <<thanks, quarter>>
        /\ c \in GT!Clients
    BY <1>1 DEF GT!ReviewRead, GT!Clients
  <2>2. j \in GTJobs /\ j.id = t
    BY <2>1, AtThanks DEF GTJobs
  <2> HIDE DEF j
  <2>3. Waits(c, v, j) /\ Fits(c, v, j, thanks, quarter) /\ v \in GTPlaces
    BY <2>1, <2>2 DEF Waits, Fits, GTPlaces
  <2> QED
    BY <2>1, <2>2, <2>3, ThanksRead
<1>2. ASSUME NEW c \in Passes, NEW e \in Employees, NEW ids \in SUBSET Thanks,
             GT!PickThanks(c, e, ids)
      PROVE  ThanksInv'
  <2> DEFINE j == [tjob[c] EXCEPT !.picked = ids]
  <2>1. /\ \A t \in ids : thanks[t].status = "approved"
        /\ GT!Step(c, "mark", j) /\ UNCHANGED <<thanks, quarter>> /\ c \in GT!Clients
    BY <1>2 DEF GT!PickThanks, GT!Clients
  <2>2. j \in GTJobs /\ j.picked = ids
    BY <2>1, AtThanks DEF GTJobs
  <2> HIDE DEF j
  <2>3. Waits(c, "mark", j) /\ Fits(c, "mark", j, thanks, quarter) /\ "mark" \in GTPlaces
    BY <2>1, <2>2 DEF Waits, Fits, GTPlaces
  <2> QED
    BY <2>1, <2>2, <2>3, ThanksRead
<1>3. ASSUME NEW c \in GT!Clients, GT!Abandon(c) PROVE ThanksInv'
  <2>1. GT!Step(c, "idle", GT!NoJob) /\ UNCHANGED <<thanks, quarter>>
    BY <1>3 DEF GT!Abandon, GT!Finish
  <2>2. /\ Waits(c, "idle", GT!NoJob) /\ Fits(c, "idle", GT!NoJob, thanks, quarter)
        /\ "idle" \in GTPlaces /\ GT!NoJob \in GTJobs
    BY DEF Waits, Fits, GTPlaces, GTJobs, GT!NoJob
  <2> QED
    BY <2>1, <2>2, ThanksRead
<1> QED
  BY <1>1, <1>2, <1>3

(* The row create inserts counts once, for its sender, in this quarter.    *)
LEMMA CreateWrites ==
    ASSUME OneAtATime, ThanksInv, NEW c \in GT!Senders, NEW t \in Thanks, GT!CreateWrite(c, t)
    PROVE  ThanksInv'
<1> DEFINE n == [from |-> c[1], to |-> tjob[c].to, points |-> tjob[c].points,
                 status |-> "pending", quarter |-> quarter, paid |-> FALSE]
<1>1. /\ tpc[c] = "create" /\ thanks[t].status = "none" /\ GT!Finish(c) /\ UNCHANGED quarter
      /\ thanks' = [thanks EXCEPT ![t] = n] /\ c \in GT!Clients
  BY DEF GT!CreateWrite, GT!Clients
<1>2. c[1] \in Employees /\ c[2] \in Tabs /\ c = <<c[1], c[2]>>
  BY DEF GT!Senders
<1>3. /\ thanks \in [Thanks -> Entries] /\ quarter \in Quarters /\ quarter \in Nat
      /\ tjob[c].to \in Employees /\ tjob[c].to # c[1] /\ tjob[c].points \in Points \cup {0}
      /\ Fits(c, "create", tjob[c], thanks, quarter)
  BY <1>1, AtThanks DEF Waits, GTJobs
<1>4. n \in Entries /\ n.from # n.to /\ n.quarter = quarter /\ n.from = c[1]
      /\ n.status = "pending" /\ ~n.paid /\ n.points = tjob[c].points
  BY <1>2, <1>3 DEF Entries
<1> HIDE DEF n
<1>5. /\ thanks' \in [Thanks -> Entries] /\ thanks'[t] = n
      /\ \A u \in Thanks : u # t => thanks'[u] = thanks[u]
  BY <1>1, <1>3, <1>4
<1>6. Total(thanks', c[1], quarter) = Total(thanks, c[1], quarter) + n.points
  <2>1. Given(thanks', c[1], quarter) = Given(thanks, c[1], quarter) \cup {t}
    BY <1>1, <1>4, <1>5 DEF Given
  <2>2. /\ t \notin Given(thanks, c[1], quarter)
        /\ \A u \in Given(thanks, c[1], quarter) : thanks'[u].points = thanks[u].points
    BY <1>1, <1>5 DEF Given
  <2> QED
    BY <1>3, <1>5, <2>1, <2>2, TotalOfMore
<1>7. ASSUME NEW e, NEW q, e # c[1] \/ q # quarter PROVE Total(thanks', e, q) = Total(thanks, e, q)
  <2>1. Given(thanks', e, q) = Given(thanks, e, q)
    BY <1>1, <1>4, <1>5, <1>7 DEF Given
  <2>2. \A u \in Given(thanks, e, q) : thanks'[u].points = thanks[u].points
    BY <1>1, <1>5 DEF Given
  <2> QED
    BY <1>3, <1>5, <2>1, <2>2, TotalIsSame
<1>8. \A e \in Employees, q \in Quarters : Total(thanks', e, q) <= Limit
  <2>1. Total(thanks, c[1], quarter) + n.points <= Limit
    BY <1>3, <1>4 DEF Fits
  <2> QED
    BY <1>6, <1>7, <2>1 DEF ThanksInv, ThanksInOrder
<1>9. ASSUME NEW v \in GT!Clients \ {c}, tpc[v] # "idle"
      PROVE  Fits(v, tpc[v], tjob[v], thanks', quarter)
  <2>1. Fits(v, tpc[v], tjob[v], thanks, quarter) /\ Waits(v, tpc[v], tjob[v]) /\ tjob[v] \in GTJobs
    BY AtThanks
  <2>2. tpc[v] = "create" => v[1] # c[1]
    <3> SUFFICES ASSUME tpc[v] = "create", v[1] = c[1] PROVE FALSE
      OBVIOUS
    <3>1. v \in GT!Senders
      BY <2>1 DEF Waits
    <3>2. v[2] \in Tabs /\ v = <<v[1], v[2]>>
      BY <3>1 DEF GT!Senders
    <3> QED
      BY <1>2, <3>2 DEF OneAtATime
  <2>3. tpc[v] \in {"approve", "reject"} => tjob[v].id # t
    BY <1>1, <2>1 DEF Fits
  <2>4. tpc[v] = "mark" => \A u \in tjob[v].picked : u # t /\ u \in Thanks
    BY <1>1, <2>1 DEF Fits, GTJobs
  <2> QED
    BY <1>5, <1>7, <2>1, <2>2, <2>3, <2>4 DEF Fits, Waits
<1>10. /\ \A u \in Thanks : thanks'[u].status # "none" =>
              thanks'[u].from # thanks'[u].to /\ thanks'[u].quarter <= quarter
       /\ \A u \in Thanks : thanks'[u].paid => thanks'[u].status = "approved"
  BY <1>3, <1>4, <1>5 DEF ThanksInv, ThanksTyped, ThanksInOrder, GT!TypeOK, GT!PaidIsApproved
<1> QED
  BY <1>1, <1>5, <1>8, <1>9, <1>10, ThanksWrite

(* A write that adds no entry to what anyone has given.                    *)
LEMMA NothingAdded ==
    ASSUME ThanksInv, NEW c \in GT!Clients, GT!Finish(c), UNCHANGED quarter,
           thanks' \in [Thanks -> Entries],
           \A t \in Thanks : /\ thanks'[t].from = thanks[t].from /\ thanks'[t].to = thanks[t].to
                             /\ thanks'[t].quarter = thanks[t].quarter
                             /\ thanks'[t].points = thanks[t].points
                             /\ thanks[t].status \in {"none", "rejected"} =>
                                    thanks'[t].status = thanks[t].status
                             /\ thanks[t].status = "approved" => thanks'[t].status = "approved"
                             /\ thanks'[t].paid => thanks'[t].status = "approved",
           \A v \in GT!Clients \ {c} : tpc[v] \in {"approve", "reject"} =>
               thanks'[tjob[v].id].status = "pending"
    PROVE  ThanksInv'
<1>1. thanks \in [Thanks -> Entries]
  BY AtThanks
<1>2. \A e, q : Total(thanks', e, q) <= Total(thanks, e, q)
  <2> SUFFICES ASSUME NEW e, NEW q PROVE Total(thanks', e, q) <= Total(thanks, e, q)
    OBVIOUS
  <2>1. Given(thanks', e, q) \subseteq Given(thanks, e, q)
    BY DEF Given
  <2>2. \A t \in Given(thanks', e, q) : thanks'[t].points = thanks[t].points
    BY DEF Given
  <2> QED
    BY <1>1, <2>1, <2>2, TotalOfFewer
<1>3. \A e, q : Total(thanks', e, q) \in Nat /\ Total(thanks, e, q) \in Nat
  BY <1>1, TotalIsNat
<1>4. \A e \in Employees, q \in Quarters : Total(thanks', e, q) <= Limit
  BY <1>2, <1>3, ThanksAssumption DEF ThanksInv, ThanksInOrder
<1>5. ASSUME NEW v \in GT!Clients \ {c} PROVE Fits(v, tpc[v], tjob[v], thanks', quarter)
  <2>1. /\ Fits(v, tpc[v], tjob[v], thanks, quarter) /\ tjob[v] \in GTJobs
        /\ tjob[v].points \in Points \cup {0}
    BY AtThanks DEF GTJobs
  <2>2. tjob[v].points \in Nat /\ Limit \in Nat
    <3>1. \A p \in Points \cup {0} : p \in Nat
      BY ThanksAssumption
    <3> QED
      BY <2>1, <3>1, ThanksAssumption
  <2>3. \A q \in Quarters : Total(thanks, v[1], q) + tjob[v].points <= Limit =>
            Total(thanks', v[1], q) + tjob[v].points <= Limit
    BY <1>2, <1>3, <2>2
  <2>4. \A t \in tjob[v].picked : t \in Thanks
    BY <2>1 DEF GTJobs
  <2> QED
    BY <2>1, <2>3, <2>4 DEF Fits
<1>6. \A t \in Thanks : thanks'[t].status # "none" =>
          thanks'[t].from # thanks'[t].to /\ thanks'[t].quarter <= quarter
  BY DEF ThanksInv, ThanksTyped, GT!TypeOK
<1> QED
  BY <1>4, <1>5, <1>6, ThanksWrite

LEMMA ReviewWrites ==
    ASSUME OneAtATime, ThanksInv, NEW c \in Approvers, GT!ApproveWrite(c) \/ GT!RejectWrite(c)
    PROVE  ThanksInv'
<1> DEFINE t == tjob[c].id
<1>1. PICK s \in {"approved", "rejected"} :
          /\ tpc[c] \in {"approve", "reject"} /\ thanks' = [thanks EXCEPT ![t].status = s]
          /\ GT!Finish(c) /\ UNCHANGED quarter
  BY DEF GT!ApproveWrite, GT!RejectWrite
<1>2. c \in GT!Clients
  BY DEF GT!Clients
<1>3. thanks \in [Thanks -> Entries] /\ t \in Thanks /\ thanks[t].status = "pending"
  BY <1>1, <1>2, AtThanks DEF Waits, Fits
<1>4. ~thanks[t].paid
  BY <1>3 DEF ThanksInv, ThanksInOrder, GT!PaidIsApproved
<1> DEFINE n == [thanks[t] EXCEPT !.status = s]
<1>5. /\ n \in Entries /\ n.status = s /\ n.from = thanks[t].from /\ n.to = thanks[t].to
      /\ n.quarter = thanks[t].quarter /\ n.points = thanks[t].points /\ n.paid = thanks[t].paid
  BY <1>3 DEF Entries
<1>6. /\ thanks' \in [Thanks -> Entries] /\ thanks'[t] = n
      /\ \A u \in Thanks : u # t => thanks'[u] = thanks[u]
  BY <1>1, <1>3, <1>5
<1> HIDE DEF n, t
<1>7. \A u \in Thanks : thanks[u].paid => thanks[u].status = "approved"
  BY DEF ThanksInv, ThanksInOrder, GT!PaidIsApproved
<1>8. \A v \in GT!Clients \ {c} : tpc[v] \notin {"approve", "reject"}
  BY AtThanks DEF Waits, OneAtATime
<1> QED
  BY <1>1, <1>2, <1>3, <1>4, <1>5, <1>6, <1>7, <1>8, NothingAdded

LEMMA MarkWrites ==
    ASSUME ThanksInv, NEW c \in Passes, GT!MarkPaid(c)
    PROVE  ThanksInv'
<1>1. /\ tpc[c] = "mark" /\ GT!Finish(c) /\ UNCHANGED quarter /\ c \in GT!Clients
      /\ thanks' = [t \in Thanks |-> IF t \in tjob[c].picked THEN [thanks[t] EXCEPT !.paid = TRUE]
                                     ELSE thanks[t]]
  BY DEF GT!MarkPaid, GT!Clients
<1>2. /\ thanks \in [Thanks -> Entries]
      /\ \A t \in tjob[c].picked : thanks[t].status = "approved"
  BY <1>1, AtThanks DEF Fits
<1>3. ASSUME NEW t \in Thanks
      PROVE  /\ thanks'[t] \in Entries /\ thanks'[t].from = thanks[t].from
             /\ thanks'[t].to = thanks[t].to /\ thanks'[t].quarter = thanks[t].quarter
             /\ thanks'[t].points = thanks[t].points /\ thanks'[t].status = thanks[t].status
             /\ thanks'[t].paid => thanks[t].paid \/ t \in tjob[c].picked
  <2> DEFINE n == [thanks[t] EXCEPT !.paid = TRUE]
  <2>1. /\ n \in Entries /\ n.from = thanks[t].from /\ n.to = thanks[t].to
        /\ n.quarter = thanks[t].quarter /\ n.points = thanks[t].points
        /\ n.status = thanks[t].status
    BY <1>2 DEF Entries
  <2>2. thanks'[t] = IF t \in tjob[c].picked THEN n ELSE thanks[t]
    BY <1>1
  <2> HIDE DEF n
  <2> QED
    BY <1>2, <2>1, <2>2
<1>4. thanks' \in [Thanks -> Entries]
  <2>1. thanks' = [t \in Thanks |-> thanks'[t]]
    BY <1>1
  <2> QED
    BY <1>3, <2>1
<1>5. \A v \in GT!Clients \ {c} : tpc[v] \in {"approve", "reject"} =>
          thanks'[tjob[v].id].status = "pending"
  <2> SUFFICES ASSUME NEW v \in GT!Clients, tpc[v] \in {"approve", "reject"}
               PROVE  thanks'[tjob[v].id].status = "pending"
    OBVIOUS
  <2>1. tjob[v].id \in Thanks /\ thanks[tjob[v].id].status = "pending"
    BY AtThanks DEF Waits, Fits
  <2> QED
    BY <1>3, <2>1
<1>6. \A u \in Thanks : thanks[u].paid => thanks[u].status = "approved"
  BY DEF ThanksInv, ThanksInOrder, GT!PaidIsApproved
<1> QED
  BY <1>1, <1>2, <1>3, <1>4, <1>5, <1>6, NothingAdded

LEMMA QuarterEnds == ASSUME ThanksInv, GT!NextQuarter PROVE ThanksInv'
<1>1. /\ quarter' = quarter + 1 /\ quarter' \in Quarters /\ UNCHANGED <<thanks, tpc, tjob>>
  BY DEF GT!NextQuarter
<1>2. quarter \in Nat /\ \A q \in Quarters : q \in Nat
  BY ThanksAssumption DEF ThanksInv, ThanksTyped, GT!TypeOK
<1>3. \A t \in Thanks : thanks[t].quarter \in Nat
  BY <1>2 DEF ThanksInv, ThanksTyped, GT!TypeOK
<1>4. ThanksTyped'
  BY <1>1, <1>2, <1>3 DEF ThanksInv, ThanksTyped, GT!TypeOK
<1>5. ASSUME NEW c \in GT!Clients PROVE Fits(c, tpc[c], tjob[c], thanks, quarter')
  <2>1. Fits(c, tpc[c], tjob[c], thanks, quarter)
    BY DEF ThanksInv, ThanksInOrder
  <2>2. \A q \in Quarters : quarter' <= q => quarter <= q
    BY <1>1, <1>2
  <2> QED
    BY <2>1, <2>2 DEF Fits
<1> QED
  BY <1>1, <1>4, <1>5 DEF ThanksInv, ThanksInOrder, GT!PaidIsApproved

LEMMA ThanksKeep == ASSUME OneAtATime, ThanksInv, GT!Next PROVE ThanksInv'
BY CreateReads, CreateWrites, OtherReads, ReviewWrites, MarkWrites, QuarterEnds DEF GT!Next

(* Whoever decides has read an entry, which never goes away; this much     *)
(* holds however the requests interleave.                                  *)
Known(c, p, j, th) ==
    /\ p = "create" => c \in GT!Senders /\ j.to \in Employees /\ j.to # c[1]
    /\ p \in {"approve", "reject"} => j.id \in Thanks /\ th[j.id].status # "none"

ThanksKnown ==
    /\ GT!TypeOK
    /\ \A c \in GT!Clients : Known(c, tpc[c], tjob[c], thanks)

LEMMA KnownStart == GT!Init => ThanksKnown
BY ThanksStart DEF ThanksInv, ThanksTyped, ThanksKnown, Known, GT!Init

LEMMA AtKnown ==
    ASSUME ThanksKnown, NEW c \in GT!Clients
    PROVE  /\ thanks \in [Thanks -> Entries] /\ quarter \in Quarters
           /\ \A t \in Thanks : thanks[t].status # "none" => thanks[t].from # thanks[t].to
           /\ tpc[c] \in GTPlaces /\ tjob[c] \in GTJobs
           /\ Known(c, tpc[c], tjob[c], thanks)
BY DEF ThanksKnown, GT!TypeOK, Entries, GTPlaces, GTJobs

LEMMA KnownRead ==
    ASSUME ThanksKnown, NEW c \in GT!Clients, NEW to \in GTPlaces, NEW j \in GTJobs,
           GT!Step(c, to, j), Known(c, to, j, thanks), UNCHANGED <<thanks, quarter>>
    PROVE  ThanksKnown'
<1>1. /\ tpc' \in [GT!Clients -> GTPlaces] /\ tjob' \in [GT!Clients -> GTJobs]
      /\ tpc'[c] = to /\ tjob'[c] = j
      /\ \A v \in GT!Clients \ {c} : tpc'[v] = tpc[v] /\ tjob'[v] = tjob[v]
  BY ThanksGo DEF ThanksKnown
<1>2. ASSUME NEW v \in GT!Clients PROVE Known(v, tpc'[v], tjob'[v], thanks)
  BY <1>1, AtKnown
<1> QED
  BY <1>1, <1>2 DEF ThanksKnown, GT!TypeOK, GTPlaces, GTJobs

LEMMA KnownWrite ==
    ASSUME ThanksKnown, NEW c \in GT!Clients, GT!Finish(c), UNCHANGED quarter,
           thanks' \in [Thanks -> Entries],
           \A t \in Thanks : thanks[t].status # "none" => thanks'[t].status # "none",
           \A t \in Thanks : thanks'[t].status # "none" => thanks'[t].from # thanks'[t].to
    PROVE  ThanksKnown'
<1>1. /\ tpc' \in [GT!Clients -> GTPlaces] /\ tjob' \in [GT!Clients -> GTJobs]
      /\ tpc'[c] = "idle"
      /\ \A v \in GT!Clients \ {c} : tpc'[v] = tpc[v] /\ tjob'[v] = tjob[v]
  BY ThanksEnd DEF ThanksKnown
<1>2. ASSUME NEW v \in GT!Clients PROVE Known(v, tpc'[v], tjob'[v], thanks')
  BY <1>1, AtKnown DEF Known
<1> QED
  BY <1>1, <1>2 DEF ThanksKnown, GT!TypeOK, GTPlaces, GTJobs, Entries

LEMMA KnownReads ==
    ASSUME ThanksKnown,
           \/ \E c \in GT!Senders, to \in Employees, p \in Points : GT!CreateRead(c, to, p)
           \/ \E c \in Approvers, t \in Thanks, v \in {"approve", "reject"} : GT!ReviewRead(c, t, v)
           \/ \E c \in Passes, e \in Employees, ids \in SUBSET Thanks : GT!PickThanks(c, e, ids)
           \/ \E c \in GT!Clients : GT!Abandon(c)
    PROVE  ThanksKnown'
<1>1. ASSUME NEW c \in GT!Senders, NEW to \in Employees, NEW p \in Points, GT!CreateRead(c, to, p)
      PROVE  ThanksKnown'
  <2> DEFINE j == [tjob[c] EXCEPT !.to = to, !.points = p]
  <2>1. /\ to # c[1] /\ GT!Step(c, "create", j) /\ UNCHANGED <<thanks, quarter>>
        /\ c \in GT!Clients
    BY <1>1 DEF GT!CreateRead, GT!Clients
  <2>2. j \in GTJobs /\ j.to = to
    BY <2>1, AtKnown DEF GTJobs
  <2> HIDE DEF j
  <2>3. Known(c, "create", j, thanks) /\ "create" \in GTPlaces
    BY <2>1, <2>2 DEF Known, GTPlaces
  <2> QED
    BY <2>1, <2>2, <2>3, KnownRead
<1>2. ASSUME NEW c \in Approvers, NEW t \in Thanks, NEW v \in {"approve", "reject"},
             GT!ReviewRead(c, t, v)
      PROVE  ThanksKnown'
  <2> DEFINE j == [tjob[c] EXCEPT !.id = t]
  <2>1. /\ thanks[t].status = "pending" /\ GT!Step(c, v, j) /\ UNCHANGED <<thanks, quarter>>
        /\ c \in GT!Clients
    BY <1>2 DEF GT!ReviewRead, GT!Clients
  <2>2. j \in GTJobs /\ j.id = t
    BY <2>1, AtKnown DEF GTJobs
  <2> HIDE DEF j
  <2>3. Known(c, v, j, thanks) /\ v \in GTPlaces
    BY <2>1, <2>2 DEF Known, GTPlaces
  <2> QED
    BY <2>1, <2>2, <2>3, KnownRead
<1>3. ASSUME NEW c \in Passes, NEW e \in Employees, NEW ids \in SUBSET Thanks,
             GT!PickThanks(c, e, ids)
      PROVE  ThanksKnown'
  <2> DEFINE j == [tjob[c] EXCEPT !.picked = ids]
  <2>1. GT!Step(c, "mark", j) /\ UNCHANGED <<thanks, quarter>> /\ c \in GT!Clients
    BY <1>3 DEF GT!PickThanks, GT!Clients
  <2>2. j \in GTJobs
    BY <2>1, AtKnown DEF GTJobs
  <2> HIDE DEF j
  <2>3. Known(c, "mark", j, thanks) /\ "mark" \in GTPlaces
    BY DEF Known, GTPlaces
  <2> QED
    BY <2>1, <2>2, <2>3, KnownRead
<1>4. ASSUME NEW c \in GT!Clients, GT!Abandon(c) PROVE ThanksKnown'
  <2>1. GT!Step(c, "idle", GT!NoJob) /\ UNCHANGED <<thanks, quarter>>
    BY <1>4 DEF GT!Abandon, GT!Finish
  <2>2. Known(c, "idle", GT!NoJob, thanks) /\ "idle" \in GTPlaces /\ GT!NoJob \in GTJobs
    BY DEF Known, GTPlaces, GTJobs, GT!NoJob
  <2> QED
    BY <2>1, <2>2, KnownRead
<1> QED
  BY <1>1, <1>2, <1>3, <1>4

LEMMA KnownWrites ==
    ASSUME ThanksKnown,
           \/ \E c \in GT!Senders, t \in Thanks : GT!CreateWrite(c, t)
           \/ \E c \in Approvers : GT!ApproveWrite(c) \/ GT!RejectWrite(c)
           \/ \E c \in Passes : GT!MarkPaid(c)
    PROVE  ThanksKnown'
<1>1. ASSUME NEW c \in GT!Senders, NEW t \in Thanks, GT!CreateWrite(c, t) PROVE ThanksKnown'
  <2> DEFINE n == [from |-> c[1], to |-> tjob[c].to, points |-> tjob[c].points,
                   status |-> "pending", quarter |-> quarter, paid |-> FALSE]
  <2>1. /\ tpc[c] = "create" /\ GT!Finish(c) /\ UNCHANGED quarter
        /\ thanks' = [thanks EXCEPT ![t] = n] /\ c \in GT!Clients /\ c[1] \in Employees
    BY <1>1 DEF GT!CreateWrite, GT!Clients, GT!Senders
  <2>2. /\ thanks \in [Thanks -> Entries] /\ quarter \in Quarters
        /\ tjob[c].to \in Employees /\ tjob[c].to # c[1] /\ tjob[c].points \in Points \cup {0}
    BY <2>1, AtKnown DEF Known, GTJobs
  <2>3. n \in Entries /\ n.from # n.to /\ n.status = "pending"
    BY <2>1, <2>2 DEF Entries
  <2> HIDE DEF n
  <2> QED
    BY <2>1, <2>2, <2>3, AtKnown, KnownWrite
<1>2. ASSUME NEW c \in Approvers, GT!ApproveWrite(c) \/ GT!RejectWrite(c) PROVE ThanksKnown'
  <2> DEFINE t == tjob[c].id
  <2>1. PICK s \in {"approved", "rejected"} :
            /\ tpc[c] \in {"approve", "reject"} /\ thanks' = [thanks EXCEPT ![t].status = s]
            /\ GT!Finish(c) /\ UNCHANGED quarter
    BY <1>2 DEF GT!ApproveWrite, GT!RejectWrite
  <2>2. c \in GT!Clients
    BY DEF GT!Clients
  <2>3. thanks \in [Thanks -> Entries] /\ t \in Thanks /\ thanks[t].status # "none"
    BY <2>1, <2>2, AtKnown DEF Known
  <2>4. thanks[t].from # thanks[t].to
    BY <2>2, <2>3, AtKnown
  <2> DEFINE n == [thanks[t] EXCEPT !.status = s]
  <2>5. n \in Entries /\ n.status = s /\ n.from = thanks[t].from /\ n.to = thanks[t].to
    BY <2>3 DEF Entries
  <2>6. thanks' = [thanks EXCEPT ![t] = n]
    BY <2>1
  <2> HIDE DEF n, t
  <2> QED
    BY <2>1, <2>2, <2>3, <2>4, <2>5, <2>6, AtKnown, KnownWrite
<1>3. ASSUME NEW c \in Passes, GT!MarkPaid(c) PROVE ThanksKnown'
  <2>1. /\ GT!Finish(c) /\ UNCHANGED quarter /\ c \in GT!Clients
        /\ thanks' = [t \in Thanks |-> IF t \in tjob[c].picked THEN [thanks[t] EXCEPT !.paid = TRUE]
                                       ELSE thanks[t]]
    BY <1>3 DEF GT!MarkPaid, GT!Clients
  <2>2. thanks \in [Thanks -> Entries]
    BY <2>1, AtKnown
  <2>3. ASSUME NEW t \in Thanks
        PROVE  /\ thanks'[t] \in Entries /\ thanks'[t].from = thanks[t].from
               /\ thanks'[t].to = thanks[t].to /\ thanks'[t].status = thanks[t].status
    <3> DEFINE n == [thanks[t] EXCEPT !.paid = TRUE]
    <3>1. /\ n \in Entries /\ n.from = thanks[t].from /\ n.to = thanks[t].to
          /\ n.status = thanks[t].status
      BY <2>2 DEF Entries
    <3>2. thanks'[t] = IF t \in tjob[c].picked THEN n ELSE thanks[t]
      BY <2>1
    <3> HIDE DEF n
    <3> QED
      BY <2>2, <3>1, <3>2
  <2>4. thanks' \in [Thanks -> Entries]
    <3>1. thanks' = [t \in Thanks |-> thanks'[t]]
      BY <2>1
    <3> QED
      BY <2>3, <3>1
  <2> QED
    BY <2>1, <2>3, <2>4, AtKnown, KnownWrite
<1> QED
  BY <1>1, <1>2, <1>3

LEMMA KnownKeep == ASSUME ThanksKnown, GT!Next PROVE ThanksKnown'
<1>1. CASE GT!NextQuarter
  BY <1>1 DEF GT!NextQuarter, ThanksKnown, GT!TypeOK
<1> QED
  BY <1>1, KnownReads, KnownWrites DEF GT!Next

-----------------------------------------------------------------------------
(* Loans: powers, and what is rounded. *)

Powers(b, n, c) == c = [k \in 0 .. n |-> IF k = 0 THEN 1 ELSE b * c[k - 1]]

LEMMA PowerExists ==
    ASSUME NEW b \in Nat, NEW n \in Nat
    PROVE  \E c \in [0 .. n -> Nat] : Powers(b, n, c)
<1> DEFINE F == [p \in Nat \X Nat |-> b * p[2]]
<1>1. F \in [Nat \X Nat -> Nat]
  OBVIOUS
<1>2. \A m, x \in Nat : F[<<m, x>>] = b * x
  OBVIOUS
<1> HIDE DEF F
<1>3. PICK c \in [0 .. n -> Nat] : Steps(c, F, 1, n)
  BY <1>1, StepsExist
<1>4. ASSUME NEW k \in 0 .. n PROVE c[k] = IF k = 0 THEN 1 ELSE b * c[k - 1]
  <2>1. c[k] = IF k = 0 THEN 1 ELSE F[<<k, c[k - 1]>>]
    BY <1>3 DEF Steps
  <2>2. k # 0 => k \in Nat /\ c[k - 1] \in Nat
    OBVIOUS
  <2> QED
    BY <1>2, <2>1, <2>2
<1> QED
  BY <1>4 DEF Powers

LEMMA PowerIs ==
    ASSUME NEW b \in Nat, NEW n \in Nat, NEW c \in [0 .. n -> Nat], Powers(b, n, c),
           NEW k \in 0 .. n
    PROVE  L!Power(b, k) = c[k]
<1> DEFINE d == CHOOSE d : Powers(b, k, d)
<1>1. L!Power(b, k) = d[k]
  BY DEF L!Power, Powers
<1>2. Powers(b, k, d)
  BY PowerExists
<1> HIDE DEF d
<1> DEFINE G == {m \in 0 .. k : d[m] = c[m]}
<1>3. 0 \in G
  BY <1>2 DEF Powers
<1>4. ASSUME NEW m \in 1 .. k, m - 1 \in G PROVE m \in G
  <2>1. d[m] = b * d[m - 1] /\ c[m] = b * c[m - 1]
    BY <1>2 DEF Powers
  <2> QED
    BY <1>4, <2>1
<1> HIDE DEF G
<1>5. k \in Nat /\ k \in 0 .. k
  OBVIOUS
<1>6. k \in G
  BY <1>3, <1>4, <1>5, CountUp
<1> QED
  BY <1>1, <1>6 DEF G

LEMMA PowerGoesOn ==
    ASSUME NEW b \in Nat, NEW n \in Nat
    PROVE  /\ L!Power(b, 0) = 1 /\ L!Power(b, n) \in Nat
           /\ L!Power(b, n + 1) = b * L!Power(b, n)
<1>1. PICK c \in [0 .. (n + 1) -> Nat] : Powers(b, n + 1, c)
  <2>1. n + 1 \in Nat
    OBVIOUS
  <2> QED
    BY <2>1, PowerExists
<1>2. c[0] = 1 /\ c[n + 1] = b * c[(n + 1) - 1] /\ (n + 1) - 1 = n
  BY <1>1 DEF Powers
<1>3. L!Power(b, 0) = c[0] /\ L!Power(b, n) = c[n] /\ L!Power(b, n + 1) = c[n + 1]
  BY <1>1, PowerIs
<1> QED
  BY <1>2, <1>3

(* A product grows with its factors.                                       *)
LEMMA Products ==
    ASSUME NEW a \in Nat, NEW b \in Nat, NEW x \in Nat, NEW y \in Nat, a >= b, x >= y
    PROVE  /\ a * x \in Nat /\ b * y \in Nat /\ a * x >= b * y
           /\ b > 0 /\ y > 0 => a * x > 0 /\ b * y > 0
           /\ a > b /\ x > 0 => a * x > b * y
<1>1. /\ a * x \in Nat /\ b * y \in Nat /\ b * x \in Nat
      /\ a * x >= b * x /\ b * x >= b * y
  OBVIOUS
<1>2. b > 0 /\ y > 0 => b * y > 0
  OBVIOUS
<1>3. a > b /\ x > 0 => a * x > b * x
  OBVIOUS
<1> QED
  BY <1>1, <1>2, <1>3

LEMMA PowerGrows ==
    ASSUME NEW a \in Nat, NEW b \in Nat, a >= b, b > 0, NEW n \in Nat
    PROVE  /\ L!Power(b, n) > 0 /\ L!Power(a, n) >= L!Power(b, n)
           /\ a > b /\ n > 0 => L!Power(a, n) > L!Power(b, n)
<1> DEFINE G == {m \in 0 .. n : /\ L!Power(b, m) > 0 /\ L!Power(a, m) >= L!Power(b, m)
                                /\ a > b /\ m > 0 => L!Power(a, m) > L!Power(b, m)}
<1>1. 0 \in G
  BY PowerGoesOn
<1>2. ASSUME NEW m \in 1 .. n, m - 1 \in G PROVE m \in G
  <2>1. m - 1 \in Nat /\ (m - 1) + 1 = m
    OBVIOUS
  <2>2. /\ L!Power(a, m) = a * L!Power(a, m - 1) /\ L!Power(b, m) = b * L!Power(b, m - 1)
        /\ L!Power(a, m - 1) \in Nat /\ L!Power(b, m - 1) \in Nat
    <3>1. \A x \in Nat : L!Power(x, (m - 1) + 1) = x * L!Power(x, m - 1) /\ L!Power(x, m - 1) \in Nat
      BY <2>1, PowerGoesOn
    <3> QED
      BY <2>1, <3>1
  <2>3. L!Power(b, m - 1) > 0 /\ L!Power(a, m - 1) >= L!Power(b, m - 1)
    BY <1>2
  <2> QED
    BY <2>2, <2>3, Products
<1> HIDE DEF G
<1>3. n \in G
  BY <1>1, <1>2, CountUp
<1> QED
  BY <1>3 DEF G

(* What is rounded is half a cent off at most, above or below.             *)
LEMMA RoundedIs ==
    ASSUME NEW n \in Int, NEW d \in Nat \ {0}
    PROVE  /\ L!RoundMoney(n, d) \in Int
           /\ 2 * (d * L!RoundMoney(n, d)) <= 2 * n + d
           /\ 2 * (d * L!RoundMoney(n, d)) > 2 * n - d
<1> DEFINE q == n \div d
           r == n % d
<1>1. q \in Int /\ r \in Int /\ n = d * q + r /\ 0 <= r /\ r < d
  OBVIOUS
<1>2. L!RoundMoney(n, d) = IF 2 * r >= d THEN q + 1 ELSE q
  BY DEF L!RoundMoney
<1> HIDE DEF q, r
<1>3. d * (q + 1) = d * q + d /\ d * q \in Int
  BY <1>1
<1>4. CASE 2 * r >= d
  BY <1>1, <1>2, <1>3, <1>4
<1>5. CASE ~ (2 * r >= d)
  BY <1>1, <1>2, <1>3, <1>5
<1> QED
  BY <1>1, <1>4, <1>5

LEMMA RoundedGrows ==
    ASSUME NEW m \in Int, NEW n \in Int, m <= n, NEW d \in Nat \ {0}
    PROVE  L!RoundMoney(m, d) <= L!RoundMoney(n, d)
<1> DEFINE x == L!RoundMoney(m, d)
           y == L!RoundMoney(n, d)
<1>1. /\ x \in Int /\ y \in Int /\ 2 * (d * x) <= 2 * m + d /\ 2 * (d * y) > 2 * n - d
  BY RoundedIs
<1> HIDE DEF x, y
<1> SUFFICES ASSUME x >= y + 1 PROVE FALSE
  BY <1>1 DEF x, y
<1>2. d * x >= d * (y + 1) /\ d * (y + 1) = d * y + d /\ d * y \in Int /\ d * x \in Int
  BY <1>1
<1> QED
  BY <1>1, <1>2

LEMMA RoundedIsNat ==
    ASSUME NEW n \in Nat, NEW d \in Nat \ {0}
    PROVE  L!RoundMoney(n, d) \in Nat
<1> DEFINE x == L!RoundMoney(n, d)
<1>1. x \in Int /\ 2 * (d * x) > 2 * n - d
  BY RoundedIs
<1> HIDE DEF x
<1>2. x < 0 => d * x <= -d /\ d * x \in Int
  BY <1>1
<1> QED
  BY <1>1, <1>2 DEF x

-----------------------------------------------------------------------------
(* The schedule of a loan. *)

RatesPaid == [num : Nat, den : Nat \ {0}]
Instalments == [emi : Int, principal : Int, interest : Int, balance : Int]

(* The instalment of an amount in whole cents.                             *)
LEMMA EmiIs ==
    ASSUME NEW p \in Nat, NEW rate \in RatesPaid, NEW n \in Nat \ {0}
    PROVE  LET a == L!Power(rate.den + rate.num, n)
               f == L!Power(rate.den, n)
               e == L!LevelEmi(p, rate, n)
           IN /\ a \in Nat /\ f \in Nat /\ e \in Int
              /\ rate.num = 0 =>
                    2 * (n * e) <= 2 * p + n /\ 2 * (n * e) > 2 * p - n
              /\ rate.num > 0 =>
                    LET d == rate.den * (a - f)
                        m == p * rate.num * a
                    IN /\ a > f /\ d \in Nat \ {0} /\ m \in Nat
                       /\ 2 * (d * e) <= 2 * m + d /\ 2 * (d * e) > 2 * m - d
<1> DEFINE a == L!Power(rate.den + rate.num, n)
           f == L!Power(rate.den, n)
           e == L!LevelEmi(p, rate, n)
           d == rate.den * (a - f)
           m == p * rate.num * a
<1>1. rate.num \in Nat /\ rate.den \in Nat /\ rate.den > 0 /\ rate.den + rate.num \in Nat
  BY DEF RatesPaid
<1>2. a \in Nat /\ f \in Nat
  BY <1>1, PowerGoesOn
<1>3. e = IF rate.num = 0 THEN L!RoundMoney(p, n) ELSE L!RoundMoney(m, d)
  BY DEF L!LevelEmi
<1>4. CASE rate.num = 0
  BY <1>2, <1>3, <1>4, RoundedIs
<1>5. CASE rate.num > 0
  <2>1. a > f
    BY <1>1, <1>5, PowerGrows
  <2> HIDE DEF a, f
  <2>2. a - f \in Nat /\ a - f > 0
    BY <1>2, <2>1
  <2>3. d \in Nat \ {0} /\ m \in Nat
    BY <1>1, <1>2, <2>2
  <2> HIDE DEF d, m
  <2>4. e = L!RoundMoney(m, d)
    BY <1>3, <1>5
  <2>5. e \in Int /\ 2 * (d * e) <= 2 * m + d /\ 2 * (d * e) > 2 * m - d
    BY <2>3, <2>4, RoundedIs
  <2> QED
    BY <1>2, <1>5, <2>1, <2>3, <2>5 DEF a, f, d, m
<1> QED
  BY <1>1, <1>4, <1>5

Turn(o, rate, e, k, n) == L!Installment(o, rate, e, k = n)

LEMMA TurnIs ==
    ASSUME NEW o \in Int, NEW rate \in RatesPaid, NEW e \in Int, NEW k, NEW n,
           NEW i, i = Turn(o, rate, e, k, n)
    PROVE  /\ i \in Instalments
           /\ i.interest = L!RoundMoney(o * rate.num, rate.den)
           /\ i.principal = IF k = n THEN o ELSE e - i.interest
           /\ i.balance = o - i.principal
<1> DEFINE r == L!RoundMoney(o * rate.num, rate.den)
<1>1. r \in Int
  BY RoundedIs DEF RatesPaid
<1> HIDE DEF r
<1> QED
  BY <1>1 DEF Turn, L!Installment, Instalments, r

(* The loop of computeEmiSchedule, as an equation.                         *)
Loop(row, p, rate, e, n) ==
    row = [k \in 1 .. n |->
              Turn(IF k = 1 THEN p ELSE row[k - 1].balance, rate, e, k, n)]

LEMMA LoopExists ==
    ASSUME NEW p \in Int, NEW rate \in RatesPaid, NEW e \in Int, NEW n \in Nat
    PROVE  \E row : Loop(row, p, rate, e, n)
<1> DEFINE first == [emi |-> 0, principal |-> 0, interest |-> 0, balance |-> p]
           F == [i \in Nat \X Instalments |->
                    Turn(i[2].balance, rate, e, i[1], n)]
<1>1. first \in Instalments /\ first.balance = p
  BY DEF Instalments
<1>2. ASSUME NEW i \in Nat \X Instalments PROVE F[i] \in Instalments
  <2>1. i[2].balance \in Int
    BY DEF Instalments
  <2> QED
    BY <2>1, TurnIs
<1>3. F \in [Nat \X Instalments -> Instalments]
  BY <1>2
<1>4. \A k \in Nat, x \in Instalments : F[<<k, x>>] = Turn(x.balance, rate, e, k, n)
  OBVIOUS
<1> HIDE DEF F, first
<1>5. PICK c \in [0 .. n -> Instalments] : Steps(c, F, first, n)
  BY <1>1, <1>3, StepsExist
<1> DEFINE row == [k \in 1 .. n |-> c[k]]
<1>6. ASSUME NEW k \in 1 .. n
      PROVE  row[k] = Turn(IF k = 1 THEN p ELSE row[k - 1].balance, rate, e, k, n)
  <2>1. c[k] = F[<<k, c[k - 1]>>] /\ c[0] = first
    BY <1>5 DEF Steps
  <2>2. k \in Nat /\ k - 1 \in 0 .. n /\ c[k - 1] \in Instalments
    OBVIOUS
  <2>3. c[k] = Turn(c[k - 1].balance, rate, e, k, n)
    BY <1>4, <2>1, <2>2
  <2>4. c[k - 1].balance = IF k = 1 THEN p ELSE row[k - 1].balance
    BY <1>1, <2>1
  <2> QED
    BY <2>3, <2>4
<1>7. row = [k \in 1 .. n |-> row[k]]
  OBVIOUS
<1> DEFINE next == [k \in 1 .. n |->
              Turn(IF k = 1 THEN p ELSE row[k - 1].balance, rate, e, k, n)]
<1>8. next = [k \in 1 .. n |-> next[k]] /\ \A k \in 1 .. n : row[k] = next[k]
  BY <1>6
<1> HIDE DEF row
<1>9. row = next
  <2> HIDE DEF next
  <2> QED
    BY <1>7, <1>8
<1> QED
  BY <1>9 DEF Loop

(* What the loop leaves after each turn is what the next one starts from.  *)
Repays(row, b, p, rate, e, n) ==
    /\ b[0] = p
    /\ \A k \in 1 .. n :
          /\ row[k].interest = L!RoundMoney(b[k - 1] * rate.num, rate.den)
          /\ row[k].principal = IF k = n THEN b[k - 1] ELSE e - row[k].interest
          /\ row[k].balance = b[k] /\ b[k] = b[k - 1] - row[k].principal

LEMMA LoopRepays ==
    ASSUME NEW p \in Int, NEW rate \in RatesPaid, NEW e \in Int, NEW n \in Nat, NEW row,
           Loop(row, p, rate, e, n)
    PROVE  /\ row \in [1 .. n -> Instalments]
           /\ \E b \in [0 .. n -> Int] : Repays(row, b, p, rate, e, n)
<1> DEFINE G == {k \in 0 .. n : k = 0 \/ row[k] \in Instalments}
           b == [k \in 0 .. n |-> IF k = 0 THEN p ELSE row[k].balance]
           o(k) == IF k = 1 THEN p ELSE row[k - 1].balance
<1>1. 0 \in G
  OBVIOUS
<1>2. ASSUME NEW k \in 1 .. n PROVE row[k] = Turn(o(k), rate, e, k, n)
  BY DEF Loop
<1>3. ASSUME NEW k \in 1 .. n, k - 1 \in G PROVE k \in G
  <2>1. PICK x \in Int : x = o(k)
    BY <1>3 DEF Instalments
  <2>2. row[k] = Turn(x, rate, e, k, n)
    BY <1>2, <2>1
  <2>3. row[k] \in Instalments
    BY <2>2, TurnIs
  <2> QED
    BY <2>3
<1> HIDE DEF G
<1>4. \A k \in 0 .. n : k \in G
  BY <1>1, <1>3, CountUp
<1>5. \A k \in 1 .. n : row[k] \in Instalments
  BY <1>4 DEF G
<1>6. row \in [1 .. n -> Instalments]
  BY <1>5 DEF Loop
<1>7. b \in [0 .. n -> Int]
  BY <1>5 DEF Instalments
<1>8. ASSUME NEW k \in 1 .. n
      PROVE  /\ row[k].interest = L!RoundMoney(b[k - 1] * rate.num, rate.den)
             /\ row[k].principal = IF k = n THEN b[k - 1] ELSE e - row[k].interest
             /\ row[k].balance = b[k] /\ b[k] = b[k - 1] - row[k].principal
  <2>1. o(k) = b[k - 1] /\ b[k - 1] \in Int /\ b[k] = row[k].balance
    BY <1>7
  <2>2. row[k] = Turn(b[k - 1], rate, e, k, n)
    BY <1>2, <2>1
  <2> HIDE DEF b
  <2> QED
    BY <2>1, <2>2, TurnIs
<1>9. b[0] = p
  OBVIOUS
<1> HIDE DEF b
<1>10. Repays(row, b, p, rate, e, n)
  BY <1>8, <1>9 DEF Repays
<1> QED
  BY <1>6, <1>7, <1>10

LoanRows == [emi : Int, principal : Int, interest : Int, balance : Int,
             month : Nat, deducted : BOOLEAN]

LEMMA ScheduleIs ==
    ASSUME NEW p \in Nat, NEW rate \in RatesPaid, NEW n \in Nat \ {0}, NEW start \in Nat
    PROVE  LET s == L!ComputeEmiSchedule(p, rate, n, start)
           IN /\ s \in [1 .. n -> LoanRows]
              /\ \A k \in 1 .. n : s[k].month = start + k /\ ~s[k].deducted
              /\ \E b \in [0 .. n -> Int] : Repays(s, b, p, rate, L!LevelEmi(p, rate, n), n)
<1> DEFINE e == L!LevelEmi(p, rate, n)
           row == CHOOSE r : Loop(r, p, rate, e, n)
           s == [k \in 1 .. n |->
                    [emi |-> row[k].emi, principal |-> row[k].principal,
                     interest |-> row[k].interest, balance |-> row[k].balance,
                     month |-> start + k, deducted |-> FALSE]]
<1>1. L!ComputeEmiSchedule(p, rate, n, start) = s
  BY DEF L!ComputeEmiSchedule, Loop, Turn
<1>2. e \in Int
  BY EmiIs
<1> HIDE DEF e
<1>3. Loop(row, p, rate, e, n)
  BY <1>2, LoopExists
<1> HIDE DEF row
<1>4. /\ row \in [1 .. n -> Instalments]
      /\ \E b \in [0 .. n -> Int] : Repays(row, b, p, rate, e, n)
  BY <1>2, <1>3, LoopRepays
<1>5. ASSUME NEW k \in 1 .. n
      PROVE  /\ s[k] \in LoanRows /\ s[k].month = start + k /\ ~s[k].deducted
             /\ s[k].interest = row[k].interest /\ s[k].principal = row[k].principal
             /\ s[k].balance = row[k].balance
  <2>1. row[k] \in Instalments
    BY <1>4
  <2> QED
    BY <2>1 DEF LoanRows, Instalments
<1>6. s \in [1 .. n -> LoanRows]
  BY <1>5
<1> HIDE DEF s
<1>7. PICK b \in [0 .. n -> Int] : Repays(row, b, p, rate, e, n)
  BY <1>4
<1>8. Repays(s, b, p, rate, e, n)
  BY <1>5, <1>7 DEF Repays
<1> QED
  BY <1>1, <1>5, <1>6, <1>8 DEF e

-----------------------------------------------------------------------------
(* A product is positive if both factors are, and then only.               *)
LEMMA Signs ==
    ASSUME NEW x \in Int, NEW y \in Int, y > 0
    PROVE  /\ x > 0 => x * y > 0
           /\ x * y > 0 => x > 0
           /\ x >= 0 => x * y >= 0
<1>1. x * y \in Int
  OBVIOUS
<1>2. x <= 0 => x * y <= 0
  OBVIOUS
<1> QED
  BY <1>1, <1>2

LEMMA Scaled ==
    ASSUME NEW x \in Int, NEW y \in Int, NEW z \in Nat, x <= y
    PROVE  x * z \in Int /\ y * z \in Int /\ x * z <= y * z
<1>1. (y - x) * z >= 0 /\ (y - x) * z = y * z - x * z
  OBVIOUS
<1> QED
  BY <1>1

(* The level instalment is more than the first interest.                   *)
LEMMA FirstLeaves ==
    ASSUME NEW p \in Nat, NEW N \in Nat, NEW D \in Nat, N > 0, D > 0,
           NEW Q \in Nat, NEW F \in Nat, Q > F, NEW e \in Int, NEW i \in Int,
           2 * ((D * (Q - F)) * e) > 2 * (p * N * Q) - D * (Q - F),
           2 * (D * i) <= 2 * (p * N) + D,
           p * N * F > D * (Q - F)
    PROVE  e - i > 0
<1> DEFINE d == D * (Q - F)
           m == p * N
<1>1. d \in Int /\ m \in Int /\ d > 0 /\ Q - F \in Nat
  OBVIOUS
<1>2. /\ 2 * (d * e) > 2 * (m * Q) - d /\ 2 * (D * i) <= 2 * m + D /\ m * F > d
  OBVIOUS
<1>3. (2 * (D * i)) * (Q - F) <= (2 * m + D) * (Q - F)
  BY <1>1, <1>2, Scaled
<1>4. (2 * (D * i)) * (Q - F) = 2 * (d * i) /\ (2 * m + D) * (Q - F) = 2 * (m * Q) - 2 * (m * F) + d
  BY <1>1
<1> HIDE DEF d, m
<1>5. d * e \in Int /\ d * i \in Int /\ m * Q \in Int /\ m * F \in Int
  BY <1>1
<1>6. d * e - d * i > 0
  BY <1>1, <1>2, <1>3, <1>4, <1>5
<1>7. (e - i) * d = d * e - d * i
  BY <1>1
<1> QED
  BY <1>1, <1>6, <1>7, Signs

(* One turn, from a balance at least x / y to one at least ... *)
LEMMA OneTurn ==
    ASSUME NEW p \in Nat, NEW N \in Nat, NEW D \in Nat, N > 0, D > 0,
           NEW a \in Nat, NEW f \in Nat, NEW e \in Int, NEW i \in Int, NEW b \in Int,
           2 * N * f * b >= 2 * N * a * p - (2 * e + 1) * D * (a - f),
           2 * (D * i) >= 2 * (b * N) - D
    PROVE  2 * N * (D * f) * (b - (e - i)) >=
              2 * N * ((D + N) * a) * p - (2 * e + 1) * D * ((D + N) * a - D * f)
<1> DEFINE g == 2 * e + 1
           x == 2 * (D * (b - (e - i)))
           y == 2 * ((D + N) * b) - D * g
<1>1. g \in Int /\ x \in Int /\ y \in Int /\ N * f \in Nat
  OBVIOUS
<1>2. y <= x
  OBVIOUS
<1>3. y * (N * f) <= x * (N * f)
  BY <1>1, <1>2, Scaled
<1>4. x * (N * f) = 2 * N * (D * f) * (b - (e - i))
  OBVIOUS
<1>5. y * (N * f) = (2 * N * f * b) * (D + N) - D * g * (N * f)
  OBVIOUS
<1>6. (2 * N * a * p - g * D * (a - f)) * (D + N) <= (2 * N * f * b) * (D + N)
  <2>1. 2 * N * a * p - g * D * (a - f) \in Int /\ 2 * N * f * b \in Int /\ D + N \in Nat
    OBVIOUS
  <2> QED
    BY <2>1, Scaled
<1>7. (2 * N * a * p - g * D * (a - f)) * (D + N) - D * g * (N * f) =
          2 * N * ((D + N) * a) * p - g * D * ((D + N) * a - D * f)
  BY <1>1
<1> QED
  BY <1>3, <1>4, <1>5, <1>6, <1>7

LEMMA LastLeaves ==
    ASSUME NEW p \in Nat, NEW N \in Nat, NEW D \in Nat, N > 0, D > 0,
           NEW a \in Nat, NEW f \in Nat, f > 0, a >= f, NEW e \in Int, NEW b \in Int,
           NEW Q \in Nat, NEW F \in Nat, Q = (D + N) * a, F = D * f, Q > F,
           2 * N * f * b >= 2 * N * a * p - (2 * e + 1) * D * (a - f),
           2 * ((D * (Q - F)) * e) <= 2 * (p * N * Q) + D * (Q - F),
           p * N * N * a * f > D * (a - f) * (Q - F)
    PROVE  b > 0
<1> DEFINE d == D * (Q - F)
           g == 2 * e + 1
           w == Q - F
<1>1. d \in Int /\ g \in Int /\ w \in Nat /\ w > 0 /\ a - f \in Nat
  OBVIOUS
<1>2. g * d <= 2 * (p * N * Q) + 2 * d
  OBVIOUS
<1>3. (g * d) * (a - f) <= (2 * (p * N * Q) + 2 * d) * (a - f)
  <2>1. g * d \in Int /\ 2 * (p * N * Q) + 2 * d \in Int
    OBVIOUS
  <2> QED
    BY <1>1, <1>2, <2>1, Scaled
<1>4. (2 * N * a * p - g * D * (a - f)) * w <= (2 * N * f * b) * w
  <2>1. 2 * N * a * p - g * D * (a - f) \in Int /\ 2 * N * f * b \in Int
    OBVIOUS
  <2> QED
    BY <1>1, <2>1, Scaled
<1>5. (2 * N * a * p - g * D * (a - f)) * w = 2 * N * a * p * w - (g * d) * (a - f)
  OBVIOUS
<1>6. 2 * N * a * p * w - (2 * (p * N * Q) + 2 * d) * (a - f) =
         2 * (p * N * N * a * f) - 2 * (D * (a - f) * w)
  OBVIOUS
<1>7. (2 * N * f * b) * w > 0
  BY <1>3, <1>4, <1>5, <1>6
<1>8. (2 * N * f * b) * w = b * (2 * (N * f) * w)
  OBVIOUS
<1>9. N * f > 0 /\ N * f \in Int
  OBVIOUS
<1>10. 2 * (N * f) * w > 0 /\ 2 * (N * f) * w \in Int
  BY <1>1, <1>9
<1> QED
  BY <1>7, <1>8, <1>10, Signs

-----------------------------------------------------------------------------
(* Its principals add up to what each balance was. *)

PrincipalsOf(s) == [k \in DOMAIN s |-> s[k].principal]
Later(n, k) == {j \in 1 .. n : j > k}

LEMMA NextOfLater ==
    ASSUME NEW n \in Nat, NEW f, \A k \in 1 .. n : f[k] \in Int, NEW k \in 0 .. n - 1
    PROVE  SumOf(f, Later(n, k)) = f[k + 1] + SumOf(f, Later(n, k + 1))
<1>1. PICK S : S = Later(n, k)
  OBVIOUS
<1>2. PICK x : x = k + 1
  OBVIOUS
<1>3. IsFiniteSet(S)
  <2>1. S \subseteq 1 .. n /\ IsFiniteSet(1 .. n)
    BY <1>1, FS_Interval DEF Later
  <2> QED
    BY <2>1, FS_Subset
<1>4. x \in S /\ S \ {x} = Later(n, k + 1) /\ \A j \in S : f[j] \in Int
  BY <1>1, <1>2 DEF Later
<1>5. SumOf(f, S) = f[x] + SumOf(f, S \ {x})
  BY <1>3, <1>4, SumElement
<1> QED
  BY <1>1, <1>2, <1>4, <1>5, Zenon

LEMMA RestRepays ==
    ASSUME NEW n \in Nat, NEW f, \A k \in 1 .. n : f[k] \in Int,
           NEW b \in [0 .. n -> Int], b[n] = 0, \A k \in 1 .. n : b[k] = b[k - 1] - f[k]
    PROVE  \A k \in 0 .. n : SumOf(f, Later(n, k)) = b[k]
<1> DEFINE G == {h \in 0 .. n : SumOf(f, Later(n, n - h)) = b[n - h]}
<1>1. 0 \in G
  <2>1. Later(n, n) = {} /\ n - 0 = n
    BY DEF Later
  <2>2. SumOf(f, Later(n, n)) = 0
    BY <2>1, SumEmpty, Zenon
  <2>3. SumOf(f, Later(n, n - 0)) = b[n - 0]
    BY <2>1, <2>2
  <2> QED
    BY <2>3
<1>2. ASSUME NEW h \in 1 .. n, h - 1 \in G PROVE h \in G
  <2>1. PICK k : k = n - h
    OBVIOUS
  <2>2. k \in 0 .. n - 1 /\ k + 1 \in 1 .. n /\ (k + 1) - 1 = k /\ n - (h - 1) = k + 1
    BY <2>1
  <2>3. SumOf(f, Later(n, k + 1)) = b[k + 1]
    BY <1>2, <2>2
  <2>4. SumOf(f, Later(n, k)) = f[k + 1] + SumOf(f, Later(n, k + 1))
    BY <2>2, NextOfLater
  <2>5. b[k + 1] = b[k] - f[k + 1] /\ b[k + 1] \in Int /\ b[k] \in Int /\ f[k + 1] \in Int
    BY <2>2
  <2>6. SumOf(f, Later(n, k)) = b[k]
    BY <2>3, <2>4, <2>5
  <2> QED
    BY <2>1, <2>6
<1> HIDE DEF G
<1>3. \A h \in 0 .. n : h \in G
  BY <1>1, <1>2, CountUp
<1>4. ASSUME NEW k \in 0 .. n PROVE SumOf(f, Later(n, k)) = b[k]
  <2>1. n - k \in 0 .. n /\ n - (n - k) = k
    OBVIOUS
  <2> QED
    BY <1>3, <2>1 DEF G
<1> QED
  BY <1>4

-----------------------------------------------------------------------------
(* An ample principal falls to zero without going below it. *)

(* Each turn takes at least what the first one does.                       *)
LEMMA TurnsGrow ==
    ASSUME NEW p \in Nat, NEW rate \in RatesPaid, NEW e \in Int, NEW n \in Nat, NEW row,
           NEW b \in [0 .. n -> Int], Repays(row, b, p, rate, e, n),
           NEW q \in Nat \ {0}, q = e - L!RoundMoney(p * rate.num, rate.den)
    PROVE  \A k \in 1 .. n - 1 : row[k].principal >= q /\ row[k].principal \in Int /\ b[k] < b[k - 1]
<1> DEFINE G == {k \in 0 .. n - 1 : /\ b[k] <= p
                                    /\ k > 0 => /\ row[k].principal >= q /\ b[k] < b[k - 1]
                                                /\ row[k].principal \in Int}
<1>1. n = 0 \/ 0 \in G
  BY DEF Repays
<1>2. ASSUME NEW k \in 1 .. n - 1, k - 1 \in G PROVE k \in G
  <2>1. k \in 1 .. n /\ k # n /\ k - 1 \in 0 .. n /\ b[k - 1] \in Int /\ b[k - 1] <= p
    BY <1>2
  <2> DEFINE i == L!RoundMoney(b[k - 1] * rate.num, rate.den)
             j == L!RoundMoney(p * rate.num, rate.den)
  <2>2. /\ row[k].principal = e - i /\ b[k] = b[k - 1] - row[k].principal
    BY <2>1 DEF Repays
  <2>3. i \in Int /\ j \in Int /\ i <= j
    <3>1. /\ b[k - 1] * rate.num \in Int /\ p * rate.num \in Int /\ rate.den \in Nat \ {0}
          /\ b[k - 1] * rate.num <= p * rate.num
      BY <2>1, Scaled DEF RatesPaid
    <3> QED
      BY <3>1, RoundedIs, RoundedGrows
  <2> HIDE DEF i, j
  <2>4. q = e - j
    BY DEF j
  <2> QED
    BY <2>1, <2>2, <2>3, <2>4
<1> HIDE DEF G
<1>3. ASSUME n # 0 PROVE \A k \in 0 .. n - 1 : k \in G
  <2>1. n - 1 \in Nat
    BY <1>3
  <2> QED
    BY <1>1, <1>2, <1>3, <2>1, CountUp
<1> QED
  BY <1>3 DEF G

LEMMA TurnsFall ==
    ASSUME NEW h \in Nat, NEW b \in [0 .. h -> Int], \A k \in 1 .. h : b[k] < b[k - 1]
    PROVE  \A k \in 0 .. h : b[k] >= b[h]
<1> DEFINE G == {j \in 0 .. h : b[h - j] >= b[h]}
<1>1. 0 \in G
  OBVIOUS
<1>2. ASSUME NEW j \in 1 .. h, j - 1 \in G PROVE j \in G
  <2>1. /\ h - (j - 1) \in 1 .. h /\ (h - (j - 1)) - 1 = h - j /\ h - j \in 0 .. h /\ h \in 0 .. h
    OBVIOUS
  <2>2. b[h - (j - 1)] < b[h - j] /\ b[h - (j - 1)] >= b[h]
    BY <1>2, <2>1
  <2> QED
    BY <2>1, <2>2
<1> HIDE DEF G
<1>3. \A j \in 0 .. h : j \in G
  BY <1>1, <1>2, CountUp
<1>4. ASSUME NEW k \in 0 .. h PROVE b[k] >= b[h]
  <2>1. h - k \in 0 .. h /\ h - (h - k) = k
    OBVIOUS
  <2> QED
    BY <1>3, <2>1 DEF G
<1> QED
  BY <1>4

(* Without interest each turn takes the same.                              *)
LEMMA NoInterest ==
    ASSUME NEW d \in Nat \ {0}
    PROVE  L!RoundMoney(0, d) = 0
<1> DEFINE x == L!RoundMoney(0, d)
<1>1. x \in Int /\ 2 * (d * x) <= d /\ 2 * (d * x) > -d
  BY RoundedIs
<1> HIDE DEF x
<1>2. /\ x > 0 => d * x >= d
      /\ x < 0 => d * x <= -d
      /\ d * x \in Int
  BY <1>1
<1> QED
  BY <1>1, <1>2 DEF x

LEMMA LevelFall ==
    ASSUME NEW p \in Nat, NEW rate \in RatesPaid, rate.num = 0, NEW e \in Int,
           NEW n \in Nat \ {0}, NEW row, NEW b \in [0 .. n -> Int], Repays(row, b, p, rate, e, n)
    PROVE  b[n - 1] = p - (n - 1) * e
<1> DEFINE G == {k \in 0 .. n - 1 : b[k] = p - k * e}
<1>1. 0 \in G
  BY DEF Repays
<1>2. ASSUME NEW k \in 1 .. n - 1, k - 1 \in G PROVE k \in G
  <2>1. k \in 1 .. n /\ k # n /\ k - 1 \in 0 .. n /\ b[k - 1] \in Int /\ b[k - 1] = p - (k - 1) * e
    BY <1>2
  <2>2. b[k - 1] * rate.num = 0 /\ rate.den \in Nat \ {0}
    BY <2>1 DEF RatesPaid
  <2>3. row[k].interest = L!RoundMoney(0, rate.den)
    BY <2>1, <2>2 DEF Repays
  <2>4. row[k].interest = 0
    BY <2>2, <2>3, NoInterest
  <2>5. row[k].principal = e - row[k].interest /\ b[k] = b[k - 1] - row[k].principal
    BY <2>1 DEF Repays
  <2>6. b[k] = b[k - 1] - e
    BY <2>4, <2>5
  <2>7. (k - 1) * e + e = k * e
    OBVIOUS
  <2> QED
    BY <2>1, <2>6, <2>7
<1> HIDE DEF G
<1>3. n - 1 \in G
  <2>1. n - 1 \in Nat /\ n - 1 \in 0 .. (n - 1)
    OBVIOUS
  <2> QED
    BY <1>1, <1>2, <2>1, CountUp
<1> QED
  BY <1>3 DEF G

(* With interest the balance is at least what the exact one would be, less *)
(* a cent for each instalment and what it bears until then.                *)
LEMMA BalanceAtLeast ==
    ASSUME NEW p \in Nat, NEW rate \in RatesPaid, rate.num > 0, NEW e \in Int,
           NEW n \in Nat \ {0}, NEW row, NEW b \in [0 .. n -> Int], Repays(row, b, p, rate, e, n)
    PROVE  LET a == L!Power(rate.den + rate.num, n - 1)
               f == L!Power(rate.den, n - 1)
           IN 2 * rate.num * f * b[n - 1] >=
                 2 * rate.num * a * p - (2 * e + 1) * rate.den * (a - f)
<1> DEFINE a(k) == L!Power(rate.den + rate.num, k)
           f(k) == L!Power(rate.den, k)
           G == {k \in 0 .. n - 1 : 2 * rate.num * f(k) * b[k] >=
                    2 * rate.num * a(k) * p - (2 * e + 1) * rate.den * (a(k) - f(k))}
<1>1. rate.num \in Nat /\ rate.den \in Nat /\ rate.den > 0 /\ rate.den + rate.num \in Nat
  BY DEF RatesPaid
<1>2. 0 \in G
  <2>1. a(0) = 1 /\ f(0) = 1 /\ b[0] = p /\ 0 \in 0 .. n - 1
    <3>1. 0 \in Nat /\ \A z \in Nat : L!Power(z, 0) = 1
      BY PowerGoesOn
    <3> QED
      BY <1>1, <3>1 DEF Repays
  <2>2. 2 * rate.num * 1 * p >= 2 * rate.num * 1 * p - (2 * e + 1) * rate.den * (1 - 1)
    BY <1>1
  <2> QED
    BY <2>1, <2>2
<1>3. ASSUME NEW k \in 1 .. n - 1, k - 1 \in G PROVE k \in G
  <2>1. k \in 1 .. n /\ k # n /\ k - 1 \in 0 .. n /\ k - 1 \in Nat /\ (k - 1) + 1 = k
    OBVIOUS
  <2>2. PICK c \in Int : c = b[k - 1]
    BY <2>1
  <2>3. PICK i : i = L!RoundMoney(c * rate.num, rate.den)
    OBVIOUS
  <2>4. i \in Int /\ 2 * (rate.den * i) >= 2 * (c * rate.num) - rate.den
    <3>1. PICK N \in Nat : N = rate.num
      BY <1>1
    <3>2. PICK D \in Nat \ {0} : D = rate.den
      BY <1>1
    <3>3. PICK m \in Int : m = c * N
      OBVIOUS
    <3>4. i = L!RoundMoney(m, D)
      BY <2>3, <3>1, <3>2, <3>3
    <3>5. i \in Int /\ 2 * (D * i) > 2 * m - D
      BY <3>4, RoundedIs
    <3>6. D * i \in Int
      BY <3>5
    <3>7. 2 * (D * i) >= 2 * m - D
      BY <3>5, <3>6
    <3> QED
      BY <3>1, <3>2, <3>3, <3>5, <3>7
  <2>5. b[k] = c - (e - i)
    BY <2>1, <2>2, <2>3 DEF Repays
  <2>6. PICK x \in Nat : x = a(k - 1)
    BY <1>1, <2>1, PowerGoesOn
  <2>7. PICK y \in Nat : y = f(k - 1)
    BY <1>1, <2>1, PowerGoesOn
  <2>8. a(k) = (rate.den + rate.num) * x /\ f(k) = rate.den * y
    <3>1. \A z \in Nat : L!Power(z, (k - 1) + 1) = z * L!Power(z, k - 1)
      BY <2>1, PowerGoesOn
    <3> QED
      BY <1>1, <2>1, <2>6, <2>7, <3>1
  <2>9. 2 * rate.num * y * c >= 2 * rate.num * x * p - (2 * e + 1) * rate.den * (x - y)
    BY <1>3, <2>2, <2>6, <2>7
  <2>10. 2 * rate.num * (rate.den * y) * (c - (e - i)) >=
           2 * rate.num * ((rate.den + rate.num) * x) * p
             - (2 * e + 1) * rate.den * ((rate.den + rate.num) * x - rate.den * y)
    BY <1>1, <2>4, <2>9, OneTurn
  <2>11. 2 * rate.num * f(k) * b[k] >=
                    2 * rate.num * a(k) * p - (2 * e + 1) * rate.den * (a(k) - f(k))
    BY <2>5, <2>8, <2>10
  <2> QED
    BY <2>11
<1>4. n - 1 \in Nat /\ n - 1 \in 0 .. (n - 1)
  OBVIOUS
<1> HIDE DEF G
<1>5. n - 1 \in G
  BY <1>2, <1>3, <1>4, CountUp
<1> QED
  BY <1>5 DEF G

(* The first instalment is more than its interest, and the one before the  *)
(* last leaves something.                                                  *)
LEMMA AmpleLevel ==
    ASSUME NEW p \in Nat, NEW rate \in RatesPaid, rate.num = 0, NEW n \in Nat \ {0, 1},
           L!Ample(p, rate, n)
    PROVE  LET e == L!LevelEmi(p, rate, n)
           IN e > 0 /\ p - (n - 1) * e > 0
<1> DEFINE e == L!LevelEmi(p, rate, n)
<1>1. e \in Int /\ 2 * (n * e) <= 2 * p + n /\ 2 * (n * e) > 2 * p - n
  BY EmiIs
<1>2. 2 * p > n * (n - 1)
  BY DEF L!Ample
<1> HIDE DEF e
<1>3. n * (n - 1) >= n /\ n * e \in Int /\ n * (n - 1) \in Int
  <2>1. 1 <= n - 1 /\ n \in Nat /\ 1 \in Int /\ n - 1 \in Int
    OBVIOUS
  <2>2. 1 * n <= (n - 1) * n
    BY <2>1, Scaled
  <2> QED
    BY <1>1, <2>1, <2>2
<1>4. n * e > 0
  BY <1>1, <1>2, <1>3
<1>5. e > 0
  <2>1. e * n > 0 /\ n \in Int /\ n > 0
    BY <1>1, <1>4
  <2> QED
    BY <1>1, <2>1, Signs
<1>6. (2 * (n * e)) * (n - 1) <= (2 * p + n) * (n - 1)
  BY <1>1, Scaled
<1>7. (p - (n - 1) * e) * (2 * n) = 2 * p * n - (2 * (n * e)) * (n - 1)
  BY <1>1
<1>8. 2 * p * n - (2 * p + n) * (n - 1) = 2 * p - n * (n - 1)
  OBVIOUS
<1>9. (p - (n - 1) * e) * (2 * n) > 0
  BY <1>1, <1>2, <1>6, <1>7, <1>8
<1>10. p - (n - 1) * e \in Int /\ 2 * n > 0 /\ 2 * n \in Int
  BY <1>1
<1>11. p - (n - 1) * e > 0
  BY <1>9, <1>10, Signs
<1> QED
  BY <1>5, <1>11 DEF e

LEMMA AmpleBearing ==
    ASSUME NEW p \in Nat, NEW rate \in RatesPaid, rate.num > 0, NEW n \in Nat \ {0, 1},
           L!Ample(p, rate, n), NEW row, NEW b \in [0 .. n -> Int],
           Repays(row, b, p, rate, L!LevelEmi(p, rate, n), n)
    PROVE  /\ L!LevelEmi(p, rate, n) - L!RoundMoney(p * rate.num, rate.den) > 0
           /\ b[n - 1] > 0
<1>1. PICK N \in Nat : N = rate.num
  BY DEF RatesPaid
<1>2. PICK D \in Nat : D = rate.den
  BY DEF RatesPaid
<1>3. N > 0 /\ D > 0 /\ D + N \in Nat /\ D + N > D /\ D \in Nat \ {0}
  BY <1>1, <1>2 DEF RatesPaid
<1>4. PICK Q \in Nat : Q = L!Power(D + N, n)
  BY <1>3, PowerGoesOn
<1>5. PICK F \in Nat : F = L!Power(D, n)
  BY <1>3, PowerGoesOn
<1>6. n - 1 \in Nat /\ (n - 1) + 1 = n
  OBVIOUS
<1>7. PICK a \in Nat : a = L!Power(D + N, n - 1)
  BY <1>3, <1>6, PowerGoesOn
<1>8. PICK f \in Nat : f = L!Power(D, n - 1)
  BY <1>3, <1>6, PowerGoesOn
<1>9. Q = (D + N) * a /\ F = D * f
  <2>1. \A z \in Nat : L!Power(z, (n - 1) + 1) = z * L!Power(z, n - 1)
    BY <1>6, PowerGoesOn
  <2> QED
    BY <1>3, <1>4, <1>5, <1>6, <1>7, <1>8, <2>1
<1>10. f > 0 /\ a >= f /\ Q > F
  BY <1>3, <1>4, <1>5, <1>6, <1>7, <1>8, PowerGrows
<1>11. p * N * F > D * (Q - F) /\ p * N * N * a * f > D * (a - f) * (Q - F)
  BY <1>1, <1>2, <1>3, <1>4, <1>5, <1>7, <1>8 DEF L!Ample
<1>12. PICK e : e = L!LevelEmi(p, rate, n)
  OBVIOUS
<1>13. /\ e \in Int
       /\ 2 * ((D * (Q - F)) * e) <= 2 * (p * N * Q) + D * (Q - F)
       /\ 2 * ((D * (Q - F)) * e) > 2 * (p * N * Q) - D * (Q - F)
  BY <1>1, <1>2, <1>4, <1>5, <1>12, EmiIs
<1>14. PICK i : i = L!RoundMoney(p * N, D)
  OBVIOUS
<1>15. i \in Int /\ 2 * (D * i) <= 2 * (p * N) + D
  <2>1. p * N \in Int
    OBVIOUS
  <2> QED
    BY <1>3, <1>14, <2>1, RoundedIs
<1>16. e - i > 0
  BY <1>3, <1>10, <1>11, <1>13, <1>15, FirstLeaves
<1>17. PICK c \in Int : c = b[n - 1]
  BY <1>6
<1>18. 2 * N * f * c >= 2 * N * a * p - (2 * e + 1) * D * (a - f)
  BY <1>1, <1>2, <1>7, <1>8, <1>12, <1>13, <1>17, BalanceAtLeast
<1>19. c > 0
  BY <1>3, <1>9, <1>10, <1>11, <1>13, <1>18, LastLeaves
<1> QED
  BY <1>1, <1>2, <1>12, <1>14, <1>16, <1>17, <1>19

LEMMA AmpleFalls ==
    ASSUME NEW p \in Nat, NEW rate \in RatesPaid, NEW n \in Nat \ {0}, L!Ample(p, rate, n),
           NEW row, NEW b \in [0 .. n -> Int], Repays(row, b, p, rate, L!LevelEmi(p, rate, n), n)
    PROVE  \A k \in 1 .. n : /\ row[k].principal \in Int /\ row[k].principal > 0
                             /\ b[k] >= 0 /\ row[k].interest \in Nat
<1> DEFINE e == L!LevelEmi(p, rate, n)
           i == L!RoundMoney(p * rate.num, rate.den)
<1>1. e \in Int /\ i \in Int
  <2>1. p * rate.num \in Int /\ rate.den \in Nat \ {0}
    BY DEF RatesPaid
  <2> QED
    BY <2>1, EmiIs, RoundedIs
<1>2. b[0] = p /\ row[n].principal = b[n - 1] /\ b[n] = 0 /\ n - 1 \in 0 .. n
  BY DEF Repays
<1>3. /\ b[n - 1] > 0
      /\ \A k \in 1 .. n - 1 : /\ row[k].principal \in Int /\ row[k].principal > 0
                                /\ b[k] < b[k - 1]
  <2>1. CASE n = 1
    <3>1. p > 0
      <4>1. PICK N \in Nat : N = rate.num
        BY DEF RatesPaid
      <4>2. PICK D \in Nat \ {0} : D = rate.den
        BY DEF RatesPaid
      <4>3. PICK Q \in Nat : Q = L!Power(D + N, n)
        <5>1. D + N \in Nat /\ n \in Nat
          OBVIOUS
        <5> QED
          BY <5>1, PowerGoesOn
      <4>4. PICK F \in Nat : F = L!Power(D, n)
        BY PowerGoesOn
      <4>5. N > 0 => Q > F
        <5>1. D + N \in Nat /\ D \in Nat /\ D > 0 /\ D + N >= D /\ (N > 0 => D + N > D)
          OBVIOUS
        <5> QED
          BY <4>3, <4>4, <5>1, PowerGrows
      <4>6. N > 0 => D * (Q - F) >= 0
        BY <4>5
      <4>7. p = 0 => p * N * F = 0
        OBVIOUS
      <4>8. p > 0 \/ 2 * p > n * (n - 1) \/ (N > 0 /\ p * N * F > D * (Q - F))
        BY <4>1, <4>2, <4>3, <4>4 DEF L!Ample
      <4> QED
        BY <2>1, <4>6, <4>7, <4>8
    <3> QED
      BY <1>2, <2>1, <3>1
  <2>2. CASE n # 1
    <3>1. n \in Nat \ {0, 1}
      BY <2>2
    <3>2. e - i > 0 /\ b[n - 1] > 0
      <4>1. CASE rate.num = 0
        <5>1. e > 0 /\ p - (n - 1) * e > 0
          BY <3>1, <4>1, AmpleLevel
        <5>2. i = 0
          BY <4>1, NoInterest DEF RatesPaid
        <5>3. b[n - 1] = p - (n - 1) * e
          BY <1>1, <4>1, LevelFall
        <5> HIDE DEF e, i
        <5> QED
          BY <1>1, <5>1, <5>2, <5>3
      <4>2. CASE rate.num > 0
        BY <3>1, <4>2, AmpleBearing
      <4> QED
        BY <4>1, <4>2 DEF RatesPaid
    <3>3. PICK q \in Nat \ {0} : q = e - i
      BY <1>1, <3>2
    <3>4. \A k \in 1 .. n - 1 : /\ row[k].principal >= q /\ row[k].principal \in Int
                                /\ b[k] < b[k - 1]
      BY <1>1, <3>3, TurnsGrow
    <3> QED
      BY <3>2, <3>3, <3>4
  <2> QED
    BY <2>1, <2>2
<1>4. \A k \in 0 .. n - 1 : b[k] >= b[n - 1]
  <2>1. PICK h \in Nat : h = n - 1
    OBVIOUS
  <2>2. PICK c : c = [k \in 0 .. h |-> b[k]]
    OBVIOUS
  <2>3. c \in [0 .. h -> Int] /\ \A k \in 1 .. h : c[k] < c[k - 1]
    BY <1>3, <2>1, <2>2
  <2>4. \A k \in 0 .. h : c[k] >= c[h]
    BY <2>3, TurnsFall
  <2> QED
    BY <2>1, <2>2, <2>4
<1>5. ASSUME NEW k \in 1 .. n
      PROVE  /\ row[k].principal \in Int /\ row[k].principal > 0
             /\ b[k] >= 0 /\ row[k].interest \in Nat
  <2>1. k - 1 \in 0 .. n - 1 /\ b[k - 1] \in Int /\ b[n - 1] \in Int
    BY <1>2
  <2>2. b[k - 1] >= 0
    BY <1>3, <1>4, <2>1
  <2>3. b[k - 1] * rate.num \in Nat /\ rate.den \in Nat \ {0}
    BY <2>1, <2>2, Products DEF RatesPaid
  <2>4. row[k].interest \in Nat
    BY <2>3, RoundedIsNat DEF Repays
  <2>5. CASE k = n
    BY <1>2, <1>3, <2>1, <2>4, <2>5
  <2>6. CASE k # n
    <3>1. k \in 1 .. n - 1 /\ k \in 0 .. n - 1 /\ b[k] \in Int
      BY <2>6
    <3> QED
      BY <1>3, <1>4, <2>1, <2>4, <3>1
  <2> QED
    BY <2>5, <2>6
<1> QED
  BY <1>5

-----------------------------------------------------------------------------
(* Loans, from the application to the last deduction. *)

TypedRows == [emi : Int, principal : Int, interest : Nat, balance : Int,
              month : Nat, deducted : BOOLEAN]

(* Each instalment of s repays something, and none too much.               *)
Falls(s) == \A k \in DOMAIN s : s[k].principal > 0 /\ s[k].balance >= 0

(* s repays p in n instalments, and each balance is what is left.          *)
RepaysAll(s, p, n) ==
    /\ Len(s) = n
    /\ SumOf(PrincipalsOf(s), 1 .. n) = p
    /\ \A k \in 1 .. n : s[k].balance = SumOf(PrincipalsOf(s), Later(n, k))

LEMMA LoanConstants ==
    /\ NoLoan \notin Loans /\ Start \in Nat /\ Rates \subseteq RatesPaid
    /\ \A n \in Spread : n \in Nat \ {0}
    /\ \A p \in Granted : p \in Nat
    /\ \A p \in Granted, rate \in Rates, n \in Spread : L!Ample(p, rate, n)
BY LoanAssumption DEF RatesPaid

LEMMA GoodSchedule ==
    ASSUME NEW p \in Granted, NEW rate \in Rates, NEW n \in Spread
    PROVE  LET s == L!ComputeEmiSchedule(p, rate, n, Start)
           IN s \in Seq(TypedRows) /\ Falls(s) /\ RepaysAll(s, p, n)
<1>1. PICK s : s = L!ComputeEmiSchedule(p, rate, n, Start)
  OBVIOUS
<1>2. n \in Nat \ {0} /\ p \in Nat /\ rate \in RatesPaid /\ Start \in Nat /\ L!Ample(p, rate, n)
  BY LoanConstants
<1>3. s \in [1 .. n -> LoanRows]
  BY <1>1, <1>2, ScheduleIs
<1>4. PICK b \in [0 .. n -> Int] : Repays(s, b, p, rate, L!LevelEmi(p, rate, n), n)
  BY <1>1, <1>2, ScheduleIs
<1>5. \A k \in 1 .. n : /\ s[k].principal \in Int /\ s[k].principal > 0
                        /\ b[k] >= 0 /\ s[k].interest \in Nat
  BY <1>2, <1>4, AmpleFalls
<1>6. /\ b[0] = p /\ b[n] = 0
      /\ \A k \in 1 .. n : s[k].balance = b[k] /\ b[k] = b[k - 1] - s[k].principal
  <2>1. n \in 1 .. n /\ n - 1 \in 0 .. n
    BY <1>2
  <2>2. b[n] = b[n - 1] - b[n - 1]
    BY <1>4, <2>1 DEF Repays
  <2> QED
    BY <1>4, <2>1, <2>2 DEF Repays
<1>7. \A k \in 1 .. n : s[k] \in TypedRows
  BY <1>3, <1>5 DEF LoanRows, TypedRows
<1>8. s \in Seq(TypedRows) /\ Len(s) = n /\ DOMAIN s = 1 .. n
  <2>1. n \in Nat /\ s \in [1 .. n -> TypedRows]
    BY <1>2, <1>3, <1>7
  <2>2. s \in Seq(TypedRows)
    BY <2>1, SeqDef
  <2> QED
    BY <2>1, <2>2, LenProperties
<1>9. Falls(s)
  BY <1>5, <1>6, <1>8 DEF Falls
<1>10. PICK f : f = PrincipalsOf(s)
  OBVIOUS
<1>11. \A k \in 1 .. n : f[k] = s[k].principal /\ f[k] \in Int /\ b[k] = b[k - 1] - f[k]
  <2>1. \A k \in 1 .. n : f[k] = s[k].principal
    BY <1>8, <1>10 DEF PrincipalsOf
  <2> QED
    BY <1>5, <1>6, <2>1
<1>12. \A k \in 0 .. n : SumOf(f, Later(n, k)) = b[k]
  <2>1. n \in Nat /\ b[n] = 0
    BY <1>2, <1>6
  <2>2. \A k \in 1 .. n : f[k] \in Int /\ b[k] = b[k - 1] - f[k]
    BY <1>11
  <2> QED
    BY <2>1, <2>2, RestRepays
<1>13. Later(n, 0) = 1 .. n /\ 0 \in 0 .. n
  BY <1>2 DEF Later
<1>14. SumOf(f, 1 .. n) = p
  BY <1>6, <1>12, <1>13
<1>15. \A k \in 1 .. n : s[k].balance = SumOf(f, Later(n, k))
  BY <1>6, <1>12
<1>16. RepaysAll(s, p, n)
  BY <1>8, <1>10, <1>14, <1>15 DEF RepaysAll
<1> QED
  BY <1>1, <1>8, <1>9, <1>16

-----------------------------------------------------------------------------
LoanPlaces == {"idle", "approve", "reject", "mark", "close"}
LoanRecords == [status : {"NONE", "PENDING", "ACTIVE", "REJECTED", "CLOSED"},
                amount : Nat, tenure : Nat]
LoanJobs == [loan : Loans \cup {NoLoan}, amount : Nat, tenure : Nat,
             rows : SUBSET (Loans \X Nat)]

(* Who decides has read a loan that was applied for, and grants what was   *)
(* asked for or a revised amount.                                          *)
Decides(p, j, ln) ==
    /\ p \in {"approve", "reject"} => j.loan \in Loans /\ ln[j.loan].status # "NONE"
    /\ p = "approve" => j.amount \in Granted /\ j.tenure \in Spread

(* The terms of a loan.                                                    *)
OnTerms(ln) == ln.status # "NONE" => ln.amount \in Granted /\ ln.tenure \in Spread

LoanTyped ==
    /\ loan \in [Loans -> LoanRecords] /\ \A l \in Loans : OnTerms(loan[l])
    /\ schedule \in [Loans -> Seq(TypedRows)] /\ \A l \in Loans : Falls(schedule[l])
    /\ lpc \in [L!Desks -> LoanPlaces] /\ ljob \in [L!Desks -> LoanJobs]
    /\ \A d \in L!Desks : Decides(lpc[d], ljob[d], loan)

OneOfficer == \A a, b \in Officers : a = b

(* What a loan and its schedule say of one another.                        *)
Agree(ln, s) ==
    /\ ln.status \in {"NONE", "PENDING"} => s = <<>>
    /\ ln.status \in {"ACTIVE", "CLOSED"} => RepaysAll(s, ln.amount, ln.tenure)
    /\ ln.status = "CLOSED" => \A k \in DOMAIN s : s[k].deducted

(* What who decides has read is still so.                                  *)
StillPending(d, p, j, ln) ==
    p \in {"approve", "reject"} => d \in Officers /\ ln[j.loan].status = "PENDING"

LoanSound ==
    /\ \A l \in Loans : Agree(loan[l], schedule[l])
    /\ \A d \in L!Desks : StillPending(d, lpc[d], ljob[d], loan)

LoanInv == LoanTyped /\ (OneOfficer => LoanSound)

LEMMA LoansStart == L!Init => LoanInv
<1> SUFFICES ASSUME L!Init PROVE LoanInv
  OBVIOUS
<1>1. L!NoJob \in LoanJobs /\ L!NoTerms \in LoanRecords
  BY DEF L!NoJob, L!NoTerms, LoanJobs, LoanRecords
<1>2. <<>> \in Seq(TypedRows) /\ Falls(<<>>)
  <2>1. DOMAIN <<>> = {}
    BY EmptySeq, LenProperties
  <2> QED
    BY <2>1, EmptySeq DEF Falls
<1>3. LoanTyped
  BY <1>1, <1>2 DEF L!Init, LoanTyped, OnTerms, L!NoTerms, Decides, LoanPlaces
<1>4. LoanSound
  BY DEF L!Init, LoanSound, Agree, StillPending, L!NoTerms
<1> QED
  BY <1>3, <1>4 DEF LoanInv

(* Only the desk that takes the step goes on.                              *)
LEMMA LoanSteps ==
    ASSUME LoanTyped, NEW d \in L!Desks, NEW to \in LoanPlaces, NEW j \in LoanJobs, L!Step(d, to, j)
    PROVE  /\ lpc' \in [L!Desks -> LoanPlaces] /\ ljob' \in [L!Desks -> LoanJobs]
           /\ lpc'[d] = to /\ ljob'[d] = j
           /\ \A v \in L!Desks : v # d => lpc'[v] = lpc[v] /\ ljob'[v] = ljob[v]
BY DEF LoanTyped, L!Step

LEMMA NoLoanJob == L!NoJob \in LoanJobs /\ "idle" \in LoanPlaces
BY DEF L!NoJob, LoanJobs, LoanPlaces

(* A step that leaves the decisions under way as they are, or ends one.    *)
LEMMA LoanGoes ==
    ASSUME LoanInv, UNCHANGED <<loan, schedule>>,
           NEW d \in L!Desks, NEW to \in LoanPlaces, NEW j \in LoanJobs, L!Step(d, to, j),
           Decides(to, j, loan), LoanSound => StillPending(d, to, j, loan)
    PROVE  LoanInv'
<1>1. /\ lpc' \in [L!Desks -> LoanPlaces] /\ ljob' \in [L!Desks -> LoanJobs]
      /\ lpc'[d] = to /\ ljob'[d] = j
      /\ \A v \in L!Desks : v # d => lpc'[v] = lpc[v] /\ ljob'[v] = ljob[v]
  BY LoanSteps DEF LoanInv
<1>2. LoanTyped'
  <2>1. ASSUME NEW v \in L!Desks PROVE Decides(lpc'[v], ljob'[v], loan')
    <3>1. Decides(lpc[v], ljob[v], loan)
      BY DEF LoanInv, LoanTyped
    <3> QED
      BY <1>1, <3>1
  <2> QED
    BY <1>1, <2>1 DEF LoanInv, LoanTyped
<1>3. OneOfficer => LoanSound'
  <2> SUFFICES ASSUME LoanSound PROVE LoanSound'
    BY DEF LoanInv
  <2>1. ASSUME NEW v \in L!Desks PROVE StillPending(v, lpc'[v], ljob'[v], loan')
    <3>1. StillPending(v, lpc[v], ljob[v], loan)
      BY DEF LoanSound
    <3> QED
      BY <1>1, <3>1
  <2> QED
    BY <2>1 DEF LoanSound
<1> QED
  BY <1>2, <1>3 DEF LoanInv

LEMMA LoanApplied ==
    ASSUME LoanInv, NEW l \in Loans, NEW a \in Amounts, NEW t \in Tenures, L!Apply(l, a, t)
    PROVE  LoanInv'
<1> DEFINE n == [status |-> "PENDING", amount |-> a, tenure |-> t]
<1>1. /\ loan[l].status = "NONE" /\ loan' = [loan EXCEPT ![l] = n]
      /\ UNCHANGED <<schedule, lpc, ljob>>
  BY DEF L!Apply
<1>2. a \in Granted /\ n \in LoanRecords /\ n.status = "PENDING" /\ OnTerms(n)
  BY LoanConstants DEF Granted, Spread, LoanRecords, OnTerms
<1>3. loan \in [Loans -> LoanRecords]
  BY DEF LoanInv, LoanTyped
<1> HIDE DEF n
<1>4. /\ loan' \in [Loans -> LoanRecords] /\ loan'[l] = n
      /\ \A m \in Loans : m # l => loan'[m] = loan[m]
  BY <1>1, <1>2, <1>3
<1>5. LoanTyped'
  <2>1. ASSUME NEW d \in L!Desks PROVE Decides(lpc'[d], ljob'[d], loan')
    <3>1. Decides(lpc[d], ljob[d], loan)
      BY DEF LoanInv, LoanTyped
    <3> QED
      BY <1>1, <1>2, <1>4, <3>1 DEF Decides
  <2> QED
    BY <1>1, <1>2, <1>4, <2>1 DEF LoanInv, LoanTyped
<1>6. OneOfficer => LoanSound'
  <2> SUFFICES ASSUME LoanSound PROVE LoanSound'
    BY DEF LoanInv
  <2>1. ASSUME NEW d \in L!Desks PROVE StillPending(d, lpc'[d], ljob'[d], loan')
    <3>1. StillPending(d, lpc[d], ljob[d], loan) /\ Decides(lpc[d], ljob[d], loan)
      BY DEF LoanSound, LoanInv, LoanTyped
    <3> QED
      BY <1>1, <1>2, <1>4, <3>1 DEF StillPending, Decides
  <2>2. ASSUME NEW m \in Loans PROVE Agree(loan'[m], schedule'[m])
    <3>1. Agree(loan[m], schedule[m])
      BY DEF LoanSound
    <3> QED
      BY <1>1, <1>2, <1>4, <3>1 DEF Agree
  <2> QED
    BY <2>1, <2>2 DEF LoanSound
<1> QED
  BY <1>5, <1>6 DEF LoanInv

LEMMA LoanReads ==
    ASSUME LoanInv, NEW d \in Officers, NEW l \in Loans,
           \/ \E a \in Revised, t \in Terms : L!ApproveRead(d, l, a, t)
           \/ L!RejectRead(d, l)
    PROVE  LoanInv'
<1>1. d \in L!Desks /\ ljob[d] \in LoanJobs /\ OnTerms(loan[l]) /\ loan[l] \in LoanRecords
  BY DEF L!Desks, LoanInv, LoanTyped
<1>2. CASE \E a \in Revised, t \in Terms : L!ApproveRead(d, l, a, t)
  <2>1. PICK a \in Revised, t \in Terms : L!ApproveRead(d, l, a, t)
    BY <1>2
  <2> DEFINE amount == IF a = 0 THEN loan[l].amount ELSE a
             tenure == IF t = 0 THEN loan[l].tenure ELSE t
             j == [ljob[d] EXCEPT !.loan = l, !.tenure = tenure, !.amount = amount]
  <2>2. /\ loan[l].status = "PENDING" /\ L!Step(d, "approve", j)
        /\ UNCHANGED <<loan, schedule>>
    BY <2>1 DEF L!ApproveRead
  <2>3. amount \in Granted /\ tenure \in Spread
    BY <1>1, <2>2 DEF OnTerms, Granted, Spread
  <2>4. amount \in Nat /\ tenure \in Nat
    BY <2>3, LoanConstants
  <2> HIDE DEF amount, tenure
  <2>5. j \in LoanJobs /\ j.loan = l /\ j.amount = amount /\ j.tenure = tenure
    BY <1>1, <2>4 DEF LoanJobs
  <2> HIDE DEF j
  <2>6. Decides("approve", j, loan) /\ StillPending(d, "approve", j, loan)
    BY <2>2, <2>3, <2>5 DEF Decides, StillPending
  <2> QED
    BY <1>1, <2>2, <2>5, <2>6, LoanGoes DEF LoanPlaces
<1>3. CASE L!RejectRead(d, l)
  <2> DEFINE j == [ljob[d] EXCEPT !.loan = l]
  <2>1. /\ loan[l].status = "PENDING" /\ L!Step(d, "reject", j)
        /\ UNCHANGED <<loan, schedule>>
    BY <1>3 DEF L!RejectRead
  <2>2. j \in LoanJobs /\ j.loan = l
    BY <1>1 DEF LoanJobs
  <2> HIDE DEF j
  <2>3. Decides("reject", j, loan) /\ StillPending(d, "reject", j, loan)
    BY <2>1, <2>2 DEF Decides, StillPending
  <2> QED
    BY <1>1, <2>1, <2>2, <2>3, LoanGoes DEF LoanPlaces
<1> QED
  BY <1>2, <1>3

LEMMA LoanDecided ==
    ASSUME LoanInv, NEW d \in Officers,
           NEW l \in Loans, l = ljob[d].loan,
           NEW n \in LoanRecords, loan' = [loan EXCEPT ![l] = n], OnTerms(n), n.status # "NONE",
           NEW s \in Seq(TypedRows), schedule' = [schedule EXCEPT ![l] = s], Falls(s),
           lpc[d] \in {"approve", "reject"}, L!Finish(d),
           LoanSound => Agree(n, s)
    PROVE  LoanInv'
<1>1. /\ lpc' \in [L!Desks -> LoanPlaces] /\ ljob' \in [L!Desks -> LoanJobs]
      /\ lpc'[d] = "idle" /\ d \in L!Desks
      /\ \A v \in L!Desks : v # d => lpc'[v] = lpc[v] /\ ljob'[v] = ljob[v]
  <2>1. d \in L!Desks
    BY DEF L!Desks
  <2> QED
    BY <2>1, NoLoanJob, LoanSteps DEF LoanInv, L!Finish
<1>2. /\ loan' \in [Loans -> LoanRecords] /\ loan'[l] = n
      /\ schedule' \in [Loans -> Seq(TypedRows)] /\ schedule'[l] = s
      /\ \A m \in Loans : m # l => loan'[m] = loan[m] /\ schedule'[m] = schedule[m]
  BY DEF LoanInv, LoanTyped
<1>3. LoanTyped'
  <2>1. ASSUME NEW v \in L!Desks PROVE Decides(lpc'[v], ljob'[v], loan')
    <3>1. Decides(lpc[v], ljob[v], loan)
      BY DEF LoanInv, LoanTyped
    <3> QED
      BY <1>1, <1>2, <3>1 DEF Decides
  <2>2. \A m \in Loans : OnTerms(loan'[m]) /\ Falls(schedule'[m])
    BY <1>2 DEF LoanInv, LoanTyped
  <2> QED
    BY <1>1, <1>2, <2>1, <2>2 DEF LoanTyped
<1>4. OneOfficer => LoanSound'
  <2> SUFFICES ASSUME OneOfficer, LoanSound PROVE LoanSound'
    BY DEF LoanInv
  <2>1. ASSUME NEW v \in L!Desks PROVE StillPending(v, lpc'[v], ljob'[v], loan')
    <3>1. StillPending(v, lpc[v], ljob[v], loan)
      BY DEF LoanSound
    <3> QED
      BY <1>1, <3>1 DEF StillPending, OneOfficer
  <2>2. ASSUME NEW m \in Loans PROVE Agree(loan'[m], schedule'[m])
    <3>1. Agree(loan[m], schedule[m])
      BY DEF LoanSound
    <3> QED
      BY <1>2, <3>1
  <2> QED
    BY <2>1, <2>2 DEF LoanSound
<1> QED
  BY <1>3, <1>4 DEF LoanInv

LEMMA LoanGranted ==
    ASSUME LoanInv, NEW d \in Officers, NEW r \in Rates, L!ApproveWrite(d, r)
    PROVE  LoanInv'
<1>1. PICK l : l = ljob[d].loan
  OBVIOUS
<1>2. PICK p : p = ljob[d].amount
  OBVIOUS
<1>3. PICK t : t = ljob[d].tenure
  OBVIOUS
<1>4. PICK s : s = L!ComputeEmiSchedule(p, r, t, Start)
  OBVIOUS
<1> DEFINE n == [status |-> "ACTIVE", amount |-> p, tenure |-> t]
<1>5. /\ lpc[d] = "approve" /\ L!Finish(d) /\ loan' = [loan EXCEPT ![l] = n]
      /\ schedule' = [schedule EXCEPT ![l] = schedule[l] \o s]
  BY <1>1, <1>2, <1>3, <1>4 DEF L!ApproveWrite
<1>6. d \in L!Desks /\ l \in Loans /\ p \in Granted /\ t \in Spread
  BY <1>1, <1>2, <1>3, <1>5 DEF LoanInv, LoanTyped, Decides, L!Desks
<1>7. s \in Seq(TypedRows) /\ Falls(s) /\ RepaysAll(s, p, t)
  BY <1>4, <1>6, GoodSchedule
<1>8. n \in LoanRecords /\ OnTerms(n) /\ n.status = "ACTIVE" /\ n.amount = p /\ n.tenure = t
  <2>1. p \in Nat /\ t \in Nat
    BY <1>6, LoanConstants
  <2> QED
    BY <1>6, <2>1 DEF LoanRecords, OnTerms
<1> HIDE DEF n
<1>9. PICK u : u = schedule[l]
  OBVIOUS
<1>10. u \in Seq(TypedRows) /\ Falls(u)
  BY <1>6, <1>9 DEF LoanInv, LoanTyped
<1>11. u \o s \in Seq(TypedRows) /\ Falls(u \o s)
  <2>1. /\ u \o s \in Seq(TypedRows) /\ Len(u \o s) = Len(u) + Len(s)
        /\ \A i \in 1 .. Len(u) + Len(s) :
               (u \o s)[i] = IF i <= Len(u) THEN u[i] ELSE s[i - Len(u)]
    BY <1>7, <1>10, ConcatProperties
  <2>2. PICK w : w = u \o s
    OBVIOUS
  <2>3. /\ DOMAIN u = 1 .. Len(u) /\ DOMAIN s = 1 .. Len(s) /\ DOMAIN w = 1 .. Len(w)
        /\ Len(u) \in Nat /\ Len(s) \in Nat
    BY <1>7, <1>10, <2>1, <2>2, LenProperties
  <2>4. ASSUME NEW i \in DOMAIN w PROVE w[i].principal > 0 /\ w[i].balance >= 0
    <3>1. CASE i <= Len(u)
      <4>1. w[i] = u[i] /\ i \in DOMAIN u
        BY <2>1, <2>2, <2>3, <3>1
      <4> QED
        BY <1>10, <4>1 DEF Falls
    <3>2. CASE ~ (i <= Len(u))
      <4>1. w[i] = s[i - Len(u)] /\ i - Len(u) \in DOMAIN s
        BY <2>1, <2>2, <2>3, <3>2
      <4> QED
        BY <1>7, <4>1 DEF Falls
    <3> QED
      BY <3>1, <3>2
  <2> QED
    BY <2>1, <2>2, <2>4 DEF Falls
<1>12. LoanSound => Agree(n, u \o s)
  <2> SUFFICES ASSUME LoanSound PROVE Agree(n, u \o s)
    OBVIOUS
  <2>1. u = <<>>
    BY <1>1, <1>5, <1>6, <1>9 DEF LoanSound, Agree, StillPending
  <2>2. u \o s = s
    BY <1>7, <2>1, ConcatEmptySeq
  <2> QED
    BY <1>7, <1>8, <2>2 DEF Agree
<1> QED
  BY <1>1, <1>5, <1>6, <1>8, <1>9, <1>11, <1>12, LoanDecided

LEMMA LoanRejected ==
    ASSUME LoanInv, NEW d \in Officers, L!RejectWrite(d)
    PROVE  LoanInv'
<1>1. PICK l : l = ljob[d].loan
  OBVIOUS
<1> DEFINE n == [loan[l] EXCEPT !.status = "REJECTED"]
<1>2. /\ lpc[d] = "reject" /\ L!Finish(d) /\ loan' = [loan EXCEPT ![l] = n]
      /\ schedule' = schedule
  BY <1>1 DEF L!RejectWrite
<1>3. d \in L!Desks /\ l \in Loans /\ loan[l].status # "NONE"
  BY <1>1, <1>2 DEF LoanInv, LoanTyped, Decides, L!Desks
<1>4. /\ loan[l] \in LoanRecords /\ OnTerms(loan[l])
      /\ schedule[l] \in Seq(TypedRows) /\ Falls(schedule[l])
      /\ schedule \in [Loans -> Seq(TypedRows)]
  BY <1>3 DEF LoanInv, LoanTyped
<1>5. n \in LoanRecords /\ OnTerms(n) /\ n.status = "REJECTED"
  BY <1>3, <1>4 DEF LoanRecords, OnTerms
<1> HIDE DEF n
<1>6. schedule' = [schedule EXCEPT ![l] = schedule[l]]
  BY <1>2, <1>4
<1>7. Agree(n, schedule[l])
  BY <1>5 DEF Agree
<1> QED
  BY <1>1, <1>2, <1>3, <1>4, <1>5, <1>6, <1>7, LoanDecided

(* Payroll picks instalments, of any month.                                *)
LEMMA LoanPicks ==
    ASSUME LoanInv, NEW d \in LoanPasses, NEW month, L!PickRows(d, month)
    PROVE  LoanInv'
<1> DEFINE rows == L!DueRows(month)
           j == [ljob[d] EXCEPT !.rows = rows]
<1>1. L!Step(d, "mark", j) /\ UNCHANGED <<loan, schedule>> /\ d \in L!Desks
  BY DEF L!PickRows, L!Desks
<1>2. rows \subseteq Loans \X Nat
  <2>1. ASSUME NEW l \in Loans PROVE {l} \X DOMAIN schedule[l] \subseteq Loans \X Nat
    <3>1. DOMAIN schedule[l] = 1 .. Len(schedule[l]) /\ Len(schedule[l]) \in Nat
      BY LenProperties DEF LoanInv, LoanTyped
    <3> QED
      BY <3>1
  <2> QED
    BY <2>1 DEF L!DueRows, L!Rows
<1> HIDE DEF rows
<1>3. j \in LoanJobs
  BY <1>1, <1>2 DEF LoanInv, LoanTyped, LoanJobs
<1> QED
  BY <1>1, <1>3, LoanGoes DEF Decides, StillPending, LoanPlaces

LEMMA LoanAbandoned ==
    ASSUME LoanInv, NEW d \in L!Desks, L!Abandon(d)
    PROVE  LoanInv'
<1>1. L!Step(d, "idle", L!NoJob) /\ UNCHANGED <<loan, schedule>>
  BY DEF L!Abandon, L!Finish
<1> QED
  BY <1>1, NoLoanJob, LoanGoes DEF Decides, StillPending

(* Marking leaves the amounts of a schedule as they are.                   *)
LEMMA RowsMarked ==
    ASSUME NEW s \in Seq(TypedRows), NEW M,
           NEW u, u = [k \in DOMAIN s |-> IF k \in M THEN [s[k] EXCEPT !.deducted = TRUE] ELSE s[k]]
    PROVE  /\ u \in Seq(TypedRows)
           /\ Falls(s) => Falls(u)
           /\ \A ln : Agree(ln, s) => Agree(ln, u)
<1>1. PICK n \in Nat : n = Len(s) /\ DOMAIN s = 1 .. n /\ s \in [1 .. n -> TypedRows]
  BY LenProperties
<1>2. ASSUME NEW k \in 1 .. n
      PROVE  /\ u[k] \in TypedRows /\ u[k].principal = s[k].principal
             /\ u[k].balance = s[k].balance /\ (s[k].deducted => u[k].deducted)
  <2> DEFINE r == [s[k] EXCEPT !.deducted = TRUE]
  <2>1. s[k] \in TypedRows
    BY <1>1
  <2>2. r \in TypedRows /\ r.principal = s[k].principal /\ r.balance = s[k].balance /\ r.deducted
    BY <2>1 DEF TypedRows
  <2>3. u[k] = IF k \in M THEN r ELSE s[k]
    BY <1>1
  <2> HIDE DEF r
  <2> QED
    BY <2>1, <2>2, <2>3
<1>3. u \in [1 .. n -> TypedRows] /\ DOMAIN u = 1 .. n
  BY <1>1, <1>2
<1>4. u \in Seq(TypedRows) /\ Len(u) = n
  <2>1. u \in Seq(TypedRows)
    BY <1>3, SeqDef
  <2> QED
    BY <1>3, <2>1, LenProperties
<1>5. Falls(s) => Falls(u)
  BY <1>1, <1>2, <1>3 DEF Falls
<1>6. PrincipalsOf(u) = PrincipalsOf(s)
  BY <1>1, <1>2, <1>3 DEF PrincipalsOf
<1>7. ASSUME NEW p, NEW t, RepaysAll(s, p, t) PROVE RepaysAll(u, p, t)
  <2>1. PICK f : f = PrincipalsOf(s) /\ f = PrincipalsOf(u)
    BY <1>6
  <2>2. /\ n = t /\ SumOf(f, 1 .. t) = p
        /\ \A k \in 1 .. t : s[k].balance = SumOf(f, Later(t, k))
    BY <1>1, <1>7, <2>1 DEF RepaysAll
  <2>3. \A k \in 1 .. t : u[k].balance = SumOf(f, Later(t, k))
    BY <1>2, <2>2
  <2> QED
    BY <1>4, <2>1, <2>2, <2>3 DEF RepaysAll
<1>8. ASSUME NEW ln, Agree(ln, s) PROVE Agree(ln, u)
  <2>1. s = <<>> => u = <<>>
    <3> SUFFICES ASSUME s = <<>> PROVE u = <<>>
      OBVIOUS
    <3>1. Len(s) = 0 /\ Len(u) = 0
      BY <1>1, <1>4, EmptySeq
    <3> QED
      BY <1>4, <3>1, EmptySeq
  <2> QED
    BY <1>1, <1>2, <1>3, <1>7, <1>8, <2>1 DEF Agree
<1> QED
  BY <1>4, <1>5, <1>8

LEMMA LoanMarked ==
    ASSUME LoanInv, NEW d \in LoanPasses, L!MarkRows(d)
    PROVE  LoanInv'
<1>1. /\ loan' = loan /\ L!Step(d, "close", ljob[d]) /\ d \in L!Desks
      /\ schedule' = [l \in Loans |-> [k \in DOMAIN schedule[l] |->
             IF <<l, k>> \in ljob[d].rows THEN [schedule[l][k] EXCEPT !.deducted = TRUE]
             ELSE schedule[l][k]]]
  BY DEF L!MarkRows, L!RowsOf, L!Desks
<1>2. ASSUME NEW l \in Loans
      PROVE  /\ schedule'[l] \in Seq(TypedRows) /\ Falls(schedule'[l])
             /\ \A ln : Agree(ln, schedule[l]) => Agree(ln, schedule'[l])
  <2>1. PICK s : s = schedule[l]
    OBVIOUS
  <2>2. PICK u : u = schedule'[l]
    OBVIOUS
  <2> DEFINE M == {k \in DOMAIN s : <<l, k>> \in ljob[d].rows}
  <2>3. u = [k \in DOMAIN s |-> IF k \in M THEN [s[k] EXCEPT !.deducted = TRUE] ELSE s[k]]
    BY <1>1, <2>1, <2>2
  <2>4. s \in Seq(TypedRows) /\ Falls(s)
    BY <2>1 DEF LoanInv, LoanTyped
  <2> HIDE DEF M
  <2>5. /\ u \in Seq(TypedRows) /\ (Falls(s) => Falls(u))
        /\ \A ln : Agree(ln, s) => Agree(ln, u)
    BY <2>3, <2>4, RowsMarked
  <2> QED
    BY <2>1, <2>2, <2>4, <2>5
<1>3. /\ lpc' \in [L!Desks -> LoanPlaces] /\ ljob' \in [L!Desks -> LoanJobs]
      /\ lpc'[d] = "close"
      /\ \A v \in L!Desks : v # d => lpc'[v] = lpc[v] /\ ljob'[v] = ljob[v]
  <2>1. ljob[d] \in LoanJobs /\ "close" \in LoanPlaces
    BY <1>1 DEF LoanInv, LoanTyped, LoanPlaces
  <2> QED
    BY <1>1, <2>1, LoanSteps DEF LoanInv
<1>4. LoanTyped'
  <2>1. schedule' \in [Loans -> Seq(TypedRows)]
    BY <1>1, <1>2
  <2>2. ASSUME NEW v \in L!Desks PROVE Decides(lpc'[v], ljob'[v], loan')
    <3>1. Decides(lpc[v], ljob[v], loan)
      BY DEF LoanInv, LoanTyped
    <3> QED
      BY <1>1, <1>3, <3>1 DEF Decides
  <2> QED
    BY <1>1, <1>2, <1>3, <2>1, <2>2 DEF LoanInv, LoanTyped
<1>5. OneOfficer => LoanSound'
  <2> SUFFICES ASSUME LoanSound PROVE LoanSound'
    BY DEF LoanInv
  <2>1. ASSUME NEW v \in L!Desks PROVE StillPending(v, lpc'[v], ljob'[v], loan')
    <3>1. StillPending(v, lpc[v], ljob[v], loan)
      BY DEF LoanSound
    <3> QED
      BY <1>1, <1>3, <3>1 DEF StillPending
  <2>2. ASSUME NEW m \in Loans PROVE Agree(loan'[m], schedule'[m])
    <3>1. Agree(loan[m], schedule[m])
      BY DEF LoanSound
    <3> QED
      BY <1>1, <1>2, <3>1
  <2> QED
    BY <2>1, <2>2 DEF LoanSound
<1> QED
  BY <1>4, <1>5 DEF LoanInv

(* A loan is closed only with all of its instalments deducted.             *)
LEMMA LoanClosed ==
    ASSUME LoanInv, NEW d \in LoanPasses, L!CloseLoan(d)
    PROVE  LoanInv'
<1>1. PICK r \in ljob[d].rows :
          LET left == {s \in ljob[d].rows : s[1] # r[1]}
          IN /\ loan' = IF L!Repaid(r[1]) /\ loan[r[1]].status = "ACTIVE"
                        THEN [loan EXCEPT ![r[1]].status = "CLOSED"] ELSE loan
             /\ IF left = {} THEN L!Finish(d) ELSE L!Step(d, "close", [ljob[d] EXCEPT !.rows = left])
  BY DEF L!CloseLoan
<1>2. schedule' = schedule /\ d \in L!Desks /\ ljob[d] \in LoanJobs
  BY DEF L!CloseLoan, L!Desks, LoanInv, LoanTyped
<1>3. PICK l \in Loans : l = r[1]
  BY <1>1, <1>2 DEF LoanJobs
<1>4. PICK left : left = {s \in ljob[d].rows : s[1] # l}
  OBVIOUS
<1> DEFINE j == [ljob[d] EXCEPT !.rows = left]
           n == [loan[l] EXCEPT !.status = "CLOSED"]
<1>5. \E to \in {"idle", "close"}, i \in LoanJobs : L!Step(d, to, i)
  <2>1. j \in LoanJobs
    BY <1>2, <1>4 DEF LoanJobs
  <2>2. L!Finish(d) \/ L!Step(d, "close", j)
    BY <1>1, <1>3, <1>4
  <2> HIDE DEF j
  <2> QED
    BY <2>1, <2>2, NoLoanJob DEF L!Finish
<1>6. PICK to \in {"idle", "close"}, i \in LoanJobs : L!Step(d, to, i)
  BY <1>5
<1>7. CASE loan' = loan
  BY <1>2, <1>6, <1>7, LoanGoes DEF Decides, StillPending, LoanPlaces
<1>8. CASE loan' # loan
  <2>1. /\ loan[l].status = "ACTIVE" /\ loan' = [loan EXCEPT ![l] = n]
        /\ \A k \in DOMAIN schedule[l] : schedule[l][k].deducted
    BY <1>1, <1>3, <1>8 DEF L!Repaid, L!RowsOf
  <2>2. loan[l] \in LoanRecords /\ OnTerms(loan[l]) /\ loan \in [Loans -> LoanRecords]
    BY DEF LoanInv, LoanTyped
  <2>3. /\ n \in LoanRecords /\ OnTerms(n) /\ n.status = "CLOSED"
        /\ n.amount = loan[l].amount /\ n.tenure = loan[l].tenure
    BY <2>1, <2>2 DEF LoanRecords, OnTerms
  <2> HIDE DEF n
  <2>4. /\ loan' \in [Loans -> LoanRecords] /\ loan'[l] = n
        /\ \A m \in Loans : m # l => loan'[m] = loan[m]
    BY <2>1, <2>2, <2>3
  <2>5. /\ lpc' \in [L!Desks -> LoanPlaces] /\ ljob' \in [L!Desks -> LoanJobs]
        /\ lpc'[d] \in {"idle", "close"}
        /\ \A v \in L!Desks : v # d => lpc'[v] = lpc[v] /\ ljob'[v] = ljob[v]
    <3>1. to \in LoanPlaces
      BY DEF LoanPlaces
    <3> QED
      BY <1>2, <1>6, <3>1, LoanSteps DEF LoanInv
  <2>6. LoanTyped'
    <3>1. ASSUME NEW v \in L!Desks PROVE Decides(lpc'[v], ljob'[v], loan')
      <4>1. Decides(lpc[v], ljob[v], loan)
        BY DEF LoanInv, LoanTyped
      <4> QED
        BY <2>3, <2>4, <2>5, <4>1 DEF Decides
    <3>2. \A m \in Loans : OnTerms(loan'[m])
      BY <2>3, <2>4 DEF LoanInv, LoanTyped
    <3> QED
      BY <1>2, <2>4, <2>5, <3>1, <3>2 DEF LoanInv, LoanTyped
  <2>7. OneOfficer => LoanSound'
    <3> SUFFICES ASSUME LoanSound PROVE LoanSound'
      BY DEF LoanInv
    <3>1. ASSUME NEW v \in L!Desks PROVE StillPending(v, lpc'[v], ljob'[v], loan')
      <4>1. StillPending(v, lpc[v], ljob[v], loan)
        BY DEF LoanSound
      <4> QED
        BY <2>1, <2>4, <2>5, <4>1, LoanConstants DEF StillPending
    <3>2. ASSUME NEW m \in Loans PROVE Agree(loan'[m], schedule'[m])
      <4>1. Agree(loan[m], schedule[m])
        BY DEF LoanSound
      <4> QED
        BY <1>2, <2>1, <2>3, <2>4, <4>1 DEF Agree
    <3> QED
      BY <3>1, <3>2 DEF LoanSound
  <2> QED
    BY <2>6, <2>7 DEF LoanInv
<1> QED
  BY <1>7, <1>8

LEMMA LoansKeep == ASSUME LoanInv, L!Next PROVE LoanInv'
<1>1. CASE \E l \in Loans, a \in Amounts, t \in Tenures : L!Apply(l, a, t)
  BY <1>1, LoanApplied
<1>2. CASE \E d \in Officers : L!Decide(d)
  BY <1>2, LoanReads, LoanGranted, LoanRejected DEF L!Decide
<1>3. CASE \E d \in LoanPasses : L!Deduct(d)
  BY <1>3, LoanPicks, LoanMarked, LoanClosed DEF L!Deduct
<1>4. CASE \E d \in L!Desks : L!Abandon(d)
  BY <1>4, LoanAbandoned
<1> QED
  BY <1>1, <1>2, <1>3, <1>4 DEF L!Next

(* The model's sum of principals is this one.                              *)
LEMMA PrincipalIs ==
    ASSUME NEW l \in Loans, schedule[l] \in Seq(TypedRows), NEW S, S \subseteq DOMAIN schedule[l]
    PROVE  L!PrincipalOf(l, S) = SumOf(PrincipalsOf(schedule[l]), S)
<1> DEFINE s == schedule[l]
           f == PrincipalsOf(s)
           AddsUp(g) == g = [r \in SUBSET S |-> IF r = {} THEN 0
                                           ELSE s[Chosen(r)].principal + g[r \ {Chosen(r)}]]
<1>1. L!PrincipalOf(l, S) = (CHOOSE g : AddsUp(g))[S]
  BY DEF L!PrincipalOf, L!MapThenSumSet, L!MapThenFoldSet, Chosen
<1>2. IsFiniteSet(S)
  <2>1. DOMAIN s = 1 .. Len(s) /\ Len(s) \in Nat
    BY LenProperties
  <2> HIDE DEF s
  <2>2. IsFiniteSet(1 .. Len(s))
    BY <2>1, FS_Interval
  <2> QED
    BY <2>1, <2>2, FS_Subset DEF s
<1>3. \A r \in SUBSET S : r # {} => f[Chosen(r)] = s[Chosen(r)].principal
  <2> SUFFICES ASSUME NEW r \in SUBSET S, r # {} PROVE f[Chosen(r)] = s[Chosen(r)].principal
    OBVIOUS
  <2>1. Chosen(r) \in DOMAIN s
    BY ChosenIn
  <2> QED
    BY <2>1 DEF PrincipalsOf
<1> HIDE DEF s, f
<1>4. ASSUME NEW g PROVE AddsUp(g) <=> Adds(f, g, S)
  BY <1>3 DEF Adds
<1>5. \E g : AddsUp(g)
  BY <1>2, <1>4, SumExists
<1> DEFINE h == CHOOSE g : AddsUp(g)
<1>6. AddsUp(h)
  BY <1>5
<1>7. Adds(f, h, S)
  BY <1>4, <1>6
<1> HIDE DEF h, AddsUp
<1>8. h[S] = SumOf(f, S)
  BY <1>2, <1>7, SumIs
<1> QED
  BY <1>1, <1>8 DEF f, h, s

LEMMA LoansAddUp ==
    ASSUME LoanInv
    PROVE  /\ L!TypeOK /\ L!BalanceFalls
           /\ OneOfficer => L!ScheduleRepaysLoan /\ L!ClosedIsRepaid
<1>1. L!TypeOK
  BY DEF LoanInv, LoanTyped, L!TypeOK, TypedRows, LoanRecords, LoanPlaces, LoanJobs
<1>2. L!BalanceFalls
  BY DEF LoanInv, LoanTyped, L!BalanceFalls, Falls, L!RowsOf
<1>3. ASSUME OneOfficer, NEW l \in Loans, loan[l].status \in {"ACTIVE", "CLOSED"}
      PROVE  /\ Len(schedule[l]) = loan[l].tenure
             /\ L!PrincipalOf(l, L!RowsOf(l)) = loan[l].amount
             /\ \A k \in L!RowsOf(l) : schedule[l][k].balance =
                    L!PrincipalOf(l, {j \in L!RowsOf(l) : j > k})
  <2>1. PICK s : s = schedule[l]
    OBVIOUS
  <2>2. PICK n : n = loan[l].tenure
    OBVIOUS
  <2>3. s \in Seq(TypedRows) /\ RepaysAll(s, loan[l].amount, n)
    BY <1>3, <2>1, <2>2 DEF LoanInv, LoanTyped, LoanSound, Agree
  <2>4. Len(s) = n /\ n \in Nat /\ DOMAIN s = 1 .. n
    BY <2>3, LenProperties DEF RepaysAll
  <2>5. PICK f : f = PrincipalsOf(s)
    OBVIOUS
  <2>6. \A S : S \subseteq 1 .. n => L!PrincipalOf(l, S) = SumOf(f, S)
    BY <2>1, <2>3, <2>4, <2>5, PrincipalIs
  <2>7. L!RowsOf(l) = 1 .. n
    BY <2>1, <2>4 DEF L!RowsOf
  <2>8. L!PrincipalOf(l, L!RowsOf(l)) = loan[l].amount
    BY <2>3, <2>5, <2>6, <2>7 DEF RepaysAll
  <2>9. ASSUME NEW k \in 1 .. n
        PROVE  s[k].balance = L!PrincipalOf(l, {j \in L!RowsOf(l) : j > k})
    <3>1. {j \in L!RowsOf(l) : j > k} = Later(n, k) /\ Later(n, k) \subseteq 1 .. n
      BY <2>7 DEF Later
    <3>2. s[k].balance = SumOf(f, Later(n, k))
      BY <2>3, <2>5 DEF RepaysAll
    <3>3. L!PrincipalOf(l, Later(n, k)) = SumOf(f, Later(n, k))
      BY <2>6, <3>1
    <3> QED
      BY <3>1, <3>2, <3>3
  <2> QED
    BY <2>1, <2>2, <2>4, <2>7, <2>8, <2>9
<1>4. OneOfficer => L!ScheduleRepaysLoan
  BY <1>3 DEF L!ScheduleRepaysLoan
<1>5. OneOfficer => L!ClosedIsRepaid
  BY DEF LoanInv, LoanSound, Agree, L!ClosedIsRepaid, L!Unpaid, L!RowsOf
<1> QED
  BY <1>1, <1>2, <1>4, <1>5

-----------------------------------------------------------------------------
(* The calendar. *)

LEMMA SalaryConstants ==
    /\ Len(DaysIn) \in Nat /\ W!Months = 1 .. Len(DaysIn)
    /\ \A m \in W!Months : DaysIn[m] \in Nat /\ DaysIn[m] > 0
    /\ IsFiniteSet(Leaves)
    /\ Salaries \subseteq Nat /\ Earned \subseteq Nat /\ Emis \subseteq Nat
    /\ Edited \subseteq Nat /\ Longer \subseteq Nat
<1>1. DaysIn \in [1 .. Len(DaysIn) -> 28 .. 31] /\ Len(DaysIn) \in Nat
  BY SalaryAssumption, LenProperties
<1> QED
  BY <1>1, SalaryAssumption DEF W!Months

LEMMA UpTo == \A k \in Nat : IsFiniteSet(1 .. k)
BY FS_Interval

(* A month begins where the one before ended.                              *)
LEMMA Calendar ==
    ASSUME NEW m \in W!Months
    PROVE  /\ W!MonthStart(m) \in Nat
           /\ W!MonthEnd(m) = SumOf(DaysIn, 1 .. m) /\ W!MonthEnd(m) \in Nat
           /\ \A k \in W!Months : k < m => W!MonthEnd(k) < W!MonthStart(m)
<1>1. ASSUME NEW k \in W!Months
      PROVE  /\ W!MonthStart(k) = 1 + SumOf(DaysIn, 1 .. k - 1)
             /\ SumOf(DaysIn, 1 .. k - 1) \in Nat /\ SumOf(DaysIn, 1 .. k) \in Nat
             /\ SumOf(DaysIn, 1 .. k) = DaysIn[k] + SumOf(DaysIn, 1 .. k - 1)
  <2>1. W!MonthStart(k) = 1 + SumOf(DaysIn, 1 .. k - 1)
    BY DEF W!MonthStart, SumOf, MapThenSumSet, MapThenFoldSet, W!MapThenSumSet, W!MapThenFoldSet
  <2>2. k \in Nat \ {0} /\ \A x \in 1 .. k : DaysIn[x] \in Nat
    BY SalaryConstants
  <2>3. SumOf(DaysIn, 1 .. k) = DaysIn[k] + SumOf(DaysIn, 1 .. k - 1)
    <3>1. \A x \in 1 .. k : DaysIn[x] \in Int
      BY <2>2
    <3> QED
      BY <2>2, <3>1, SumNext
  <2>4. ASSUME NEW h \in {k - 1, k} PROVE SumOf(DaysIn, 1 .. h) \in Nat
    <3>1. PICK S : S = 1 .. h
      OBVIOUS
    <3>2. IsFiniteSet(S) /\ \A x \in S : DaysIn[x] \in Nat
      <4>1. h \in Nat /\ h <= k
        BY <2>2
      <4> QED
        BY <2>2, <3>1, <4>1, UpTo
    <3>3. SumOf(DaysIn, S) \in Nat
      BY <3>2, SumIsNat
    <3> QED
      BY <3>1, <3>3, Zenon
  <2>5. SumOf(DaysIn, 1 .. k - 1) \in Nat /\ SumOf(DaysIn, 1 .. k) \in Nat
    BY <2>4
  <2> QED
    BY <2>1, <2>3, <2>5
<1>2. ASSUME NEW k \in W!Months
      PROVE  W!MonthStart(k) \in Nat /\ W!MonthEnd(k) = SumOf(DaysIn, 1 .. k) /\ W!MonthEnd(k) \in Nat
  <2>1. PICK s \in Nat : s = SumOf(DaysIn, 1 .. k - 1)
    BY <1>1
  <2>2. PICK e \in Nat : e = SumOf(DaysIn, 1 .. k)
    BY <1>1
  <2>3. PICK d \in Nat : d = DaysIn[k]
    BY SalaryConstants
  <2>4. W!MonthStart(k) = 1 + s /\ e = d + s
    BY <1>1, <2>1, <2>2, <2>3
  <2>5. W!MonthEnd(k) = (1 + s) + d - 1
    BY <2>3, <2>4 DEF W!MonthEnd
  <2>6. W!MonthEnd(k) = e
    BY <2>4, <2>5
  <2> QED
    BY <2>2, <2>4, <2>6
<1>3. ASSUME NEW k \in W!Months, k < m PROVE W!MonthEnd(k) < W!MonthStart(m)
  <2>1. PICK S : S = 1 .. m - 1
    OBVIOUS
  <2>2. PICK T : T = 1 .. k
    OBVIOUS
  <2>3. IsFiniteSet(S) /\ T \subseteq S /\ \A x \in S : DaysIn[x] \in Nat
    <3>1. m \in Nat /\ m - 1 \in Nat /\ k \in Nat /\ \A x \in 1 .. m - 1 : x \in W!Months
      BY SalaryConstants
    <3>2. IsFiniteSet(S)
      BY <2>1, <3>1, UpTo
    <3> QED
      BY <1>3, <2>1, <2>2, <3>1, <3>2, SalaryConstants
  <2>4. SumOf(DaysIn, T) <= SumOf(DaysIn, S)
    BY <2>3, SumOfPart
  <2>5. PICK s \in Nat : s = SumOf(DaysIn, S) /\ W!MonthStart(m) = 1 + s
    BY <1>1, <2>1
  <2>6. PICK e \in Nat : e = SumOf(DaysIn, T) /\ W!MonthEnd(k) = e
    BY <1>1, <1>2, <2>2
  <2> QED
    BY <2>4, <2>5, <2>6
<1> QED
  BY <1>2, <1>3

-----------------------------------------------------------------------------
(* The days of the leaves that touch a month. *)

LeaveRecords == [status : {"NONE", "APPROVED", "WITHDRAWN"}, from : Nat, to : Nat, days : Nat]
EntryRecords == [made : BOOLEAN, earned : Nat, gross : Nat, lopDays : Nat, pf : Nat,
                 esi : Int, emi : Nat, other : Nat, net : Int]

Lost(lv, m) == {l \in Leaves : lv[l].status = "APPROVED" /\ W!Touches(lv[l], m)}
DaysOf(lv) == [l \in Leaves |-> lv[l].days]
DaysLost(lv, m) == SumOf(DaysOf(lv), Lost(lv, m))

LEMMA LostIsFinite ==
    ASSUME NEW lv \in [Leaves -> LeaveRecords]
    PROVE  /\ \A S : S \subseteq Leaves => IsFiniteSet(S)
           /\ \A l \in Leaves : DaysOf(lv)[l] = lv[l].days /\ lv[l].days \in Nat
<1>1. \A S : S \subseteq Leaves => IsFiniteSet(S)
  BY SalaryConstants, FS_Subset
<1>2. ASSUME NEW l \in Leaves PROVE DaysOf(lv)[l] = lv[l].days /\ lv[l].days \in Nat
  BY DEF DaysOf, LeaveRecords
<1> QED
  BY <1>1, <1>2

(* Only the leaves that touch the month count.                             *)
LEMMA SameLost ==
    ASSUME NEW lv \in [Leaves -> LeaveRecords], NEW uv \in [Leaves -> LeaveRecords], NEW m,
           Lost(uv, m) = Lost(lv, m), \A l \in Lost(lv, m) : uv[l] = lv[l]
    PROVE  DaysLost(uv, m) = DaysLost(lv, m)
<1>1. PICK S : S = Lost(lv, m) /\ S = Lost(uv, m)
  OBVIOUS
<1>2. PICK e : e = DaysOf(lv)
  OBVIOUS
<1>3. PICK f : f = DaysOf(uv)
  OBVIOUS
<1>4. IsFiniteSet(S) /\ \A l \in S : e[l] = f[l]
  <2>1. S \subseteq Leaves
    BY <1>1 DEF Lost
  <2>2. ASSUME NEW l \in S PROVE e[l] = f[l]
    <3>1. l \in Leaves /\ uv[l] = lv[l]
      BY <1>1, <2>1
    <3> QED
      BY <1>2, <1>3, <3>1 DEF DaysOf
  <2> QED
    BY <2>1, <2>2, LostIsFinite
<1>5. SumOf(e, S) = SumOf(f, S)
  BY <1>4, SumAgrees
<1> QED
  BY <1>1, <1>2, <1>3, <1>5, Zenon DEF DaysLost

(* The model's sum is this one.                                            *)
LEMMA DaysAre ==
    ASSUME leave \in [Leaves -> LeaveRecords], NEW S, S \subseteq Leaves
    PROVE  MapThenSumSet(LAMBDA l : leave[l].days, S) = SumOf(DaysOf(leave), S)
<1> DEFINE f == DaysOf(leave)
           AddsUp(g) == g = [s \in SUBSET S |-> IF s = {} THEN 0
                                           ELSE leave[Chosen(s)].days + g[s \ {Chosen(s)}]]
<1>1. MapThenSumSet(LAMBDA l : leave[l].days, S) = (CHOOSE g : AddsUp(g))[S]
  BY DEF MapThenSumSet, MapThenFoldSet, Chosen
<1>2. IsFiniteSet(S)
  BY LostIsFinite
<1>3. \A s \in SUBSET S : s # {} => f[Chosen(s)] = leave[Chosen(s)].days
  <2> SUFFICES ASSUME NEW s \in SUBSET S, s # {} PROVE f[Chosen(s)] = leave[Chosen(s)].days
    OBVIOUS
  <2>1. Chosen(s) \in Leaves
    BY ChosenIn
  <2> QED
    BY <2>1 DEF DaysOf
<1> HIDE DEF f
<1>4. ASSUME NEW g PROVE AddsUp(g) <=> Adds(f, g, S)
  BY <1>3 DEF Adds
<1>5. \E g : AddsUp(g)
  BY <1>2, <1>4, SumExists
<1> DEFINE h == CHOOSE g : AddsUp(g)
<1>6. AddsUp(h)
  BY <1>5
<1>7. Adds(f, h, S)
  BY <1>4, <1>6
<1> HIDE DEF h, AddsUp
<1>8. h[S] = SumOf(f, S)
  BY <1>2, <1>7, SumIs
<1> QED
  BY <1>1, <1>8 DEF f, h

LEMMA LopDaysAre ==
    ASSUME leave \in [Leaves -> LeaveRecords], NEW m
    PROVE  W!LopDays(m) = DaysLost(leave, m) /\ DaysLost(leave, m) \in Nat
<1>1. W!LopDays(m) = MapThenSumSet(LAMBDA l : leave[l].days, Lost(leave, m))
  BY DEF W!LopDays, Lost, W!Approved, W!MapThenSumSet, W!MapThenFoldSet, MapThenSumSet, MapThenFoldSet
<1>2. PICK S : S = Lost(leave, m)
  OBVIOUS
<1>3. PICK f : f = DaysOf(leave)
  OBVIOUS
<1>4. S \subseteq Leaves
  BY <1>2 DEF Lost
<1>5. IsFiniteSet(S) /\ \A l \in S : f[l] \in Nat
  BY <1>3, <1>4, LostIsFinite
<1>6. SumOf(f, S) \in Nat
  BY <1>5, SumIsNat
<1>7. MapThenSumSet(LAMBDA l : leave[l].days, S) = SumOf(f, S)
  BY <1>3, <1>4, DaysAre
<1> QED
  BY <1>1, <1>2, <1>3, <1>6, <1>7, Zenon DEF DaysLost

-----------------------------------------------------------------------------
(* Slips. *)

(* What is deducted was computed from what the slip says.                  *)
Deducts(m, e) ==
    e.made => \E noise \in -1 .. 1 :
        LET w == W!Wages(m, e.gross, e.lopDays)
        IN /\ e.pf = W!Pf(m, w, noise) /\ e.esi = W!Esi(m, w, noise)
           /\ e.net + DaysIn[m] * (e.emi + e.other) >= w - DaysIn[m] * (e.pf + e.esi)

OfSpan(lv) == lv.status # "NONE" => \E s \in Spans : lv.from = s.from /\ lv.to = s.to

SalaryInv ==
    /\ salary \in Salaries
    /\ leave \in [Leaves -> LeaveRecords] /\ \A l \in Leaves : OfSpan(leave[l])
    /\ entry \in [W!Months -> EntryRecords] /\ \A m \in W!Months : Deducts(m, entry[m])
    /\ fresh \subseteq W!Months /\ \A m \in fresh : entry[m].lopDays = DaysLost(leave, m)

LEMMA SlipsStart == W!Init => SalaryInv
<1> SUFFICES ASSUME W!Init PROVE SalaryInv
  OBVIOUS
<1>1. W!NoLeave \in LeaveRecords /\ W!NoEntry \in EntryRecords /\ ~W!NoEntry.made
      /\ W!NoLeave.status = "NONE"
  BY DEF W!NoLeave, W!NoEntry, LeaveRecords, EntryRecords
<1> QED
  BY <1>1 DEF W!Init, SalaryInv, OfSpan, Deducts

(* A leave that is decided, and touches no month that is fresh.            *)
LEMMA LeaveDecided ==
    ASSUME SalaryInv, NEW l \in Leaves, NEW n \in LeaveRecords, OfSpan(n),
           leave' = [leave EXCEPT ![l] = n], UNCHANGED <<salary, entry>>,
           \/ leave[l].status # "APPROVED" /\ fresh' = {m \in fresh : ~W!Touches(n, m)}
           \/ n.status # "APPROVED" /\ fresh' = {m \in fresh : ~W!Touches(leave[l], m)}
    PROVE  SalaryInv'
<1>1. /\ leave \in [Leaves -> LeaveRecords] /\ leave' \in [Leaves -> LeaveRecords]
      /\ leave'[l] = n /\ \A k \in Leaves : k # l => leave'[k] = leave[k]
  BY DEF SalaryInv
<1>2. ASSUME NEW m \in fresh' PROVE DaysLost(leave', m) = DaysLost(leave, m)
  <2>1. PICK lv \in [Leaves -> LeaveRecords] : lv = leave
    BY <1>1
  <2>2. PICK uv \in [Leaves -> LeaveRecords] : uv = leave'
    BY <1>1
  <2>3. l \notin Lost(lv, m) /\ l \notin Lost(uv, m)
    BY <1>1, <1>2, <2>1, <2>2 DEF Lost
  <2>4. \A k \in Leaves : k # l => uv[k] = lv[k]
    BY <1>1, <2>1, <2>2
  <2>5. Lost(uv, m) = Lost(lv, m) /\ \A k \in Lost(lv, m) : uv[k] = lv[k]
    BY <2>3, <2>4 DEF Lost
  <2>6. DaysLost(uv, m) = DaysLost(lv, m)
    BY <2>5, SameLost
  <2> QED
    BY <2>1, <2>2, <2>6
<1>3. \A k \in Leaves : OfSpan(leave'[k])
  BY <1>1 DEF SalaryInv
<1> QED
  BY <1>1, <1>2, <1>3 DEF SalaryInv

(* A slip that is written.                                                 *)
LEMMA SlipWritten ==
    ASSUME SalaryInv, NEW m \in W!Months, NEW n \in EntryRecords, Deducts(m, n),
           entry' = [entry EXCEPT ![m] = n], UNCHANGED <<salary, leave>>,
           fresh' \subseteq fresh \cup {m},
           m \in fresh' => n.lopDays = DaysLost(leave, m)
    PROVE  SalaryInv'
<1>1. /\ entry' \in [W!Months -> EntryRecords] /\ entry'[m] = n
      /\ \A k \in W!Months : k # m => entry'[k] = entry[k]
  BY DEF SalaryInv
<1> QED
  BY <1>1 DEF SalaryInv

LEMMA SlipComputed ==
    ASSUME SalaryInv, NEW m \in W!Months, NEW more \in Earned, NEW emi \in Emis,
           NEW noise \in -1 .. 1, W!ProcessRun(m, more, emi, noise)
    PROVE  SalaryInv'
<1>1. PICK earned : earned = entry[m].earned + more
  OBVIOUS
<1>2. PICK gross : gross = salary + earned
  OBVIOUS
<1>3. PICK lopDays : lopDays = W!LopDays(m)
  OBVIOUS
<1>4. PICK wages : wages = W!Wages(m, gross, lopDays)
  OBVIOUS
<1>5. PICK pf : pf = W!Pf(m, wages, noise)
  OBVIOUS
<1>6. PICK esi : esi = W!Esi(m, wages, noise)
  OBVIOUS
<1>7. PICK D : D = DaysIn[m]
  OBVIOUS
<1> DEFINE e == [made |-> TRUE, earned |-> earned, gross |-> gross, lopDays |-> lopDays,
                 pf |-> pf, esi |-> esi, emi |-> entry[m].emi + emi, other |-> 0, net |-> 0]
<1>8. PICK net : net = W!Net(m, e)
  OBVIOUS
<1> DEFINE n == [e EXCEPT !.other = entry[m].other, !.net = net]
<1>9. entry' = [entry EXCEPT ![m] = n] /\ UNCHANGED <<salary, leave>> /\ fresh' = fresh \cup {m}
  BY <1>1, <1>2, <1>3, <1>4, <1>5, <1>6, <1>8 DEF W!ProcessRun
<1>10. /\ entry[m] \in EntryRecords /\ salary \in Nat /\ leave \in [Leaves -> LeaveRecords]
       /\ D \in Nat \ {0}
  BY <1>7, SalaryConstants DEF SalaryInv
<1>11. earned \in Nat /\ gross \in Nat /\ entry[m].emi + emi \in Nat /\ entry[m].other \in Nat
  <2>1. more \in Nat /\ emi \in Nat
    BY SalaryConstants
  <2> QED
    BY <1>1, <1>2, <1>10, <2>1 DEF EntryRecords
<1>12. lopDays \in Nat /\ lopDays = DaysLost(leave, m)
  BY <1>3, <1>10, LopDaysAre
<1>13. wages \in Int /\ wages = gross * (D - lopDays)
  BY <1>4, <1>7, <1>10, <1>11, <1>12 DEF W!Wages
<1>14. pf \in Nat
  BY <1>5 DEF W!Pf, W!PfFlatAmount
<1>15. esi \in Int
  <2>1. 10000 * D \in Nat \ {0}
    BY <1>10
  <2>2. -(75 * wages) \in Int /\ 75 * wages \in Int
    BY <1>13
  <2>3. (-(75 * wages)) \div (10000 * D) \in Int
    BY <2>1, <2>2
  <2>4. W!CeilDiv(75 * wages, 10000 * D) \in Int
    BY <2>3 DEF W!CeilDiv
  <2> QED
    BY <1>6, <1>7, <2>4 DEF W!Esi
<1>16. net = wages - D * (pf + esi + (entry[m].emi + emi))
  <2>1. pf + esi + (entry[m].emi + emi) + 0 = pf + esi + (entry[m].emi + emi)
    BY <1>11, <1>14, <1>15
  <2> QED
    BY <1>4, <1>7, <1>8, <2>1 DEF W!Net
<1>17. PICK E \in Nat : E = entry[m].emi + emi
  BY <1>11
<1>18. PICK O \in Nat : O = entry[m].other
  BY <1>11
<1>19. net \in Int /\ net + D * (E + O) >= wages - D * (pf + esi)
  <2>1. D * (E + O) = D * E + D * O /\ D * O >= 0 /\ D * O \in Int /\ D * E \in Int
    BY <1>10
  <2>2. D * (pf + esi + E) = D * (pf + esi) + D * E /\ D * (pf + esi) \in Int
    BY <1>10, <1>14, <1>15
  <2> QED
    BY <1>13, <1>16, <1>17, <2>1, <2>2
<1>20. /\ n \in EntryRecords /\ n.made /\ n.gross = gross /\ n.lopDays = lopDays
       /\ n.pf = pf /\ n.esi = esi /\ n.net = net /\ n.emi = E /\ n.other = O
  BY <1>10, <1>11, <1>12, <1>14, <1>15, <1>17, <1>18, <1>19 DEF EntryRecords
<1> HIDE DEF n, e
<1>21. Deducts(m, n)
  BY <1>4, <1>5, <1>6, <1>7, <1>19, <1>20 DEF Deducts
<1> QED
  BY <1>9, <1>12, <1>20, <1>21, SlipWritten

LEMMA SlipEdited ==
    ASSUME SalaryInv, NEW m \in W!Months, NEW other \in Edited, W!UpdateEntry(m, other)
    PROVE  SalaryInv'
<1>1. PICK r : r = entry[m]
  OBVIOUS
<1> DEFINE e == [r EXCEPT !.other = other]
<1>2. PICK net : net = W!Net(m, e)
  OBVIOUS
<1> DEFINE n == [e EXCEPT !.net = net]
<1>3. /\ r.made /\ entry' = [entry EXCEPT ![m] = n] /\ UNCHANGED <<salary, leave, fresh>>
  BY <1>1, <1>2 DEF W!UpdateEntry
<1>4. PICK D \in Nat \ {0} : D = DaysIn[m]
  BY SalaryConstants
<1>5. r \in EntryRecords /\ Deducts(m, r)
  BY <1>1 DEF SalaryInv
<1>6. PICK wages \in Int : wages = W!Wages(m, r.gross, r.lopDays)
  BY <1>4, <1>5 DEF EntryRecords, W!Wages
<1>7. /\ e.pf = r.pf /\ e.esi = r.esi /\ e.emi = r.emi /\ e.other = other
      /\ e.gross = r.gross /\ e.lopDays = r.lopDays
      /\ r.pf \in Nat /\ r.esi \in Int /\ r.emi \in Nat /\ other \in Nat
  BY <1>5, SalaryConstants DEF EntryRecords
<1>8. net = wages - D * (r.pf + r.esi + r.emi + other)
  BY <1>2, <1>4, <1>6, <1>7 DEF W!Net
<1>9. net \in Int /\ net + D * (r.emi + other) >= wages - D * (r.pf + r.esi)
  <2>1. PICK p \in Int : p = r.pf + r.esi
    BY <1>7
  <2>2. PICK q \in Int : q = r.emi + other
    BY <1>7
  <2>3. r.pf + r.esi + r.emi + other = p + q
    BY <1>7, <2>1, <2>2
  <2>4. D * (p + q) = D * p + D * q /\ D * p \in Int /\ D * q \in Int
    OBVIOUS
  <2> QED
    BY <1>8, <2>1, <2>2, <2>3, <2>4
<1>10. /\ n \in EntryRecords /\ n.gross = r.gross /\ n.lopDays = r.lopDays
       /\ n.pf = r.pf /\ n.esi = r.esi /\ n.net = net /\ n.emi = r.emi /\ n.other = other
  <2>1. e \in EntryRecords
    BY <1>5, <1>7 DEF EntryRecords
  <2> HIDE DEF e
  <2> QED
    BY <1>7, <1>9, <2>1 DEF EntryRecords
<1> HIDE DEF n, e
<1>11. Deducts(m, n)
  BY <1>3, <1>4, <1>5, <1>6, <1>9, <1>10 DEF Deducts
<1>12. m \in fresh' => n.lopDays = DaysLost(leave, m)
  BY <1>1, <1>3, <1>10 DEF SalaryInv
<1> QED
  BY <1>3, <1>10, <1>11, <1>12, SlipWritten

LEMMA LeaveApproved ==
    ASSUME SalaryInv, NEW l \in Leaves, NEW s \in Spans, NEW more \in Longer,
           W!Approve(l, s, more)
    PROVE  SalaryInv'
<1> DEFINE n == [status |-> "APPROVED", from |-> s.from, to |-> s.to,
                 days |-> s.to - s.from + 1 + more]
<1>1. /\ leave[l] = W!NoLeave /\ leave' = [leave EXCEPT ![l] = n]
      /\ fresh' = {m \in fresh : ~W!Touches(s, m)} /\ UNCHANGED <<salary, entry>>
  BY DEF W!Approve
<1>2. /\ n \in LeaveRecords /\ n.from = s.from /\ n.to = s.to /\ OfSpan(n)
  <2>1. s.from \in Nat /\ s.to \in Nat /\ s.from <= s.to /\ more \in Nat
    BY SalaryAssumption
  <2>2. s.to - s.from + 1 + more \in Nat
    BY <2>1
  <2> QED
    BY <2>1, <2>2 DEF LeaveRecords, OfSpan
<1> HIDE DEF n
<1>3. \A m : W!Touches(s, m) <=> W!Touches(n, m)
  BY <1>2 DEF W!Touches
<1>4. leave[l].status # "APPROVED"
  BY <1>1 DEF W!NoLeave
<1>5. fresh' = {m \in fresh : ~W!Touches(n, m)}
  BY <1>1, <1>3
<1> QED
  BY <1>1, <1>2, <1>4, <1>5, LeaveDecided

LEMMA LeaveTakenBack ==
    ASSUME SalaryInv, NEW l \in Leaves, W!DecideLate(l)
    PROVE  SalaryInv'
<1> DEFINE n == [leave[l] EXCEPT !.status = "WITHDRAWN"]
<1>1. /\ leave[l].status = "APPROVED" /\ leave' = [leave EXCEPT ![l] = n]
      /\ fresh' = {m \in fresh : ~W!Touches(leave[l], m)} /\ UNCHANGED <<salary, entry>>
  BY DEF W!DecideLate
<1>2. leave[l] \in LeaveRecords /\ OfSpan(leave[l])
  BY DEF SalaryInv
<1>3. /\ n \in LeaveRecords /\ n.from = leave[l].from /\ n.to = leave[l].to
      /\ n.status = "WITHDRAWN"
  BY <1>2 DEF LeaveRecords
<1> HIDE DEF n
<1>4. OfSpan(n)
  BY <1>1, <1>2, <1>3 DEF OfSpan
<1> QED
  BY <1>1, <1>3, <1>4, LeaveDecided

LEMMA SlipsKeep == ASSUME SalaryInv, W!Next PROVE SalaryInv'
<1>1. CASE \E l \in Leaves : W!DecideLate(l)
  BY <1>1, LeaveTakenBack
<1>2. CASE \E l \in Leaves, s \in Spans, more \in Longer : W!Approve(l, s, more)
  BY <1>2, LeaveApproved
<1>3. CASE \E s \in Salaries : W!AssignStructure(s)
  BY <1>3 DEF W!AssignStructure, SalaryInv
<1>4. CASE \E m \in W!Months, more \in Earned, emi \in Emis, noise \in -1 .. 1 :
               W!ProcessRun(m, more, emi, noise)
  BY <1>4, SlipComputed
<1>5. CASE \E m \in W!Months, other \in Edited : W!UpdateEntry(m, other)
  BY <1>5, SlipEdited
<1> QED
  BY <1>1, <1>2, <1>3, <1>4, <1>5 DEF W!Next

-----------------------------------------------------------------------------
(* What a slip deducts. *)

(* The leaves that touch one of the first h months.                        *)
LostBy(lv, h) == {l \in Leaves : \E m \in 1 .. h : l \in Lost(lv, m)}

(* The days lost in the months are those of the leaves in force, if each   *)
(* of these touches one month.                                             *)
LEMMA MonthsAddUp ==
    ASSUME NEW lv \in [Leaves -> LeaveRecords], NEW n \in Nat,
           \A l \in Leaves : \A m, k \in 1 .. n : l \in Lost(lv, m) /\ l \in Lost(lv, k) => m = k,
           NEW g, \A m \in 1 .. n : g[m] = DaysLost(lv, m)
    PROVE  SumOf(g, 1 .. n) = SumOf(DaysOf(lv), LostBy(lv, n))
<1>1. PICK f : f = DaysOf(lv)
  OBVIOUS
<1>2. \A S : S \subseteq Leaves => IsFiniteSet(S) /\ \A x \in S : f[x] \in Nat
  BY <1>1, LostIsFinite
<1>3. \A m \in 1 .. n : g[m] = SumOf(f, Lost(lv, m)) /\ g[m] \in Nat
  <2> SUFFICES ASSUME NEW m \in 1 .. n PROVE g[m] = SumOf(f, Lost(lv, m)) /\ g[m] \in Nat
    OBVIOUS
  <2>1. PICK S : S = Lost(lv, m)
    OBVIOUS
  <2>2. S \subseteq Leaves
    BY <2>1 DEF Lost
  <2>3. SumOf(f, S) \in Nat
    BY <1>2, <2>2, SumIsNat
  <2> QED
    BY <1>1, <2>1, <2>3, Zenon DEF DaysLost
<1> DEFINE G == {h \in 0 .. n : SumOf(g, 1 .. h) = SumOf(f, LostBy(lv, h))}
<1>4. 0 \in G
  <2>1. 1 .. 0 = {} /\ LostBy(lv, 0) = {} /\ 0 \in 0 .. n
    BY DEF LostBy
  <2>2. SumOf(g, 1 .. 0) = 0 /\ SumOf(f, LostBy(lv, 0)) = 0
    BY <2>1, SumEmpty, Zenon
  <2> QED
    BY <2>1, <2>2
<1>5. ASSUME NEW h \in 1 .. n, h - 1 \in G PROVE h \in G
  <2>1. PICK S : S = LostBy(lv, h - 1)
    OBVIOUS
  <2>2. PICK T : T = Lost(lv, h)
    OBVIOUS
  <2>3. SumOf(g, 1 .. h) = g[h] + SumOf(g, 1 .. h - 1)
    <3>1. h \in Nat \ {0} /\ \A m \in 1 .. h : g[m] \in Int
      BY <1>3
    <3> QED
      BY <3>1, SumNext
  <2>4. S \subseteq Leaves /\ T \subseteq Leaves /\ S \cap T = {} /\ S \cup T = LostBy(lv, h)
    <3>1. S \subseteq Leaves /\ T \subseteq Leaves
      BY <2>1, <2>2 DEF LostBy, Lost
    <3>2. S \cap T = {}
      <4> SUFFICES ASSUME NEW l \in S, l \in T PROVE FALSE
        OBVIOUS
      <4>1. PICK m \in 1 .. h - 1 : l \in Lost(lv, m)
        BY <2>1 DEF LostBy
      <4>2. m \in 1 .. n /\ h \in 1 .. n /\ m # h /\ l \in Leaves
        BY <3>1
      <4> QED
        BY <2>2, <4>1, <4>2
    <3>3. ASSUME NEW l \in Leaves PROVE l \in S \cup T <=> l \in LostBy(lv, h)
      <4>1. \A m : m \in 1 .. h <=> m \in 1 .. h - 1 \/ m = h
        OBVIOUS
      <4> QED
        BY <2>1, <2>2, <4>1 DEF LostBy
    <3> QED
      BY <3>1, <3>2, <3>3 DEF LostBy
  <2>5. SumOf(f, S \cup T) = SumOf(f, S) + SumOf(f, T)
    <3>1. IsFiniteSet(S) /\ IsFiniteSet(T) /\ \A x \in S \cup T : f[x] \in Int
      BY <1>2, <2>4
    <3> QED
      BY <2>4, <3>1, SumOfBoth
  <2>6. SumOf(g, 1 .. h - 1) = SumOf(f, S) /\ g[h] = SumOf(f, T)
    <3>1. SumOf(g, 1 .. h - 1) = SumOf(f, LostBy(lv, h - 1))
      BY <1>5
    <3> QED
      BY <1>3, <2>1, <2>2, <3>1, Zenon
  <2>7. SumOf(f, S) \in Nat /\ SumOf(f, T) \in Nat
    <3>1. /\ IsFiniteSet(S) /\ \A x \in S : f[x] \in Nat
          /\ IsFiniteSet(T) /\ \A x \in T : f[x] \in Nat
      BY <1>2, <2>4
    <3> QED
      BY <3>1, SumIsNat
  <2>8. SumOf(g, 1 .. h) = SumOf(f, S \cup T)
    BY <2>3, <2>5, <2>6, <2>7
  <2>9. SumOf(g, 1 .. h) = SumOf(f, LostBy(lv, h))
    BY <2>4, <2>8, Zenon
  <2> QED
    BY <2>9
<1> HIDE DEF G
<1>6. n \in G
  <2>1. \A h \in 0 .. n : h \in G
    BY <1>4, <1>5, CountUp
  <2> QED
    BY <2>1
<1>7. SumOf(g, 1 .. n) = SumOf(f, LostBy(lv, n))
  BY <1>6 DEF G
<1> QED
  BY <1>1, <1>7, Zenon

(* The model's sum of what the slips say is this one.                      *)
LopDaysOn(en) == [m \in W!Months |-> en[m].lopDays]

LEMMA SlipDaysAre ==
    W!MapThenSumSet(LAMBDA m : entry[m].lopDays, W!Months) = SumOf(LopDaysOn(entry), W!Months)
<1> DEFINE M == W!Months
           d == LopDaysOn(entry)
           AddsUp(g) == g = [s \in SUBSET M |-> IF s = {} THEN 0
                                           ELSE entry[Chosen(s)].lopDays + g[s \ {Chosen(s)}]]
<1>1. W!MapThenSumSet(LAMBDA m : entry[m].lopDays, M) = (CHOOSE g : AddsUp(g))[M]
  BY DEF W!MapThenSumSet, W!MapThenFoldSet, Chosen
<1>2. IsFiniteSet(M)
  BY SalaryConstants, UpTo
<1>3. \A s \in SUBSET M : s # {} => d[Chosen(s)] = entry[Chosen(s)].lopDays
  <2> SUFFICES ASSUME NEW s \in SUBSET M, s # {} PROVE d[Chosen(s)] = entry[Chosen(s)].lopDays
    OBVIOUS
  <2>1. Chosen(s) \in M
    BY ChosenIn
  <2> QED
    BY <2>1 DEF LopDaysOn
<1> HIDE DEF M, d
<1>4. ASSUME NEW g PROVE AddsUp(g) <=> Adds(d, g, M)
  BY <1>3 DEF Adds
<1>5. \E g : AddsUp(g)
  BY <1>2, <1>4, SumExists
<1> DEFINE h == CHOOSE g : AddsUp(g)
<1>6. AddsUp(h)
  BY <1>5
<1>7. Adds(d, h, M)
  BY <1>4, <1>6
<1> HIDE DEF h, AddsUp
<1>8. h[M] = SumOf(d, M)
  BY <1>2, <1>7, SumIs
<1> QED
  BY <1>1, <1>8 DEF d, h, M

LEMMA DaysAddUp == ASSUME SalaryInv PROVE W!LopDaysAddUp
<1> SUFFICES ASSUME fresh = W!Months, \A l \in W!InForce : ~W!Crosses(l)
             PROVE  W!MapThenSumSet(LAMBDA m : entry[m].lopDays, W!Months) =
                        W!MapThenSumSet(LAMBDA l : leave[l].days, W!InForce)
  BY DEF W!LopDaysAddUp
<1>1. PICK lv \in [Leaves -> LeaveRecords] : lv = leave
  BY DEF SalaryInv
<1>2. PICK n \in Nat : n = Len(DaysIn) /\ W!Months = 1 .. n
  BY SalaryConstants
<1>3. PICK g : g = LopDaysOn(entry)
  OBVIOUS
<1>4. ASSUME NEW l \in W!InForce
      PROVE  /\ l \in Leaves /\ lv[l].status = "APPROVED"
             /\ \E m \in W!Months : W!Touches(lv[l], m)
             /\ \A m, k \in W!Months : W!Touches(lv[l], m) /\ W!Touches(lv[l], k) => m = k
  <2>1. l \in Leaves /\ lv[l].status = "APPROVED" /\ OfSpan(lv[l])
    BY <1>1 DEF W!InForce, SalaryInv
  <2>2. PICK s \in Spans : lv[l].from = s.from /\ lv[l].to = s.to
    BY <2>1 DEF OfSpan
  <2>3. \E m \in W!Months : W!Touches(lv[l], m)
    <3>1. PICK m \in W!Months : W!Touches(s, m)
      BY SalaryAssumption
    <3> QED
      BY <2>2, <3>1 DEF W!Touches
  <2>4. PICK from \in Nat : from = lv[l].from
    BY <2>1 DEF LeaveRecords
  <2>5. PICK to \in Nat : to = lv[l].to
    BY <2>1 DEF LeaveRecords
  <2>6. \A m \in W!Months : from <= W!MonthEnd(m) => ~ (to > W!MonthEnd(m))
    BY <1>1, <2>4, <2>5 DEF W!Crosses
  <2>7. \A m \in W!Months : W!Touches(lv[l], m) =>
            from <= W!MonthEnd(m) /\ to >= W!MonthStart(m)
    BY <2>4, <2>5 DEF W!Touches
  <2>8. ASSUME NEW m \in W!Months, NEW k \in W!Months, k < m,
               W!Touches(lv[l], m), W!Touches(lv[l], k)
        PROVE  FALSE
    <3>1. PICK e \in Nat : e = W!MonthEnd(k)
      BY Calendar
    <3>2. PICK b \in Nat : b = W!MonthStart(m)
      BY Calendar
    <3>3. e < b
      BY <2>8, <3>1, <3>2, Calendar
    <3>4. from <= e /\ to >= b
      BY <2>7, <2>8, <3>1, <3>2
    <3>5. ~ (to > e)
      BY <2>6, <3>1, <3>4
    <3> QED
      BY <3>3, <3>4, <3>5
  <2>9. \A m, k \in W!Months : m < k \/ k < m \/ m = k
    BY <1>2
  <2> QED
    BY <2>1, <2>3, <2>8, <2>9
<1>5. \A l \in Leaves : \A m, k \in 1 .. n : l \in Lost(lv, m) /\ l \in Lost(lv, k) => m = k
  BY <1>1, <1>2, <1>4 DEF Lost, W!InForce
<1>6. W!InForce = LostBy(lv, n)
  BY <1>1, <1>2, <1>4 DEF W!InForce, LostBy, Lost
<1>7. \A m \in 1 .. n : g[m] = DaysLost(lv, m)
  BY <1>1, <1>2, <1>3 DEF SalaryInv, LopDaysOn
<1>8. SumOf(g, 1 .. n) = SumOf(DaysOf(lv), LostBy(lv, n))
  BY <1>5, <1>7, MonthsAddUp
<1>9. W!MapThenSumSet(LAMBDA l : leave[l].days, W!InForce) = SumOf(DaysOf(lv), LostBy(lv, n))
  <2>1. PICK S : S = W!InForce /\ S = LostBy(lv, n)
    BY <1>6
  <2>2. S \subseteq Leaves
    BY <2>1 DEF W!InForce
  <2>3. MapThenSumSet(LAMBDA l : leave[l].days, S) = SumOf(DaysOf(leave), S)
    BY <1>1, <2>2, DaysAre
  <2>4. W!MapThenSumSet(LAMBDA l : leave[l].days, S) = MapThenSumSet(LAMBDA l : leave[l].days, S)
    BY DEF W!MapThenSumSet, W!MapThenFoldSet, MapThenSumSet, MapThenFoldSet
  <2> QED
    BY <1>1, <2>1, <2>3, <2>4, Zenon
<1>10. W!MapThenSumSet(LAMBDA m : entry[m].lopDays, W!Months) = SumOf(g, 1 .. n)
  BY <1>2, <1>3, SlipDaysAre, Zenon
<1> QED
  BY <1>8, <1>9, <1>10, Zenon

(* ESI is 0.75 per cent of the wages, a rupee more at most.                *)
LEMMA EsiIs ==
    ASSUME NEW m \in W!Months, NEW D \in Nat \ {0}, D = DaysIn[m], NEW w \in Int,
           NEW noise \in -1 .. 1, NEW esi, esi = W!Esi(m, w, noise)
    PROVE  /\ esi \in Int
           /\ ~W!AtLeast(m, w, noise, 21001) =>
                 10000 * D * esi >= 75 * w /\ 10000 * D * (esi - 1) <= 75 * w
           /\ W!AtLeast(m, w, noise, 21001) => esi = 0
<1>1. PICK part \in Nat \ {0} : part = 10000 * D
  OBVIOUS
<1>2. PICK a \in Int : a = 75 * w
  OBVIOUS
<1>3. PICK q \in Int : q = (-a) \div part
  OBVIOUS
<1>4. part * q <= -a /\ -a < part * q + part
  BY <1>3
<1>5. PICK more \in {0, 1} : /\ more = IF noise > 0 /\ a % part = 0 THEN 1 ELSE 0
                             /\ more = 1 => a % part = 0
  OBVIOUS
<1>6. esi = IF W!AtLeast(m, w, noise, 21001) THEN 0 ELSE -q + more
  BY <1>1, <1>2, <1>3, <1>5 DEF W!Esi, W!CeilDiv, W!EsiGrossCeiling
<1>7. a % part = 0 => a = part * (-q)
  <2>1. PICK c \in Int : c = a \div part
    OBVIOUS
  <2>2. a = part * c + (a % part)
    BY <2>1
  <2> SUFFICES ASSUME a % part = 0 PROVE a = part * (-q)
    OBVIOUS
  <2>3. a = part * c
    BY <2>2
  <2>4. -a = part * (-c)
    BY <2>3
  <2>5. part * q <= part * (-c) /\ part * (-c) < part * (q + 1)
    BY <1>4, <2>4
  <2>6. q <= -c /\ -c < q + 1
    <3>1. \A x, y \in Int : x > y => part * x > part * y
      <4> SUFFICES ASSUME NEW x \in Int, NEW y \in Int, x > y PROVE part * x > part * y
        OBVIOUS
      <4>1. part * (x - y) > 0
        OBVIOUS
      <4> QED
        BY <4>1
    <3> QED
      BY <2>5, <3>1
  <2> QED
    BY <2>3, <2>6
<1>8. PICK x \in Int : x = -q + more
  OBVIOUS
<1>9. part * x >= a /\ part * (x - 1) <= a
  <2>1. CASE more = 0
    BY <1>4, <1>8, <2>1
  <2>2. CASE more = 1
    BY <1>4, <1>5, <1>7, <1>8, <2>2
  <2> QED
    BY <2>1, <2>2
<1> QED
  BY <1>1, <1>2, <1>6, <1>8, <1>9

LEMMA PfIs ==
    ASSUME NEW m \in W!Months, NEW D \in Nat \ {0}, D = DaysIn[m], NEW w \in Int,
           NEW noise \in -1 .. 1, NEW pf, pf = W!Pf(m, w, noise)
    PROVE  /\ pf \in {0, 1800}
           /\ pf = 1800 => w >= 15000 * D
           /\ W!AtLeast(m, w, noise, 21001) => pf = 1800
BY DEF W!Pf, W!PfFlatAmount, W!PfGrossThreshold, W!AtLeast

LEMMA SlipsAddUp ==
    ASSUME SalaryInv
    PROVE  W!EsiIsRoundedUp /\ W!PaidContributes /\ W!NobodyOwes
<1>1. ASSUME NEW m \in W!Made
      PROVE  LET w == W!Wages(m, entry[m].gross, entry[m].lopDays)
                 part == 10000 * DaysIn[m]
             IN /\ entry[m].esi # 0 => /\ part * entry[m].esi >= 75 * w
                                       /\ part * (entry[m].esi - 2) < 75 * w
                /\ w > 0 => entry[m].pf + entry[m].esi > 0
                /\ entry[m].lopDays <= DaysIn[m] =>
                      entry[m].net + DaysIn[m] * (entry[m].emi + entry[m].other)
                          >= -DaysIn[m]
  <2>1. m \in W!Months /\ entry[m].made /\ entry[m] \in EntryRecords /\ Deducts(m, entry[m])
    BY DEF W!Made, SalaryInv
  <2>2. PICK D \in Nat \ {0} : D = DaysIn[m]
    BY <2>1, SalaryConstants
  <2>3. PICK lop \in Nat : lop = entry[m].lopDays
    BY <2>1 DEF EntryRecords
  <2>4. PICK gross \in Nat : gross = entry[m].gross
    BY <2>1 DEF EntryRecords
  <2>5. PICK w \in Int : w = W!Wages(m, gross, lop) /\ w = gross * (D - lop)
    BY <2>2 DEF W!Wages
  <2>6. PICK noise \in -1 .. 1 :
           /\ entry[m].pf = W!Pf(m, w, noise) /\ entry[m].esi = W!Esi(m, w, noise)
           /\ entry[m].net + D * (entry[m].emi + entry[m].other) >=
                  w - D * (entry[m].pf + entry[m].esi)
    BY <2>1, <2>2, <2>3, <2>4, <2>5 DEF Deducts
  <2>7. PICK esi \in Int :
           /\ esi = entry[m].esi
           /\ ~W!AtLeast(m, w, noise, 21001) =>
                 10000 * D * esi >= 75 * w /\ 10000 * D * (esi - 1) <= 75 * w
           /\ W!AtLeast(m, w, noise, 21001) => esi = 0
    <3>1. PICK esi : esi = entry[m].esi
      OBVIOUS
    <3>2. m \in W!Months /\ D = DaysIn[m] /\ esi = W!Esi(m, w, noise)
      BY <2>1, <2>2, <2>6, <3>1
    <3> QED
      BY <3>1, <3>2, EsiIs
  <2>8. PICK pf \in {0, 1800} :
           /\ pf = entry[m].pf /\ (pf = 1800 => w >= 15000 * D)
           /\ W!AtLeast(m, w, noise, 21001) => pf = 1800
    <3>1. PICK pf : pf = entry[m].pf
      OBVIOUS
    <3>2. m \in W!Months /\ D = DaysIn[m] /\ pf = W!Pf(m, w, noise)
      BY <2>1, <2>2, <2>6, <3>1
    <3> QED
      BY <3>1, <3>2, PfIs
  <2>9. esi # 0 => 10000 * D * esi >= 75 * w /\ 10000 * D * (esi - 2) < 75 * w
    <3>1. 10000 * D * (esi - 2) < 10000 * D * (esi - 1)
      OBVIOUS
    <3> QED
      BY <2>7, <3>1
  <2>10. w > 0 => pf + esi > 0
    <3>1. CASE W!AtLeast(m, w, noise, 21001)
      BY <2>7, <2>8, <3>1
    <3>2. CASE ~W!AtLeast(m, w, noise, 21001)
      <4>1. w > 0 => esi > 0
        BY <2>7, <3>2
      <4> QED
        BY <2>8, <4>1
    <3> QED
      BY <3>1, <3>2
  <2>11. PICK net \in Int : net = entry[m].net
    BY <2>1 DEF EntryRecords
  <2>12. PICK taken \in Int : taken = D * (entry[m].emi + entry[m].other)
    BY <2>1, <2>2 DEF EntryRecords
  <2>13. net + taken >= w - D * (pf + esi)
    BY <2>6, <2>7, <2>8, <2>11, <2>12
  <2>14. lop <= D => net + taken >= -D
    <3> SUFFICES ASSUME lop <= D PROVE w - D * (pf + esi) >= -D
      BY <2>13
    <3>1. w >= 0
      <4>1. D - lop \in Nat
        OBVIOUS
      <4> QED
        BY <2>5, <4>1
    <3>2. CASE W!AtLeast(m, w, noise, 21001)
      BY <2>7, <2>8, <3>1, <3>2
    <3>3. CASE ~W!AtLeast(m, w, noise, 21001)
      <4>1. 10000 * D * (esi - 1) <= 75 * w
        BY <2>7, <3>3
      <4>2. CASE pf = 0
        BY <3>1, <4>1, <4>2
      <4>3. CASE pf = 1800
        BY <2>8, <4>1, <4>3
      <4> QED
        BY <4>2, <4>3
    <3> QED
      BY <3>2, <3>3
  <2> QED
    BY <2>2, <2>3, <2>4, <2>5, <2>7, <2>8, <2>9, <2>10, <2>11, <2>12, <2>14
<1> QED
  BY <1>1 DEF W!EsiIsRoundedUp, W!PaidContributes, W!NobodyOwes

LEMMA SlipTypes == ASSUME SalaryInv PROVE W!TypeOK
BY DEF SalaryInv, W!TypeOK, LeaveRecords, EntryRecords

-----------------------------------------------------------------------------
(* The four beside one another. *)

everyVars == <<vars, thanksVars, loanVars, salaryVars, side, raced>>

LEMMA TodoSteady == TodoInv /\ [MCNext]_everyVars => TodoInv'
<1> SUFFICES ASSUME TodoInv, [MCNext]_everyVars PROVE TodoInv'
  OBVIOUS
<1>1. CASE Next /\ raced' = (raced \/ Racing')
  BY <1>1, TodosKeep
<1>2. CASE UNCHANGED <<vars, raced>>
  BY <1>2
  DEF vars, TodoInv, TodoTyped, TodoCurrent, TypeOK, Racing, ApprovedIsPaid, OnlyApprovedEarns
<1> QED
  BY <1>1, <1>2 DEF MCNext, TodoStep, ThanksStep, LoanStep, SalaryStep, everyVars

LEMMA LoanSteady == LoanInv /\ [MCNext]_everyVars => LoanInv'
<1> SUFFICES ASSUME LoanInv, [MCNext]_everyVars PROVE LoanInv'
  OBVIOUS
<1>1. CASE L!Next
  BY <1>1, LoansKeep
<1>2. CASE UNCHANGED loanVars
  BY <1>2 DEF loanVars, LoanInv, LoanTyped, LoanSound
<1> QED
  BY <1>1, <1>2 DEF MCNext, TodoStep, ThanksStep, LoanStep, SalaryStep, everyVars

LEMMA SalarySteady == SalaryInv /\ [MCNext]_everyVars => SalaryInv'
<1> SUFFICES ASSUME SalaryInv, [MCNext]_everyVars PROVE SalaryInv'
  OBVIOUS
<1>1. CASE W!Next
  BY <1>1, SlipsKeep
<1>2. CASE UNCHANGED salaryVars
  BY <1>2 DEF salaryVars, SalaryInv
<1> QED
  BY <1>1, <1>2 DEF MCNext, TodoStep, ThanksStep, LoanStep, SalaryStep, everyVars

(* What a todo that is approved is worth is what its ledger row says, and  *)
(* no other todo has a row, for any number of todos, of employees at them, *)
(* and of failures, as long as the statements of no two submissions or two *)
(* reviews interleave.                                                     *)
THEOREM TodosArePaidOnce == MCSpec => []LedgerMatchesTodos
<1>1. MCInit => TodoInv
  BY TodosStart DEF MCInit, TodoInv
<1>2. TodoInv /\ [MCNext]_everyVars => TodoInv'
  BY TodoSteady
<1>3. TodoInv => LedgerMatchesTodos
  BY DEF TodoInv, TodoCurrent, LedgerMatchesTodos
<1> QED
  BY <1>1, <1>2, <1>3, PTL DEF MCSpec, everyVars

(* Nobody gives more than the limit in any quarter, and payroll pays only  *)
(* what is approved, for any number of employees, entries, quarters and    *)
(* payroll passes, wherever a request fails, if each sender has one request *)
(* under way and reviews follow one another.                               *)
THEOREM NobodyGivesTooMuch == ASSUME OneAtATime PROVE MCSpec => []AwardsAreInOrder
<1>1. MCInit => ThanksInv
  BY ThanksStart DEF MCInit
<1>2. ThanksInv /\ [MCNext]_everyVars => ThanksInv'
  <2> SUFFICES ASSUME ThanksInv, [MCNext]_everyVars PROVE ThanksInv'
    OBVIOUS
  <2>1. CASE GT!Next
    BY <2>1, ThanksKeep
  <2>2. CASE UNCHANGED thanksVars
    BY <2>2
    DEF thanksVars, ThanksInv, ThanksTyped, ThanksInOrder, GT!TypeOK, GT!PaidIsApproved
  <2> QED
    BY <2>1, <2>2 DEF MCNext, TodoStep, ThanksStep, LoanStep, SalaryStep, everyVars
<1>3. ThanksInv => AwardsAreInOrder
  <2> SUFFICES ASSUME ThanksInv PROVE AwardsAreInOrder
    OBVIOUS
  <2>1. thanks \in [Thanks -> Entries]
    BY DEF ThanksInv, ThanksTyped, GT!TypeOK, Entries
  <2>2. GT!QuotaIsKept
    BY <2>1, SentIsTotal DEF ThanksInv, ThanksInOrder, GT!QuotaIsKept
  <2> QED
    BY <2>2 DEF ThanksInv, ThanksInOrder, AwardsAreInOrder
<1> QED
  BY <1>1, <1>2, <1>3, PTL DEF MCSpec, everyVars

(* A granted loan is repaid by its schedule to the cent, each instalment    *)
(* repays part of it, and it is closed when they all are deducted; what a   *)
(* slip deducts for leaves and contributions is what there is to deduct.    *)
(* For any number of loans, of amounts and tenures, of payroll passes and   *)
(* of leaves, and any salaries, as long as one loan is decided at a time    *)
(* and the amounts are ample for the tenures and the three rates.           *)
THEOREM AmountsAreRight == ASSUME OneOfficer PROVE MCSpec => []AmountsAddUp
<1>1. MCInit => LoanInv /\ SalaryInv
  BY LoansStart, SlipsStart DEF MCInit
<1>2. LoanInv /\ [MCNext]_everyVars => LoanInv'
  BY LoanSteady
<1>3. SalaryInv /\ [MCNext]_everyVars => SalaryInv'
  BY SalarySteady
<1>4. LoanInv /\ SalaryInv => AmountsAddUp
  BY LoansAddUp, DaysAddUp, SlipsAddUp DEF AmountsAddUp, W!WagesAddUp
<1> QED
  BY <1>1, <1>2, <1>3, <1>4, PTL DEF MCSpec, everyVars

(* Every row, and what every request has read, is what it should be, for   *)
(* any number of them, however the requests interleave and wherever they   *)
(* fail: each entry of Green Thanks goes to another employee, and an       *)
(* instalment's interest is no negative amount.                            *)
THEOREM RewardTypes == MCSpec => []TypesAreOK
<1>1. MCInit => TodoInv /\ ThanksKnown /\ LoanInv /\ SalaryInv
  BY TodosStart, KnownStart, LoansStart, SlipsStart DEF MCInit, TodoInv
<1>2. TodoInv /\ [MCNext]_everyVars => TodoInv'
  BY TodoSteady
<1>3. ThanksKnown /\ [MCNext]_everyVars => ThanksKnown'
  <2> SUFFICES ASSUME ThanksKnown, [MCNext]_everyVars PROVE ThanksKnown'
    OBVIOUS
  <2>1. CASE GT!Next
    BY <2>1, KnownKeep
  <2>2. CASE UNCHANGED thanksVars
    BY <2>2 DEF thanksVars, ThanksKnown, GT!TypeOK
  <2> QED
    BY <2>1, <2>2 DEF MCNext, TodoStep, ThanksStep, LoanStep, SalaryStep, everyVars
<1>4. LoanInv /\ [MCNext]_everyVars => LoanInv'
  BY LoanSteady
<1>5. SalaryInv /\ [MCNext]_everyVars => SalaryInv'
  BY SalarySteady
<1>6. TodoInv /\ ThanksKnown /\ LoanInv /\ SalaryInv => TypesAreOK
  BY LoansAddUp, SlipTypes DEF TodoInv, TodoTyped, ThanksKnown, TypesAreOK
<1> QED
  BY <1>1, <1>2, <1>3, <1>4, <1>5, <1>6, PTL DEF MCSpec, everyVars
=============================================================================
