---------------------------- MODULE LeaveProofs ----------------------------
(***************************************************************************)
(* What holds of leave balances and applications for any number of         *)
(* employees, leave types, applications, special-leave requests and        *)
(* concurrent workers, with crashes between any two statements.            *)
(***************************************************************************)
EXTENDS MCLeave, SumTheorems

AppRec == [status : Status, special : BOOLEAN, leave : Leave]
Job == [app : Applications \cup {NoId}, request : Requests \cup {NoId},
        leave : Leave, read : Row]

(* Workers that will insert the application they hold, and those that will *)
(* write the status of one they have read.                                 *)
Creators == {"checkBalance", "checkOverlap", "create", "grantOverlap", "grantBegin", "grantCommit"}
Deciders == {"cancel", "reject", "deductRead", "deductWrite", "approve"}

(* taken and left of a row, or of what was read of it, are covered by an   *)
(* entitlement; in month 0, before the first accrual, they add up to it.    *)
Covered(row, entitled, m) ==
    /\ row.taken + row.left <= entitled
    /\ m = 0 => row.taken + row.left = entitled

(* What a worker at p, holding j, relies on in the tables. *)
WorkerOK(p, j, ap, bl, ch, m) ==
    /\ p \in Creators => j.app \in Applications /\ ap[j.app].status = "NONE"
    /\ p \in Deciders => j.app \in Applications /\ ap[j.app].status # "NONE"
    /\ p \in {"deductWrite", "grantCommit"} /\ j.read.exists =>
           bl[j.leave.row].exists /\ Covered(j.read, bl[j.leave.row].entitled, m)
    /\ p = "deductWrite" => j.read.exists /\ j.read.left >= j.leave.days
    /\ p = "approve" => ch[j.app] >= 1

WorkersOK == \A w \in Workers : WorkerOK(pc[w], job[w], app, bal, charged, month)

(* No two workers are about to insert the same application. *)
Distinct ==
    \A v, w \in Workers :
        v # w /\ pc[v] \in Creators /\ pc[w] \in Creators => job[v].app # job[w].app

RowsCovered == \A r \in Rows : Covered(bal[r], bal[r].entitled, month)
SpecialExists == \A a \in Applications : app[a].special => app[a].status # "NONE"
NoAccrual == month = 0 => cron = {}

TablesOK ==
    RowsCovered /\ OnlySpecialOverdraws /\ ApprovedIsCharged /\ SpecialExists /\ NoAccrual

LeaveInv == TypeOK /\ TablesOK /\ WorkersOK /\ Distinct

-----------------------------------------------------------------------------
(* The record types the constants span. *)

LEMMA Constants ==
    /\ FullYear \in Row /\ NoRow \in Row
    /\ (\A m : Covered(FullYear, FullYear.entitled, m)) /\ FullYear.left >= 0
    /\ AnyLeave \in Leave /\ Idle \in Job
    /\ Monthly \in Nat /\ Months \in Nat /\ Days \subseteq Nat \ {0}
<1>1. DaysPerYear \in Nat /\ Monthly \in Nat /\ Months \in Nat
  BY ConstantsAssumption
<1>2. FullYear \in Row /\ NoRow \in Row
  BY <1>1 DEF FullYear, NoRow, Row
<1>3. (\A m : Covered(FullYear, FullYear.entitled, m)) /\ FullYear.left >= 0
  BY <1>1 DEF FullYear, Covered
<1>4. AnyLeave \in Leave
  <2>1. \E r \in Rows : TRUE
    <3>1. PICK e \in Employees, t \in Types : TRUE
      BY ConstantsAssumption
    <3>2. <<e, t, ThisYear>> \in Employees \X Types \X Years
      BY <3>1, ConstantsAssumption
    <3> QED
      BY <3>2 DEF Rows
  <2>2. (\E s \in Spans : TRUE) /\ (\E d \in Days : TRUE)
    BY ConstantsAssumption
  <2> QED
    BY <2>1, <2>2 DEF AnyLeave, Leave
<1> QED
  BY <1>1, <1>2, <1>3, <1>4, ConstantsAssumption DEF Idle, Job

LEMMA AskedIsLeave ==
    ASSUME NEW e \in Employees, NEW t \in Types, NEW s \in Spans, NEW d \in Days
    PROVE  Asked(e, t, s, d) \in Leave /\ <<e, t, YearOf[s]>> \in Rows
BY ConstantsAssumption DEF Asked, Leave, Rows

LEMMA InitIsSafe == Init => LeaveInv
<1> SUFFICES ASSUME Init PROVE LeaveInv
  OBVIOUS
<1>1. TypeOK
  BY Constants DEF Init, TypeOK, AppRec, Job, PC, Status
<1>2. RowsCovered /\ OnlySpecialOverdraws
  BY DEF Init, RowsCovered, OnlySpecialOverdraws, Covered, NoRow
<1>3. ApprovedIsCharged /\ SpecialExists /\ NoAccrual
  BY DEF Init, ApprovedIsCharged, SpecialExists, NoAccrual
<1>4. WorkersOK /\ Distinct
  BY DEF Init, WorkersOK, WorkerOK, Distinct, Creators, Deciders
<1> QED
  BY <1>1, <1>2, <1>3, <1>4 DEF LeaveInv, TablesOK

-----------------------------------------------------------------------------
(* How a step may change the tables under the other workers' feet.         *)

BooksGrow(bl, bl2, m) ==
    \A r \in Rows : bl[r].exists =>
        /\ bl2[r].exists /\ bl2[r].entitled >= bl[r].entitled
        /\ m = 0 => bl2[r].entitled = bl[r].entitled

ChargesGrow(ch, ch2) == \A a \in Applications : ch2[a] >= ch[a]

(* Applications do not vanish, and only those in `made' come into being.   *)
AppsGrow(ap, ap2, made) ==
    \A a \in Applications :
        /\ ap[a].status # "NONE" => ap2[a].status # "NONE"
        /\ ap[a].status = "NONE" /\ a \notin made => ap2[a].status = "NONE"

LEMMA WorkerStaysOK ==
    ASSUME NEW p, NEW j \in Job, NEW made, NEW m,
           NEW ap, NEW ap2, NEW bl \in [Rows -> Row], NEW bl2 \in [Rows -> Row],
           NEW ch \in [Applications -> Nat], NEW ch2 \in [Applications -> Nat],
           WorkerOK(p, j, ap, bl, ch, m),
           BooksGrow(bl, bl2, m), ChargesGrow(ch, ch2), AppsGrow(ap, ap2, made),
           p \in Creators => j.app \notin made
    PROVE  WorkerOK(p, j, ap2, bl2, ch2, m)
<1>1. j.leave.row \in Rows /\ j.read \in Row
  BY DEF Job, Leave
<1>2. p \in {"deductWrite", "grantCommit"} /\ j.read.exists =>
         bl2[j.leave.row].exists /\ Covered(j.read, bl2[j.leave.row].entitled, m)
  <2> SUFFICES ASSUME p \in {"deductWrite", "grantCommit"}, j.read.exists
               PROVE  bl2[j.leave.row].exists /\ Covered(j.read, bl2[j.leave.row].entitled, m)
    OBVIOUS
  <2>1. bl[j.leave.row].exists /\ Covered(j.read, bl[j.leave.row].entitled, m)
    BY DEF WorkerOK
  <2>2. /\ bl[j.leave.row].entitled \in Nat /\ bl2[j.leave.row].entitled \in Nat
        /\ j.read.taken \in Nat /\ j.read.left \in Int
    BY <1>1 DEF Row
  <2> QED
    BY <1>1, <2>1, <2>2 DEF BooksGrow, Covered
<1>3. p \in Creators => j.app \in Applications /\ ap2[j.app].status = "NONE"
  BY DEF WorkerOK, AppsGrow
<1>4. p \in Deciders => j.app \in Applications /\ ap2[j.app].status # "NONE"
  BY DEF WorkerOK, AppsGrow
<1>5. p = "approve" => ch2[j.app] >= 1
  <2> SUFFICES ASSUME p = "approve" PROVE ch2[j.app] >= 1
    OBVIOUS
  <2>1. j.app \in Applications /\ ch[j.app] >= 1 /\ ch2[j.app] >= ch[j.app]
    BY DEF WorkerOK, Deciders, ChargesGrow
  <2>2. ch[j.app] \in Nat /\ ch2[j.app] \in Nat
    BY <2>1
  <2> QED
    BY <2>1, <2>2
<1>6. p = "deductWrite" => j.read.exists /\ j.read.left >= j.leave.days
  BY DEF WorkerOK
<1> QED
  BY <1>2, <1>3, <1>4, <1>5, <1>6 DEF WorkerOK

(* One worker moves while the tables grow. *)
LEMMA WorkersKeep ==
    ASSUME LeaveInv, NEW w \in Workers, NEW to \in PC, NEW j \in Job, NEW made,
           Goto(w, to), Note(w, j), month' = month,
           bal' \in [Rows -> Row], charged' \in [Applications -> Nat],
           BooksGrow(bal, bal', month), ChargesGrow(charged, charged'), AppsGrow(app, app', made),
           WorkerOK(to, j, app', bal', charged', month'),
           \A v \in Workers : v # w /\ pc[v] \in Creators => job[v].app \notin made,
           to \in Creators =>
               \A v \in Workers : v # w /\ pc[v] \in Creators => job[v].app # j.app
    PROVE  WorkersOK' /\ Distinct' /\ pc' \in [Workers -> PC] /\ job' \in [Workers -> Job]
<1>1. pc \in [Workers -> PC] /\ job \in [Workers -> Job]
  BY DEF LeaveInv, TypeOK, Job
<1>2. /\ pc' \in [Workers -> PC] /\ job' \in [Workers -> Job]
      /\ pc'[w] = to /\ job'[w] = j
      /\ \A v \in Workers : v # w => pc'[v] = pc[v] /\ job'[v] = job[v]
  BY <1>1 DEF Goto, Note
<1>3. ASSUME NEW v \in Workers PROVE WorkerOK(pc'[v], job'[v], app', bal', charged', month')
  <2>1. CASE v = w
    BY <2>1, <1>2
  <2>2. CASE v # w
    <3>1. /\ WorkerOK(pc[v], job[v], app, bal, charged, month) /\ job[v] \in Job
          /\ bal \in [Rows -> Row] /\ charged \in [Applications -> Nat]
      BY <1>1 DEF LeaveInv, WorkersOK, TypeOK
    <3>2. WorkerOK(pc[v], job[v], app', bal', charged', month')
      BY <2>2, <3>1, WorkerStaysOK
    <3> QED
      BY <2>2, <3>2, <1>2
  <2> QED
    BY <2>1, <2>2
<1>4. Distinct'
  BY <1>2 DEF LeaveInv, Distinct
<1> QED
  BY <1>2, <1>3, <1>4 DEF WorkersOK

(* The same when no application comes into being. *)
LEMMA WorkersKeepApps ==
    ASSUME LeaveInv, NEW w \in Workers, NEW to \in PC, NEW j \in Job,
           Goto(w, to), Note(w, j), month' = month,
           bal' \in [Rows -> Row], charged' \in [Applications -> Nat],
           BooksGrow(bal, bal', month), ChargesGrow(charged, charged'), AppsGrow(app, app', {}),
           WorkerOK(to, j, app', bal', charged', month'),
           to \in Creators =>
               \A v \in Workers : v # w /\ pc[v] \in Creators => job[v].app # j.app
    PROVE  WorkersOK' /\ Distinct' /\ pc' \in [Workers -> PC] /\ job' \in [Workers -> Job]
<1> DEFINE made == {}
<1>1. AppsGrow(app, app', made)
  OBVIOUS
<1>2. \A v \in Workers : v # w /\ pc[v] \in Creators => job[v].app \notin made
  OBVIOUS
<1> HIDE DEF made
<1> QED
  BY <1>1, <1>2, WorkersKeep

(* Nobody moves while the tables grow. *)
LEMMA WorkersRest ==
    ASSUME LeaveInv, UNCHANGED <<app, pc, job, charged, month>>,
           bal' \in [Rows -> Row], BooksGrow(bal, bal', month)
    PROVE  WorkersOK' /\ Distinct'
<1>1. /\ job \in [Workers -> Job] /\ bal \in [Rows -> Row] /\ charged \in [Applications -> Nat]
  BY DEF LeaveInv, TypeOK, Job
<1>2. ChargesGrow(charged, charged') /\ AppsGrow(app, app', {})
  BY <1>1 DEF ChargesGrow, AppsGrow
<1>3. ASSUME NEW v \in Workers PROVE WorkerOK(pc[v], job[v], app', bal', charged', month')
  <2>1. WorkerOK(pc[v], job[v], app, bal, charged, month) /\ job[v] \in Job /\ charged' \in [Applications -> Nat]
    BY <1>1 DEF LeaveInv, WorkersOK
  <2> QED
    BY <1>1, <1>2, <2>1, WorkerStaysOK
<1> QED
  BY <1>3 DEF WorkersOK, Distinct, LeaveInv

-----------------------------------------------------------------------------
(* Steps of one worker that only read. *)

LEMMA TablesRest ==
    ASSUME bal \in [Rows -> Row], charged \in [Applications -> Nat],
           bal' = bal, charged' = charged, app' = app
    PROVE  BooksGrow(bal, bal', month) /\ ChargesGrow(charged, charged') /\ AppsGrow(app, app', {})
<1>1. \A r \in Rows : bal'[r] = bal[r] /\ bal[r].entitled \in Nat
  BY DEF Row
<1>2. BooksGrow(bal, bal', month)
  BY <1>1 DEF BooksGrow
<1>3. ChargesGrow(charged, charged')
  BY DEF ChargesGrow
<1>4. AppsGrow(app, app', {})
  BY DEF AppsGrow
<1> QED
  BY <1>2, <1>3, <1>4

LEMMA Moves ==
    ASSUME LeaveInv, NEW w \in Workers, NEW to \in PC, NEW j \in Job,
           Goto(w, to), Note(w, j), UNCHANGED <<books, app, request, accrual>>,
           WorkerOK(to, j, app, bal, charged, month),
           to \in Creators =>
               \A v \in Workers : v # w /\ pc[v] \in Creators => job[v].app # j.app
    PROVE  LeaveInv'
<1>1. /\ bal' = bal /\ charged' = charged /\ app' = app /\ request' = request
      /\ month' = month /\ cron' = cron
  BY DEF books, accrual
<1>2. bal \in [Rows -> Row] /\ charged \in [Applications -> Nat] /\ TypeOK /\ TablesOK
  BY DEF LeaveInv, TypeOK
<1>3. BooksGrow(bal, bal', month) /\ ChargesGrow(charged, charged') /\ AppsGrow(app, app', {})
  BY <1>1, <1>2, TablesRest
<1>4. /\ bal' \in [Rows -> Row] /\ charged' \in [Applications -> Nat]
      /\ WorkerOK(to, j, app', bal', charged', month')
  BY <1>1, <1>2
<1>5. WorkersOK' /\ Distinct' /\ pc' \in [Workers -> PC] /\ job' \in [Workers -> Job]
  BY <1>1, <1>3, <1>4, WorkersKeepApps
<1>6. TypeOK'
  BY <1>1, <1>2, <1>5 DEF TypeOK, Job
<1>7. TablesOK'
  BY <1>1, <1>2 DEF TablesOK, RowsCovered, OnlySpecialOverdraws, ApprovedIsCharged, SpecialExists, NoAccrual
<1> QED
  BY <1>5, <1>6, <1>7 DEF LeaveInv

(* A handler that ends, or dies. *)
LEMMA Ends ==
    ASSUME LeaveInv, NEW w \in Workers, Done(w), UNCHANGED <<books, app, request, accrual>>
    PROVE  LeaveInv'
<1>1. "idle" \in PC /\ Idle \in Job /\ "idle" \notin Creators
  BY Constants DEF PC, Creators
<1>2. WorkerOK("idle", Idle, app, bal, charged, month)
  BY DEF WorkerOK, Creators, Deciders
<1> QED
  BY <1>1, <1>2, Moves DEF Done

(* A worker that takes its next statement with the job it has. *)
LEMMA GoesOn ==
    ASSUME LeaveInv, NEW w \in Workers, NEW to \in PC,
           Goto(w, to), UNCHANGED job, UNCHANGED <<books, app, request, accrual>>,
           pc[w] \in Creators, to \in Creators \ {"grantCommit"}
    PROVE  LeaveInv'
<1>1. job[w] \in Job /\ Note(w, job[w])
  BY DEF LeaveInv, TypeOK, Job, Note
<1>2. WorkerOK(pc[w], job[w], app, bal, charged, month)
  BY DEF LeaveInv, WorkersOK
<1>3. WorkerOK(to, job[w], app, bal, charged, month)
  BY <1>2 DEF WorkerOK, Creators, Deciders
<1>4. \A v \in Workers : v # w /\ pc[v] \in Creators => job[v].app # job[w].app
  BY DEF LeaveInv, Distinct
<1> QED
  BY <1>1, <1>3, <1>4, Moves

LEMMA CheckBalanceKeeps ==
    ASSUME LeaveInv, NEW w \in Workers, CheckBalance(w) PROVE LeaveInv'
<1>1. CASE Done(w)
  BY <1>1, Ends DEF CheckBalance
<1>2. CASE Goto(w, "checkOverlap") /\ UNCHANGED job
  BY <1>2, GoesOn DEF CheckBalance, PC, Creators
<1> QED
  BY <1>1, <1>2 DEF CheckBalance

LEMMA CheckOverlapKeeps ==
    ASSUME LeaveInv, NEW w \in Workers, CheckOverlap(w) PROVE LeaveInv'
<1>1. CASE Done(w)
  BY <1>1, Ends DEF CheckOverlap
<1>2. CASE Goto(w, "create") /\ UNCHANGED job
  BY <1>2, GoesOn DEF CheckOverlap, PC, Creators
<1> QED
  BY <1>1, <1>2 DEF CheckOverlap

LEMMA GrantOverlapKeeps ==
    ASSUME LeaveInv, NEW w \in Workers, GrantOverlap(w) PROVE LeaveInv'
<1>1. CASE Done(w)
  BY <1>1, Ends DEF GrantOverlap
<1>2. CASE Goto(w, "grantBegin") /\ UNCHANGED job
  BY <1>2, GoesOn DEF GrantOverlap, PC, Creators
<1> QED
  BY <1>1, <1>2 DEF GrantOverlap

LEMMA DecideKeeps ==
    ASSUME LeaveInv, NEW w \in Workers, NEW a \in Applications,
           NEW to \in {"cancel", "reject", "deductRead"}, Decide(w, a, to)
    PROVE  LeaveInv'
<1> DEFINE j == [job[w] EXCEPT !.app = a, !.leave = app[a].leave]
<1>1. j \in Job /\ j.app = a /\ to \in PC /\ to \notin Creators
  BY DEF LeaveInv, TypeOK, Job, AppRec, PC, Creators
<1>2. WorkerOK(to, j, app, bal, charged, month)
  BY <1>1 DEF Decide, WorkerOK, Creators, Deciders
<1>3. Goto(w, to) /\ Note(w, j) /\ UNCHANGED <<books, app, request, accrual>>
  BY DEF Decide
<1> QED
  BY <1>1, <1>2, <1>3, Moves

LEMMA DeductReadKeeps ==
    ASSUME LeaveInv, NEW w \in Workers, DeductRead(w) PROVE LeaveInv'
<1> DEFINE row == bal[job[w].leave.row]
           j == [job[w] EXCEPT !.read = row]
<1>1. CASE Done(w)
  BY <1>1, Ends DEF DeductRead
<1>2. CASE row.exists /\ row.left >= job[w].leave.days /\ Note(w, j) /\ Goto(w, "deductWrite")
  <2>1. /\ job[w] \in Job /\ job[w].leave.row \in Rows /\ bal \in [Rows -> Row]
    BY DEF LeaveInv, TypeOK, Job, Leave
  <2>2. /\ j \in Job /\ j.app = job[w].app /\ j.leave = job[w].leave /\ j.read = row
    BY <2>1 DEF Job
  <2>3. WorkerOK(pc[w], job[w], app, bal, charged, month) /\ pc[w] = "deductRead"
    BY DEF LeaveInv, WorkersOK, DeductRead
  <2>4. Covered(row, row.entitled, month)
    BY <2>1 DEF LeaveInv, TablesOK, RowsCovered
  <2>5. WorkerOK("deductWrite", j, app, bal, charged, month)
    BY <1>2, <2>1, <2>2, <2>3, <2>4 DEF WorkerOK, Creators, Deciders
  <2>6. "deductWrite" \in PC /\ "deductWrite" \notin Creators
    BY DEF PC, Creators
  <2>7. UNCHANGED <<books, app, request, accrual>>
    BY DEF DeductRead
  <2> QED
    BY <1>2, <2>2, <2>5, <2>6, <2>7, Moves
<1> QED
  BY <1>1, <1>2 DEF DeductRead

LEMMA GrantReadKeeps ==
    ASSUME LeaveInv, NEW w \in Workers, NEW q \in Requests, NEW a \in Applications,
           GrantRead(w, q, a)
    PROVE  LeaveInv'
<1> DEFINE j == [job[w] EXCEPT !.app = a, !.request = q, !.leave = request[q].leave]
<1>1. j \in Job /\ j.app = a /\ "grantOverlap" \in PC
  BY DEF LeaveInv, TypeOK, Job, PC
<1>2. app[a].status = "NONE" /\ \A v \in Workers : pc[v] \in Creators => job[v].app # a
  BY DEF GrantRead, Fresh, Creators
<1>3. WorkerOK("grantOverlap", j, app, bal, charged, month)
  BY <1>1, <1>2 DEF WorkerOK, Creators, Deciders
<1>4. Goto(w, "grantOverlap") /\ Note(w, j) /\ UNCHANGED <<books, app, request, accrual>>
  BY DEF GrantRead
<1> QED
  BY <1>1, <1>2, <1>3, <1>4, Moves

LEMMA GrantBeginKeeps ==
    ASSUME LeaveInv, NEW w \in Workers, GrantBegin(w) PROVE LeaveInv'
<1> DEFINE row == bal[job[w].leave.row]
           j == [job[w] EXCEPT !.read = row]
<1>1. /\ job[w] \in Job /\ job[w].leave.row \in Rows /\ bal \in [Rows -> Row]
  BY DEF LeaveInv, TypeOK, Job, Leave
<1>2. /\ j \in Job /\ j.app = job[w].app /\ j.leave = job[w].leave /\ j.read = row
  BY <1>1 DEF Job
<1>3. WorkerOK(pc[w], job[w], app, bal, charged, month) /\ pc[w] = "grantBegin"
  BY DEF LeaveInv, WorkersOK, GrantBegin
<1>4. Covered(row, row.entitled, month)
  BY <1>1 DEF LeaveInv, TablesOK, RowsCovered
<1>5. WorkerOK("grantCommit", j, app, bal, charged, month)
  BY <1>1, <1>2, <1>3, <1>4 DEF WorkerOK, Creators, Deciders
<1>6. \A v \in Workers : v # w /\ pc[v] \in Creators => job[v].app # j.app
  BY <1>2, <1>3 DEF LeaveInv, Distinct, Creators
<1>7. Goto(w, "grantCommit") /\ Note(w, j) /\ UNCHANGED <<books, app, request, accrual>>
  BY DEF GrantBegin
<1>8. "grantCommit" \in PC
  BY DEF PC
<1> QED
  BY <1>2, <1>5, <1>6, <1>7, <1>8, Moves

-----------------------------------------------------------------------------
(* Steps that write one balance row.                                       *)

LEMMA RowWritten ==
    ASSUME LeaveInv, NEW r \in Rows, NEW new \in Row,
           month' = month, bal' = [bal EXCEPT ![r] = new], Covered(new, new.entitled, month),
           bal[r].exists =>
               /\ new.exists /\ new.entitled >= bal[r].entitled
               /\ month = 0 => new.entitled = bal[r].entitled
    PROVE  /\ bal' \in [Rows -> Row] /\ BooksGrow(bal, bal', month) /\ RowsCovered'
           /\ bal'[r] = new /\ \A s \in Rows : s # r => bal'[s] = bal[s]
<1>1. bal \in [Rows -> Row] /\ RowsCovered
  BY DEF LeaveInv, TypeOK, Row, TablesOK
<1>2. bal' \in [Rows -> Row] /\ bal'[r] = new /\ \A s \in Rows : s # r => bal'[s] = bal[s]
  BY <1>1
<1>3. \A s \in Rows : bal[s].entitled \in Nat
  BY <1>1 DEF Row
<1>4. BooksGrow(bal, bal', month)
  BY <1>2, <1>3 DEF BooksGrow
<1>5. RowsCovered'
  <2>1. ASSUME NEW s \in Rows PROVE Covered(bal'[s], bal'[s].entitled, month')
    BY <1>1, <1>2 DEF RowsCovered
  <2> QED
    BY <2>1 DEF RowsCovered
<1> QED
  BY <1>2, <1>4, <1>5

(* Writing a row that is not overdrawn overdraws none.                     *)
LEMMA NoneOverdrawn ==
    ASSUME LeaveInv, NEW r \in Rows, bal'[r].left >= 0 \/ (bal[r].left < 0 /\ bal'[r].left \in Int),
           bal'[r].left \in Int, app' = app, \A s \in Rows : s # r => bal'[s] = bal[s]
    PROVE  OnlySpecialOverdraws'
<1>1. OnlySpecialOverdraws
  BY DEF LeaveInv, TablesOK
<1> QED
  BY <1>1 DEF OnlySpecialOverdraws

LEMMA Initializes ==
    ASSUME LeaveInv, NEW r \in Rows, bal' = Initialized(r), app' = app, month' = month
    PROVE  bal' \in [Rows -> Row] /\ BooksGrow(bal, bal', month) /\ RowsCovered' /\ OnlySpecialOverdraws'
<1>1. bal \in [Rows -> Row] /\ RowsCovered /\ OnlySpecialOverdraws
  BY DEF LeaveInv, TypeOK, Row, TablesOK
<1>2. CASE bal[r].exists
  <2>1. bal' = bal
    BY <1>1, <1>2 DEF Initialized
  <2>2. \A s \in Rows : bal[s].entitled \in Nat
    BY <1>1 DEF Row
  <2>3. BooksGrow(bal, bal', month)
    BY <2>1, <2>2 DEF BooksGrow
  <2> QED
    BY <1>1, <2>1, <2>3 DEF RowsCovered, OnlySpecialOverdraws
<1>3. CASE ~bal[r].exists
  <2>1. bal' = [bal EXCEPT ![r] = FullYear]
    BY <1>3 DEF Initialized
  <2>2. /\ bal' \in [Rows -> Row] /\ BooksGrow(bal, bal', month) /\ RowsCovered'
        /\ bal'[r] = FullYear /\ \A s \in Rows : s # r => bal'[s] = bal[s]
    BY <1>3, <2>1, Constants, RowWritten
  <2>3. bal'[r].left >= 0 /\ bal'[r].left \in Int
    BY <2>2, Constants DEF Row
  <2>4. OnlySpecialOverdraws'
    BY <2>2, <2>3, NoneOverdrawn
  <2> QED
    BY <2>2, <2>4
<1> QED
  BY <1>2, <1>3

(* The rest of the invariant while applications and charges stay put.      *)
LEMMA AppsRest ==
    ASSUME LeaveInv, app' = app, charged' = charged
    PROVE  /\ ApprovedIsCharged' /\ SpecialExists'
           /\ charged' \in [Applications -> Nat] /\ charged \in [Applications -> Nat]
           /\ ChargesGrow(charged, charged') /\ AppsGrow(app, app', {})
<1>1. charged \in [Applications -> Nat]
  BY DEF LeaveInv, TypeOK
<1>2. ApprovedIsCharged' /\ SpecialExists'
  BY DEF LeaveInv, TablesOK, ApprovedIsCharged, SpecialExists
<1> QED
  BY <1>1, <1>2 DEF ChargesGrow, AppsGrow

LEMMA InitBalanceKeeps ==
    ASSUME LeaveInv, NEW r \in Rows, InitBalance(r) PROVE LeaveInv'
<1>1. /\ bal' = Initialized(r) /\ app' = app /\ charged' = charged /\ request' = request
      /\ pc' = pc /\ job' = job /\ month' = month /\ cron' = cron
  BY DEF InitBalance, accrual
<1>2. bal' \in [Rows -> Row] /\ BooksGrow(bal, bal', month) /\ RowsCovered' /\ OnlySpecialOverdraws'
  BY <1>1, Initializes
<1>3. WorkersOK' /\ Distinct'
  BY <1>1, <1>2, WorkersRest
<1>4. ApprovedIsCharged' /\ SpecialExists'
  BY <1>1, AppsRest
<1>5. TypeOK'
  BY <1>1, <1>2 DEF LeaveInv, TypeOK
<1>6. NoAccrual'
  BY <1>1 DEF LeaveInv, TablesOK, NoAccrual
<1> QED
  BY <1>2, <1>3, <1>4, <1>5, <1>6 DEF LeaveInv, TablesOK

LEMMA AccrueRowKeeps ==
    ASSUME LeaveInv, NEW r \in Rows, AccrueRow(r) PROVE LeaveInv'
<1>1. /\ bal' = [bal EXCEPT ![r] = Accrued(bal[r])] /\ app' = app /\ charged' = charged
      /\ request' = request /\ pc' = pc /\ job' = job /\ month' = month
      /\ cron' = cron \ {r} /\ cron # {} /\ cron \in SUBSET Rows
  BY DEF AccrueRow, LeaveInv, TypeOK, Row
<1>2. bal[r] \in Row /\ Covered(bal[r], bal[r].entitled, month)
  BY DEF LeaveInv, TypeOK, TablesOK, RowsCovered
<1>3. month # 0
  BY <1>1 DEF LeaveInv, TablesOK, NoAccrual
<1>4. /\ bal[r].entitled \in Nat /\ bal[r].taken \in Nat /\ bal[r].left \in Int /\ Monthly \in Nat
  BY <1>2, Constants DEF Row
<1>5. /\ Accrued(bal[r]) \in Row /\ Accrued(bal[r]).exists
      /\ Accrued(bal[r]).entitled = bal[r].entitled + Monthly
      /\ Accrued(bal[r]).taken = bal[r].taken
      /\ Accrued(bal[r]).left = bal[r].left + Monthly
  BY <1>4 DEF Accrued, Row
<1>6. Covered(Accrued(bal[r]), Accrued(bal[r]).entitled, month)
  BY <1>2, <1>3, <1>4, <1>5 DEF Covered
<1>7. /\ bal' \in [Rows -> Row] /\ BooksGrow(bal, bal', month) /\ RowsCovered'
      /\ bal'[r] = Accrued(bal[r]) /\ \A s \in Rows : s # r => bal'[s] = bal[s]
  <2>1. Accrued(bal[r]).exists /\ Accrued(bal[r]).entitled >= bal[r].entitled
    BY <1>4, <1>5
  <2> QED
    BY <1>1, <1>3, <1>5, <1>6, <2>1, RowWritten
<1>8. /\ bal'[r].left \in Int
      /\ bal'[r].left >= 0 \/ (bal[r].left < 0 /\ bal'[r].left \in Int)
  BY <1>4, <1>5, <1>7
<1>9. OnlySpecialOverdraws'
  BY <1>1, <1>7, <1>8, NoneOverdrawn
<1>10. WorkersOK' /\ Distinct'
  BY <1>1, <1>7, WorkersRest
<1>11. ApprovedIsCharged' /\ SpecialExists'
  BY <1>1, AppsRest
<1>12. TypeOK'
  BY <1>1, <1>7 DEF LeaveInv, TypeOK
<1>13. NoAccrual'
  BY <1>1 DEF LeaveInv, TablesOK, NoAccrual
<1> QED
  BY <1>7, <1>9, <1>10, <1>11, <1>12, <1>13 DEF LeaveInv, TablesOK

LEMMA ApplyKeeps ==
    ASSUME LeaveInv, NEW w \in Workers, NEW a \in Applications, NEW e \in Employees,
           NEW t \in Types, NEW s \in Spans, NEW d \in Days, Apply(w, a, e, t, s, d)
    PROVE  LeaveInv'
<1> DEFINE j == [job[w] EXCEPT !.app = a, !.leave = Asked(e, t, s, d)]
<1>1. /\ bal' = Initialized(<<e, t, YearOf[s]>>) /\ app' = app /\ charged' = charged
      /\ request' = request /\ month' = month /\ cron' = cron
      /\ Goto(w, "checkBalance") /\ Note(w, j)
  BY DEF Apply, accrual
<1>2. bal' \in [Rows -> Row] /\ BooksGrow(bal, bal', month) /\ RowsCovered' /\ OnlySpecialOverdraws'
  BY <1>1, AskedIsLeave, Initializes
<1>3. j \in Job /\ j.app = a /\ "checkBalance" \in PC
  BY AskedIsLeave DEF LeaveInv, TypeOK, Job, PC
<1>4. app[a].status = "NONE" /\ \A v \in Workers : pc[v] \in Creators => job[v].app # a
  BY DEF Apply, Fresh, Creators
<1>5. WorkerOK("checkBalance", j, app', bal', charged', month')
  BY <1>1, <1>3, <1>4 DEF WorkerOK, Creators, Deciders
<1>6. /\ ApprovedIsCharged' /\ SpecialExists' /\ charged' \in [Applications -> Nat]
      /\ ChargesGrow(charged, charged') /\ AppsGrow(app, app', {})
  BY <1>1, AppsRest
<1>7. WorkersOK' /\ Distinct' /\ pc' \in [Workers -> PC] /\ job' \in [Workers -> Job]
  <2>1. \A v \in Workers : v # w /\ pc[v] \in Creators => job[v].app # j.app
    BY <1>3, <1>4
  <2> HIDE DEF j
  <2> QED
    BY <1>1, <1>2, <1>3, <1>5, <1>6, <2>1, WorkersKeepApps
<1>8. TypeOK'
  BY <1>1, <1>2, <1>6, <1>7 DEF LeaveInv, TypeOK, Job
<1>9. NoAccrual'
  BY <1>1 DEF LeaveInv, TablesOK, NoAccrual
<1> QED
  BY <1>2, <1>6, <1>7, <1>8, <1>9 DEF LeaveInv, TablesOK

-----------------------------------------------------------------------------
(* Steps that write an application.                                        *)

LEMMA CreateKeeps ==
    ASSUME LeaveInv, NEW w \in Workers, CreateApplication(w) PROVE LeaveInv'
<1> DEFINE a == job[w].app
           new == [status |-> "PENDING", special |-> FALSE, leave |-> job[w].leave]
<1>1. /\ bal' = bal /\ charged' = charged /\ request' = request /\ month' = month
      /\ cron' = cron /\ app' = [app EXCEPT ![a] = new] /\ pc[w] = "create"
      /\ Goto(w, "idle") /\ Note(w, Idle)
  BY DEF CreateApplication, books, accrual, Done
<1>2. /\ bal \in [Rows -> Row] /\ charged \in [Applications -> Nat] /\ TablesOK
      /\ app \in [Applications -> AppRec] /\ job[w] \in Job
  BY DEF LeaveInv, TypeOK, AppRec, Job
<1>3. a \in Applications /\ app[a].status = "NONE"
  BY <1>1 DEF LeaveInv, WorkersOK, WorkerOK, Creators
<1>4. /\ new \in AppRec /\ new.status = "PENDING" /\ new.special = FALSE
  BY <1>2 DEF AppRec, Status, Job
<1>5. ~app[a].special
  BY <1>2, <1>3 DEF TablesOK, SpecialExists
<1>6. /\ app' \in [Applications -> AppRec] /\ app'[a] = new
      /\ \A b \in Applications : b # a => app'[b] = app[b]
  BY <1>1, <1>2, <1>3, <1>4
<1> HIDE DEF new
<1>7. OnlySpecialOverdraws'
  BY <1>1, <1>2, <1>5, <1>6 DEF TablesOK, OnlySpecialOverdraws
<1>8. ApprovedIsCharged' /\ SpecialExists'
  BY <1>1, <1>2, <1>4, <1>6 DEF TablesOK, ApprovedIsCharged, SpecialExists
<1>9. RowsCovered' /\ NoAccrual'
  BY <1>1, <1>2 DEF TablesOK, RowsCovered, NoAccrual
<1>10. AppsGrow(app, app', {a})
  BY <1>3, <1>4, <1>6 DEF AppsGrow
<1>11. BooksGrow(bal, bal', month) /\ ChargesGrow(charged, charged')
  BY <1>1, <1>2 DEF BooksGrow, ChargesGrow, Row
<1>12. \A v \in Workers : v # w /\ pc[v] \in Creators => job[v].app \notin {a}
  BY <1>1 DEF LeaveInv, Distinct, Creators
<1>13. /\ "idle" \in PC /\ Idle \in Job /\ "idle" \notin Creators
       /\ WorkerOK("idle", Idle, app', bal', charged', month')
  BY Constants DEF PC, WorkerOK, Creators, Deciders
<1>14. WorkersOK' /\ Distinct' /\ pc' \in [Workers -> PC] /\ job' \in [Workers -> Job]
  <2>1. bal' \in [Rows -> Row] /\ charged' \in [Applications -> Nat]
    BY <1>1, <1>2
  <2> HIDE DEF a
  <2> QED
    BY <1>1, <1>10, <1>11, <1>12, <1>13, <2>1, WorkersKeep
<1>15. TypeOK'
  BY <1>1, <1>6, <1>14 DEF LeaveInv, TypeOK, AppRec, Job
<1> QED
  BY <1>7, <1>8, <1>9, <1>14, <1>15 DEF LeaveInv, TablesOK

(* The decisions write the status of an application that exists; the one   *)
(* that approves follows a deduction.                                      *)
LEMMA WriteStatusKeeps ==
    ASSUME LeaveInv, NEW w \in Workers, NEW at \in Deciders, NEW to \in Status \ {"NONE"},
           to = "APPROVED" => at = "approve", WriteStatus(w, at, to)
    PROVE  LeaveInv'
<1> DEFINE a == job[w].app
           new == [app[a] EXCEPT !.status = to]
<1>1. /\ bal' = bal /\ charged' = charged /\ request' = request /\ month' = month
      /\ cron' = cron /\ app' = [app EXCEPT ![a] = new] /\ pc[w] = at
      /\ Goto(w, "idle") /\ Note(w, Idle)
  BY DEF WriteStatus, books, accrual, Done
<1>2. /\ bal \in [Rows -> Row] /\ charged \in [Applications -> Nat] /\ TablesOK
      /\ app \in [Applications -> AppRec] /\ job[w] \in Job
  BY DEF LeaveInv, TypeOK, AppRec, Job
<1>3. /\ a \in Applications /\ app[a].status # "NONE"
      /\ at = "approve" => charged[a] >= 1
  BY <1>1 DEF LeaveInv, WorkersOK, WorkerOK
<1>4. /\ new \in AppRec /\ new.status = to /\ new.special = app[a].special
      /\ new.leave = app[a].leave
  BY <1>2, <1>3 DEF AppRec
<1>6. /\ app' \in [Applications -> AppRec] /\ app'[a] = new
      /\ \A b \in Applications : b # a => app'[b] = app[b]
  BY <1>1, <1>2, <1>3, <1>4
<1> HIDE DEF new
<1>7. OnlySpecialOverdraws'
  BY <1>1, <1>2, <1>3, <1>4, <1>6 DEF TablesOK, OnlySpecialOverdraws
<1>8. ApprovedIsCharged' /\ SpecialExists'
  BY <1>1, <1>2, <1>3, <1>4, <1>6 DEF TablesOK, ApprovedIsCharged, SpecialExists
<1>9. RowsCovered' /\ NoAccrual'
  BY <1>1, <1>2 DEF TablesOK, RowsCovered, NoAccrual
<1>10. AppsGrow(app, app', {})
  BY <1>3, <1>4, <1>6 DEF AppsGrow
<1>11. BooksGrow(bal, bal', month) /\ ChargesGrow(charged, charged')
  BY <1>1, <1>2 DEF BooksGrow, ChargesGrow, Row
<1>13. /\ "idle" \in PC /\ Idle \in Job /\ "idle" \notin Creators
       /\ WorkerOK("idle", Idle, app', bal', charged', month')
  BY Constants DEF PC, WorkerOK, Creators, Deciders
<1>14. WorkersOK' /\ Distinct' /\ pc' \in [Workers -> PC] /\ job' \in [Workers -> Job]
  <2>1. bal' \in [Rows -> Row] /\ charged' \in [Applications -> Nat]
    BY <1>1, <1>2
  <2> HIDE DEF a
  <2> QED
    BY <1>1, <1>10, <1>11, <1>13, <2>1, WorkersKeepApps
<1>15. TypeOK'
  BY <1>1, <1>6, <1>14 DEF LeaveInv, TypeOK, AppRec, Job
<1> QED
  BY <1>7, <1>8, <1>9, <1>14, <1>15 DEF LeaveInv, TablesOK

-----------------------------------------------------------------------------
(* Steps that deduct.                                                      *)

(* What is written keeps what was read in balance.                         *)
LEMMA SpentStaysCovered ==
    ASSUME NEW row \in Row, NEW read \in Row, NEW d \in Nat, Covered(read, row.entitled, month)
    PROVE  /\ Spent(row, read, d) \in Row
           /\ Spent(row, read, d).exists = row.exists
           /\ Spent(row, read, d).entitled = row.entitled
           /\ Spent(row, read, d).left = read.left - d
           /\ Covered(Spent(row, read, d), row.entitled, month)
<1>1. /\ row.entitled \in Nat /\ read.taken \in Nat /\ read.left \in Int
      /\ row.exists \in BOOLEAN
  BY DEF Row
<1>2. /\ Spent(row, read, d).exists = row.exists
      /\ Spent(row, read, d).entitled = row.entitled
      /\ Spent(row, read, d).taken = read.taken + d
      /\ Spent(row, read, d).left = read.left - d
  BY DEF Spent, Row
<1>3. Spent(row, read, d) \in Row
  <2>1. read.taken + d \in Nat /\ read.left - d \in Int
    BY <1>1
  <2> QED
    BY <2>1 DEF Spent, Row
<1>4. (read.taken + d) + (read.left - d) = read.taken + read.left
  BY <1>1
<1>5. Covered(Spent(row, read, d), row.entitled, month)
  BY <1>2, <1>4 DEF Covered
<1> QED
  BY <1>2, <1>3, <1>5

LEMMA DeductWriteKeeps ==
    ASSUME LeaveInv, NEW w \in Workers, DeductWrite(w) PROVE LeaveInv'
<1> DEFINE a == job[w].app
           r == job[w].leave.row
           d == job[w].leave.days
           new == Spent(bal[r], job[w].read, d)
<1>1. /\ bal' = [bal EXCEPT ![r] = new] /\ charged' = [charged EXCEPT ![a] = charged[a] + 1]
      /\ app' = app /\ request' = request /\ month' = month /\ cron' = cron /\ job' = job
      /\ pc[w] = "deductWrite" /\ Goto(w, "approve")
  <2>1. r \in Rows /\ bal \in [Rows -> Row] /\ charged \in [Applications -> Nat]
    BY DEF LeaveInv, TypeOK, Job, Leave, Row
  <2> QED
    BY <2>1 DEF DeductWrite, accrual
<1>2. /\ bal \in [Rows -> Row] /\ charged \in [Applications -> Nat] /\ TablesOK
      /\ job \in [Workers -> Job] /\ job[w] \in Job /\ r \in Rows /\ d \in Nat
      /\ job[w].read \in Row
  BY Constants DEF LeaveInv, TypeOK, Job, Leave
<1>3. /\ a \in Applications /\ app[a].status # "NONE"
      /\ bal[r].exists /\ Covered(job[w].read, bal[r].entitled, month)
      /\ job[w].read.left >= d
  BY <1>1 DEF LeaveInv, WorkersOK, WorkerOK, Deciders
<1>4. /\ new \in Row /\ new.exists = bal[r].exists /\ new.entitled = bal[r].entitled
      /\ new.left = job[w].read.left - d /\ Covered(new, bal[r].entitled, month)
  <2>1. bal[r] \in Row
    BY <1>2
  <2> QED
    BY <1>2, <1>3, <2>1, SpentStaysCovered
<1> HIDE DEF new
<1>5. bal[r].entitled \in Nat /\ job[w].read.left \in Int
  BY <1>2 DEF Row
<1>6. /\ bal' \in [Rows -> Row] /\ BooksGrow(bal, bal', month) /\ RowsCovered'
      /\ bal'[r] = new /\ \A s \in Rows : s # r => bal'[s] = bal[s]
  <2>1. new.entitled >= bal[r].entitled /\ Covered(new, new.entitled, month)
    BY <1>4, <1>5
  <2> HIDE DEF r
  <2> QED
    BY <1>1, <1>2, <1>3, <1>4, <2>1, RowWritten
<1>7. bal'[r].left >= 0 /\ bal'[r].left \in Int
  BY <1>2, <1>3, <1>4, <1>5, <1>6
<1>8. OnlySpecialOverdraws'
  <2> HIDE DEF r
  <2> QED
    BY <1>1, <1>2, <1>6, <1>7, NoneOverdrawn
<1>9. /\ charged' \in [Applications -> Nat] /\ ChargesGrow(charged, charged')
      /\ charged'[a] = charged[a] + 1 /\ charged'[a] >= 1
      /\ \A b \in Applications : charged'[b] >= charged[b]
  BY <1>1, <1>2, <1>3 DEF ChargesGrow
<1>10. ApprovedIsCharged'
  <2>1. ASSUME NEW b \in Applications, app'[b].status = "APPROVED" PROVE charged'[b] >= 1
    <3>1. /\ charged[b] >= 1 /\ charged'[b] >= charged[b]
          /\ charged[b] \in Nat /\ charged'[b] \in Nat
      BY <1>1, <1>2, <1>9, <2>1 DEF TablesOK, ApprovedIsCharged
    <3> QED
      BY <3>1
  <2> QED
    BY <2>1 DEF ApprovedIsCharged
<1>11. SpecialExists' /\ NoAccrual' /\ AppsGrow(app, app', {})
  BY <1>1, <1>2 DEF TablesOK, SpecialExists, NoAccrual, AppsGrow
<1>12. /\ "approve" \in PC /\ "approve" \notin Creators /\ Note(w, job[w])
       /\ WorkerOK("approve", job[w], app', bal', charged', month')
  BY <1>1, <1>2, <1>3, <1>9 DEF PC, WorkerOK, Creators, Deciders, Note
<1>13. WorkersOK' /\ Distinct' /\ pc' \in [Workers -> PC] /\ job' \in [Workers -> Job]
  <2> HIDE DEF a, r, d
  <2> QED
    BY <1>1, <1>2, <1>6, <1>9, <1>11, <1>12, WorkersKeepApps
<1>14. TypeOK'
  BY <1>1, <1>6, <1>9, <1>13 DEF LeaveInv, TypeOK, Job
<1> QED
  BY <1>6, <1>8, <1>10, <1>11, <1>13, <1>14 DEF LeaveInv, TablesOK

LEMMA GrantCommitKeeps ==
    ASSUME LeaveInv, NEW w \in Workers, GrantCommit(w) PROVE LeaveInv'
<1> DEFINE a == job[w].app
           r == job[w].leave.row
           d == job[w].leave.days
           read == job[w].read
           seen == IF read.exists THEN read ELSE FullYear
           base == IF bal[r].exists THEN bal[r] ELSE FullYear
           new == Spent(base, seen, d)
           grant == [status |-> "APPROVED", special |-> TRUE, leave |-> job[w].leave]
           q == job[w].request
<1>1. /\ bal \in [Rows -> Row] /\ charged \in [Applications -> Nat] /\ TablesOK
      /\ app \in [Applications -> AppRec] /\ job[w] \in Job
      /\ r \in Rows /\ d \in Nat /\ read \in Row /\ bal[r] \in Row
  BY Constants DEF LeaveInv, TypeOK, AppRec, Job, Leave
<1>2. CASE UNCHANGED <<books, app, request>>
  BY <1>2, Ends DEF GrantCommit, books
<1>3. CASE /\ bal[r].exists = read.exists
           /\ bal' = [bal EXCEPT ![r] = Spent(IF @.exists THEN @ ELSE FullYear, seen, d)]
           /\ app' = [app EXCEPT ![a] = grant]
           /\ request' = [request EXCEPT ![q] = [@ EXCEPT !.status = "RESOLVED"]]
           /\ charged' = [charged EXCEPT ![a] = @ + 1]
  <2>1. /\ bal' = [bal EXCEPT ![r] = new] /\ charged' = [charged EXCEPT ![a] = charged[a] + 1]
        /\ app' = [app EXCEPT ![a] = grant] /\ month' = month /\ cron' = cron
        /\ pc[w] = "grantCommit" /\ Goto(w, "idle") /\ Note(w, Idle)
    <3>1. charged \in [Applications -> Nat] /\ bal \in [Rows -> Row]
      BY <1>1
    <3> QED
      BY <1>3, <3>1 DEF GrantCommit, accrual, Done
  <2>2. /\ a \in Applications /\ app[a].status = "NONE"
        /\ read.exists => bal[r].exists /\ Covered(read, bal[r].entitled, month)
    BY <2>1 DEF LeaveInv, WorkersOK, WorkerOK, Creators
  <2>3. base \in Row /\ seen \in Row /\ Covered(seen, base.entitled, month)
    BY <1>1, <1>3, <2>2, Constants
  <2>4. new \in Row /\ new.entitled = base.entitled /\ Covered(new, base.entitled, month)
        /\ new.exists = base.exists
    <3> HIDE DEF base, seen, d
    <3> QED
      BY <1>1, <2>3, SpentStaysCovered
  <2>5. grant \in AppRec /\ grant.status = "APPROVED" /\ grant.special = TRUE
        /\ grant.leave = job[w].leave
    BY <1>1 DEF AppRec, Status, Job
  <2>6. bal[r].exists =>
            /\ new.exists /\ new.entitled >= bal[r].entitled
            /\ month = 0 => new.entitled = bal[r].entitled
    <3>1. bal[r].entitled \in Nat
      BY <1>1 DEF Row
    <3> HIDE DEF new
    <3> QED
      BY <2>4, <3>1
  <2> HIDE DEF new, grant
  <2>7. /\ bal' \in [Rows -> Row] /\ BooksGrow(bal, bal', month) /\ RowsCovered'
        /\ bal'[r] = new /\ \A s \in Rows : s # r => bal'[s] = bal[s]
    <3>1. Covered(new, new.entitled, month)
      BY <2>4
    <3> HIDE DEF r
    <3> QED
      BY <1>1, <2>1, <2>4, <2>6, <3>1, RowWritten
  <2>8. /\ app' \in [Applications -> AppRec] /\ app'[a] = grant
        /\ \A b \in Applications : b # a => app'[b] = app[b]
    BY <1>1, <2>1, <2>2, <2>5
  <2>9. ~app[a].special
    BY <1>1, <2>2 DEF TablesOK, SpecialExists
  <2>10. OnlySpecialOverdraws'
    <3>1. ASSUME NEW s \in Rows, bal'[s].left < 0
          PROVE  \E b \in Applications : app'[b].special /\ app'[b].leave.row = s
      <4>1. CASE s = r
        BY <4>1, <2>2, <2>5, <2>8
      <4>2. CASE s # r
        <5>1. bal[s].left < 0
          BY <3>1, <4>2, <2>7
        <5>2. PICK b \in Applications : app[b].special /\ app[b].leave.row = s
          BY <5>1, <1>1 DEF TablesOK, OnlySpecialOverdraws
        <5>3. app'[b] = app[b]
          BY <5>2, <2>8, <2>9
        <5> QED
          BY <5>2, <5>3
      <4> QED
        BY <4>1, <4>2
    <3> QED
      BY <3>1 DEF OnlySpecialOverdraws
  <2>11. /\ charged' \in [Applications -> Nat] /\ ChargesGrow(charged, charged')
         /\ charged'[a] >= 1
         /\ \A b \in Applications : charged'[b] >= charged[b]
    BY <1>1, <2>1, <2>2 DEF ChargesGrow
  <2>12. ApprovedIsCharged'
    <3>1. ASSUME NEW b \in Applications, app'[b].status = "APPROVED" PROVE charged'[b] >= 1
      <4>1. CASE b = a
        BY <4>1, <2>11
      <4>2. CASE b # a
        <5>1. /\ charged[b] >= 1 /\ charged'[b] >= charged[b]
              /\ charged[b] \in Nat /\ charged'[b] \in Nat
          BY <1>1, <2>8, <2>11, <3>1, <4>2 DEF TablesOK, ApprovedIsCharged
        <5> QED
          BY <5>1
      <4> QED
        BY <4>1, <4>2
    <3> QED
      BY <3>1 DEF ApprovedIsCharged
  <2>13. SpecialExists' /\ NoAccrual'
    BY <1>1, <2>1, <2>5, <2>8 DEF TablesOK, SpecialExists, NoAccrual
  <2>14. AppsGrow(app, app', {a})
    BY <2>2, <2>5, <2>8 DEF AppsGrow
  <2>15. \A v \in Workers : v # w /\ pc[v] \in Creators => job[v].app \notin {a}
    BY <2>1 DEF LeaveInv, Distinct, Creators
  <2>16. /\ "idle" \in PC /\ Idle \in Job /\ "idle" \notin Creators
         /\ WorkerOK("idle", Idle, app', bal', charged', month')
    BY Constants DEF PC, WorkerOK, Creators, Deciders
  <2>17. WorkersOK' /\ Distinct' /\ pc' \in [Workers -> PC] /\ job' \in [Workers -> Job]
    <3> HIDE DEF a, r, d
    <3> QED
      BY <2>1, <2>7, <2>11, <2>14, <2>15, <2>16, WorkersKeep
  <2>18. request' \in [Requests -> [status : {"NONE", "OPEN", "RESOLVED"}, leave : Leave]]
    BY <1>3 DEF LeaveInv, TypeOK
  <2>19. TypeOK'
    BY <2>1, <2>7, <2>8, <2>11, <2>17, <2>18 DEF LeaveInv, TypeOK, AppRec, Job
  <2> QED
    BY <2>7, <2>10, <2>12, <2>13, <2>17, <2>19 DEF LeaveInv, TablesOK
<1> QED
  BY <1>2, <1>3 DEF GrantCommit, books

-----------------------------------------------------------------------------
(* Steps that leave balances, applications and workers alone.              *)

LEMMA RaiseAndCronKeep ==
    ASSUME LeaveInv, UNCHANGED <<books, app, pc, job>>,
           request' \in [Requests -> [status : {"NONE", "OPEN", "RESOLVED"}, leave : Leave]],
           month' \in 0..Months, cron' \in SUBSET Rows, month' = 0 => month = 0 /\ cron' = {}
    PROVE  LeaveInv'
<1>1. bal' = bal /\ charged' = charged /\ app' = app /\ pc' = pc /\ job' = job
  BY DEF books
<1>2. TypeOK'
  BY <1>1 DEF LeaveInv, TypeOK
<1>3. RowsCovered'
  <2>1. ASSUME NEW r \in Rows PROVE Covered(bal[r], bal[r].entitled, month')
    BY DEF LeaveInv, TablesOK, RowsCovered, Covered
  <2> QED
    BY <1>1, <2>1 DEF RowsCovered
<1>4. OnlySpecialOverdraws' /\ ApprovedIsCharged' /\ SpecialExists' /\ NoAccrual'
  BY <1>1 DEF LeaveInv, TablesOK, OnlySpecialOverdraws, ApprovedIsCharged, SpecialExists, NoAccrual
<1>5. WorkersOK'
  <2>1. ASSUME NEW v \in Workers PROVE WorkerOK(pc[v], job[v], app, bal, charged, month')
    <3>1. WorkerOK(pc[v], job[v], app, bal, charged, month)
      BY DEF LeaveInv, WorkersOK
    <3> QED
      BY <3>1 DEF WorkerOK, Covered
  <2> QED
    BY <1>1, <2>1 DEF WorkersOK
<1>6. Distinct'
  BY <1>1 DEF LeaveInv, Distinct
<1> QED
  BY <1>2, <1>3, <1>4, <1>5, <1>6 DEF LeaveInv, TablesOK

LEMMA RaiseRequestKeeps ==
    ASSUME LeaveInv, NEW q \in Requests, NEW e \in Employees, NEW t \in Types,
           NEW s \in Spans, NEW d \in Days, RaiseRequest(q, e, t, s, d)
    PROVE  LeaveInv'
<1>1. request' \in [Requests -> [status : {"NONE", "OPEN", "RESOLVED"}, leave : Leave]]
  BY AskedIsLeave DEF RaiseRequest, LeaveInv, TypeOK
<1>2. /\ UNCHANGED <<books, app, pc, job>> /\ month' \in 0..Months /\ cron' \in SUBSET Rows
      /\ month' = 0 => month = 0 /\ cron' = {}
  BY DEF RaiseRequest, accrual, LeaveInv, TypeOK, TablesOK, NoAccrual
<1> QED
  BY <1>1, <1>2, RaiseAndCronKeep

LEMMA AccrueStartKeeps == ASSUME LeaveInv, AccrueStart PROVE LeaveInv'
<1>1. month \in 0..Months /\ month < Months /\ month' = month + 1 /\ Months \in Nat
  BY Constants DEF AccrueStart, LeaveInv, TypeOK
<1>2. month' \in 0..Months /\ month' # 0
  BY <1>1
<1>3. cron' \in SUBSET Rows
  <2>1. PICK S \in SUBSET (Employees \X Types \X {ThisYear}) : cron' = S
    BY DEF AccrueStart
  <2>2. Employees \X Types \X {ThisYear} \subseteq Rows
    BY ConstantsAssumption DEF Rows
  <2> QED
    BY <2>1, <2>2
<1>4. /\ UNCHANGED <<books, app, pc, job>>
      /\ request' \in [Requests -> [status : {"NONE", "OPEN", "RESOLVED"}, leave : Leave]]
  BY DEF AccrueStart, LeaveInv, TypeOK
<1> QED
  BY <1>2, <1>3, <1>4, RaiseAndCronKeep

LEMMA CrashCronKeeps == ASSUME LeaveInv, CrashCron PROVE LeaveInv'
<1>1. /\ UNCHANGED <<books, app, pc, job>> /\ month' = month /\ month \in 0..Months /\ cron' = {}
      /\ request' \in [Requests -> [status : {"NONE", "OPEN", "RESOLVED"}, leave : Leave]]
  BY DEF CrashCron, LeaveInv, TypeOK
<1> QED
  BY <1>1, RaiseAndCronKeep

-----------------------------------------------------------------------------
LEMMA ServeKeeps == ASSUME LeaveInv, NEW w \in Workers, Serve(w) PROVE LeaveInv'
<1>1. CASE \E a \in Applications, e \in Employees, t \in Types, s \in Spans, d \in Days :
               Apply(w, a, e, t, s, d)
  BY <1>1, ApplyKeeps
<1>2. CASE CheckBalance(w) \/ CheckOverlap(w) \/ CreateApplication(w)
  BY <1>2, CheckBalanceKeeps, CheckOverlapKeeps, CreateKeeps
<1>3. CASE \E a \in Applications : CancelRead(w, a) \/ RejectRead(w, a) \/ ApproveRead(w, a)
  BY <1>3, DecideKeeps DEF CancelRead, RejectRead, ApproveRead
<1>4. CASE CancelWrite(w) \/ RejectWrite(w) \/ ApproveWrite(w)
  BY <1>4, WriteStatusKeeps DEF CancelWrite, RejectWrite, ApproveWrite, Deciders, Status
<1>5. CASE DeductRead(w) \/ DeductWrite(w)
  BY <1>5, DeductReadKeeps, DeductWriteKeeps
<1>6. CASE \E q \in Requests, a \in Applications : GrantRead(w, q, a)
  BY <1>6, GrantReadKeeps
<1>7. CASE GrantOverlap(w) \/ GrantBegin(w) \/ GrantCommit(w)
  BY <1>7, GrantOverlapKeeps, GrantBeginKeeps, GrantCommitKeeps
<1>8. CASE Crash(w)
  BY <1>8, Ends DEF Crash
<1> QED
  BY <1>1, <1>2, <1>3, <1>4, <1>5, <1>6, <1>7, <1>8 DEF Serve

LEMMA NextKeeps == LeaveInv /\ [Next]_vars => LeaveInv'
<1> SUFFICES ASSUME LeaveInv, [Next]_vars PROVE LeaveInv'
  OBVIOUS
<1>1. CASE \E w \in Workers : Serve(w)
  BY <1>1, ServeKeeps
<1>2. CASE \E r \in Rows : InitBalance(r) \/ AccrueRow(r)
  BY <1>2, InitBalanceKeeps, AccrueRowKeeps
<1>3. CASE \E q \in Requests, e \in Employees, t \in Types, s \in Spans, d \in Days :
               RaiseRequest(q, e, t, s, d)
  BY <1>3, RaiseRequestKeeps
<1>4. CASE AccrueStart \/ CrashCron
  BY <1>4, AccrueStartKeeps, CrashCronKeeps
<1>5. CASE UNCHANGED vars
  BY <1>5 DEF vars, LeaveInv, TypeOK, TablesOK, RowsCovered, OnlySpecialOverdraws,
              ApprovedIsCharged, SpecialExists, NoAccrual, WorkersOK, Distinct
<1> QED
  BY <1>1, <1>2, <1>3, <1>4, <1>5 DEF Next

LEMMA Always == Spec => []LeaveInv
<1>1. Init => LeaveInv
  BY InitIsSafe
<1>2. LeaveInv /\ [Next]_vars => LeaveInv'
  BY NextKeeps
<1> QED
  BY <1>1, <1>2, PTL DEF Spec

(* Every table and every worker keeps its shape: a balance may go below    *)
(* zero, taken and entitled days never do.                                 *)
THEOREM LeaveTypes == Spec => []TypeOK
<1>1. LeaveInv => TypeOK
  BY DEF LeaveInv
<1> QED
  BY <1>1, Always, PTL

(* deductBalance, grantSpecialLeave and accrueMonthly, interleaved in any  *)
(* way and cut off anywhere, never make days: taken and left stay within   *)
(* the entitlement, and before the first accrual they add up to it,        *)
(* however stale the row was that deductBalance read.                      *)
THEOREM DaysAreNeverMade == Spec => []DaysAddUp
<1>1. LeaveInv => DaysAddUp
  BY DEF LeaveInv, TablesOK, RowsCovered, Covered, DaysAddUp
<1> QED
  BY <1>1, Always, PTL

(* A row below zero was overdrawn by grantSpecialLeave, the only caller    *)
(* that forces the deduction.                                              *)
THEOREM OverdrawnBySpecialLeave == Spec => []OnlySpecialOverdraws
<1>1. LeaveInv => OnlySpecialOverdraws
  BY DEF LeaveInv, TablesOK
<1> QED
  BY <1>1, Always, PTL

(* approve and grantSpecialLeave write APPROVED only after a deduction for *)
(* that application.                                                       *)
THEOREM ApprovalsArePaid == Spec => []ApprovedIsCharged
<1>1. LeaveInv => ApprovedIsCharged
  BY DEF LeaveInv, TablesOK
<1> QED
  BY <1>1, Always, PTL

-----------------------------------------------------------------------------
(* Requests served one at a time.  What the overlap check found still      *)
(* holds when the application is inserted, and a PENDING application is    *)
(* still PENDING when its status is written, because nobody else is in the *)
(* middle of a request.                                                    *)

(* What a worker at p, holding j, has checked and nobody has changed since. *)
CheckedOK(p, j, ap) ==
    /\ p \in {"create", "grantBegin", "grantCommit"} =>
           \A b \in Applications : ap[b].status \in Live => ~Clash(ap[b].leave, j.leave)
    /\ p \in Deciders => ap[j.app].status = "PENDING"

Sole == ~Racing /\ NoOverlap /\ \A w \in Workers : CheckedOK(pc[w], job[w], app)
SoleInv == ~raced => Sole

(* Whoever has just moved has the tables for itself. *)
LEMMA OthersAreIdle ==
    ASSUME LeaveInv, NEW w \in Workers, NEW to \in PC, Goto(w, to),
           ~Racing, ~Racing', pc[w] # "idle" \/ to # "idle",
           NEW v \in Workers, v # w
    PROVE  pc[v] = "idle" /\ pc'[v] = "idle"
<1>1. pc \in [Workers -> PC] /\ pc'[w] = to /\ pc'[v] = pc[v]
  BY DEF LeaveInv, TypeOK, Goto
<1> QED
  BY <1>1 DEF Racing

(* One worker moves; the applications keep to the rule. *)
LEMMA SoleStep ==
    ASSUME LeaveInv, NEW w \in Workers, NEW to \in PC, NEW j, Goto(w, to), Note(w, j),
           ~Racing, ~Racing', pc[w] # "idle" \/ to # "idle",
           NoOverlap', CheckedOK(to, j, app')
    PROVE  Sole'
<1>1. /\ pc \in [Workers -> PC] /\ pc'[w] = to
      /\ job'[w] = j
  BY DEF LeaveInv, TypeOK, Goto, Note
<1>2. ASSUME NEW v \in Workers PROVE CheckedOK(pc'[v], job'[v], app')
  <2>1. CASE v = w
    BY <2>1, <1>1
  <2>2. CASE v # w
    <3>1. pc'[v] = "idle"
      BY <2>2, OthersAreIdle
    <3> QED
      BY <3>1 DEF CheckedOK, Deciders
  <2> QED
    BY <2>1, <2>2
<1> QED
  BY <1>2 DEF Sole

(* A handler that ends leaves the rule as it is. *)
LEMMA SoleEnds ==
    ASSUME LeaveInv, NEW w \in Workers, pc[w] # "idle", Done(w), ~Racing, ~Racing', NoOverlap'
    PROVE  Sole'
<1>1. "idle" \in PC /\ CheckedOK("idle", Idle, app')
  BY DEF PC, CheckedOK, Deciders
<1> QED
  BY <1>1, SoleStep DEF Done

LEMMA StillApart == ASSUME NoOverlap, app' = app PROVE NoOverlap'
BY DEF NoOverlap

(* An application is inserted for dates that clashed with no live one. *)
LEMMA InsertKeepsApart ==
    ASSUME LeaveInv, NoOverlap, NEW a \in Applications, NEW rec \in AppRec,
           app' = [app EXCEPT ![a] = rec],
           \A b \in Applications : app[b].status \in Live => ~Clash(app[b].leave, rec.leave)
    PROVE  NoOverlap'
<1>1. app \in [Applications -> AppRec]
  BY DEF LeaveInv, TypeOK, AppRec
<1>2. app'[a] = rec /\ \A b \in Applications : b # a => app'[b] = app[b]
  BY <1>1
<1>3. SUFFICES ASSUME NEW b \in Applications, NEW c \in Applications, b # c,
                      app'[b].status \in Live, app'[c].status \in Live,
                      Clash(app'[b].leave, app'[c].leave)
               PROVE  FALSE
  BY DEF NoOverlap
<1>4. Clash(app'[c].leave, app'[b].leave)
  BY <1>3 DEF Clash
<1>5. CASE b = a
  BY <1>2, <1>3, <1>4, <1>5
<1>6. CASE c = a
  BY <1>2, <1>3, <1>6
<1>7. CASE b # a /\ c # a
  BY <1>2, <1>3, <1>7 DEF NoOverlap
<1> QED
  BY <1>5, <1>6, <1>7

(* A status is written over PENDING: no application comes to life. *)
LEMMA DecisionKeepsApart ==
    ASSUME LeaveInv, NoOverlap, NEW a \in Applications, NEW to,
           app[a].status = "PENDING", app' = [app EXCEPT ![a] = [@ EXCEPT !.status = to]]
    PROVE  NoOverlap'
<1>1. app \in [Applications -> AppRec]
  BY DEF LeaveInv, TypeOK, AppRec
<1>2. ASSUME NEW b \in Applications, app'[b].status \in Live
      PROVE  app[b].status \in Live /\ app'[b].leave = app[b].leave
  <2>1. CASE b = a
    <3>1. app[a] \in AppRec /\ app'[a] = [app[a] EXCEPT !.status = to]
      BY <1>1
    <3> QED
      BY <2>1, <3>1 DEF AppRec, Live
  <2>2. CASE b # a
    BY <1>1, <1>2, <2>2
  <2> QED
    BY <2>1, <2>2
<1> QED
  BY <1>2 DEF NoOverlap

LEMMA CheckKeepsApart ==
    ASSUME LeaveInv, Sole, ~Racing', NEW w \in Workers,
           CheckBalance(w) \/ CheckOverlap(w) \/ GrantOverlap(w) \/ GrantBegin(w) \/ DeductRead(w)
    PROVE  Sole'
<1>1. ~Racing /\ NoOverlap /\ pc[w] # "idle" /\ app' = app
  BY DEF Sole, CheckBalance, CheckOverlap, GrantOverlap, GrantBegin, DeductRead
<1>2. NoOverlap'
  BY <1>1, StillApart
<1>3. CASE Done(w)
  BY <1>1, <1>2, <1>3, SoleEnds
<1>4. job \in [Workers -> Job] /\ CheckedOK(pc[w], job[w], app)
  BY DEF LeaveInv, TypeOK, Job, Sole
<1>5. Note(w, job[w]) \/ job' # job
  BY <1>4 DEF Note
<1>6. CASE CheckBalance(w) /\ ~Done(w)
  <2>1. Goto(w, "checkOverlap") /\ job' = job /\ "checkOverlap" \in PC
    BY <1>6 DEF CheckBalance, PC
  <2>2. CheckedOK("checkOverlap", job[w], app')
    BY DEF CheckedOK, Deciders
  <2> QED
    BY <1>1, <1>2, <1>5, <2>1, <2>2, SoleStep
<1>7. CASE CheckOverlap(w) /\ ~Done(w)
  <2>1. Goto(w, "create") /\ job' = job /\ "create" \in PC /\ ~Overlaps(job[w].leave)
    BY <1>7 DEF CheckOverlap, PC
  <2>2. CheckedOK("create", job[w], app')
    BY <1>1, <2>1 DEF CheckedOK, Deciders, Overlaps
  <2> QED
    BY <1>1, <1>2, <1>5, <2>1, <2>2, SoleStep
<1>8. CASE GrantOverlap(w) /\ ~Done(w)
  <2>1. Goto(w, "grantBegin") /\ job' = job /\ "grantBegin" \in PC /\ ~Overlaps(job[w].leave)
    BY <1>8 DEF GrantOverlap, PC
  <2>2. CheckedOK("grantBegin", job[w], app')
    BY <1>1, <2>1 DEF CheckedOK, Deciders, Overlaps
  <2> QED
    BY <1>1, <1>2, <1>5, <2>1, <2>2, SoleStep
<1> DEFINE j == [job[w] EXCEPT !.read = bal[job[w].leave.row]]
<1>9. j.leave = job[w].leave /\ j.app = job[w].app
  BY <1>4 DEF Job
<1>10. CASE GrantBegin(w)
  <2>1. Goto(w, "grantCommit") /\ Note(w, j) /\ "grantCommit" \in PC /\ pc[w] = "grantBegin"
    BY <1>10 DEF GrantBegin, PC
  <2>2. CheckedOK("grantCommit", j, app')
    BY <1>1, <1>4, <1>9, <2>1 DEF CheckedOK, Deciders
  <2> QED
    BY <1>1, <1>2, <2>1, <2>2, SoleStep
<1>11. CASE DeductRead(w) /\ ~Done(w)
  <2>1. Goto(w, "deductWrite") /\ Note(w, j) /\ "deductWrite" \in PC /\ pc[w] = "deductRead"
    BY <1>11 DEF DeductRead, PC
  <2>2. CheckedOK("deductWrite", j, app')
    BY <1>1, <1>4, <1>9, <2>1 DEF CheckedOK, Deciders
  <2> QED
    BY <1>1, <1>2, <2>1, <2>2, SoleStep
<1> QED
  BY <1>3, <1>6, <1>7, <1>8, <1>10, <1>11

LEMMA ReadKeepsApart ==
    ASSUME LeaveInv, Sole, ~Racing', NEW w \in Workers, NEW a \in Applications,
           \/ \E e \in Employees, t \in Types, s \in Spans, d \in Days : Apply(w, a, e, t, s, d)
           \/ CancelRead(w, a) \/ RejectRead(w, a) \/ ApproveRead(w, a)
           \/ \E q \in Requests : GrantRead(w, q, a)
    PROVE  Sole'
<1>1. ~Racing /\ NoOverlap /\ app' = app
  BY DEF Sole, Apply, CancelRead, RejectRead, ApproveRead, Decide, GrantRead
<1>2. NoOverlap'
  BY <1>1, StillApart
<1>3. job \in [Workers -> Job] /\ job[w] \in Job
  BY DEF LeaveInv, TypeOK, Job
<1>4. ASSUME NEW to \in {"checkBalance", "grantOverlap"}, NEW j, Goto(w, to), Note(w, j)
      PROVE  Sole'
  <2>1. to \in PC /\ to # "idle" /\ CheckedOK(to, j, app')
    BY <1>4 DEF PC, CheckedOK, Deciders
  <2> QED
    BY <1>1, <1>2, <1>4, <2>1, SoleStep
<1>5. ASSUME NEW to \in {"cancel", "reject", "deductRead"}, Decide(w, a, to) PROVE Sole'
  <2> DEFINE j == [job[w] EXCEPT !.app = a, !.leave = app[a].leave]
  <2>1. to \in PC /\ to # "idle" /\ j.app = a /\ app[a].status = "PENDING"
    BY <1>3, <1>5 DEF PC, Decide, Job
  <2>2. CheckedOK(to, j, app') /\ Goto(w, to) /\ Note(w, j)
    BY <1>1, <1>5, <2>1 DEF CheckedOK, Decide
  <2> QED
    BY <1>1, <1>2, <2>1, <2>2, SoleStep
<1>6. CASE \E e \in Employees, t \in Types, s \in Spans, d \in Days : Apply(w, a, e, t, s, d)
  BY <1>4, <1>6 DEF Apply
<1>7. CASE \E q \in Requests : GrantRead(w, q, a)
  BY <1>4, <1>7 DEF GrantRead
<1>8. CASE CancelRead(w, a) \/ RejectRead(w, a) \/ ApproveRead(w, a)
  BY <1>5, <1>8 DEF CancelRead, RejectRead, ApproveRead
<1> QED
  BY <1>6, <1>7, <1>8

LEMMA WriteKeepsApart ==
    ASSUME LeaveInv, Sole, ~Racing', NEW w \in Workers,
           \/ CreateApplication(w) \/ CancelWrite(w) \/ RejectWrite(w) \/ ApproveWrite(w)
           \/ DeductWrite(w) \/ GrantCommit(w) \/ Crash(w)
    PROVE  Sole'
<1>1. ~Racing /\ NoOverlap /\ CheckedOK(pc[w], job[w], app)
  BY DEF Sole
<1>2. /\ job \in [Workers -> Job] /\ job[w] \in Job /\ job[w].leave \in Leave
      /\ WorkerOK(pc[w], job[w], app, bal, charged, month)
  BY DEF LeaveInv, TypeOK, Job, WorkersOK
<1>3. CASE Crash(w)
  BY <1>1, <1>3, StillApart, SoleEnds DEF Crash
<1>4. CASE CreateApplication(w)
  <2> DEFINE rec == [status |-> "PENDING", special |-> FALSE, leave |-> job[w].leave]
  <2>1. /\ pc[w] = "create" /\ Done(w) /\ job[w].app \in Applications
        /\ rec \in AppRec /\ rec.leave = job[w].leave
        /\ app' = [app EXCEPT ![job[w].app] = rec]
    BY <1>2, <1>4 DEF CreateApplication, AppRec, Status, WorkerOK, Creators
  <2>2. \A b \in Applications : app[b].status \in Live => ~Clash(app[b].leave, rec.leave)
    BY <1>1, <2>1 DEF CheckedOK
  <2>3. NoOverlap'
    <3> HIDE DEF rec
    <3> QED
      BY <1>1, <2>1, <2>2, InsertKeepsApart
  <2> QED
    BY <1>1, <2>1, <2>3, SoleEnds
<1>5. ASSUME NEW at \in {"cancel", "reject", "approve"}, NEW to, WriteStatus(w, at, to)
      PROVE  Sole'
  <2>1. /\ pc[w] = at /\ Done(w) /\ job[w].app \in Applications /\ app[job[w].app].status = "PENDING"
        /\ app' = [app EXCEPT ![job[w].app] = [@ EXCEPT !.status = to]]
    BY <1>1, <1>2, <1>5 DEF WriteStatus, WorkerOK, Deciders, CheckedOK
  <2>2. NoOverlap'
    BY <1>1, <2>1, DecisionKeepsApart
  <2> QED
    BY <1>1, <2>1, <2>2, SoleEnds
<1>6. CASE DeductWrite(w)
  <2>1. /\ app' = app /\ job' = job /\ Goto(w, "approve") /\ "approve" \in PC
        /\ pc[w] = "deductWrite" /\ Note(w, job[w])
    BY <1>2, <1>6 DEF DeductWrite, PC, Note
  <2>2. CheckedOK("approve", job[w], app')
    BY <1>1, <2>1 DEF CheckedOK, Deciders
  <2> QED
    BY <1>1, <2>1, <2>2, StillApart, SoleStep
<1>7. CASE GrantCommit(w)
  <2> DEFINE rec == [status |-> "APPROVED", special |-> TRUE, leave |-> job[w].leave]
  <2>1. /\ pc[w] = "grantCommit" /\ Done(w) /\ job[w].app \in Applications
        /\ rec \in AppRec /\ rec.leave = job[w].leave
        /\ app' = app \/ app' = [app EXCEPT ![job[w].app] = rec]
    BY <1>2, <1>7 DEF GrantCommit, AppRec, Status, WorkerOK, Creators
  <2>2. \A b \in Applications : app[b].status \in Live => ~Clash(app[b].leave, rec.leave)
    BY <1>1, <2>1 DEF CheckedOK
  <2>3. NoOverlap'
    <3> HIDE DEF rec
    <3> QED
      BY <1>1, <2>1, <2>2, InsertKeepsApart, StillApart
  <2> QED
    BY <1>1, <2>1, <2>3, SoleEnds
<1> QED
  BY <1>3, <1>4, <1>5, <1>6, <1>7 DEF CancelWrite, RejectWrite, ApproveWrite

LEMMA ElsewhereKeepsApart ==
    ASSUME Sole, UNCHANGED <<app, pc, job>> PROVE Sole'
BY DEF Sole, Racing, NoOverlap, CheckedOK

LEMMA NextKeepsApart ==
    ASSUME LeaveInv, SoleInv, [MCNext]_<<vars, raced>>
    PROVE  SoleInv'
<1> SUFFICES ASSUME ~raced' PROVE Sole'
  BY DEF SoleInv
<1>1. CASE UNCHANGED <<vars, raced>>
  BY <1>1, ElsewhereKeepsApart DEF SoleInv, vars
<1>2. CASE MCNext
  <2>1. Next /\ ~raced /\ ~Racing' /\ Sole
    BY <1>2 DEF MCNext, SoleInv
  <2>2. ASSUME NEW w \in Workers, Serve(w) PROVE Sole'
    BY <2>1, <2>2, CheckKeepsApart, ReadKeepsApart, WriteKeepsApart DEF Serve
  <2>3. CASE \E r \in Rows : InitBalance(r) \/ AccrueRow(r)
    BY <2>1, <2>3, ElsewhereKeepsApart DEF InitBalance, AccrueRow
  <2>4. CASE \E q \in Requests, e \in Employees, t \in Types, s \in Spans, d \in Days :
                 RaiseRequest(q, e, t, s, d)
    BY <2>1, <2>4, ElsewhereKeepsApart DEF RaiseRequest
  <2>5. CASE AccrueStart \/ CrashCron
    BY <2>1, <2>5, ElsewhereKeepsApart DEF AccrueStart, CrashCron
  <2> QED
    BY <2>1, <2>2, <2>3, <2>4, <2>5 DEF Next
<1> QED
  BY <1>1, <1>2

(* As long as no two requests were ever served at the same time, the        *)
(* overlap checks of apply and grantSpecialLeave do what they are for: no   *)
(* employee has two live applications with a date in common, although       *)
(* neither check is in one transaction with its insert, and wherever a      *)
(* handler dies.                                                            *)
THEOREM ServedAloneNoOverlap == MCSpec => []NoOverlapUnraced
<1>1. MCInit => SoleInv
  BY DEF MCInit, Init, SoleInv, Sole, Racing, NoOverlap, Live, CheckedOK, Deciders
<1>2. MCSpec => Spec
  <2>1. MCInit => Init
    BY DEF MCInit
  <2>2. [MCNext]_<<vars, raced>> => [Next]_vars
    BY DEF MCNext
  <2> QED
    BY <2>1, <2>2, PTL DEF MCSpec, Spec
<1>3. LeaveInv /\ SoleInv /\ [MCNext]_<<vars, raced>> => SoleInv'
  BY NextKeepsApart
<1>4. SoleInv => NoOverlapUnraced
  BY DEF SoleInv, Sole, NoOverlapUnraced
<1> QED
  BY <1>1, <1>2, <1>3, <1>4, Always, PTL DEF MCSpec

-----------------------------------------------------------------------------
(* What has been taken from a row, one request at a time: the sum of the   *)
(* days of its applications, each as often as it was charged.              *)

Made(ap) == {a \in Applications : ap[a].status # "NONE"}
MadeOf(ap, r) == {a \in Applications : ap[a].status # "NONE" /\ ap[a].leave.row = r}
DaysIn(ap, ch) == [a \in Applications |-> ch[a] * ap[a].leave.days]
Booked(ap, ch, r) == SumOf(DaysIn(ap, ch), MadeOf(ap, r))

BooksPaid ==
    /\ IsFiniteSet(Made(app))
    /\ \A a \in Applications : app[a].status = "NONE" => charged[a] = 0
    /\ \A r \in Rows : /\ ~bal[r].exists => bal[r].taken = 0
                       /\ bal[r].taken = Booked(app, charged, r)

(* What a worker at p has read of a row is what the row says.              *)
ReadOK(p, j, ap, bl) ==
    /\ p \in Deciders => j.leave = ap[j.app].leave
    /\ p = "deductWrite" => j.read.taken = bl[j.leave.row].taken
    /\ p = "grantCommit" /\ (j.read.exists <=> bl[j.leave.row].exists) =>
          j.read.taken = bl[j.leave.row].taken

Paid == BooksPaid /\ \A w \in Workers : ReadOK(pc[w], job[w], app, bal)

LEMMA DaysAreNat ==
    ASSUME NEW ap \in [Applications -> AppRec], NEW ch \in [Applications -> Nat], NEW a \in Applications
    PROVE  /\ DaysIn(ap, ch)[a] = ch[a] * ap[a].leave.days
           /\ ap[a].leave.days \in Nat /\ DaysIn(ap, ch)[a] \in Nat
<1>1. ap[a].leave \in Leave
  BY DEF AppRec
<1>2. ap[a].leave.days \in Nat
  BY <1>1, ConstantsAssumption DEF Leave
<1>3. ch[a] \in Nat
  OBVIOUS
<1>4. ch[a] * ap[a].leave.days \in Nat
  BY <1>2, <1>3
<1> QED
  BY <1>2, <1>4 DEF DaysIn

(* The sum of TakenIsCharged is that one.                                  *)
LEMMA BookedIs ==
    ASSUME NEW ap \in [Applications -> AppRec], NEW ch \in [Applications -> Nat], NEW r,
           IsFiniteSet(Made(ap))
    PROVE  /\ IsFiniteSet(MadeOf(ap, r)) /\ MadeOf(ap, r) \subseteq Applications
           /\ MapThenSumSet(LAMBDA a : ch[a] * ap[a].leave.days, MadeOf(ap, r)) = Booked(ap, ch, r)
<1> DEFINE S == MadeOf(ap, r)
           f == DaysIn(ap, ch)
           AddsUp(g) == g = [s \in SUBSET S |-> IF s = {} THEN 0
                              ELSE ch[Chosen(s)] * ap[Chosen(s)].leave.days + g[s \ {Chosen(s)}]]
<1>1. MapThenSumSet(LAMBDA a : ch[a] * ap[a].leave.days, S) = (CHOOSE g : AddsUp(g))[S]
  BY DEF MapThenSumSet, MapThenFoldSet, Chosen
<1>2. IsFiniteSet(S) /\ S \subseteq Applications
  <2>1. S \in SUBSET Made(ap)
    BY DEF MadeOf, Made
  <2> QED
    BY <2>1, FS_Subset DEF MadeOf
<1>3. \A s \in SUBSET S : s # {} => f[Chosen(s)] = ch[Chosen(s)] * ap[Chosen(s)].leave.days
  BY <1>2, ChosenIn, DaysAreNat
<1> HIDE DEF S, f
<1>4. ASSUME NEW g PROVE AddsUp(g) <=> Adds(f, g, S)
  BY <1>3 DEF Adds
<1>5. \E g : AddsUp(g)
  BY <1>2, <1>4, SumExists
<1> DEFINE h == CHOOSE g : AddsUp(g)
<1>6. AddsUp(h)
  BY <1>5
<1>7. Adds(f, h, S)
  BY <1>4, <1>6
<1> HIDE DEF h, AddsUp
<1>8. h[S] = SumOf(f, S)
  BY <1>2, <1>7, SumIs
<1> QED
  BY <1>1, <1>2, <1>8 DEF Booked, S, f, h

LEMMA MoreDays ==
    ASSUME NEW c \in Nat, NEW d \in Nat
    PROVE  (c + 0) * d = c * d /\ (c + 1) * d = c * d + d /\ 0 * d = 0 /\ c * d \in Nat
OBVIOUS

(* One application is made, decided or charged.                            *)
Moved(ap, ch, uap, uch, a, n) ==
    /\ {ap, uap} \subseteq [Applications -> AppRec] /\ {ch, uch} \subseteq [Applications -> Nat]
    /\ a \in Applications /\ n \in {0, 1} /\ IsFiniteSet(Made(ap))
    /\ \A b \in Applications \ {a} : uap[b] = ap[b] /\ uch[b] = ch[b]
    /\ uap[a].status # "NONE" /\ uch[a] = ch[a] + n
    /\ IF ap[a].status = "NONE" THEN ch[a] = 0 ELSE uap[a].leave = ap[a].leave

LEMMA BookedMore ==
    ASSUME NEW ap, NEW ch, NEW uap, NEW uch, NEW a, NEW n, Moved(ap, ch, uap, uch, a, n)
    PROVE  /\ IsFiniteSet(Made(uap))
           /\ \A r : Booked(uap, uch, r) =
                        IF r = uap[a].leave.row THEN Booked(ap, ch, r) + n * uap[a].leave.days
                        ELSE Booked(ap, ch, r)
           /\ \A r : Booked(ap, ch, r) \in Nat
<1> USE DEF Moved
<1>1. IsFiniteSet(Made(uap))
  <2>1. Made(uap) = Made(ap) \cup {a}
    BY DEF Made
  <2> QED
    BY <2>1, FS_AddElement
<1> DEFINE f == DaysIn(ap, ch)
           uf == DaysIn(uap, uch)
<1>2. \A b \in Applications : /\ f[b] \in Nat /\ uf[b] \in Nat
                              /\ f[b] = ch[b] * ap[b].leave.days
                              /\ uf[b] = uch[b] * uap[b].leave.days
                              /\ uap[b].leave.days \in Nat
  BY DaysAreNat
<1>3. \A b \in Applications \ {a} : uf[b] = f[b]
  BY <1>2
<1>4. IF ap[a].status = "NONE" THEN uf[a] = n * uap[a].leave.days
      ELSE uf[a] = f[a] + n * uap[a].leave.days
  <2>1. ch[a] \in Nat /\ uap[a].leave.days \in Nat
    BY <1>2
  <2>2. f[a] = ch[a] * ap[a].leave.days /\ uf[a] = (ch[a] + n) * uap[a].leave.days
    BY <1>2
  <2>3. CASE n = 0
    BY <2>1, <2>2, <2>3, MoreDays
  <2>4. CASE n = 1
    BY <2>1, <2>2, <2>4, MoreDays
  <2> QED
    BY <2>3, <2>4
<1>5. ASSUME NEW r
      PROVE  /\ Booked(uap, uch, r) = IF r = uap[a].leave.row
                                      THEN Booked(ap, ch, r) + n * uap[a].leave.days
                                      ELSE Booked(ap, ch, r)
             /\ Booked(ap, ch, r) \in Nat
  <2> DEFINE S == MadeOf(ap, r)
             T == MadeOf(uap, r)
  <2>1. IsFiniteSet(S) /\ IsFiniteSet(T) /\ S \subseteq Applications /\ T \subseteq Applications
    BY <1>1, BookedIs
  <2>2. IF r = uap[a].leave.row
        THEN a \in T /\ T \ {a} = S \ {a} /\ (a \in S <=> ap[a].status # "NONE")
        ELSE T = S /\ a \notin S
    BY DEF MadeOf
  <2> HIDE DEF f, uf, S, T
  <2>3. SumOf(f, S) \in Nat
    BY <1>2, <2>1, SumIsNat
  <2>4. CASE r # uap[a].leave.row
    BY <1>3, <2>1, <2>2, <2>3, <2>4, SumAgrees DEF Booked, f, uf, S, T
  <2>5. CASE r = uap[a].leave.row
    <3>1. IsFiniteSet(S \ {a})
      BY <2>1, FS_Difference
    <3>2. SumOf(uf, T) = uf[a] + SumOf(uf, T \ {a})
      <4>1. (\A b \in T : uf[b] \in Int) /\ a \in T
        BY <1>2, <2>1, <2>2, <2>5
      <4> QED
        BY <2>1, <4>1, SumElement
    <3>3. SumOf(uf, S \ {a}) = SumOf(f, S \ {a})
      BY <1>3, <2>1, <3>1, SumAgrees
    <3>4. SumOf(uf, T \ {a}) = SumOf(f, S \ {a})
      BY <2>2, <2>5, <3>3, Zenon
    <3>5. SumOf(f, S \ {a}) \in Nat
      BY <1>2, <2>1, <3>1, SumIsNat
    <3>6. CASE ap[a].status = "NONE"
      <4>1. S \ {a} = S
        BY <2>2, <2>5, <3>6
      <4>2. uf[a] = n * uap[a].leave.days /\ uf[a] \in Nat
        BY <1>2, <1>4, <3>6
      <4>3. SumOf(uf, T \ {a}) = SumOf(f, S)
        BY <3>4, <4>1, Zenon
      <4>4. SumOf(uf, T) = SumOf(f, S) + uf[a]
        BY <2>3, <3>2, <4>2, <4>3
      <4> QED
        BY <2>3, <2>5, <4>2, <4>4 DEF Booked, f, uf, S, T
    <3>7. CASE ap[a].status # "NONE"
      <4>1. SumOf(f, S) = f[a] + SumOf(f, S \ {a})
        BY <1>2, <2>1, <2>2, <2>5, <3>7, SumElement
      <4>2. uf[a] = f[a] + n * uap[a].leave.days /\ f[a] \in Nat /\ n * uap[a].leave.days \in Nat
        <5>1. uap[a].leave.days \in Nat
          BY <1>2
        <5> QED
          BY <1>2, <1>4, <3>7, <5>1
      <4>3. SumOf(uf, T) = SumOf(f, S) + n * uap[a].leave.days
        BY <3>2, <3>4, <3>5, <4>1, <4>2
      <4> QED
        BY <2>3, <2>5, <4>3 DEF Booked, f, uf, S, T
    <3> QED
      BY <3>6, <3>7
  <2> QED
    BY <2>4, <2>5
<1> QED
  BY <1>1, <1>5

(* What a step leaves of the books: no row exists no longer, and what is   *)
(* taken is as it was.                                                     *)
TakenKept ==
    /\ app' = app /\ charged' = charged
    /\ \A r \in Rows : /\ bal'[r].taken = bal[r].taken
                       /\ bal[r].exists => bal'[r].exists

LEMMA BooksKept == ASSUME BooksPaid, TakenKept PROVE BooksPaid'
<1>1. ASSUME NEW r \in Rows
      PROVE  (~bal[r].exists => bal[r].taken = 0)' /\ (bal[r].taken = Booked(app, charged, r))'
  BY DEF BooksPaid, TakenKept
<1>2. IsFiniteSet(Made(app))' /\ \A a \in Applications : (app[a].status = "NONE" => charged[a] = 0)'
  BY DEF BooksPaid, TakenKept
<1> QED
  BY <1>1, <1>2 DEF BooksPaid

(* A worker moves, and nobody else is in the middle of a request.          *)
LEMMA PaidStep ==
    ASSUME LeaveInv, NEW w \in Workers, NEW to \in PC, NEW j, Goto(w, to), Note(w, j),
           ~Racing, ~Racing', pc[w] # "idle" \/ to # "idle",
           BooksPaid', ReadOK(to, j, app', bal')
    PROVE  Paid'
<1>1. /\ pc \in [Workers -> PC] /\ pc'[w] = to
      /\ job'[w] = j
  BY DEF LeaveInv, TypeOK, Goto, Note
<1>2. ASSUME NEW v \in Workers PROVE ReadOK(pc'[v], job'[v], app', bal')
  <2>1. CASE v = w
    BY <2>1, <1>1
  <2>2. CASE v # w
    <3>1. pc'[v] = "idle"
      BY <2>2, OthersAreIdle
    <3> QED
      BY <3>1 DEF ReadOK, Deciders
  <2> QED
    BY <2>1, <2>2
<1> QED
  BY <1>2 DEF Paid

LEMMA PaidEnds ==
    ASSUME LeaveInv, NEW w \in Workers, pc[w] # "idle", Done(w), ~Racing, ~Racing', BooksPaid'
    PROVE  Paid'
<1>1. "idle" \in PC /\ ReadOK("idle", Idle, app', bal')
  BY DEF PC, ReadOK, Deciders
<1> QED
  BY <1>1, PaidStep DEF Done

(* Rows come into being and accrue while a request is being served.        *)
LEMMA PaidElsewhere ==
    ASSUME LeaveInv, Paid, TakenKept, UNCHANGED <<pc, job>> PROVE Paid'
<1>1. BooksPaid'
  BY BooksKept DEF Paid
<1>2. ASSUME NEW w \in Workers PROVE ReadOK(pc'[w], job'[w], app', bal')
  <2>1. /\ job[w] \in Job /\ job[w].leave.row \in Rows
        /\ ReadOK(pc[w], job[w], app, bal) /\ WorkerOK(pc[w], job[w], app, bal, charged, month)
    BY DEF LeaveInv, TypeOK, Job, WorkersOK, Paid, Leave
  <2> QED
    BY <2>1 DEF TakenKept, ReadOK, WorkerOK
<1> QED
  BY <1>1, <1>2 DEF Paid

LEMMA RowsKept ==
    ASSUME LeaveInv, BooksPaid,
           \/ UNCHANGED bal
           \/ \E r \in Rows : bal' = Initialized(r)
           \/ \E r \in Rows : bal' = [bal EXCEPT ![r] = Accrued(@)]
    PROVE  \A r \in Rows : bal'[r].taken = bal[r].taken /\ (bal[r].exists => bal'[r].exists)
<1>1. bal \in [Rows -> Row] /\ \A r \in Rows : ~bal[r].exists => bal[r].taken = 0
  BY DEF LeaveInv, TypeOK, BooksPaid
<1>2. FullYear.exists /\ FullYear.taken = 0
  BY DEF FullYear
<1>3. \A r \in Rows : Accrued(bal[r]).exists /\ Accrued(bal[r]).taken = bal[r].taken
  BY DEF Accrued
<1>4. CASE UNCHANGED bal
  BY <1>4
<1>5. ASSUME NEW r \in Rows, bal' = Initialized(r)
      PROVE  \A s \in Rows : bal'[s].taken = bal[s].taken /\ (bal[s].exists => bal'[s].exists)
  BY <1>1, <1>2, <1>5 DEF Initialized
<1>6. ASSUME NEW r \in Rows, bal' = [bal EXCEPT ![r] = Accrued(@)]
      PROVE  \A s \in Rows : bal'[s].taken = bal[s].taken /\ (bal[s].exists => bal'[s].exists)
  BY <1>1, <1>3, <1>6
<1> QED
  BY <1>4, <1>5, <1>6

LEMMA CheckKeepsPaid ==
    ASSUME LeaveInv, Paid, ~Racing, ~Racing', NEW w \in Workers,
           CheckBalance(w) \/ CheckOverlap(w) \/ GrantOverlap(w) \/ GrantBegin(w) \/ DeductRead(w)
    PROVE  Paid'
<1>1. pc[w] # "idle" /\ UNCHANGED <<app, bal, charged>>
  BY DEF CheckBalance, CheckOverlap, GrantOverlap, GrantBegin, DeductRead, books
<1>2. BooksPaid'
  <2>1. TakenKept
    BY <1>1 DEF TakenKept
  <2> QED
    BY <2>1, BooksKept DEF Paid
<1>3. CASE Done(w)
  BY <1>1, <1>2, <1>3, PaidEnds
<1>4. job \in [Workers -> Job] /\ job[w] \in Job /\ ReadOK(pc[w], job[w], app, bal)
  BY DEF LeaveInv, TypeOK, Job, Paid
<1>5. ASSUME NEW to \in {"checkOverlap", "create", "grantBegin"}, Goto(w, to), job' = job
      PROVE  Paid'
  <2>1. to \in PC /\ Note(w, job[w]) /\ ReadOK(to, job[w], app', bal')
    BY <1>4, <1>5 DEF PC, Note, ReadOK, Deciders
  <2> QED
    BY <1>1, <1>2, <1>5, <2>1, PaidStep
<1>6. CASE (CheckBalance(w) \/ CheckOverlap(w) \/ GrantOverlap(w)) /\ ~Done(w)
  BY <1>5, <1>6 DEF CheckBalance, CheckOverlap, GrantOverlap
<1> DEFINE j == [job[w] EXCEPT !.read = bal[job[w].leave.row]]
<1>7. j.leave = job[w].leave /\ j.app = job[w].app /\ j.read = bal[j.leave.row]
  BY <1>4 DEF Job
<1>8. CASE GrantBegin(w)
  <2>1. Goto(w, "grantCommit") /\ Note(w, j) /\ "grantCommit" \in PC
    BY <1>8 DEF GrantBegin, PC
  <2>2. ReadOK("grantCommit", j, app', bal')
    BY <1>1, <1>7 DEF ReadOK, Deciders
  <2> QED
    BY <1>1, <1>2, <2>1, <2>2, PaidStep
<1>9. CASE DeductRead(w) /\ ~Done(w)
  <2>1. Goto(w, "deductWrite") /\ Note(w, j) /\ "deductWrite" \in PC /\ pc[w] = "deductRead"
    BY <1>9 DEF DeductRead, PC
  <2>2. ReadOK("deductWrite", j, app', bal')
    BY <1>1, <1>4, <1>7, <2>1 DEF ReadOK, Deciders
  <2> QED
    BY <1>1, <1>2, <2>1, <2>2, PaidStep
<1> QED
  BY <1>3, <1>6, <1>8, <1>9

LEMMA ReadKeepsPaid ==
    ASSUME LeaveInv, Paid, ~Racing, ~Racing', NEW w \in Workers, NEW a \in Applications,
           \/ \E e \in Employees, t \in Types, s \in Spans, d \in Days : Apply(w, a, e, t, s, d)
           \/ CancelRead(w, a) \/ RejectRead(w, a) \/ ApproveRead(w, a)
           \/ \E q \in Requests : GrantRead(w, q, a)
    PROVE  Paid'
<1>1. /\ UNCHANGED <<app, charged>>
      /\ UNCHANGED bal \/ \E r \in Rows : bal' = Initialized(r)
  <2>1. ASSUME NEW e \in Employees, NEW t \in Types, NEW s \in Spans, NEW d \in Days,
               Apply(w, a, e, t, s, d)
        PROVE  UNCHANGED <<app, charged>> /\ \E r \in Rows : bal' = Initialized(r)
    BY <2>1, AskedIsLeave DEF Apply
  <2> QED
    BY <2>1 DEF CancelRead, RejectRead, ApproveRead, Decide, GrantRead, books
<1>2. BooksPaid'
  <2>1. TakenKept
    BY <1>1, RowsKept DEF TakenKept, Paid
  <2> QED
    BY <2>1, BooksKept DEF Paid
<1>3. job \in [Workers -> Job] /\ job[w] \in Job
  BY DEF LeaveInv, TypeOK, Job
<1>4. ASSUME NEW to \in {"checkBalance", "grantOverlap"}, NEW j, Goto(w, to), Note(w, j)
      PROVE  Paid'
  <2>1. to \in PC /\ to # "idle" /\ ReadOK(to, j, app', bal')
    BY <1>4 DEF PC, ReadOK, Deciders
  <2> QED
    BY <1>2, <1>4, <2>1, PaidStep
<1>5. ASSUME NEW to \in {"cancel", "reject", "deductRead"}, Decide(w, a, to) PROVE Paid'
  <2> DEFINE j == [job[w] EXCEPT !.app = a, !.leave = app[a].leave]
  <2>1. to \in PC /\ to # "idle" /\ j.app = a /\ j.leave = app[a].leave
    BY <1>3, <1>5 DEF PC, Decide, Job
  <2>2. ReadOK(to, j, app', bal') /\ Goto(w, to) /\ Note(w, j)
    BY <1>1, <1>5, <2>1 DEF ReadOK, Decide
  <2> QED
    BY <1>2, <2>1, <2>2, PaidStep
<1>6. CASE \E e \in Employees, t \in Types, s \in Spans, d \in Days : Apply(w, a, e, t, s, d)
  BY <1>4, <1>6 DEF Apply
<1>7. CASE \E q \in Requests : GrantRead(w, q, a)
  BY <1>4, <1>7 DEF GrantRead
<1>8. CASE CancelRead(w, a) \/ RejectRead(w, a) \/ ApproveRead(w, a)
  BY <1>5, <1>8 DEF CancelRead, RejectRead, ApproveRead
<1> QED
  BY <1>6, <1>7, <1>8

(* An application is made, decided or charged: its row with it.            *)
LEMMA ChargeKeepsPaid ==
    ASSUME LeaveInv, BooksPaid, NEW a \in Applications, NEW n \in {0, 1},
           NEW uap \in [Applications -> AppRec], NEW uch \in [Applications -> Nat],
           NEW ubal \in [Rows -> Row], app' = uap, charged' = uch, bal' = ubal,
           \A b \in Applications \ {a} : uap[b] = app[b] /\ uch[b] = charged[b],
           uap[a].status # "NONE", uch[a] = charged[a] + n,
           app[a].status # "NONE" => uap[a].leave = app[a].leave,
           \A r \in Rows : /\ ~ubal[r].exists => ubal[r].taken = 0
                           /\ ubal[r].taken = IF r = uap[a].leave.row
                                              THEN bal[r].taken + n * uap[a].leave.days
                                              ELSE bal[r].taken
    PROVE  BooksPaid'
<1>1. app \in [Applications -> AppRec] /\ charged \in [Applications -> Nat]
  BY DEF LeaveInv, TypeOK, AppRec
<1>2. /\ IsFiniteSet(Made(app))
      /\ \A b \in Applications : app[b].status = "NONE" => charged[b] = 0
      /\ \A r \in Rows : bal[r].taken = Booked(app, charged, r)
  BY DEF BooksPaid
<1>3. /\ IsFiniteSet(Made(uap))
      /\ \A r : Booked(uap, uch, r) =
                   IF r = uap[a].leave.row THEN Booked(app, charged, r) + n * uap[a].leave.days
                   ELSE Booked(app, charged, r)
  <2>1. Moved(app, charged, uap, uch, a, n)
    BY <1>1, <1>2 DEF Moved
  <2> QED
    BY <2>1, BookedMore
<1>4. \A b \in Applications : uap[b].status = "NONE" => uch[b] = 0
  BY <1>2
<1>5. \A r \in Rows : ubal[r].taken = Booked(uap, uch, r)
  BY <1>2, <1>3
<1> QED
  BY <1>3, <1>4, <1>5 DEF BooksPaid

LEMMA WriteKeepsPaid ==
    ASSUME LeaveInv, LeaveInv', Paid, ~Racing, ~Racing', NEW w \in Workers,
           \/ CreateApplication(w) \/ CancelWrite(w) \/ RejectWrite(w) \/ ApproveWrite(w)
           \/ DeductWrite(w) \/ GrantCommit(w) \/ Crash(w)
    PROVE  Paid'
<1>1. PICK uap \in [Applications -> AppRec], uch \in [Applications -> Nat], ubal \in [Rows -> Row] :
        app' = uap /\ charged' = uch /\ bal' = ubal
  BY DEF LeaveInv, TypeOK, AppRec
<1>2. /\ app \in [Applications -> AppRec] /\ charged \in [Applications -> Nat] /\ bal \in [Rows -> Row]
      /\ \A r \in Rows : ~bal[r].exists => bal[r].taken = 0
      /\ BooksPaid
  BY DEF LeaveInv, TypeOK, AppRec, Paid, BooksPaid
<1>3. PICK j \in Job : j = job[w]
  BY DEF LeaveInv, TypeOK, Job
<1>4. /\ j.leave \in Leave /\ j.leave.row \in Rows /\ j.leave.days \in Nat
      /\ WorkerOK(pc[w], j, app, bal, charged, month) /\ ReadOK(pc[w], j, app, bal)
  BY <1>3, ConstantsAssumption DEF Job, Leave, LeaveInv, WorkersOK, Paid
<1>5. CASE Crash(w)
  <2>1. TakenKept /\ pc[w] # "idle" /\ Done(w)
    BY <1>5 DEF Crash, TakenKept, books
  <2> QED
    BY <2>1, BooksKept, PaidEnds DEF Paid
<1>6. CASE CreateApplication(w)
  <2>1. PICK a \in Applications : a = j.app /\ app[a].status = "NONE"
    BY <1>3, <1>4, <1>6 DEF CreateApplication, WorkerOK, Creators
  <2>2. PICK rec : rec = [status |-> "PENDING", special |-> FALSE, leave |-> j.leave]
    OBVIOUS
  <2>3. rec.status # "NONE" /\ rec.leave = j.leave
    BY <2>2
  <2>4. /\ app' = [app EXCEPT ![a] = rec] /\ UNCHANGED <<bal, charged>>
        /\ pc[w] # "idle" /\ Done(w)
    BY <1>3, <1>6, <2>1, <2>2 DEF CreateApplication, books
  <2>5. /\ uap[a] = rec /\ \A b \in Applications \ {a} : uap[b] = app[b]
        /\ uch = charged /\ ubal = bal
    BY <1>1, <1>2, <2>4
  <2>6. \A r \in Rows : ubal[r].taken = IF r = uap[a].leave.row
                                        THEN bal[r].taken + 0 * uap[a].leave.days
                                        ELSE bal[r].taken
    BY <1>2, <1>4, <2>3, <2>5, MoreDays DEF Row
  <2>7. BooksPaid'
    <3>1. uch[a] = charged[a] + 0
      BY <1>2, <2>5
    <3> QED
      BY <1>1, <1>2, <2>1, <2>3, <2>5, <2>6, <3>1, ChargeKeepsPaid
  <2> QED
    BY <2>4, <2>7, PaidEnds
<1>7. ASSUME NEW at \in {"cancel", "reject", "approve"}, NEW to \in Status \ {"NONE"},
             WriteStatus(w, at, to)
      PROVE  Paid'
  <2>1. PICK a \in Applications : a = j.app /\ app[a].status # "NONE"
    BY <1>3, <1>4, <1>7 DEF WriteStatus, WorkerOK, Deciders
  <2>2. /\ app' = [app EXCEPT ![a] = [app[a] EXCEPT !.status = to]] /\ UNCHANGED <<bal, charged>>
        /\ pc[w] # "idle" /\ Done(w)
    BY <1>3, <1>7, <2>1 DEF WriteStatus, books
  <2>3. PICK rec : rec = [app[a] EXCEPT !.status = to]
    OBVIOUS
  <2>4. app[a] \in AppRec /\ rec.status # "NONE" /\ rec.leave = app[a].leave /\ app[a].leave \in Leave
    BY <1>2, <2>3 DEF AppRec
  <2>5. /\ uap[a] = rec /\ \A b \in Applications \ {a} : uap[b] = app[b]
        /\ uch = charged /\ ubal = bal
    BY <1>1, <1>2, <2>2, <2>3
  <2>6. \A r \in Rows : ubal[r].taken = IF r = uap[a].leave.row
                                        THEN bal[r].taken + 0 * uap[a].leave.days
                                        ELSE bal[r].taken
    <3>1. uap[a].leave.days \in Nat
      BY <2>4, <2>5, ConstantsAssumption DEF Leave
    <3> QED
      BY <1>2, <2>5, <3>1, MoreDays DEF Row
  <2>7. BooksPaid'
    <3>1. uch[a] = charged[a] + 0
      BY <1>2, <2>5
    <3> QED
      BY <1>1, <1>2, <2>1, <2>4, <2>5, <2>6, <3>1, ChargeKeepsPaid
  <2> QED
    BY <2>2, <2>7, PaidEnds
<1>8. CASE DeductWrite(w)
  <2>1. PICK a \in Applications : a = j.app /\ app[a].status # "NONE" /\ j.leave = app[a].leave
    BY <1>3, <1>4, <1>8 DEF DeductWrite, WorkerOK, ReadOK, Deciders
  <2>2. PICK row : row = j.leave.row
    OBVIOUS
  <2>3. /\ row \in Rows /\ j.read.exists /\ j.read.taken = bal[row].taken /\ bal[row].exists
    BY <1>3, <1>4, <1>8, <2>2 DEF DeductWrite, WorkerOK, ReadOK
  <2>4. /\ bal' = [bal EXCEPT ![row] = Spent(bal[row], j.read, j.leave.days)]
        /\ charged' = [charged EXCEPT ![a] = charged[a] + 1]
        /\ app' = app /\ job' = job /\ pc[w] = "deductWrite" /\ Goto(w, "approve")
    BY <1>3, <1>8, <2>1, <2>2 DEF DeductWrite
  <2>5. /\ uch[a] = charged[a] + 1 /\ \A b \in Applications \ {a} : uch[b] = charged[b]
        /\ ubal[row] = Spent(bal[row], j.read, j.leave.days)
        /\ \A r \in Rows \ {row} : ubal[r] = bal[r]
        /\ uap = app
    BY <1>1, <1>2, <2>3, <2>4
  <2>6. ubal[row].exists /\ ubal[row].taken = bal[row].taken + j.leave.days
    BY <1>2, <2>3, <2>5 DEF Spent, Row
  <2>7. \A r \in Rows : /\ ~ubal[r].exists => ubal[r].taken = 0
                        /\ ubal[r].taken = IF r = uap[a].leave.row
                                           THEN bal[r].taken + 1 * uap[a].leave.days
                                           ELSE bal[r].taken
    BY <1>2, <1>4, <2>1, <2>2, <2>5, <2>6 DEF Row
  <2>8. BooksPaid'
    BY <1>1, <1>2, <2>1, <2>5, <2>7, ChargeKeepsPaid
  <2>9. /\ "approve" \in PC /\ "approve" # "idle" /\ Note(w, j) /\ ReadOK("approve", j, app', bal')
    BY <1>3, <2>1, <2>4 DEF PC, Note, ReadOK, LeaveInv, TypeOK
  <2> QED
    BY <2>4, <2>8, <2>9, PaidStep
<1>9. CASE GrantCommit(w)
  <2>1. PICK a \in Applications : a = j.app /\ app[a].status = "NONE"
    BY <1>3, <1>4, <1>9 DEF GrantCommit, WorkerOK, Creators
  <2>2. PICK row : row = j.leave.row
    OBVIOUS
  <2>3. PICK rec : rec = [status |-> "APPROVED", special |-> TRUE, leave |-> j.leave]
    OBVIOUS
  <2>4. rec.status # "NONE" /\ rec.leave = j.leave
    BY <2>3
  <2>5. pc[w] = "grantCommit" /\ Done(w)
    BY <1>9 DEF GrantCommit
  <2>6. CASE UNCHANGED <<bal, charged, app>>
    <3>1. TakenKept
      BY <2>6 DEF TakenKept
    <3> QED
      BY <1>2, <2>5, <3>1, BooksKept, PaidEnds
  <2>7. CASE ~ UNCHANGED <<bal, charged, app>>
    <3>1. PICK seen : seen = IF j.read.exists THEN j.read ELSE FullYear
      OBVIOUS
    <3>2. PICK old : old = IF bal[row].exists THEN bal[row] ELSE FullYear
      OBVIOUS
    <3>3. /\ bal[row].exists = j.read.exists
          /\ bal' = [bal EXCEPT ![row] = Spent(old, seen, j.leave.days)]
          /\ app' = [app EXCEPT ![a] = rec]
          /\ charged' = [charged EXCEPT ![a] = charged[a] + 1]
      BY <1>3, <1>9, <2>1, <2>2, <2>3, <2>7, <3>1, <3>2 DEF GrantCommit, books
    <3>4. row \in Rows /\ old \in Row /\ old.exists /\ seen.taken = bal[row].taken
      BY <1>2, <1>4, <2>2, <2>5, <3>1, <3>2, <3>3, Constants DEF ReadOK, FullYear
    <3>5. /\ uch[a] = charged[a] + 1 /\ uap[a] = rec
          /\ \A b \in Applications \ {a} : uap[b] = app[b] /\ uch[b] = charged[b]
          /\ ubal[row] = Spent(old, seen, j.leave.days)
          /\ \A r \in Rows \ {row} : ubal[r] = bal[r]
      BY <1>1, <1>2, <3>3, <3>4
    <3>6. ubal[row].exists /\ ubal[row].taken = bal[row].taken + j.leave.days
      BY <3>4, <3>5 DEF Spent, Row
    <3>7. \A r \in Rows : /\ ~ubal[r].exists => ubal[r].taken = 0
                          /\ ubal[r].taken = IF r = uap[a].leave.row
                                             THEN bal[r].taken + 1 * uap[a].leave.days
                                             ELSE bal[r].taken
      BY <1>2, <1>4, <2>2, <2>4, <3>5, <3>6 DEF Row
    <3>8. BooksPaid'
      BY <1>1, <1>2, <2>1, <2>4, <3>5, <3>7, ChargeKeepsPaid
    <3> QED
      BY <2>5, <3>8, PaidEnds
  <2> QED
    BY <2>6, <2>7
<1>10. {"CANCELLED", "REJECTED", "APPROVED"} \subseteq Status \ {"NONE"}
  BY DEF Status
<1> QED
  BY <1>5, <1>6, <1>7, <1>8, <1>9, <1>10 DEF CancelWrite, RejectWrite, ApproveWrite

PaidAlone == ~raced => Paid

LEMMA NextKeepsPaid ==
    ASSUME LeaveInv, SoleInv, PaidAlone, [MCNext]_<<vars, raced>>
    PROVE  PaidAlone'
<1> SUFFICES ASSUME ~raced' PROVE Paid'
  BY DEF PaidAlone
<1>1. LeaveInv'
  <2>1. [Next]_vars
    BY DEF MCNext
  <2> QED
    BY <2>1, NextKeeps
<1>2. CASE UNCHANGED <<vars, raced>>
  <2>1. TakenKept /\ UNCHANGED <<pc, job>> /\ Paid
    BY <1>2 DEF TakenKept, vars, PaidAlone
  <2> QED
    BY <2>1, PaidElsewhere
<1>3. CASE MCNext
  <2>1. Next /\ ~raced /\ ~Racing' /\ ~Racing /\ Paid /\ BooksPaid
    BY <1>3 DEF MCNext, SoleInv, Sole, PaidAlone, Paid
  <2>2. ASSUME NEW w \in Workers, Serve(w) PROVE Paid'
    BY <1>1, <2>1, <2>2, CheckKeepsPaid, ReadKeepsPaid, WriteKeepsPaid DEF Serve
  <2>3. CASE \E r \in Rows : InitBalance(r) \/ AccrueRow(r)
    <3>1. \A r \in Rows : bal'[r].taken = bal[r].taken /\ (bal[r].exists => bal'[r].exists)
      BY <2>1, <2>3, RowsKept DEF InitBalance, AccrueRow
    <3>2. TakenKept /\ UNCHANGED <<pc, job>>
      BY <2>3, <3>1 DEF TakenKept, InitBalance, AccrueRow
    <3> QED
      BY <2>1, <3>2, PaidElsewhere
  <2>4. CASE \/ \E q \in Requests, e \in Employees, t \in Types, s \in Spans, d \in Days :
                   RaiseRequest(q, e, t, s, d)
             \/ AccrueStart \/ CrashCron
    <3>1. TakenKept /\ UNCHANGED <<pc, job>>
      BY <2>4 DEF TakenKept, RaiseRequest, AccrueStart, CrashCron, books
    <3> QED
      BY <2>1, <3>1, PaidElsewhere
  <2> QED
    BY <2>1, <2>2, <2>3, <2>4 DEF Next
<1> QED
  BY <1>2, <1>3

LEMMA PaidStarts == MCInit => PaidAlone
<1> SUFFICES ASSUME Init PROVE Paid
  BY DEF MCInit, PaidAlone
<1>1. Made(app) = {} /\ \A r : MadeOf(app, r) = {}
  BY DEF Init, Made, MadeOf
<1>2. IsFiniteSet(Made(app)) /\ \A r : Booked(app, charged, r) = 0
  BY <1>1, FS_EmptySet, SumEmpty DEF Booked
<1>3. BooksPaid
  BY <1>2 DEF BooksPaid, Init, NoRow
<1>4. \A w \in Workers : ReadOK(pc[w], job[w], app, bal)
  BY DEF Init, ReadOK, Deciders
<1> QED
  BY <1>3, <1>4 DEF Paid

(* As long as no two requests were ever served at the same time, the days  *)
(* taken from a balance row are the days of its applications, each as      *)
(* often as it was charged: deductBalance and the special grant account    *)
(* for every day, although they write back what they have read, whatever   *)
(* the accrual does in between and wherever a handler dies.                *)
THEOREM ServedAloneDaysAreCharged == MCSpec => []TakenIsChargedUnraced
<1>1. MCInit => SoleInv /\ PaidAlone
  BY PaidStarts DEF MCInit, Init, SoleInv, Sole, Racing, NoOverlap, Live, CheckedOK, Deciders
<1>2. MCSpec => Spec
  <2>1. MCInit => Init
    BY DEF MCInit
  <2>2. [MCNext]_<<vars, raced>> => [Next]_vars
    BY DEF MCNext
  <2> QED
    BY <2>1, <2>2, PTL DEF MCSpec, Spec
<1>3. LeaveInv /\ SoleInv /\ PaidAlone /\ [MCNext]_<<vars, raced>> => SoleInv' /\ PaidAlone'
  BY NextKeepsApart, NextKeepsPaid
<1>4. LeaveInv /\ PaidAlone => TakenIsChargedUnraced
  <2> SUFFICES ASSUME LeaveInv, Paid, NEW r \in Rows
               PROVE  bal[r].taken =
                        MapThenSumSet(LAMBDA a : charged[a] * app[a].leave.days,
                          {a \in Applications : app[a].status # "NONE" /\ app[a].leave.row = r})
    BY DEF PaidAlone, TakenIsChargedUnraced, TakenIsCharged
  <2>1. /\ app \in [Applications -> AppRec] /\ charged \in [Applications -> Nat]
        /\ IsFiniteSet(Made(app)) /\ bal[r].taken = Booked(app, charged, r)
    BY DEF LeaveInv, TypeOK, AppRec, Paid, BooksPaid
  <2>2. MapThenSumSet(LAMBDA a : charged[a] * app[a].leave.days, MadeOf(app, r)) =
           Booked(app, charged, r)
    BY <2>1, BookedIs
  <2> QED
    BY <2>1, <2>2 DEF MadeOf
<1> QED
  BY <1>1, <1>2, <1>3, <1>4, Always, PTL DEF MCSpec
=============================================================================
