--------------------------- MODULE PayrollProofs ---------------------------
(***************************************************************************)
(* Theorems about PayrollCycle for every set of employees, periods, loans, *)
(* ledger rows and concurrent requests.                                    *)
(***************************************************************************)
EXTENDS PayrollCycle, TLAPS

(* Two releases or two approvals of one row name the same payroll period.  *)
SamePeriod == ~MovesPeriod

-----------------------------------------------------------------------------
(* Type correctness. *)

(* CHOOSE picks members of the two sets assumed to be non-empty. *)
LEMMA DefaultsAreMembers == AnyPeriod \in Periods /\ AnyEmployee \in Employees
  BY ConstantsAssumption DEF AnyPeriod, AnyEmployee

LEMMA BlankIsJob == Blank \in Job /\ NoTerms \in Terms
  BY DefaultsAreMembers, ConstantsAssumption
  DEF Blank, Job, NoTerms, Terms, Zero

(* The slip a request works on is one. *)
LEMMA HereIsSlip == ASSUME TypeOK, NEW w \in Workers PROVE Here(w) \in Slips
  BY DEF TypeOK, Job, Here, Slips

(* What Note, Goto and Save change, and what they leave alone. *)
LEMMA NoteStep ==
  ASSUME TypeOK, NEW w \in Workers, NEW j \in Job, Note(w, j)
  PROVE  /\ job' \in [Workers -> Job]
         /\ job'[w] = j
         /\ \A v \in Workers \ {w} : job'[v] = job[v]
  BY DEF TypeOK, Note

LEMMA GotoStep ==
  ASSUME TypeOK, NEW w \in Workers, NEW c \in PC, Goto(w, c)
  PROVE  /\ pc' \in [Workers -> PC]
         /\ pc'[w] = c
         /\ \A v \in Workers \ {w} : pc'[v] = pc[v]
  BY DEF TypeOK, Goto

LEMMA SaveStep ==
  ASSUME TypeOK, NEW s \in Slips, NEW row \in Slip, Save(s, row)
  PROVE  /\ slip' \in [Slips -> Slip]
         /\ slip'[s] = row
         /\ \A t \in Slips \ {s} : slip'[t] = slip[t]
  BY DEF TypeOK, Save

LEMMA DoneStep ==
  ASSUME TypeOK, NEW w \in Workers, Done(w)
  PROVE  /\ job' \in [Workers -> Job] /\ pc' \in [Workers -> PC]
         /\ job'[w] = Blank /\ pc'[w] = "idle"
         /\ \A v \in Workers \ {w} : job'[v] = job[v] /\ pc'[v] = pc[v]
  <1>1. "idle" \in PC
    BY DEF PC
  <1> QED BY <1>1, BlankIsJob, NoteStep, GotoStep DEF Done

LEMMA SettleStep ==
  ASSUME TypeOK, NEW w \in Workers, NEW kind, NEW linked \in BOOLEAN, Settle(w, kind, linked)
  PROVE  item' \in [Items -> Row]
  <1>1. Here(w) \in Slips
    BY HereIsSlip
  <1>2. ASSUME NEW i \in Items
        PROVE [item[i] EXCEPT !.settled = TRUE, !.entry = IF linked THEN Here(w) ELSE @] \in Row
    BY <1>1 DEF TypeOK, Row
  <1> QED BY <1>2 DEF TypeOK, Settle

Types == TypeOK /\ EditResolved

LocalTypes ==
    /\ pc' \in [Workers -> PC]
    /\ job' \in [Workers -> Job]
    /\ EditResolved'

(* A step that only moves worker w on keeps the local state well-typed. *)
LEMMA MoveTypes ==
  ASSUME Types, NEW w \in Workers, NEW j \in Job, NEW c \in PC, Note(w, j), Goto(w, c),
         c = "updateWrite" => j.terms.tds \in Amounts /\ j.terms.other \in Amounts
  PROVE  LocalTypes
  <1>1. TypeOK
    BY DEF Types
  <1> QED BY <1>1, NoteStep, GotoStep DEF Types, EditResolved, LocalTypes

LEMMA JumpTypes ==
  ASSUME Types, NEW w \in Workers, NEW c \in PC, Goto(w, c), UNCHANGED job, c # "updateWrite"
  PROVE  LocalTypes
  <1>1. TypeOK
    BY DEF Types
  <1> QED BY <1>1, GotoStep DEF Types, EditResolved, LocalTypes, TypeOK

LEMMA DoneTypes ==
  ASSUME Types, NEW w \in Workers, Done(w)
  PROVE  LocalTypes
  <1>1. TypeOK
    BY DEF Types
  <1> QED BY <1>1, DoneStep DEF Types, EditResolved, LocalTypes

LEMMA InitTypes == Init => Types
  <1>1. Init => TypeOK
    BY BlankIsJob, DefaultsAreMembers, ConstantsAssumption
    DEF Init, TypeOK, RunStatus, Slip, Row, PC, Slips, Items
  <1>2. Init => EditResolved
    BY DEF Init, EditResolved
  <1> QED BY <1>1, <1>2 DEF Types

LEMMA UpstreamTypes == ASSUME Types, Upstream PROVE Types'
  <1> USE DEF Types, TypeOK, EditResolved
  <1>1. ASSUME NEW l \in Loans, PostLoan(l) PROVE Types'
    <2>1. ASSUME NEW i \in Items PROVE [item[i] EXCEPT !.state = "open"] \in Row
      BY DEF Row
    <2> QED BY <1>1, <2>1 DEF PostLoan
  <1>2. ASSUME NEW i \in Items, NEW p \in Periods, NEW st \in {"held", "open"},
               item' = [item EXCEPT ![i] = [@ EXCEPT !.state = st, !.period = p]],
               UNCHANGED <<run, slip, loan, pc, job>>
        PROVE Types'
    <2>1. [item[i] EXCEPT !.state = st, !.period = p] \in Row
      BY DEF Row
    <2> QED BY <1>2, <2>1
  <1>3. ASSUME NEW i \in Incentives, NEW p \in Periods, NEW hold \in BOOLEAN,
               PostIncentive(i, p, hold) PROVE Types'
    BY <1>2, <1>3 DEF PostIncentive, Items
  <1>4. ASSUME NEW i \in Thanks, NEW p \in Periods, PostThanks(i, p) PROVE Types'
    BY <1>2, <1>4 DEF PostThanks, Items
  <1> QED BY <1>1, <1>3, <1>4 DEF Upstream

LEMMA RequestTypes == ASSUME Types, NEW w \in Workers, Request(w) PROVE Types'
  <1>0. LocalTypes /\ UNCHANGED db => Types'
    BY DEF LocalTypes, Types, TypeOK, db
  <1>1. {"start", "create", "approve", "disburse", "release", "reject", "updateRead"} \subseteq PC
    BY DEF PC, PassPC
  <1>2. ASSUME NEW p \in Periods, NEW c \in PC, c # "updateWrite",
               Note(w, [job[w] EXCEPT !.period = p]), Goto(w, c), UNCHANGED db
        PROVE Types'
    <2>1. [job[w] EXCEPT !.period = p] \in Job
      BY DEF Types, TypeOK, Job
    <2> QED BY <1>0, <1>2, <2>1, MoveTypes
  <1>3. ASSUME NEW p \in Periods, InitiateRun(w, p) PROVE Types'
    BY <1>1, <1>2, <1>3 DEF InitiateRun
  <1>4. ASSUME NEW p \in Periods, ReprocessRun(w, p) PROVE Types'
    BY <1>1, <1>2, <1>4 DEF ReprocessRun
  <1>5. ASSUME NEW p \in Periods, ApproveRead(w, p) PROVE Types'
    BY <1>1, <1>2, <1>5 DEF ApproveRead, StatusRead
  <1>6. ASSUME NEW p \in Periods, DisburseRead(w, p) PROVE Types'
    BY <1>1, <1>2, <1>6 DEF DisburseRead, StatusRead
  <1>7. ASSUME NEW p \in Periods, NEW i \in Items, NEW c \in {"release", "reject"},
               DecideRead(w, i, p, c) PROVE Types'
    <2>1. [job[w] EXCEPT !.period = p, !.picked = {i}] \in Job
      BY DEF Types, TypeOK, Job
    <2> QED BY <1>0, <1>1, <1>7, <2>1, MoveTypes DEF DecideRead
  <1>8. ASSUME NEW p \in Periods, NEW e \in Employees,
               NEW t \in Amounts \cup {Keep}, NEW o \in Amounts \cup {Keep},
               UpdateCheck(w, p, e, t, o) PROVE Types'
    <2>1. [job[w] EXCEPT !.period = p, !.emp = e,
              !.terms = [count |-> Zero, tds |-> t, other |-> o]] \in Job
      BY DEF Types, TypeOK, Job, Zero
    <2> QED BY <1>0, <1>1, <1>8, <2>1, MoveTypes DEF UpdateCheck
  <1> QED BY <1>3, <1>4, <1>5, <1>6, <1>7, <1>8 DEF Request, ReleaseRead, RejectRead

LEMMA PassTypes == ASSUME Types, NEW w \in Workers, Pass(w) PROVE Types'
  <1>0. PassPC \subseteq PC /\ "updateWrite" \notin PassPC /\ "idle" \in PC
    BY DEF PC, PassPC
  <1>a. TypeOK /\ Here(w) \in Slips
    BY HereIsSlip DEF Types
  <1>b. job[w] \in Job /\ job[w].period \in Periods
    BY DEF Types, TypeOK, Job
  <1>1. CASE CreateRun(w)
    <2>1. run' \in [Periods -> RunStatus]
      BY <1>1, <1>a DEF CreateRun, TypeOK, RunStatus
    <2>2. LocalTypes
      BY <1>0, <1>1, JumpTypes, DoneTypes DEF CreateRun, PassPC
    <2> QED BY <1>1, <2>1, <2>2, <1>a DEF CreateRun, Types, TypeOK, LocalTypes
  <1>2. CASE StartPass(w)
    <2>1. run' \in [Periods -> RunStatus]
      BY <1>2, <1>a DEF StartPass, TypeOK, RunStatus
    <2>2. LocalTypes
      BY <1>0, <1>2, JumpTypes DEF StartPass, PassPC
    <2> QED BY <1>2, <2>1, <2>2, <1>a DEF StartPass, Types, TypeOK, LocalTypes
  <1>3. CASE ListEmployees(w)
    <2>1. ASSUME NEW S \in SUBSET Employees PROVE [job[w] EXCEPT !.left = S] \in Job
      BY <1>b DEF Job
    <2>2. LocalTypes
      BY <1>0, <1>3, <2>1, MoveTypes DEF ListEmployees, PassPC
    <2> QED BY <1>3, <2>2, <1>a DEF ListEmployees, db, Types, TypeOK, LocalTypes
  <1>4. CASE ReadEntry(w)
    <2>1. ASSUME NEW e \in job[w].left
          PROVE [job[w] EXCEPT !.emp = e, !.left = @ \ {e}, !.picked = {},
                               !.base = slip[<<job[w].period, e>>].terms.count] \in Job
      <3>1. e \in Employees /\ <<job[w].period, e>> \in Slips
        BY <1>b DEF Job, Slips
      <3>2. slip[<<job[w].period, e>>].terms.count \in [Items -> Nat]
        BY <3>1, <1>a DEF TypeOK, Slip, Terms
      <3> QED BY <3>1, <3>2, <1>b DEF Job
    <2>2. LocalTypes
      BY <1>0, <1>4, <2>1, MoveTypes DEF ReadEntry, PassPC
    <2> QED BY <1>4, <2>2, <1>a DEF ReadEntry, db, Types, TypeOK, LocalTypes
  <1>5. ASSUME NEW from, NEW rows \in SUBSET Items, NEW to \in PassPC, Pick(w, from, rows, to)
        PROVE Types'
    <2>1. [job[w] EXCEPT !.picked = @ \cup rows] \in Job
      BY <1>b DEF Job
    <2>2. LocalTypes
      BY <1>0, <1>5, <2>1, MoveTypes DEF Pick
    <2> QED BY <1>5, <2>2, <1>a DEF Pick, db, Types, TypeOK, LocalTypes
  <1>6. CASE ReadIncentives(w)
    <2>1. Unsettled(w, Incentives) \in SUBSET Items
      BY DEF Unsettled, Items
    <2> QED BY <1>5, <1>6, <2>1 DEF ReadIncentives, PassPC
  <1>7. CASE ReadThanks(w)
    <2>1. Unsettled(w, Thanks) \in SUBSET Items
      BY DEF Unsettled, Items
    <2> QED BY <1>5, <1>7, <2>1 DEF ReadThanks, PassPC
  <1>8. CASE ReadLoans(w)
    <2>1. DueEmis(w) \in SUBSET Items
      BY DEF DueEmis, Unsettled, Items
    <2> QED BY <1>5, <1>8, <2>1 DEF ReadLoans, PassPC
  <1>9. CASE UpsertEntry(w)
    <2> DEFINE total == [i \in Items |-> job[w].base[i] + (IF i \in job[w].picked THEN 1 ELSE 0)]
               old == slip[Here(w)]
               new == [exists |-> TRUE,
                       terms |-> [count |-> total, tds |-> old.terms.tds,
                                  other |-> old.terms.other],
                       net |-> [count |-> total, tds |-> 0, other |-> 0]]
    <2>1. total \in [Items -> Nat]
      BY <1>b DEF Job
    <2>2. old.terms.tds \in Amounts /\ old.terms.other \in Amounts
      BY <1>a DEF TypeOK, Slip, Terms
    <2>3. new \in Slip
      BY <2>1, <2>2, ConstantsAssumption DEF Slip, Terms
    <2>4. Save(Here(w), new)
      BY <1>9 DEF UpsertEntry
    <2>5. slip' \in [Slips -> Slip]
      BY <1>a, <2>3, <2>4, SaveStep
    <2>6. LocalTypes
      BY <1>0, <1>9, JumpTypes DEF UpsertEntry, PassPC
    <2> QED BY <1>9, <2>5, <2>6, <1>a DEF UpsertEntry, Types, TypeOK, LocalTypes
  <1>10. ASSUME NEW kind, NEW linked \in BOOLEAN, NEW to \in PassPC,
                Settle(w, kind, linked), Goto(w, to), UNCHANGED <<run, slip, loan, job>>
         PROVE Types'
    <2>1. item' \in [Items -> Row]
      BY <1>10, <1>a, SettleStep
    <2>2. LocalTypes
      BY <1>0, <1>10, JumpTypes
    <2> QED BY <1>10, <2>1, <2>2, <1>a DEF Types, TypeOK, LocalTypes
  <1>11. CASE MarkEmis(w)
    BY <1>10, <1>11 DEF MarkEmis, PassPC
  <1>12. CASE CloseLoans(w)
    <2>1. loan' \in [Loans -> {"PENDING", "ACTIVE", "CLOSED"}]
      BY <1>12, <1>a DEF CloseLoans, TypeOK
    <2>2. LocalTypes
      BY <1>0, <1>12, JumpTypes DEF CloseLoans, PassPC
    <2> QED BY <1>12, <2>1, <2>2, <1>a DEF CloseLoans, Types, TypeOK, LocalTypes
  <1>13. CASE MarkIncentives(w)
    BY <1>10, <1>13 DEF MarkIncentives, PassPC
  <1>14. CASE MarkThanks(w)
    BY <1>10, <1>14 DEF MarkThanks, PassPC
  <1>15. CASE CompleteRun(w)
    <2>1. run' \in [Periods -> RunStatus]
      BY <1>15, <1>a DEF CompleteRun, TypeOK, RunStatus
    <2>2. LocalTypes
      BY <1>15, DoneTypes DEF CompleteRun
    <2> QED BY <1>15, <2>1, <2>2, <1>a DEF CompleteRun, Types, TypeOK, LocalTypes
  <1> QED BY <1>1, <1>2, <1>3, <1>4, <1>6, <1>7, <1>8, <1>9, <1>11, <1>12, <1>13,
             <1>14, <1>15 DEF Pass

LEMMA FinishTypes == ASSUME Types, NEW w \in Workers, Finish(w) PROVE Types'
  <1>a. TypeOK /\ Here(w) \in Slips
    BY HereIsSlip DEF Types
  <1>b. job[w] \in Job
    BY DEF Types, TypeOK
  <1>1. ASSUME NEW at, NEW st \in RunStatus, StatusWrite(w, at, st) PROVE Types'
    <2>1. run' \in [Periods -> RunStatus]
      BY <1>1, <1>a DEF StatusWrite, TypeOK
    <2>2. LocalTypes
      BY <1>1, DoneTypes DEF StatusWrite
    <2> QED BY <1>1, <2>1, <2>2, <1>a DEF StatusWrite, Types, TypeOK, LocalTypes
  <1>2. CASE ApproveWrite(w)
    BY <1>1, <1>2 DEF ApproveWrite, RunStatus
  <1>3. CASE DisburseWrite(w)
    BY <1>1, <1>3 DEF DisburseWrite, RunStatus
  <1>4. CASE UpdateRead(w)
    <2> DEFINE row == slip[Here(w)]
               dto == job[w].terms
               new == [count |-> row.terms.count,
                       tds   |-> IF dto.tds = Keep THEN row.terms.tds ELSE dto.tds,
                       other |-> IF dto.other = Keep THEN row.terms.other ELSE dto.other]
    <2>1. row.terms \in Terms
      BY <1>a DEF TypeOK, Slip
    <2>2. new \in Terms
      BY <2>1, <1>b DEF Terms, Job
    <2>3. new.tds \in Amounts /\ new.other \in Amounts
      BY <2>2 DEF Terms
    <2>4. [job[w] EXCEPT !.terms = new] \in Job /\ [job[w] EXCEPT !.terms = new].terms = new
      BY <2>2, <1>b DEF Terms, Job
    <2>5. "updateWrite" \in PC
      BY DEF PC
    <2>6. CASE row.exists
      <3>1. Note(w, [job[w] EXCEPT !.terms = new]) /\ Goto(w, "updateWrite")
        BY <1>4, <2>6 DEF UpdateRead
      <3> QED BY <3>1, <2>3, <2>4, <2>5, <1>4, <1>a, MoveTypes
              DEF UpdateRead, db, Types, TypeOK, LocalTypes
    <2>7. CASE ~row.exists
      BY <1>4, <2>7, <1>a, DoneTypes DEF UpdateRead, db, Types, TypeOK, LocalTypes
    <2> QED BY <2>6, <2>7
  <1>5. CASE UpdateWrite(w)
    <2> DEFINE row == slip[Here(w)]
               new == [exists |-> row.exists,
                       terms  |-> [count |-> row.terms.count, tds |-> job[w].terms.tds,
                                   other |-> job[w].terms.other],
                       net    |-> job[w].terms]
    <2>1. job[w].terms \in Terms
      BY <1>5, <1>b DEF UpdateWrite, Types, EditResolved, Job, Terms
    <2>2. row \in Slip /\ row.terms \in Terms
      BY <1>a DEF TypeOK, Slip
    <2>3. new \in Slip
      BY <2>1, <2>2 DEF Slip, Terms
    <2>4. slip' \in [Slips -> Slip]
      BY <1>5, <1>a, <2>3, SaveStep DEF UpdateWrite
    <2>5. LocalTypes
      BY <1>5, DoneTypes DEF UpdateWrite
    <2> QED BY <1>5, <2>4, <2>5, <1>a DEF UpdateWrite, Types, TypeOK, LocalTypes
  <1>6. CASE ReleaseWrite(w)
    <2>1. ASSUME NEW i \in Items
          PROVE [item[i] EXCEPT !.state = "open", !.period = job[w].period] \in Row
      <3>1. job[w].period \in Periods
        BY <1>b DEF Job
      <3>2. item[i] \in Row
        BY <1>a DEF TypeOK
      <3> QED BY <3>1, <3>2 DEF Row
    <2>2. item' \in [Items -> Row]
      <3>1. item' = [i \in Items |-> IF i \in job[w].picked
                        THEN [item[i] EXCEPT !.state = "open", !.period = job[w].period]
                        ELSE item[i]]
        BY <1>6 DEF ReleaseWrite
      <3>2. item \in [Items -> Row]
        BY <1>a DEF TypeOK
      <3> QED BY <2>1, <3>1, <3>2
    <2>3. LocalTypes
      BY <1>6, DoneTypes DEF ReleaseWrite
    <2> QED BY <1>6, <2>2, <2>3, <1>a DEF ReleaseWrite, Types, TypeOK, LocalTypes
  <1>7. CASE RejectWrite(w)
    <2>1. ASSUME NEW i \in Items PROVE [item[i] EXCEPT !.state = "rejected"] \in Row
      <3>1. item[i] \in Row
        BY <1>a DEF TypeOK
      <3> QED BY <3>1 DEF Row
    <2>2. item' \in [Items -> Row]
      BY <1>7, <2>1, <1>a DEF RejectWrite, TypeOK
    <2>3. LocalTypes
      BY <1>7, DoneTypes DEF RejectWrite
    <2> QED BY <1>7, <2>2, <2>3, <1>a DEF RejectWrite, Types, TypeOK, LocalTypes
  <1> QED BY <1>2, <1>3, <1>4, <1>5, <1>6, <1>7 DEF Finish

(* Every statement keeps the rows and the requests' reads in their types. *)
LEMMA NextTypes == Types /\ [Next]_vars => Types'
  <1> SUFFICES ASSUME Types, [Next]_vars PROVE Types'
    OBVIOUS
  <1>1. ASSUME NEW w \in Workers, Crash(w) PROVE Types'
    BY <1>1, DoneTypes DEF Crash, db, Types, TypeOK, LocalTypes
  <1>2. CASE UNCHANGED vars
    BY <1>2 DEF vars, Types, TypeOK, EditResolved
  <1> QED BY <1>1, <1>2, UpstreamTypes, RequestTypes, PassTypes, FinishTypes DEF Next

(* Every reachable state is well-typed, whatever interleaves or dies; an   *)
(* edit of updateEntry never writes "left out" into a slip.                *)
THEOREM TypesAreKept == Spec => []TypeOK
  <1>1. Types => TypeOK
    BY DEF Types
  <1> QED BY <1>1, InitTypes, NextTypes, PTL DEF Spec

-----------------------------------------------------------------------------
(* Steps outside the loop of processRun: uploads of ledger rows, the other *)
(* handlers, and crashes.                                                  *)

RowsKept ==
    \A i \in Items :
        /\ item[i].state # "absent" => /\ item'[i].state # "absent"
                                       /\ item'[i].period = item[i].period
        /\ item[i].settled => item'[i].settled /\ item'[i].entry = item[i].entry

CountsKept == \A s \in Slips : slip'[s].terms.count = slip[s].terms.count

(* Worker v does not move, or ends up outside processRun. *)
StaysOrLeaves(v) ==
    \/ pc'[v] = pc[v] /\ job'[v] = job[v]
    \/ /\ pc'[v] \notin PassPC
       /\ pc'[v] = "release" =>
              \A i \in job'[v].picked :
                  item'[i].state # "absent" /\ item'[i].period = job'[v].period

Outside ==
    /\ RowsKept
    /\ \A i \in Items : item'[i].settled = item[i].settled
    /\ CountsKept
    /\ \A l \in Loans : loan'[l] = "CLOSED" => loan[l] = "CLOSED"
    /\ \A p \in Periods : run'[p] = run[p] \/ run'[p] \notin {"NONE", "COMPLETED"}
    /\ \A v \in Workers : StaysOrLeaves(v)

(* What the induction needs beyond types, and the sets its parts speak of. *)
Safe ==
    /\ SamePeriod
    /\ OnePass /\ PassKeepsRunOpen /\ ReleaseKeepsPeriod
    /\ PickedIsDue /\ PickedIsNew /\ PickedIsCounted
    /\ CountedIsDue /\ CountedIsSettled /\ SettledIsPaid /\ ClosedIsSettled

LEMMA PassStages ==
  /\ BeforeUpsert \subseteq PassPC \ {"start"}
  /\ AfterUpsert \subseteq PassPC \ {"start"}
  /\ BeforeUpsert \cap AfterUpsert = {}
  /\ "release" \notin PassPC
  /\ \A i \in Items : MarkAhead(i) \subseteq AfterUpsert
  BY DEF BeforeUpsert, AfterUpsert, PassPC, MarkAhead

LEMMA ItemsOfJob ==
  ASSUME TypeOK, NEW w \in Workers
  PROVE  /\ job[w].picked \in SUBSET Items
         /\ job[w].period \in Periods
         /\ job[w].emp \in Employees
         /\ job[w].base \in [Items -> Nat]
         /\ Here(w) = <<job[w].period, job[w].emp>>
  BY DEF TypeOK, Job, Here

LEMMA OutsideSafe == ASSUME Types, Types', Safe, Outside PROVE Safe'
  <1> USE DEF StaysOrLeaves
  <1>a. TypeOK /\ TypeOK'
    BY DEF Types
  <1>b. \A w \in Workers : /\ job[w].picked \in SUBSET Items
                           /\ job[w].period \in Periods
                           /\ Here(w) \in Slips /\ Here(w)[1] = job[w].period
    BY <1>a, ItemsOfJob, HereIsSlip
  <1>1. OnePass'
    BY DEF Safe, OnePass, Outside
  <1>2. PassKeepsRunOpen'
    BY <1>b DEF Safe, PassKeepsRunOpen, Outside
  <1>3. ReleaseKeepsPeriod'
    BY <1>b DEF Safe, ReleaseKeepsPeriod, Outside, RowsKept
  <1>4. PickedIsDue'
    BY <1>b, PassStages DEF Safe, PickedIsDue, Outside, RowsKept
  <1>5. PickedIsNew'
    <2> SUFFICES ASSUME NEW w \in Workers, pc'[w] \in BeforeUpsert
                 PROVE /\ job'[w].base = slip'[Here(w)'].terms.count
                       /\ \A i \in job'[w].picked :
                             Counted(Here(w), i)' = 0 /\ ~item'[i].settled
      BY DEF PickedIsNew
    <2>1. pc'[w] = pc[w] /\ job'[w] = job[w]
      BY PassStages DEF Outside
    <2> QED BY <1>b, <2>1 DEF Safe, PickedIsNew, Outside, CountsKept, Counted, Here
  <1>6. PickedIsCounted'
    <2> SUFFICES ASSUME NEW w \in Workers, pc'[w] \in AfterUpsert,
                        NEW i \in job'[w].picked
                 PROVE Counted(Here(w), i)' = 1
      BY DEF PickedIsCounted
    <2>1. pc'[w] = pc[w] /\ job'[w] = job[w]
      BY PassStages DEF Outside
    <2> QED BY <1>b, <2>1 DEF Safe, PickedIsCounted, Outside, CountsKept, Counted, Here
  <1>7. CountedIsDue'
    <2> SUFFICES ASSUME NEW s \in Slips, NEW i \in Items
                 PROVE /\ Counted(s, i)' \in {0, 1}
                       /\ Counted(s, i)' = 1 => /\ s = <<item'[i].period, EmpOf[i]>>
                                               /\ item'[i].state # "absent"
                                               /\ run'[s[1]] # "NONE"
      BY DEF CountedIsDue
    <2>1. Counted(s, i)' = Counted(s, i) /\ s[1] \in Periods
      BY DEF Outside, CountsKept, Counted, Slips
    <2> QED BY <2>1 DEF Safe, CountedIsDue, Outside, RowsKept
  <1>8. CountedIsSettled'
    <2> SUFFICES ASSUME NEW s \in Slips, NEW i \in Items, Counted(s, i)' = 1, ~item'[i].settled
                 PROVE \/ \E w \in Workers : /\ pc'[w] \in MarkAhead(i)
                                             /\ Here(w)' = s
                                             /\ i \in job'[w].picked
                       \/ ~Processing(s[1])' /\ run'[s[1]] # "COMPLETED"
      BY DEF CountedIsSettled, MarkAhead, AfterUpsert
    <2>1. Counted(s, i) = 1 /\ ~item[i].settled /\ s[1] \in Periods
      BY DEF Outside, CountsKept, Counted, Slips
    <2>2. ASSUME NEW w \in Workers, pc[w] \in MarkAhead(i), Here(w) = s, i \in job[w].picked,
                 ~(pc'[w] = pc[w] /\ job'[w] = job[w])
          PROVE ~Processing(s[1])' /\ run'[s[1]] # "COMPLETED"
      <3>1. pc[w] \in PassPC \ {"start"} /\ job[w].period = s[1]
        BY <1>b, <2>2, PassStages
      <3>2. pc'[w] \notin PassPC
        BY <2>2 DEF Outside
      <3>3. ~Processing(s[1])'
        BY <3>1, <3>2 DEF Processing, InPass, Safe, OnePass, Outside
      <3> QED BY <2>1, <3>1, <3>3 DEF Safe, PassKeepsRunOpen, Outside
    <2>3. CASE \E w \in Workers : pc[w] \in MarkAhead(i) /\ Here(w) = s /\ i \in job[w].picked
      <3>1. PICK w \in Workers : pc[w] \in MarkAhead(i) /\ Here(w) = s /\ i \in job[w].picked
        BY <2>3
      <3>2. CASE pc'[w] = pc[w] /\ job'[w] = job[w]
        <4>1. pc'[w] \in MarkAhead(i) /\ Here(w)' = s /\ i \in job'[w].picked
          BY <3>1, <3>2 DEF Here
        <4> QED BY <4>1
      <3>3. CASE ~(pc'[w] = pc[w] /\ job'[w] = job[w])
        BY <2>2, <3>1, <3>3
      <3> QED BY <3>2, <3>3
    <2>4. CASE ~Processing(s[1]) /\ run[s[1]] # "COMPLETED"
      <3>1. ~Processing(s[1])'
        BY <2>4 DEF Processing, InPass, Outside
      <3>2. run'[s[1]] # "COMPLETED"
        BY <2>1, <2>4 DEF Outside
      <3> QED BY <3>1, <3>2
    <2>5. \/ \E w \in Workers : pc[w] \in MarkAhead(i) /\ Here(w) = s /\ i \in job[w].picked
          \/ ~Processing(s[1]) /\ run[s[1]] # "COMPLETED"
      BY <2>1 DEF Safe, CountedIsSettled
    <2> QED BY <2>3, <2>4, <2>5
  <1>9. SettledIsPaid'
    <2> SUFFICES ASSUME NEW i \in Items, item'[i].settled
                 PROVE /\ \E p \in Periods : Counted(<<p, EmpOf[i]>>, i)' = 1
                       /\ i \notin Thanks => /\ item'[i].entry \in Slips
                                             /\ Counted(item[i].entry, i)' = 1
      BY DEF SettledIsPaid
    <2>1. item[i].settled /\ item'[i].entry = item[i].entry
      BY DEF Outside, RowsKept
    <2>2. \A p \in Periods : <<p, EmpOf[i]>> \in Slips
      BY ConstantsAssumption DEF Slips
    <2> QED BY <2>1, <2>2 DEF Safe, SettledIsPaid, Outside, CountsKept, Counted
  <1>10. ClosedIsSettled'
    BY ConstantsAssumption DEF Safe, ClosedIsSettled, Outside, Items
  <1> QED BY <1>1, <1>2, <1>3, <1>4, <1>5, <1>6, <1>7, <1>8, <1>9, <1>10 DEF Safe

-----------------------------------------------------------------------------
(* Steps of processRun. *)

OthersStay(w) == \A v \in Workers \ {w} : pc'[v] = pc[v] /\ job'[v] = job[v]

(* The reads of worker w are what UpsertEntry may accumulate. *)
ReadsAreGood(w) ==
    /\ job'[w].base = slip[<<job'[w].period, job'[w].emp>>].terms.count
    /\ \A i \in job'[w].picked :
          /\ EmpOf[i] = job'[w].emp
          /\ item[i].period = job'[w].period
          /\ item[i].state # "absent"
          /\ ~item[i].settled
          /\ slip[<<job'[w].period, job'[w].emp>>].terms.count[i] = 0

(* A statement that neither writes a slip nor marks a row. *)
Quiet(w) ==
    /\ UNCHANGED <<slip, item, loan>>
    /\ OthersStay(w)
    /\ pc[w] \in PassPC \ AfterUpsert
    /\ \/ pc'[w] = "idle"
       \/ /\ pc'[w] \in PassPC \ (AfterUpsert \cup {"start"})
          /\ job'[w].period = job[w].period
          /\ run'[job[w].period] # "COMPLETED"
    /\ run'[job[w].period] # "NONE"
    /\ \A p \in Periods \ {job[w].period} : run'[p] = run[p]
    /\ pc'[w] \in BeforeUpsert => ReadsAreGood(w)

LEMMA QuietSafe == ASSUME Types, Types', Safe, NEW w \in Workers, Quiet(w) PROVE Safe'
  <1> USE DEF OthersStay
  <1>a. TypeOK /\ TypeOK'
    BY DEF Types
  <1>b. \A v \in Workers : /\ job[v].picked \in SUBSET Items
                           /\ job[v].period \in Periods
                           /\ Here(v) \in Slips /\ Here(v)[1] = job[v].period
    BY <1>a, ItemsOfJob, HereIsSlip
  <1>c. "idle" \notin PassPC /\ "idle" # "release"
    BY DEF PassPC
  <1>1. OnePass'
    BY <1>c DEF Safe, OnePass, Quiet
  <1>2. PassKeepsRunOpen'
    <2> SUFFICES ASSUME NEW v \in Workers
                 PROVE /\ pc'[v] \in PassPC => run'[job'[v].period] # "NONE"
                       /\ pc'[v] \in PassPC \ {"start"} => run'[job'[v].period] # "COMPLETED"
      BY DEF PassKeepsRunOpen
    <2>1. CASE v = w
      BY <1>c, <2>1 DEF Quiet
    <2>2. CASE v # w /\ pc[v] \in PassPC
      <3>1. job[v].period # job[w].period
        BY <2>2 DEF Safe, OnePass, Quiet
      <3> QED BY <1>b, <2>2, <3>1 DEF Safe, PassKeepsRunOpen, Quiet
    <2> QED BY <2>1, <2>2 DEF Quiet
  <1>3. ReleaseKeepsPeriod'
    BY <1>c, PassStages DEF Safe, ReleaseKeepsPeriod, Quiet
  <1>4. PickedIsDue'
    <2> SUFFICES ASSUME NEW v \in Workers, pc'[v] \in BeforeUpsert \cup AfterUpsert
                 PROVE \A i \in job'[v].picked :
                          /\ EmpOf[i] = job'[v].emp
                          /\ item'[i].period = job'[v].period
                          /\ item'[i].state # "absent"
      BY DEF PickedIsDue
    <2>1. CASE v = w
      BY <1>c, <2>1, PassStages DEF Quiet, ReadsAreGood
    <2>2. CASE v # w
      BY <2>2 DEF Safe, PickedIsDue, Quiet
    <2> QED BY <2>1, <2>2
  <1>5. PickedIsNew'
    <2> SUFFICES ASSUME NEW v \in Workers, pc'[v] \in BeforeUpsert
                 PROVE /\ job'[v].base = slip'[Here(v)'].terms.count
                       /\ \A i \in job'[v].picked :
                             slip'[Here(v)'].terms.count[i] = 0 /\ ~item'[i].settled
      BY DEF PickedIsNew, Counted
    <2>1. CASE v = w
      BY <2>1 DEF Quiet, ReadsAreGood, Here
    <2>2. CASE v # w
      BY <2>2 DEF Safe, PickedIsNew, Quiet, Here, Counted
    <2> QED BY <2>1, <2>2
  <1>6. PickedIsCounted'
    <2> SUFFICES ASSUME NEW v \in Workers, pc'[v] \in AfterUpsert, NEW i \in job'[v].picked
                 PROVE slip'[Here(v)'].terms.count[i] = 1
      BY DEF PickedIsCounted, Counted
    <2>1. v # w
      BY <1>c, PassStages DEF Quiet
    <2> QED BY <2>1 DEF Safe, PickedIsCounted, Quiet, Here, Counted
  <1>7. CountedIsDue'
    <2>1. \A s \in Slips : s[1] \in Periods
      BY DEF Slips
    <2>2. \A p \in Periods : run[p] # "NONE" => run'[p] # "NONE"
      BY DEF Quiet
    <2> QED BY <2>1, <2>2 DEF Safe, CountedIsDue, Quiet, Counted
  <1>8. CountedIsSettled'
    <2> SUFFICES ASSUME NEW s \in Slips, NEW i \in Items, Counted(s, i)' = 1, ~item'[i].settled
                 PROVE \/ \E v \in Workers : /\ pc'[v] \in MarkAhead(i)
                                             /\ Here(v)' = s
                                             /\ i \in job'[v].picked
                       \/ ~Processing(s[1])' /\ run'[s[1]] # "COMPLETED"
      BY DEF CountedIsSettled, MarkAhead, AfterUpsert
    <2>1. Counted(s, i) = 1 /\ ~item[i].settled /\ s[1] \in Periods
      BY DEF Quiet, Counted, Slips
    <2>2. CASE \E v \in Workers : pc[v] \in MarkAhead(i) /\ Here(v) = s /\ i \in job[v].picked
      <3>1. PICK v \in Workers : pc[v] \in MarkAhead(i) /\ Here(v) = s /\ i \in job[v].picked
        BY <2>2
      <3>2. v # w
        BY <3>1, PassStages DEF Quiet
      <3>3. pc'[v] \in MarkAhead(i) /\ Here(v)' = s /\ i \in job'[v].picked
        BY <3>1, <3>2 DEF Quiet, Here
      <3> QED BY <3>3
    <2>3. CASE ~Processing(s[1]) /\ run[s[1]] # "COMPLETED"
      <3>1. s[1] # job[w].period
        BY <2>3 DEF Processing, InPass, Quiet
      <3>2. ~Processing(s[1])'
        BY <1>c, <2>3, <3>1 DEF Processing, InPass, Quiet
      <3>3. run'[s[1]] # "COMPLETED"
        BY <2>1, <2>3, <3>1 DEF Quiet
      <3> QED BY <3>2, <3>3
    <2>4. \/ \E v \in Workers : pc[v] \in MarkAhead(i) /\ Here(v) = s /\ i \in job[v].picked
          \/ ~Processing(s[1]) /\ run[s[1]] # "COMPLETED"
      BY <2>1 DEF Safe, CountedIsSettled
    <2> QED BY <2>2, <2>3, <2>4
  <1>9. SettledIsPaid'
    BY DEF Safe, SettledIsPaid, Quiet, Counted
  <1>10. ClosedIsSettled'
    BY DEF Safe, ClosedIsSettled, Quiet
  <1> QED BY <1>1, <1>2, <1>3, <1>4, <1>5, <1>6, <1>7, <1>8, <1>9, <1>10 DEF Safe

(* A pass begins: the run was created just now, or was COMPLETED with no   *)
(* pass under way, so whatever its slips hold is settled.                  *)
Enter(w) ==
    /\ UNCHANGED <<slip, item, loan>>
    /\ OthersStay(w)
    /\ pc[w] \notin PassPC
    /\ pc'[w] = "start"
    /\ ~Processing(job'[w].period)
    /\ run[job'[w].period] \in {"NONE", "COMPLETED"}
    /\ run'[job'[w].period] # "NONE"
    /\ \A p \in Periods \ {job'[w].period} : run'[p] = run[p]

LEMMA EnterSafe == ASSUME Types, Types', Safe, NEW w \in Workers, Enter(w) PROVE Safe'
  <1> USE DEF OthersStay
  <1>a. TypeOK /\ TypeOK'
    BY DEF Types
  <1>b. \A v \in Workers : Here(v) \in Slips /\ Here(v)[1] = job[v].period /\ job[v].period \in Periods
    BY <1>a, ItemsOfJob, HereIsSlip
  <1>c. /\ pc'[w] \notin BeforeUpsert \cup AfterUpsert \cup {"release"}
        /\ pc'[w] \notin PassPC \ {"start"}
    BY DEF Enter, BeforeUpsert, AfterUpsert
  <1>1. OnePass'
    BY DEF Safe, OnePass, Enter, Processing, InPass
  <1>2. PassKeepsRunOpen'
    <2> SUFFICES ASSUME NEW v \in Workers
                 PROVE /\ pc'[v] \in PassPC => run'[job'[v].period] # "NONE"
                       /\ pc'[v] \in PassPC \ {"start"} => run'[job'[v].period] # "COMPLETED"
      BY DEF PassKeepsRunOpen
    <2>1. CASE v = w
      BY <1>c, <2>1 DEF Enter
    <2>2. CASE v # w /\ pc[v] \in PassPC
      <3>1. job[v].period # job'[w].period
        BY <2>2 DEF Enter, Processing, InPass
      <3> QED BY <1>b, <2>2, <3>1 DEF Safe, PassKeepsRunOpen, Enter
    <2> QED BY <2>1, <2>2 DEF Enter
  <1>3. ReleaseKeepsPeriod'
    BY <1>c DEF Safe, ReleaseKeepsPeriod, Enter
  <1>4. PickedIsDue'
    BY <1>c DEF Safe, PickedIsDue, Enter
  <1>5. PickedIsNew'
    BY <1>c DEF Safe, PickedIsNew, Enter, Here, Counted
  <1>6. PickedIsCounted'
    BY <1>c DEF Safe, PickedIsCounted, Enter, Here, Counted
  <1>7. CountedIsDue'
    <2>1. \A s \in Slips : s[1] \in Periods
      BY DEF Slips
    <2>2. \A p \in Periods : run[p] # "NONE" => run'[p] # "NONE"
      BY DEF Enter
    <2> QED BY <2>1, <2>2 DEF Safe, CountedIsDue, Enter, Counted
  <1>8. CountedIsSettled'
    <2> SUFFICES ASSUME NEW s \in Slips, NEW i \in Items, Counted(s, i)' = 1, ~item'[i].settled
                 PROVE \/ \E v \in Workers : /\ pc'[v] \in MarkAhead(i)
                                             /\ Here(v)' = s
                                             /\ i \in job'[v].picked
                       \/ ~Processing(s[1])' /\ run'[s[1]] # "COMPLETED"
      BY DEF CountedIsSettled, MarkAhead, AfterUpsert
    <2>1. Counted(s, i) = 1 /\ ~item[i].settled /\ s[1] \in Periods
      BY DEF Enter, Counted, Slips
    <2>2. CASE \E v \in Workers : pc[v] \in MarkAhead(i) /\ Here(v) = s /\ i \in job[v].picked
      <3>1. PICK v \in Workers : pc[v] \in MarkAhead(i) /\ Here(v) = s /\ i \in job[v].picked
        BY <2>2
      <3>2. v # w
        BY <3>1, PassStages DEF Enter
      <3>3. pc'[v] \in MarkAhead(i) /\ Here(v)' = s /\ i \in job'[v].picked
        BY <3>1, <3>2 DEF Enter, Here
      <3> QED BY <3>3
    <2>3. CASE ~Processing(s[1]) /\ run[s[1]] # "COMPLETED"
      <3>1. s[1] # job'[w].period
        BY <2>1, <2>3 DEF Safe, CountedIsDue, Enter
      <3>2. ~Processing(s[1])'
        BY <2>3, <3>1 DEF Processing, InPass, Enter
      <3>3. run'[s[1]] # "COMPLETED"
        BY <2>1, <2>3, <3>1 DEF Enter
      <3> QED BY <3>2, <3>3
    <2>4. \/ \E v \in Workers : pc[v] \in MarkAhead(i) /\ Here(v) = s /\ i \in job[v].picked
          \/ ~Processing(s[1]) /\ run[s[1]] # "COMPLETED"
      BY <2>1 DEF Safe, CountedIsSettled
    <2> QED BY <2>2, <2>3, <2>4
  <1>9. SettledIsPaid'
    BY DEF Safe, SettledIsPaid, Enter, Counted
  <1>10. ClosedIsSettled'
    BY DEF Safe, ClosedIsSettled, Enter
  <1> QED BY <1>1, <1>2, <1>3, <1>4, <1>5, <1>6, <1>7, <1>8, <1>9, <1>10 DEF Safe

(* The slip takes in the picked amounts and the pass is about to mark them. *)
Upsert(w) ==
    /\ UNCHANGED <<run, item, loan, job>>
    /\ OthersStay(w)
    /\ pc[w] \in BeforeUpsert
    /\ pc'[w] = "markEmis"
    /\ \A s \in Slips \ {Here(w)} : slip'[s] = slip[s]
    /\ \A i \in Items : slip'[Here(w)].terms.count[i] =
          IF i \in job[w].picked THEN 1 ELSE slip[Here(w)].terms.count[i]

LEMMA UpsertSafe == ASSUME Types, Types', Safe, NEW w \in Workers, Upsert(w) PROVE Safe'
  <1> USE DEF OthersStay
  <1>a. TypeOK /\ TypeOK'
    BY DEF Types
  <1>b. \A v \in Workers : /\ job[v].picked \in SUBSET Items
                           /\ job[v].period \in Periods
                           /\ Here(v) \in Slips
                           /\ Here(v) = <<job[v].period, job[v].emp>>
                           /\ Here(v)' = Here(v)
    BY <1>a, ItemsOfJob, HereIsSlip DEF Upsert, Here
  <1>c. pc'[w] \in AfterUpsert /\ pc'[w] \in PassPC \ {"start"}
    BY PassStages DEF Upsert, AfterUpsert
  <1>d. pc[w] \in PassPC \ {"start"}
    BY PassStages DEF Upsert
  <1>e. \A v \in Workers \ {w} : pc[v] \in PassPC => Here(v) # Here(w)
    BY <1>b, <1>d DEF Safe, OnePass
  <1>f. \A s \in Slips, i \in Items :
          Counted(s, i)' = IF s = Here(w) /\ i \in job[w].picked THEN 1 ELSE Counted(s, i)
    BY <1>b DEF Upsert, Counted
  <1>1. OnePass'
    BY <1>c, <1>d DEF Safe, OnePass, Upsert
  <1>2. PassKeepsRunOpen'
    BY <1>c, <1>d DEF Safe, PassKeepsRunOpen, Upsert
  <1>3. ReleaseKeepsPeriod'
    BY <1>c, PassStages DEF Safe, ReleaseKeepsPeriod, Upsert
  <1>4. PickedIsDue'
    BY <1>c DEF Safe, PickedIsDue, Upsert
  <1>5. PickedIsNew'
    <2> SUFFICES ASSUME NEW v \in Workers, pc'[v] \in BeforeUpsert
                 PROVE /\ job'[v].base = slip'[Here(v)'].terms.count
                       /\ \A i \in job'[v].picked :
                             slip'[Here(v)'].terms.count[i] = 0 /\ ~item'[i].settled
      BY DEF PickedIsNew, Counted
    <2>1. v # w /\ pc[v] \in BeforeUpsert /\ pc[v] \in PassPC
      BY <1>c, PassStages DEF Upsert
    <2>2. slip'[Here(v)] = slip[Here(v)]
      BY <1>b, <1>e, <2>1 DEF Upsert
    <2> QED BY <1>b, <2>1, <2>2 DEF Safe, PickedIsNew, Upsert, Counted
  <1>6. PickedIsCounted'
    <2> SUFFICES ASSUME NEW v \in Workers, pc'[v] \in AfterUpsert, NEW i \in job'[v].picked
                 PROVE slip'[Here(v)'].terms.count[i] = 1
      BY DEF PickedIsCounted, Counted
    <2>1. i \in job[v].picked /\ i \in Items
      BY <1>b DEF Upsert
    <2>2. CASE v = w
      BY <1>b, <2>1, <2>2 DEF Upsert
    <2>3. CASE v # w
      <3>1. Counted(Here(v), i) = 1
        BY <2>1, <2>3 DEF Safe, PickedIsCounted, Upsert
      <3> QED BY <1>b, <1>f, <2>1, <3>1 DEF Counted
    <2> QED BY <2>2, <2>3
  <1>7. CountedIsDue'
    <2> SUFFICES ASSUME NEW s \in Slips, NEW i \in Items
                 PROVE /\ Counted(s, i)' \in {0, 1}
                       /\ Counted(s, i)' = 1 => /\ s = <<item[i].period, EmpOf[i]>>
                                               /\ item[i].state # "absent"
                                               /\ run[s[1]] # "NONE"
      BY DEF CountedIsDue, Upsert
    <2>1. CASE s = Here(w) /\ i \in job[w].picked
      <3>1. EmpOf[i] = job[w].emp /\ item[i].period = job[w].period /\ item[i].state # "absent"
        BY <2>1 DEF Safe, PickedIsDue, Upsert
      <3>2. run[job[w].period] # "NONE"
        BY <1>d DEF Safe, PassKeepsRunOpen
      <3>3. s = <<job[w].period, job[w].emp>>
        BY <1>b, <2>1
      <3> QED BY <1>f, <2>1, <3>1, <3>2, <3>3
    <2>2. CASE ~(s = Here(w) /\ i \in job[w].picked)
      BY <1>f, <2>2 DEF Safe, CountedIsDue
    <2> QED BY <2>1, <2>2
  <1>8. CountedIsSettled'
    <2> SUFFICES ASSUME NEW s \in Slips, NEW i \in Items, Counted(s, i)' = 1, ~item[i].settled
                 PROVE \/ \E v \in Workers : /\ pc'[v] \in MarkAhead(i)
                                             /\ Here(v)' = s
                                             /\ i \in job'[v].picked
                       \/ ~Processing(s[1])' /\ run[s[1]] # "COMPLETED"
      BY DEF CountedIsSettled, MarkAhead, AfterUpsert, Upsert
    <2>1. CASE s = Here(w) /\ i \in job[w].picked
      <3>1. pc'[w] \in MarkAhead(i)
        BY DEF Upsert, MarkAhead, AfterUpsert
      <3> QED BY <1>b, <2>1, <3>1 DEF Upsert
    <2>2. CASE ~(s = Here(w) /\ i \in job[w].picked)
      <3>1. Counted(s, i) = 1
        BY <1>f, <2>2
      <3>2. CASE \E v \in Workers : pc[v] \in MarkAhead(i) /\ Here(v) = s /\ i \in job[v].picked
        <4>1. PICK v \in Workers : pc[v] \in MarkAhead(i) /\ Here(v) = s /\ i \in job[v].picked
          BY <3>2
        <4>2. v # w
          BY <4>1, PassStages DEF Upsert
        <4>3. pc'[v] \in MarkAhead(i) /\ Here(v)' = s /\ i \in job'[v].picked
          BY <1>b, <4>1, <4>2 DEF Upsert
        <4> QED BY <4>3
      <3>3. CASE ~Processing(s[1]) /\ run[s[1]] # "COMPLETED"
        <4>1. ~Processing(s[1])'
          BY <1>d, <3>3 DEF Processing, InPass, Upsert
        <4> QED BY <3>3, <4>1
      <3>4. \/ \E v \in Workers : pc[v] \in MarkAhead(i) /\ Here(v) = s /\ i \in job[v].picked
            \/ ~Processing(s[1]) /\ run[s[1]] # "COMPLETED"
        BY <3>1 DEF Safe, CountedIsSettled
      <3> QED BY <3>2, <3>3, <3>4
    <2> QED BY <2>1, <2>2
  <1>9. SettledIsPaid'
    <2> SUFFICES ASSUME NEW i \in Items, item[i].settled
                 PROVE /\ \E p \in Periods : Counted(<<p, EmpOf[i]>>, i)' = 1
                       /\ i \notin Thanks => /\ item[i].entry \in Slips
                                             /\ slip'[item[i].entry].terms.count[i] = 1
      BY DEF SettledIsPaid, Upsert, Counted
    <2>1. \A p \in Periods : <<p, EmpOf[i]>> \in Slips
      BY ConstantsAssumption DEF Slips
    <2>2. \A s \in Slips : Counted(s, i) = 1 => slip'[s].terms.count[i] = 1
      BY <1>f DEF Counted
    <2>3. /\ \E p \in Periods : Counted(<<p, EmpOf[i]>>, i) = 1
          /\ i \notin Thanks => item[i].entry \in Slips /\ Counted(item[i].entry, i) = 1
      BY DEF Safe, SettledIsPaid
    <2> QED BY <2>1, <2>2, <2>3 DEF Counted
  <1>10. ClosedIsSettled'
    BY DEF Safe, ClosedIsSettled, Upsert
  <1> QED BY <1>1, <1>2, <1>3, <1>4, <1>5, <1>6, <1>7, <1>8, <1>9, <1>10 DEF Safe

(* Rows of the marked kind are settled and linked; a loan is closed only    *)
(* when its rows are settled.                                               *)
Mark(w, marked) ==
    /\ UNCHANGED <<run, slip, job>>
    /\ OthersStay(w)
    /\ pc[w] \in AfterUpsert
    /\ pc'[w] \in PassPC \ (BeforeUpsert \cup {"start"})
    /\ marked \subseteq job[w].picked
    /\ \A i \in Items : /\ item'[i].state = item[i].state
                         /\ item'[i].period = item[i].period
    /\ \A i \in Items \ marked : item'[i] = item[i]
    /\ \A i \in marked : item'[i].settled /\ (i \notin Thanks => item'[i].entry = Here(w))
    /\ \A i \in job[w].picked :
          pc[w] \in MarkAhead(i) => pc'[w] \in MarkAhead(i) \/ i \in marked
    /\ pc'[w] \in AfterUpsert \cup {"loop"}
    /\ \A l \in Loans : loan'[l] = "CLOSED" /\ loan[l] # "CLOSED" =>
          \A i \in Emis : LoanOf[i] = l => item[i].settled

LEMMA MarkSafe ==
  ASSUME Types, Types', Safe, NEW w \in Workers, NEW marked, Mark(w, marked) PROVE Safe'
  <1> USE DEF OthersStay
  <1>a. TypeOK /\ TypeOK'
    BY DEF Types
  <1>b. \A v \in Workers : /\ job[v].picked \in SUBSET Items
                           /\ job[v].period \in Periods
                           /\ Here(v) \in Slips
                           /\ Here(v) = <<job[v].period, job[v].emp>>
                           /\ Here(v)' = Here(v)
    BY <1>a, ItemsOfJob, HereIsSlip DEF Mark, Here
  <1>c. pc[w] \in PassPC \ {"start"} /\ pc'[w] # "release"
    BY PassStages DEF Mark
  <1>d. \A s \in Slips, i \in Items : Counted(s, i)' = Counted(s, i)
    BY DEF Mark, Counted
  <1>e. \A i \in Items : item[i].settled => item'[i].settled
    BY DEF Mark
  <1>1. OnePass'
    BY <1>c DEF Safe, OnePass, Mark
  <1>2. PassKeepsRunOpen'
    BY <1>c DEF Safe, PassKeepsRunOpen, Mark
  <1>3. ReleaseKeepsPeriod'
    BY <1>b, <1>c DEF Safe, ReleaseKeepsPeriod, Mark
  <1>4. PickedIsDue'
    BY <1>b DEF Safe, PickedIsDue, Mark
  <1>5. PickedIsNew'
    <2> SUFFICES ASSUME NEW v \in Workers, pc'[v] \in BeforeUpsert
                 PROVE /\ job'[v].base = slip'[Here(v)'].terms.count
                       /\ \A i \in job'[v].picked :
                             slip'[Here(v)'].terms.count[i] = 0 /\ ~item'[i].settled
      BY DEF PickedIsNew, Counted
    <2>1. v # w /\ pc[v] \in BeforeUpsert
      BY DEF Mark
    <2>2. /\ job[v].base = slip[Here(v)].terms.count
          /\ \A i \in job[v].picked : slip[Here(v)].terms.count[i] = 0 /\ ~item[i].settled
      BY <2>1 DEF Safe, PickedIsNew, Counted
    <2>3. job[v].period # job[w].period
      BY <1>c, <2>1, PassStages DEF Safe, OnePass
    <2>4. \A i \in job[v].picked : i \notin job[w].picked
      BY <2>1, <2>3 DEF Safe, PickedIsDue, Mark
    <2>5. \A i \in job[v].picked : item'[i] = item[i]
      BY <1>b, <2>4 DEF Mark
    <2> QED BY <1>b, <2>2, <2>5 DEF Mark
  <1>6. PickedIsCounted'
    <2> SUFFICES ASSUME NEW v \in Workers, pc'[v] \in AfterUpsert, NEW i \in job'[v].picked
                 PROVE slip'[Here(v)'].terms.count[i] = 1
      BY DEF PickedIsCounted, Counted
    <2>1. pc[v] \in AfterUpsert /\ i \in job[v].picked
      BY DEF Mark
    <2> QED BY <1>b, <2>1 DEF Safe, PickedIsCounted, Mark, Counted
  <1>7. CountedIsDue'
    BY <1>d DEF Safe, CountedIsDue, Mark
  <1>8. CountedIsSettled'
    <2> SUFFICES ASSUME NEW s \in Slips, NEW i \in Items, Counted(s, i)' = 1, ~item'[i].settled
                 PROVE \/ \E v \in Workers : /\ pc'[v] \in MarkAhead(i)
                                             /\ Here(v)' = s
                                             /\ i \in job'[v].picked
                       \/ ~Processing(s[1])' /\ run[s[1]] # "COMPLETED"
      BY DEF CountedIsSettled, MarkAhead, AfterUpsert, Mark
    <2>1. Counted(s, i) = 1 /\ ~item[i].settled /\ i \notin marked
      BY <1>d, <1>e DEF Mark
    <2>2. CASE \E v \in Workers : pc[v] \in MarkAhead(i) /\ Here(v) = s /\ i \in job[v].picked
      <3>1. PICK v \in Workers : pc[v] \in MarkAhead(i) /\ Here(v) = s /\ i \in job[v].picked
        BY <2>2
      <3>2. pc'[v] \in MarkAhead(i)
        BY <2>1, <3>1 DEF Mark
      <3>3. Here(v)' = s /\ i \in job'[v].picked
        BY <1>b, <3>1 DEF Mark
      <3> QED BY <3>2, <3>3
    <2>3. CASE ~Processing(s[1]) /\ run[s[1]] # "COMPLETED"
      <3>1. ~Processing(s[1])'
        BY <1>c, <2>3 DEF Processing, InPass, Mark
      <3> QED BY <2>3, <3>1
    <2>4. \/ \E v \in Workers : pc[v] \in MarkAhead(i) /\ Here(v) = s /\ i \in job[v].picked
          \/ ~Processing(s[1]) /\ run[s[1]] # "COMPLETED"
      BY <2>1 DEF Safe, CountedIsSettled
    <2> QED BY <2>2, <2>3, <2>4
  <1>9. SettledIsPaid'
    <2> SUFFICES ASSUME NEW i \in Items, item'[i].settled
                 PROVE /\ \E p \in Periods : Counted(<<p, EmpOf[i]>>, i)' = 1
                       /\ i \notin Thanks => /\ item'[i].entry \in Slips
                                             /\ slip'[item'[i].entry].terms.count[i] = 1
      BY DEF SettledIsPaid, Counted
    <2>1. \A p \in Periods : <<p, EmpOf[i]>> \in Slips
      BY ConstantsAssumption DEF Slips
    <2>2. CASE i \in marked
      <3>1. Counted(Here(w), i) = 1
        BY <2>2 DEF Safe, PickedIsCounted, Mark
      <3>2. Here(w) = <<job[w].period, EmpOf[i]>> /\ job[w].period \in Periods
        BY <1>b, <2>2 DEF Safe, PickedIsDue, Mark
      <3> QED BY <1>b, <2>1, <2>2, <3>1, <3>2 DEF Counted, Mark
    <2>3. CASE i \notin marked
      <3>1. item'[i] = item[i]
        BY <2>3 DEF Mark
      <3>2. /\ \E p \in Periods : Counted(<<p, EmpOf[i]>>, i) = 1
            /\ i \notin Thanks => item[i].entry \in Slips /\ Counted(item[i].entry, i) = 1
        BY <3>1 DEF Safe, SettledIsPaid
      <3> QED BY <3>1, <3>2 DEF Counted, Mark
    <2> QED BY <2>2, <2>3
  <1>10. ClosedIsSettled'
    <2> SUFFICES ASSUME NEW i \in Emis, loan'[LoanOf[i]] = "CLOSED" PROVE item'[i].settled
      BY DEF ClosedIsSettled
    <2>1. LoanOf[i] \in Loans /\ i \in Items
      BY ConstantsAssumption DEF Items
    <2> QED BY <1>e, <2>1 DEF Safe, ClosedIsSettled, Mark
  <1> QED BY <1>1, <1>2, <1>3, <1>4, <1>5, <1>6, <1>7, <1>8, <1>9, <1>10 DEF Safe

-----------------------------------------------------------------------------
(* Every step of the specification is of one of the five kinds.            *)

Kinds == \/ Outside
         \/ \E w \in Workers : \/ Quiet(w) \/ Enter(w) \/ Upsert(w)
                              \/ \E marked \in SUBSET Items : Mark(w, marked)

LEMMA UpstreamKind == ASSUME Types, Upstream PROVE Outside
  <1> USE DEF Types, TypeOK, Outside, RowsKept, CountsKept, StaysOrLeaves
  <1>1. ASSUME NEW l \in Loans, PostLoan(l) PROVE Outside
    <2>1. \A i \in Items : /\ item'[i].period = item[i].period
                           /\ item'[i].settled = item[i].settled
                           /\ item'[i].entry = item[i].entry
                           /\ item'[i].state \in {item[i].state, "open"}
      BY <1>1 DEF PostLoan, Row
    <2> QED BY <1>1, <2>1 DEF PostLoan
  <1>2. ASSUME NEW i \in Items, NEW p \in Periods, NEW st \in {"held", "open"},
               item[i].state = "absent",
               item' = [item EXCEPT ![i] = [@ EXCEPT !.state = st, !.period = p]],
               UNCHANGED <<run, slip, loan, pc, job>>
        PROVE Outside
    <2>1. \A k \in Items : /\ item'[k].settled = item[k].settled
                           /\ item'[k].entry = item[k].entry
                           /\ item[k].state # "absent" => item'[k] = item[k]
      BY <1>2 DEF Row
    <2> QED BY <1>2, <2>1
  <1>3. ASSUME NEW i \in Incentives, NEW p \in Periods, NEW hold \in BOOLEAN,
               PostIncentive(i, p, hold) PROVE Outside
    BY <1>2, <1>3 DEF PostIncentive, Items
  <1>4. ASSUME NEW i \in Thanks, NEW p \in Periods, PostThanks(i, p) PROVE Outside
    BY <1>2, <1>4 DEF PostThanks, Items
  <1> QED BY <1>1, <1>3, <1>4 DEF Upstream

(* Worker w goes to a place outside processRun and writes nothing. *)
LEMMA LeaveKind ==
  ASSUME Types, NEW w \in Workers, NEW j \in Job, NEW c \in PC \ PassPC, UNCHANGED db,
         Note(w, j), Goto(w, c),
         c = "release" => \A i \in j.picked : item[i].state # "absent" /\ item[i].period = j.period
  PROVE  Outside
  <1>1. TypeOK
    BY DEF Types
  <1>2. \A v \in Workers : StaysOrLeaves(v)
    BY <1>1, NoteStep, GotoStep DEF StaysOrLeaves, db
  <1> QED BY <1>2 DEF Outside, RowsKept, CountsKept, db

LEMMA DoneKind == ASSUME Types, NEW w \in Workers, Done(w) PROVE \A v \in Workers : StaysOrLeaves(v)
  <1>1. TypeOK
    BY DEF Types
  <1> QED BY <1>1, DoneStep DEF StaysOrLeaves, PassPC

LEMMA EnterKind ==
  ASSUME Types, NEW w \in Workers, NEW p \in Periods,
         UNCHANGED <<slip, item, loan>>, Goto(w, "start"),
         Note(w, [job[w] EXCEPT !.period = p]) \/ (UNCHANGED job /\ job[w].period = p),
         pc[w] \notin PassPC, ~Processing(p), run[p] \in {"NONE", "COMPLETED"},
         run'[p] # "NONE", \A q \in Periods \ {p} : run'[q] = run[q]
  PROVE  Enter(w)
  <1>1. TypeOK /\ "start" \in PC
    BY DEF Types, PC, PassPC
  <1>2. pc'[w] = "start" /\ \A v \in Workers \ {w} : pc'[v] = pc[v]
    BY <1>1, GotoStep
  <1>3. job'[w].period = p /\ \A v \in Workers \ {w} : job'[v] = job[v]
    <2>1. [job[w] EXCEPT !.period = p] \in Job /\ [job[w] EXCEPT !.period = p].period = p
      <3>1. job[w] \in Job
        BY <1>1 DEF TypeOK
      <3> QED BY <3>1 DEF Job
    <2>2. CASE Note(w, [job[w] EXCEPT !.period = p])
      <3>1. job'[w] = [job[w] EXCEPT !.period = p] /\ \A v \in Workers \ {w} : job'[v] = job[v]
        BY <1>1, <2>1, <2>2, NoteStep
      <3> QED BY <2>1, <3>1
    <2>3. CASE UNCHANGED job /\ job[w].period = p
      BY <2>3
    <2> QED BY <2>2, <2>3
  <1> QED BY <1>2, <1>3 DEF Enter, OthersStay

LEMMA RequestKind == ASSUME Types, Safe, NEW w \in Workers, Request(w) PROVE Kinds
  <1>a. /\ TypeOK /\ job[w] \in Job
        /\ {"create", "approve", "disburse", "release", "reject", "updateRead"} \subseteq PC \ PassPC
        /\ "idle" \notin PassPC
    BY DEF Types, TypeOK, PC, PassPC
  <1>1. ASSUME NEW p \in Periods, NEW c \in {"create", "approve", "disburse"},
               Note(w, [job[w] EXCEPT !.period = p]), Goto(w, c), UNCHANGED db
        PROVE Outside
    <2>1. [job[w] EXCEPT !.period = p] \in Job
      BY <1>a DEF Job
    <2> QED BY <1>a, <1>1, <2>1, LeaveKind
  <1>2. ASSUME NEW p \in Periods, InitiateRun(w, p) PROVE Outside
    BY <1>1, <1>2 DEF InitiateRun
  <1>3. ASSUME NEW p \in Periods, ReprocessRun(w, p) PROVE Enter(w)
    BY <1>a, <1>3, EnterKind DEF ReprocessRun, Processing, db
  <1>4. ASSUME NEW p \in Periods, ApproveRead(w, p) PROVE Outside
    BY <1>1, <1>4 DEF ApproveRead, StatusRead
  <1>5. ASSUME NEW p \in Periods, DisburseRead(w, p) PROVE Outside
    BY <1>1, <1>5 DEF DisburseRead, StatusRead
  <1>6. ASSUME NEW p \in Periods, NEW i \in Items, NEW c \in {"release", "reject"},
               DecideRead(w, i, p, c) PROVE Outside
    <2> DEFINE j == [job[w] EXCEPT !.period = p, !.picked = {i}]
    <2>1. j \in Job /\ j.period = p /\ j.picked = {i}
      BY <1>a DEF Job
    <2>2. item[i].state # "absent" /\ item[i].period = p
      BY <1>6 DEF DecideRead, Safe, SamePeriod
    <2> QED BY <1>a, <1>6, <2>1, <2>2, LeaveKind DEF DecideRead
  <1>7. ASSUME NEW p \in Periods, NEW e \in Employees,
               NEW t \in Amounts \cup {Keep}, NEW o \in Amounts \cup {Keep},
               UpdateCheck(w, p, e, t, o) PROVE Outside
    <2>1. [job[w] EXCEPT !.period = p, !.emp = e,
              !.terms = [count |-> Zero, tds |-> t, other |-> o]] \in Job
      BY <1>a DEF Job, Zero
    <2> QED BY <1>a, <1>7, <2>1, LeaveKind DEF UpdateCheck
  <1> QED BY <1>2, <1>3, <1>4, <1>5, <1>6, <1>7 DEF Request, ReleaseRead, RejectRead, Kinds

LEMMA FinishKind == ASSUME Types, Safe, NEW w \in Workers, Finish(w) PROVE Outside
  <1>a. TypeOK /\ Here(w) \in Slips
    BY HereIsSlip DEF Types
  <1>1. ASSUME NEW at, NEW st \in {"APPROVED", "DISBURSED"}, StatusWrite(w, at, st) PROVE Outside
    <2>1. \A p \in Periods : run'[p] \in {run[p], st}
      BY <1>1, <1>a DEF StatusWrite, TypeOK
    <2> QED BY <1>1, <2>1, DoneKind DEF StatusWrite, Outside, RowsKept, CountsKept
  <1>2. CASE ApproveWrite(w)
    BY <1>1, <1>2 DEF ApproveWrite
  <1>3. CASE DisburseWrite(w)
    BY <1>1, <1>3 DEF DisburseWrite
  <1>4. CASE UpdateRead(w)
    <2>1. CASE Done(w)
      BY <1>4, <2>1, DoneKind DEF UpdateRead, Outside, RowsKept, CountsKept, db
    <2>2. CASE Goto(w, "updateWrite") /\ \A v \in Workers \ {w} : job'[v] = job[v]
      <3>1. "updateWrite" \in PC \ PassPC
        BY DEF PC, PassPC
      <3>2. \A v \in Workers : StaysOrLeaves(v)
        BY <1>a, <2>2, <3>1, GotoStep DEF StaysOrLeaves
      <3> QED BY <1>4, <3>2 DEF UpdateRead, Outside, RowsKept, CountsKept, db
    <2>3. CASE ~Done(w)
      <3>1. Goto(w, "updateWrite")
        BY <1>4, <2>3 DEF UpdateRead
      <3>2. job \in [Workers -> Job]
        BY <1>a DEF TypeOK
      <3>3. \A v \in Workers \ {w} : job'[v] = job[v]
        BY <1>4, <2>3, <3>2 DEF UpdateRead, Note
      <3> QED BY <2>2, <3>1, <3>3
    <2> QED BY <2>1, <2>3
  <1>5. CASE UpdateWrite(w)
    <2>1. CountsKept
      <3> DEFINE row == slip[Here(w)]
                 new == [exists |-> row.exists,
                         terms  |-> [count |-> row.terms.count, tds |-> job[w].terms.tds,
                                     other |-> job[w].terms.other],
                         net    |-> job[w].terms]
      <3>1. slip' = [slip EXCEPT ![Here(w)] = new]
        BY <1>5 DEF UpdateWrite, Save
      <3>2. new.terms.count = row.terms.count
        OBVIOUS
      <3> HIDE DEF new
      <3>3. ASSUME NEW s \in Slips PROVE slip'[s].terms.count = slip[s].terms.count
        BY <1>a, <3>1, <3>2 DEF TypeOK
      <3> QED BY <3>3 DEF CountsKept
    <2> QED BY <1>5, <2>1, DoneKind DEF UpdateWrite, Outside, RowsKept
  <1>6. CASE ReleaseWrite(w)
    <2>1. \A i \in job[w].picked : item[i].state # "absent" /\ item[i].period = job[w].period
      BY <1>6 DEF ReleaseWrite, Safe, ReleaseKeepsPeriod
    <2>2. ASSUME NEW i \in Items
          PROVE /\ item'[i].settled = item[i].settled /\ item'[i].entry = item[i].entry
                /\ item'[i].period = item[i].period
                /\ item'[i].state \in {item[i].state, "open"}
      <3>1. item[i] \in Row
        BY <1>a DEF TypeOK
      <3>2. CASE i \in job[w].picked
        BY <1>6, <2>1, <3>1, <3>2 DEF ReleaseWrite, Row
      <3>3. CASE i \notin job[w].picked
        BY <1>6, <3>3 DEF ReleaseWrite
      <3> QED BY <3>2, <3>3
    <2>3. RowsKept
      BY <2>2 DEF RowsKept
    <2> QED BY <1>6, <2>2, <2>3, DoneKind DEF ReleaseWrite, Outside, CountsKept
  <1>7. CASE RejectWrite(w)
    <2>1. ASSUME NEW i \in Items
          PROVE /\ item'[i].settled = item[i].settled /\ item'[i].entry = item[i].entry
                /\ item'[i].period = item[i].period
                /\ item'[i].state \in {item[i].state, "rejected"}
      <3>1. item[i] \in Row
        BY <1>a DEF TypeOK
      <3> QED BY <1>7, <3>1 DEF RejectWrite, Row
    <2>2. RowsKept
      BY <2>1 DEF RowsKept
    <2> QED BY <1>7, <2>1, <2>2, DoneKind DEF RejectWrite, Outside, CountsKept
  <1> QED BY <1>2, <1>3, <1>4, <1>5, <1>6, <1>7 DEF Finish

LEMMA PickKind ==
  ASSUME Types, Safe, NEW w \in Workers, NEW from \in BeforeUpsert, NEW to \in BeforeUpsert,
         NEW kind \in SUBSET Items, NEW rows \in SUBSET Unsettled(w, kind),
         Pick(w, from, rows, to)
  PROVE  Quiet(w)
  <1> DEFINE j == [job[w] EXCEPT !.picked = @ \cup rows]
  <1>a. TypeOK /\ to \in PC /\ Here(w) \in Slips /\ Here(w) = <<job[w].period, job[w].emp>>
    BY HereIsSlip, ItemsOfJob DEF Types, PC, PassPC, BeforeUpsert
  <1>b. pc[w] \in BeforeUpsert
    BY DEF Pick
  <1>c. pc[w] \in PassPC \ {"start"} /\ pc[w] \notin AfterUpsert
    BY <1>b, PassStages
  <1>1. rows \subseteq Items
    BY DEF Unsettled
  <1>2. /\ j \in Job /\ j.period = job[w].period /\ j.emp = job[w].emp /\ j.base = job[w].base
        /\ j.picked = job[w].picked \cup rows
    BY <1>a, <1>1 DEF TypeOK, Job
  <1>3. job'[w] = j /\ pc'[w] = to /\ OthersStay(w) /\ UNCHANGED db
    BY <1>a, <1>2, NoteStep, GotoStep DEF Pick, OthersStay
  <1> HIDE DEF j
  <1>4. \A i \in job[w].picked :
          /\ EmpOf[i] = job[w].emp /\ item[i].period = job[w].period
          /\ item[i].state # "absent" /\ ~item[i].settled
          /\ slip[Here(w)].terms.count[i] = 0
    BY <1>b DEF Safe, PickedIsDue, PickedIsNew, Counted
  <1>5. ASSUME NEW i \in rows
        PROVE /\ EmpOf[i] = job[w].emp /\ item[i].period = job[w].period
              /\ item[i].state # "absent" /\ ~item[i].settled
              /\ slip[Here(w)].terms.count[i] = 0
    <2>1. /\ EmpOf[i] = job[w].emp /\ item[i].period = job[w].period
          /\ item[i].state = "open" /\ ~item[i].settled /\ i \in Items
      BY <1>1 DEF Unsettled
    <2>2. Counted(Here(w), i) # 1
      <3> SUFFICES ASSUME Counted(Here(w), i) = 1 PROVE FALSE
        OBVIOUS
      <3>1. Processing(Here(w)[1])
        BY <1>a, <1>c DEF Processing, InPass
      <3>2. PICK v \in Workers : pc[v] \in MarkAhead(i) /\ Here(v) = Here(w)
        BY <1>a, <2>1, <3>1 DEF Safe, CountedIsSettled
      <3>3. pc[v] \in AfterUpsert /\ pc[v] \in PassPC
        BY <2>1, <3>2, PassStages
      <3>4. job[v].period = job[w].period
        BY <1>a, <3>2, ItemsOfJob
      <3> QED BY <1>c, <3>3, <3>4 DEF Safe, OnePass
    <2> QED BY <1>a, <2>1, <2>2 DEF Safe, CountedIsDue, Counted
  <1>6. job[w].base = slip[Here(w)].terms.count
    BY <1>b DEF Safe, PickedIsNew
  <1>7. ReadsAreGood(w)
    BY <1>a, <1>2, <1>3, <1>4, <1>5, <1>6 DEF ReadsAreGood
  <1>8. run[job[w].period] # "NONE" /\ run[job[w].period] # "COMPLETED"
    BY <1>c DEF Safe, PassKeepsRunOpen
  <1>9. to \in PassPC \ (AfterUpsert \cup {"start"})
    BY PassStages
  <1> QED BY <1>2, <1>3, <1>c, <1>7, <1>8, <1>9 DEF Quiet, db

LEMMA MarkKind ==
  ASSUME Types, Safe, NEW w \in Workers, NEW kind, NEW linked \in BOOLEAN, NEW to \in PassPC,
         Settle(w, kind, linked), Goto(w, to), UNCHANGED <<run, slip, loan, job>>,
         pc[w] \in AfterUpsert, to \in AfterUpsert \cup {"loop"},
         linked \/ kind = Thanks,
         \A i \in Items : pc[w] \in MarkAhead(i) => to \in MarkAhead(i) \/ i \in kind
  PROVE  Mark(w, job[w].picked \cap kind)
  <1>1. TypeOK /\ to \in PC /\ job[w].picked \subseteq Items
    BY ItemsOfJob DEF Types, PC
  <1>2. pc'[w] = to /\ OthersStay(w)
    BY <1>1, GotoStep DEF OthersStay
  <1>3. ASSUME NEW i \in Items
        PROVE /\ item'[i].state = item[i].state /\ item'[i].period = item[i].period
              /\ i \notin job[w].picked \cap kind => item'[i] = item[i]
              /\ i \in job[w].picked \cap kind =>
                    item'[i].settled /\ (i \notin Thanks => item'[i].entry = Here(w))
    <2>1. item[i] \in Row
      BY <1>1 DEF TypeOK
    <2>2. item'[i] = IF i \in job[w].picked \cap kind
                     THEN [item[i] EXCEPT !.settled = TRUE, !.entry = IF linked THEN Here(w) ELSE @]
                     ELSE item[i]
      BY DEF Settle
    <2> QED BY <2>1, <2>2 DEF Row
  <1>4. to \in PassPC \ (BeforeUpsert \cup {"start"})
    BY DEF BeforeUpsert, AfterUpsert, PassPC
  <1> QED BY <1>1, <1>2, <1>3, <1>4 DEF Mark

LEMMA PassKind == ASSUME Types, Safe, NEW w \in Workers, Pass(w) PROVE Kinds
  <1> USE DEF Kinds
  <1>a. /\ TypeOK /\ job[w] \in Job /\ Here(w) \in Slips /\ job[w].period \in Periods
        /\ job[w].picked \subseteq Items
    BY HereIsSlip, ItemsOfJob DEF Types, TypeOK
  <1>b. PassPC \subseteq PC /\ "idle" \in PC
    BY DEF PC, PassPC
  <1>c. {"start", "list", "loop"} \subseteq PassPC \ (BeforeUpsert \cup AfterUpsert)
    BY DEF PassPC, BeforeUpsert, AfterUpsert
  <1>1. CASE CreateRun(w)
    <2> DEFINE p == job[w].period
    <2>1. CASE run[p] = "NONE"
      <3>1. ~Processing(p)
        BY <2>1 DEF Processing, InPass, Safe, PassKeepsRunOpen
      <3>2. run'[p] = "DRAFT" /\ \A q \in Periods \ {p} : run'[q] = run[q]
        BY <1>1, <1>a, <2>1 DEF CreateRun, TypeOK
      <3>3. pc[w] \notin PassPC
        BY <1>1 DEF CreateRun, PassPC
      <3> QED BY <1>1, <1>a, <2>1, <3>1, <3>2, <3>3, EnterKind DEF CreateRun
    <2>2. CASE run[p] # "NONE"
      BY <1>1, <2>2, DoneKind DEF CreateRun, Outside, RowsKept, CountsKept
    <2> QED BY <2>1, <2>2
  <1>2. CASE StartPass(w)
    <2>1. pc'[w] = "list" /\ OthersStay(w)
      BY <1>2, <1>a, <1>b, <1>c, GotoStep DEF StartPass, OthersStay
    <2>2. run'[job[w].period] = "PROCESSING" /\ \A p \in Periods \ {job[w].period} : run'[p] = run[p]
      BY <1>2, <1>a DEF StartPass, TypeOK
    <2>3. pc[w] \in PassPC \ AfterUpsert /\ pc'[w] \in PassPC \ (AfterUpsert \cup {"start"})
          /\ pc'[w] \notin BeforeUpsert
      BY <1>2, <1>c, <2>1 DEF StartPass
    <2> QED BY <1>2, <2>1, <2>2, <2>3 DEF StartPass, Quiet
  <1>3. CASE ListEmployees(w)
    <2>1. PICK S \in SUBSET Employees : Note(w, [job[w] EXCEPT !.left = S])
      BY <1>3 DEF ListEmployees
    <2>2. [job[w] EXCEPT !.left = S] \in Job /\ [job[w] EXCEPT !.left = S].period = job[w].period
      BY <1>a DEF Job
    <2>3. job'[w].period = job[w].period /\ pc'[w] = "loop" /\ OthersStay(w)
      BY <1>3, <1>a, <1>b, <1>c, <2>1, <2>2, NoteStep, GotoStep DEF ListEmployees, OthersStay
    <2>4. pc[w] \in PassPC \ (AfterUpsert \cup {"start"})
          /\ pc'[w] \in PassPC \ (AfterUpsert \cup {"start"})
          /\ pc'[w] \notin BeforeUpsert
      BY <1>3, <1>c, <2>3 DEF ListEmployees
    <2>5. run[job[w].period] \notin {"NONE", "COMPLETED"}
      BY <2>4 DEF Safe, PassKeepsRunOpen
    <2> QED BY <1>3, <2>3, <2>4, <2>5 DEF ListEmployees, db, Quiet
  <1>4. CASE ReadEntry(w)
    <2>1. PICK e \in job[w].left :
             Note(w, [job[w] EXCEPT !.emp = e, !.left = @ \ {e}, !.picked = {},
                                    !.base = slip[<<job[w].period, e>>].terms.count])
      BY <1>4 DEF ReadEntry
    <2> DEFINE j == [job[w] EXCEPT !.emp = e, !.left = @ \ {e}, !.picked = {},
                                   !.base = slip[<<job[w].period, e>>].terms.count]
    <2>2. e \in Employees /\ <<job[w].period, e>> \in Slips
      BY <1>a DEF Job, Slips
    <2>3. slip[<<job[w].period, e>>].terms.count \in [Items -> Nat]
      BY <1>a, <2>2 DEF TypeOK, Slip, Terms
    <2>4. j \in Job /\ j.period = job[w].period /\ j.emp = e /\ j.picked = {}
          /\ j.base = slip[<<job[w].period, e>>].terms.count
      BY <1>a, <2>2, <2>3 DEF Job
    <2>5. "readIncentives" \in PC
      BY DEF PC, PassPC
    <2>6. job'[w] = j /\ pc'[w] = "readIncentives" /\ OthersStay(w)
      BY <1>4, <1>a, <2>1, <2>4, <2>5, NoteStep, GotoStep DEF ReadEntry, OthersStay
    <2> HIDE DEF j
    <2>7. pc[w] \in PassPC \ (AfterUpsert \cup {"start"})
          /\ pc'[w] \in PassPC \ (AfterUpsert \cup {"start"})
      BY <1>4, <1>c, <2>6 DEF ReadEntry, PassPC, AfterUpsert
    <2>8. run[job[w].period] \notin {"NONE", "COMPLETED"}
      BY <2>7 DEF Safe, PassKeepsRunOpen
    <2>9. ReadsAreGood(w)
      BY <2>4, <2>6 DEF ReadsAreGood
    <2> QED BY <1>4, <2>4, <2>6, <2>7, <2>8, <2>9 DEF ReadEntry, db, Quiet
  <1>5. CASE ReadIncentives(w)
    <2>1. Incentives \subseteq Items /\ {"readIncentives", "readThanks"} \subseteq BeforeUpsert
      BY DEF Items, BeforeUpsert
    <2> QED BY <1>5, <2>1, PickKind DEF ReadIncentives
  <1>6. CASE ReadThanks(w)
    <2>1. Thanks \subseteq Items /\ {"readThanks", "readLoans"} \subseteq BeforeUpsert
      BY DEF Items, BeforeUpsert
    <2> QED BY <1>6, <2>1, PickKind DEF ReadThanks
  <1>7. CASE ReadLoans(w)
    <2>1. Emis \subseteq Items /\ {"readLoans", "upsert"} \subseteq BeforeUpsert
      BY DEF Items, BeforeUpsert
    <2>2. DueEmis(w) \subseteq Unsettled(w, Emis)
      BY DEF DueEmis
    <2> QED BY <1>7, <2>1, <2>2, PickKind DEF ReadLoans
  <1>8. CASE UpsertEntry(w)
    <2> DEFINE total == [i \in Items |-> job[w].base[i] + (IF i \in job[w].picked THEN 1 ELSE 0)]
               old == slip[Here(w)]
               new == [exists |-> TRUE,
                       terms |-> [count |-> total, tds |-> old.terms.tds,
                                  other |-> old.terms.other],
                       net |-> [count |-> total, tds |-> 0, other |-> 0]]
    <2>1. slip' = [slip EXCEPT ![Here(w)] = new]
      BY <1>8 DEF UpsertEntry, Save
    <2>2. new.terms.count = total
      OBVIOUS
    <2>3. pc[w] \in BeforeUpsert /\ pc[w] = "upsert"
      BY <1>8 DEF UpsertEntry, BeforeUpsert
    <2>4. job[w].base = slip[Here(w)].terms.count
          /\ \A i \in job[w].picked : slip[Here(w)].terms.count[i] = 0
      BY <2>3 DEF Safe, PickedIsNew, Counted
    <2>5. \A i \in Items : slip[Here(w)].terms.count[i] \in {0, 1}
      BY <1>a DEF Safe, CountedIsDue, Counted
    <2>6. \A i \in Items : total[i] = IF i \in job[w].picked THEN 1 ELSE slip[Here(w)].terms.count[i]
      BY <2>4, <2>5
    <2> HIDE DEF total
    <2> HIDE DEF new
    <2>7. /\ slip'[Here(w)].terms.count = total
          /\ \A s \in Slips \ {Here(w)} : slip'[s] = slip[s]
      BY <1>a, <2>1, <2>2 DEF TypeOK
    <2>8. pc'[w] = "markEmis" /\ OthersStay(w)
      <3>1. "markEmis" \in PC
        BY DEF PC, PassPC
      <3> QED BY <1>8, <1>a, <3>1, GotoStep DEF UpsertEntry, OthersStay
    <2>9. Upsert(w)
      BY <1>8, <2>3, <2>6, <2>7, <2>8 DEF UpsertEntry, Upsert
    <2> QED BY <2>9
  <1>9. CASE MarkEmis(w)
    <2>1. \A i \in Items : "closeLoans" \in MarkAhead(i) \/ i \in Emis
      BY DEF MarkAhead, AfterUpsert
    <2>2. {"markEmis", "closeLoans"} \subseteq PassPC /\ {"markEmis", "closeLoans"} \subseteq AfterUpsert
      BY DEF PassPC, AfterUpsert
    <2>3. Mark(w, job[w].picked \cap Emis)
      BY <1>9, <2>1, <2>2, MarkKind DEF MarkEmis
    <2> QED BY <1>a, <2>3
  <1>10. CASE CloseLoans(w)
    <2>1. pc'[w] = "markIncentives" /\ OthersStay(w)
      <3>1. "markIncentives" \in PC
        BY DEF PC, PassPC
      <3> QED BY <1>10, <1>a, <3>1, GotoStep DEF CloseLoans, OthersStay
    <2>2. \A l \in Loans : loan'[l] = "CLOSED" /\ loan[l] # "CLOSED" =>
            \A i \in Emis : LoanOf[i] = l => item[i].settled
      BY <1>10 DEF CloseLoans
    <2>3. pc[w] = "closeLoans"
      BY <1>10 DEF CloseLoans
    <2>4. \A i \in Items : "closeLoans" \in MarkAhead(i) => "markIncentives" \in MarkAhead(i)
      BY DEF MarkAhead, AfterUpsert
    <2>5. "closeLoans" \in AfterUpsert /\ "markIncentives" \in AfterUpsert
          /\ "markIncentives" \in PassPC \ (BeforeUpsert \cup {"start"})
      BY DEF AfterUpsert, PassPC, BeforeUpsert
    <2>6. UNCHANGED <<run, slip, item, job>>
      BY <1>10 DEF CloseLoans
    <2>7. Mark(w, {})
      BY <1>a, <2>1, <2>2, <2>3, <2>4, <2>5, <2>6 DEF Mark
    <2> QED BY <2>7
  <1>11. CASE MarkIncentives(w)
    <2>1. \A i \in Items : "markIncentives" \in MarkAhead(i) => "markThanks" \in MarkAhead(i) \/ i \in Incentives
      BY DEF MarkAhead, AfterUpsert
    <2>2. {"markIncentives", "markThanks"} \subseteq PassPC /\ {"markIncentives", "markThanks"} \subseteq AfterUpsert
      BY DEF PassPC, AfterUpsert
    <2>3. Mark(w, job[w].picked \cap Incentives)
      BY <1>11, <2>1, <2>2, MarkKind DEF MarkIncentives
    <2> QED BY <1>a, <2>3
  <1>12. CASE MarkThanks(w)
    <2>1. \A i \in Items : "markThanks" \in MarkAhead(i) => i \in Thanks
      BY DEF MarkAhead, Items
    <2>2. "markThanks" \in AfterUpsert /\ "loop" \in PassPC
      BY DEF PassPC, AfterUpsert
    <2>3. Mark(w, job[w].picked \cap Thanks)
      BY <1>12, <2>1, <2>2, MarkKind DEF MarkThanks
    <2> QED BY <1>a, <2>3
  <1>13. CASE CompleteRun(w)
    <2>1. pc'[w] = "idle" /\ OthersStay(w)
      BY <1>13, <1>a, DoneStep DEF CompleteRun, OthersStay
    <2>2. run'[job[w].period] = "COMPLETED" /\ \A p \in Periods \ {job[w].period} : run'[p] = run[p]
      BY <1>13, <1>a DEF CompleteRun, TypeOK
    <2>3. pc[w] \in PassPC \ AfterUpsert /\ "idle" \notin BeforeUpsert
      BY <1>13, <1>c DEF CompleteRun, BeforeUpsert
    <2> QED BY <1>13, <2>1, <2>2, <2>3 DEF CompleteRun, Quiet
  <1> QED BY <1>1, <1>2, <1>3, <1>4, <1>5, <1>6, <1>7, <1>8, <1>9, <1>10, <1>11, <1>12, <1>13 DEF Pass

LEMMA NextKind == ASSUME Types, Safe, [Next]_vars PROVE Kinds
  <1>1. ASSUME NEW w \in Workers, Crash(w) PROVE Outside
    BY <1>1, DoneKind DEF Crash, db, Outside, RowsKept, CountsKept
  <1>2. CASE UNCHANGED vars
    <2>1. /\ run' = run /\ slip' = slip /\ item' = item /\ loan' = loan
          /\ pc' = pc /\ job' = job
      BY <1>2 DEF vars
    <2>2. Outside
      BY <2>1 DEF Outside, RowsKept, CountsKept, StaysOrLeaves
    <2> QED BY <2>2 DEF Kinds
  <1>3. CASE Upstream
    BY <1>3, UpstreamKind DEF Kinds
  <1>4. ASSUME NEW w \in Workers, Request(w) \/ Pass(w) \/ Finish(w) \/ Crash(w) PROVE Kinds
    <2>1. CASE Request(w)
      BY <2>1, RequestKind
    <2>2. CASE Pass(w)
      BY <2>2, PassKind
    <2>3. CASE Finish(w)
      BY <2>3, FinishKind DEF Kinds
    <2>4. CASE Crash(w)
      BY <1>1, <2>4 DEF Kinds
    <2> QED BY <1>4, <2>1, <2>2, <2>3, <2>4
  <1> QED BY <1>2, <1>3, <1>4 DEF Next, Kinds

-----------------------------------------------------------------------------
(* The inductive invariant and what follows from it. *)

LEMMA InitSafe == SamePeriod /\ Init => Safe
  <1> SUFFICES ASSUME SamePeriod, Init PROVE Safe
    OBVIOUS
  <1>1. \A w \in Workers : /\ pc[w] = "idle"
                           /\ pc[w] \notin PassPC \cup {"release"}
                           /\ pc[w] \notin BeforeUpsert \cup AfterUpsert
    BY DEF Init, PassPC, BeforeUpsert, AfterUpsert
  <1>2. \A s \in Slips, i \in Items : Counted(s, i) = 0
    BY DEF Init, Counted, NoTerms, Zero
  <1>3. \A i \in Items : ~item[i].settled
    BY DEF Init
  <1>4. \A i \in Emis : loan[LoanOf[i]] # "CLOSED"
    BY ConstantsAssumption DEF Init
  <1>5. OnePass /\ PassKeepsRunOpen /\ ReleaseKeepsPeriod
    BY <1>1 DEF OnePass, PassKeepsRunOpen, ReleaseKeepsPeriod
  <1>6. PickedIsDue /\ PickedIsNew /\ PickedIsCounted
    BY <1>1 DEF PickedIsDue, PickedIsNew, PickedIsCounted
  <1>7. CountedIsDue /\ CountedIsSettled
    BY <1>2 DEF CountedIsDue, CountedIsSettled
  <1>8. SettledIsPaid /\ ClosedIsSettled
    BY <1>3, <1>4 DEF SettledIsPaid, ClosedIsSettled
  <1> QED BY <1>5, <1>6, <1>7, <1>8 DEF Safe

LEMMA NextSafe == Types /\ Safe /\ [Next]_vars => Types' /\ Safe'
  <1> SUFFICES ASSUME Types, Safe, [Next]_vars PROVE Types' /\ Safe'
    OBVIOUS
  <1>1. Types'
    BY NextTypes
  <1>2. CASE Outside
    BY <1>1, <1>2, OutsideSafe
  <1>3. ASSUME NEW w \in Workers, Quiet(w) PROVE Safe'
    BY <1>1, <1>3, QuietSafe
  <1>4. ASSUME NEW w \in Workers, Enter(w) PROVE Safe'
    BY <1>1, <1>4, EnterSafe
  <1>5. ASSUME NEW w \in Workers, Upsert(w) PROVE Safe'
    BY <1>1, <1>5, UpsertSafe
  <1>6. ASSUME NEW w \in Workers, NEW marked \in SUBSET Items, Mark(w, marked) PROVE Safe'
    BY <1>1, <1>6, MarkSafe
  <1> QED BY <1>1, <1>2, <1>3, <1>4, <1>5, <1>6, NextKind DEF Kinds

LEMMA AlwaysSafe == SamePeriod /\ Spec => [](Types /\ Safe)
  BY InitTypes, InitSafe, NextSafe, PTL DEF Spec

(* The inductive invariant, as the runs know it. *)
THEOREM Inductive == SamePeriod /\ Spec => []IInv
  <1>1. Types /\ Safe => IInv
    BY DEF Types, Safe, IInv
  <1> QED BY <1>1, AlwaysSafe, PTL

(* No amount is in two slips or twice in one, whatever requests interleave *)
(* with the passes of processRun and wherever one dies.                    *)
THEOREM NothingIsPaidTwice == SamePeriod /\ Spec => []PaidAtMostOnce
  <1>1. Safe => PaidAtMostOnce
    BY DEF Safe, CountedIsDue, PaidAtMostOnce
  <1> QED BY <1>1, AlwaysSafe, PTL

(* A row marked deducted or paid is in a slip of its owner, and in the one *)
(* it is linked to.                                                        *)
THEOREM NothingIsWrittenOff == SamePeriod /\ Spec => []SettledIsPaid
  <1>1. Safe => SettledIsPaid
    BY DEF Safe
  <1> QED BY <1>1, AlwaysSafe, PTL

(* A run that says COMPLETED, with no pass under way, left no amount of its *)
(* slips unmarked.                                                          *)
THEOREM CompletedRunsAreSettled == SamePeriod /\ Spec => []CompletedIsSettled
  <1>1. Types /\ Safe => CompletedIsSettled
    <2> SUFFICES ASSUME Types, Safe, NEW p \in Periods, NEW e \in Employees, NEW i \in Items,
                        run[p] = "COMPLETED", ~Processing(p), Counted(<<p, e>>, i) > 0
                 PROVE item[i].settled
      BY DEF CompletedIsSettled
    <2>1. <<p, e>> \in Slips
      BY DEF Slips
    <2>2. Counted(<<p, e>>, i) = 1
      BY <2>1 DEF Safe, CountedIsDue
    <2>3. ASSUME NEW w \in Workers, pc[w] \in MarkAhead(i), Here(w) = <<p, e>> PROVE FALSE
      <3>1. pc[w] \in PassPC /\ job[w].period = p
        BY <2>3, PassStages DEF Here
      <3> QED BY <3>1 DEF Processing, InPass
    <2> QED BY <2>1, <2>2, <2>3 DEF Safe, CountedIsSettled
  <1> QED BY <1>1, AlwaysSafe, PTL

(* A closed loan has every instalment in some slip. *)
THEOREM ClosedLoansArePaid == SamePeriod /\ Spec => []ClosedIsPaid
  <1>1. Safe => ClosedIsPaid
    <2> SUFFICES ASSUME Safe, NEW i \in Emis, loan[LoanOf[i]] = "CLOSED"
                 PROVE \E s \in Slips : Counted(s, i) = 1
      BY DEF ClosedIsPaid
    <2>1. i \in Items /\ item[i].settled
      BY DEF Safe, ClosedIsSettled, Items
    <2>2. PICK p \in Periods : Counted(<<p, EmpOf[i]>>, i) = 1
      BY <2>1 DEF Safe, SettledIsPaid
    <2>3. <<p, EmpOf[i]>> \in Slips
      BY <2>1, ConstantsAssumption DEF Slips
    <2> QED BY <2>2, <2>3
  <1> QED BY <1>1, AlwaysSafe, PTL

(* The payroll cycle implements the promise of PayOnce: the pass that       *)
(* writes a slip pays its owner's unpaid items, everything else stutters.   *)
THEOREM PayrollKeepsThePromise == SamePeriod /\ Spec => PaysOnce
  <1> DEFINE Paid == [s \in Slips |-> slip[s].terms.count]
  <1>1. Init => Promise!Init
    BY DEF Init, Promise!Init, Promise!Slips, NoTerms, Zero, Slips
  <1>2. ASSUME Types, Safe, [Next]_vars PROVE [Promise!Next]_Paid
    <2>1. CountsKept => UNCHANGED Paid
      BY DEF CountsKept
    <2>2. CASE Outside
      BY <2>1, <2>2 DEF Outside
    <2>3. ASSUME NEW w \in Workers, Quiet(w) PROVE UNCHANGED Paid
      BY <2>3 DEF Quiet
    <2>4. ASSUME NEW w \in Workers, Enter(w) PROVE UNCHANGED Paid
      BY <2>4 DEF Enter
    <2>5. ASSUME NEW w \in Workers, NEW marked, Mark(w, marked) PROVE UNCHANGED Paid
      BY <2>5 DEF Mark
    <2>6. ASSUME NEW w \in Workers, Upsert(w) PROVE Promise!Next
      <3>1. /\ TypeOK /\ TypeOK' /\ Here(w) \in Slips
            /\ Here(w) = <<job[w].period, job[w].emp>> /\ job[w].picked \in SUBSET Items
        BY <1>2, NextTypes, HereIsSlip, ItemsOfJob DEF Types
      <3>2. \A i \in job[w].picked : EmpOf[i] = Here(w)[2] /\ item[i].period = job[w].period
        BY <1>2, <2>6, <3>1 DEF Safe, PickedIsDue, Upsert
      <3>3. \A i \in job[w].picked, t \in Slips : Paid[t][i] = 0
        <4> SUFFICES ASSUME NEW i \in job[w].picked, NEW t \in Slips PROVE Counted(t, i) = 0
          BY DEF Counted
        <4>1. CASE t = Here(w)
          BY <1>2, <2>6, <4>1 DEF Safe, PickedIsNew, Upsert
        <4>2. CASE t # Here(w)
          BY <1>2, <3>1, <3>2, <4>2 DEF Safe, CountedIsDue
        <4> QED BY <4>1, <4>2
      <3>4. Paid' = [Paid EXCEPT ![Here(w)] =
                        [i \in Items |-> IF i \in job[w].picked THEN 1 ELSE @[i]]]
        <4>1. slip'[Here(w)].terms.count \in [Items -> Nat]
          BY <3>1 DEF TypeOK, Slip, Terms
        <4>2. slip'[Here(w)].terms.count =
                [i \in Items |-> IF i \in job[w].picked THEN 1 ELSE slip[Here(w)].terms.count[i]]
          BY <2>6, <4>1 DEF Upsert
        <4> QED BY <2>6, <3>1, <4>2 DEF Upsert
      <3>5. \A i \in job[w].picked : EmpOf[i] = Here(w)[2] /\ \A t \in Promise!Slips : Paid[t][i] = 0
        BY <3>2, <3>3 DEF Promise!Slips, Slips
      <3>6. Here(w) \in Promise!Slips
        BY <3>1 DEF Promise!Slips, Slips
      <3>7. PICK s \in Promise!Slips, S \in SUBSET Items : s = Here(w) /\ S = job[w].picked
        BY <3>1, <3>6
      <3>8. Promise!Pay(s, S)
        BY <3>4, <3>5, <3>7 DEF Promise!Pay
      <3> QED BY <3>8 DEF Promise!Next
    <2>7. Kinds
      BY <1>2, NextKind
    <2> QED BY <2>2, <2>3, <2>4, <2>5, <2>6, <2>7 DEF Kinds
  <1> QED BY <1>1, <1>2, AlwaysSafe, PTL DEF Spec, PaysOnce, Promise!Spec

-----------------------------------------------------------------------------
(* The stored net.  A slip is written by one pass and only then edited, so *)
(* an edit's stale read of the amounts is still what the row holds.        *)

NeverAgain == ~Reprocessing

(* The slips that the pass at c, holding j, has still to write. *)
StillDue(c, j, e) ==
    \/ c \in {"start", "list"}
    \/ e \in j.left
    \/ c \in BeforeUpsert /\ e = j.emp

(* What a request at c, holding j, relies on in the runs and the slips. *)
RequestNet(c, j, sl, rn) ==
    /\ c \in PassPC => rn[j.period] # "NONE"
    /\ c \in PassPC => \A e \in Employees : StillDue(c, j, e) => ~sl[<<j.period, e>>].exists
    /\ c \in BeforeUpsert => j.emp \notin j.left
    /\ c = "updateWrite" => /\ sl[<<j.period, j.emp>>].exists
                           /\ j.terms.count = sl[<<j.period, j.emp>>].terms.count

RequestsNet == \A w \in Workers : RequestNet(pc[w], job[w], slip, run)

UnrunIsUnwritten ==
    \A p \in Periods, e \in Employees : run[p] = "NONE" => ~slip[<<p, e>>].exists

UnwrittenIsBlank ==
    \A s \in Slips : ~slip[s].exists => slip[s].terms = NoTerms

NetInv == OnePass /\ RequestsNet /\ UnrunIsUnwritten /\ UnwrittenIsBlank /\ NetMatchesTerms

RunsStay == \A p \in Periods : run[p] # "NONE" => run'[p] # "NONE"

(* A request moves, the slips stay. *)
LEMMA MoveNet ==
  ASSUME Types, NetInv, NEW w \in Workers, NEW c \in PC, NEW j \in Job,
         pc' = [pc EXCEPT ![w] = c], job' = [job EXCEPT ![w] = j],
         UNCHANGED slip, RunsStay, RequestNet(c, j, slip, run'),
         c \in PassPC => \A v \in Workers \ {w} : ~InPass(v, j.period)
  PROVE  NetInv'
  <1>1. /\ pc'[w] = c /\ job'[w] = j
        /\ \A v \in Workers \ {w} : pc'[v] = pc[v] /\ job'[v] = job[v]
        /\ \A v \in Workers : job[v].period \in Periods
    BY DEF Types, TypeOK, Job
  <1>2. OnePass'
    <2> SUFFICES ASSUME NEW u \in Workers, NEW v \in Workers, u # v,
                        pc'[u] \in PassPC, pc'[v] \in PassPC, job'[u].period = job'[v].period
                 PROVE FALSE
      BY DEF OnePass
    <2>1. CASE u = w
      BY <1>1, <2>1 DEF InPass
    <2>2. CASE v = w
      BY <1>1, <2>2 DEF InPass
    <2>3. CASE u # w /\ v # w
      BY <1>1, <2>3 DEF NetInv, OnePass
    <2> QED BY <2>1, <2>2, <2>3
  <1>3. RequestsNet'
    <2> SUFFICES ASSUME NEW v \in Workers PROVE RequestNet(pc'[v], job'[v], slip, run')
      BY DEF RequestsNet
    <2>1. CASE v = w
      BY <1>1, <2>1
    <2>2. CASE v # w
      <3>1. RequestNet(pc[v], job[v], slip, run)
        BY DEF NetInv, RequestsNet
      <3> QED BY <1>1, <2>2, <3>1 DEF RequestNet, RunsStay
    <2> QED BY <2>1, <2>2
  <1>4. UnrunIsUnwritten' /\ UnwrittenIsBlank' /\ NetMatchesTerms'
    BY DEF NetInv, UnrunIsUnwritten, UnwrittenIsBlank, NetMatchesTerms, RunsStay
  <1> QED BY <1>2, <1>3, <1>4 DEF NetInv

(* A request outside processRun that is not about to edit relies on nothing. *)
LEMMA LeaveNet ==
  ASSUME Types, NetInv, NEW w \in Workers, NEW c \in PC, NEW j \in Job,
         Goto(w, c), Note(w, j), UNCHANGED slip, RunsStay, c \notin PassPC, c # "updateWrite"
  PROVE  NetInv'
  <1>1. RequestNet(c, j, slip, run')
    BY PassStages DEF RequestNet
  <1> QED BY <1>1, MoveNet DEF Goto, Note

LEMMA DoneNet ==
  ASSUME Types, NetInv, NEW w \in Workers, Done(w), UNCHANGED slip, RunsStay
  PROVE  NetInv'
  <1>1. "idle" \in PC /\ "idle" \notin PassPC
    BY DEF PC, PassPC
  <1> QED BY <1>1, BlankIsJob, LeaveNet DEF Done

(* A pass takes its next statement. *)
LEMMA PassOnNet ==
  ASSUME Types, NetInv, NEW w \in Workers, NEW c \in PassPC, NEW j \in Job,
         Goto(w, c), Note(w, j), UNCHANGED slip, RunsStay,
         pc[w] \in PassPC, j.period = job[w].period,
         \A e \in Employees : StillDue(c, j, e) => StillDue(pc[w], job[w], e),
         c \in BeforeUpsert => j.emp \notin j.left
  PROVE  NetInv'
  <1>1. job[w].period \in Periods /\ c \in PC /\ c # "updateWrite"
    BY DEF Types, TypeOK, Job, PC, PassPC
  <1>2. RequestNet(pc[w], job[w], slip, run)
    BY DEF NetInv, RequestsNet
  <1>3. RequestNet(c, j, slip, run')
    BY <1>1, <1>2 DEF RequestNet, RunsStay
  <1>4. \A v \in Workers \ {w} : ~InPass(v, j.period)
    BY DEF NetInv, OnePass, InPass
  <1> QED BY <1>1, <1>3, <1>4, MoveNet DEF Goto, Note

LEMMA UpstreamNet == ASSUME NetInv, Upstream PROVE NetInv'
  <1>1. UNCHANGED <<run, slip, pc, job>>
    BY DEF Upstream, PostLoan, PostIncentive, PostThanks
  <1> QED BY <1>1 DEF NetInv, OnePass, RequestsNet, UnrunIsUnwritten, UnwrittenIsBlank, NetMatchesTerms

LEMMA RequestKeepsNet ==
  ASSUME NeverAgain, Types, NetInv, NEW w \in Workers, Request(w)
  PROVE  NetInv'
  <1>a. job[w] \in Job
    BY DEF Types, TypeOK
  <1>1. ASSUME NEW p \in Periods, NEW c \in {"create", "approve", "disburse"},
               Note(w, [job[w] EXCEPT !.period = p]), Goto(w, c), UNCHANGED db
        PROVE NetInv'
    <2>1. [job[w] EXCEPT !.period = p] \in Job /\ c \in PC /\ c \notin PassPC /\ c # "updateWrite"
      BY <1>a DEF Job, PC, PassPC
    <2> QED BY <1>1, <2>1, LeaveNet DEF db, RunsStay
  <1>2. ASSUME NEW p \in Periods, NEW i \in Items, NEW c \in {"release", "reject"}, DecideRead(w, i, p, c)
        PROVE NetInv'
    <2>1. [job[w] EXCEPT !.period = p, !.picked = {i}] \in Job
          /\ c \in PC /\ c \notin PassPC /\ c # "updateWrite"
      BY <1>a DEF Job, PC, PassPC
    <2> QED BY <1>2, <2>1, LeaveNet DEF db, RunsStay, DecideRead
  <1>3. ASSUME NEW p \in Periods, NEW e \in Employees,
               NEW t \in Amounts \cup {Keep}, NEW o \in Amounts \cup {Keep},
               UpdateCheck(w, p, e, t, o)
        PROVE NetInv'
    <2>1. [job[w] EXCEPT !.period = p, !.emp = e,
              !.terms = [count |-> Zero, tds |-> t, other |-> o]] \in Job
      BY <1>a DEF Job, Zero
    <2>2. "updateRead" \in PC /\ "updateRead" \notin PassPC
      BY DEF PC, PassPC
    <2> QED BY <1>3, <2>1, <2>2, LeaveNet DEF db, RunsStay, UpdateCheck
  <1>4. ASSUME NEW p \in Periods PROVE ~ReprocessRun(w, p)
    BY DEF ReprocessRun, NeverAgain
  <1> QED BY <1>1, <1>2, <1>3, <1>4
          DEF Request, InitiateRun, ApproveRead, DisburseRead, StatusRead, ReleaseRead, RejectRead

(* The pass writes the slip it has read as not there: tds and              *)
(* otherDeductions, which the net leaves out, are 0.                       *)
LEMMA UpsertNet == ASSUME Types, NetInv, NEW w \in Workers, UpsertEntry(w) PROVE NetInv'
  <1> DEFINE s == Here(w)
             total == [i \in Items |-> job[w].base[i] + (IF i \in job[w].picked THEN 1 ELSE 0)]
             old == slip[s]
             row == [exists |-> TRUE,
                     terms |-> [count |-> total, tds |-> old.terms.tds, other |-> old.terms.other],
                     net |-> [count |-> total, tds |-> 0, other |-> 0]]
  <1>1. /\ pc[w] = "upsert" /\ Save(s, row) /\ run' = run /\ job' = job
        /\ pc' = [pc EXCEPT ![w] = "markEmis"]
    BY DEF UpsertEntry, Goto
  <1>2. /\ s = <<job[w].period, job[w].emp>> /\ s \in Slips
        /\ job[w].period \in Periods /\ job[w].emp \in Employees
    BY HereIsSlip DEF Types, TypeOK, Job, Here
  <1>3. /\ \A e \in Employees : e \in job[w].left \/ e = job[w].emp => ~slip[<<job[w].period, e>>].exists
        /\ run[job[w].period] # "NONE" /\ job[w].emp \notin job[w].left
    <2>1. RequestNet(pc[w], job[w], slip, run) /\ "upsert" \in PassPC /\ "upsert" \in BeforeUpsert
      BY DEF NetInv, RequestsNet, PassPC, BeforeUpsert
    <2> QED BY <1>1, <2>1 DEF RequestNet, StillDue
  <1>4. old.terms.tds = 0 /\ old.terms.other = 0 /\ row.net = row.terms /\ row.exists
    BY <1>2, <1>3 DEF NetInv, UnwrittenIsBlank, NoTerms
  <1>5. slip' = [slip EXCEPT ![s] = row] /\ slip \in [Slips -> Slip] /\ pc \in [Workers -> PC]
    BY <1>1 DEF Save, Types, TypeOK
  <1> HIDE DEF row, s
  <1>6. slip'[s] = row /\ \A t \in Slips \ {s} : slip'[t] = slip[t]
    BY <1>2, <1>5
  <1>7. pc'[w] = "markEmis" /\ \A v \in Workers \ {w} : pc'[v] = pc[v]
    BY <1>1, <1>5
  <1>8. OnePass' /\ \A v \in Workers \ {w} : ~InPass(v, job[w].period)
    BY <1>1, <1>7 DEF NetInv, OnePass, InPass, PassPC
  <1>9. NetMatchesTerms' /\ UnwrittenIsBlank'
    BY <1>4, <1>6 DEF NetInv, NetMatchesTerms, UnwrittenIsBlank
  <1>10. UnrunIsUnwritten'
    <2> SUFFICES ASSUME NEW p \in Periods, NEW e \in Employees, run[p] = "NONE"
                 PROVE ~slip'[<<p, e>>].exists
      BY <1>1 DEF UnrunIsUnwritten
    <2>1. <<p, e>> \in Slips \ {s}
      BY <1>2, <1>3 DEF Slips
    <2> QED BY <1>6, <2>1 DEF NetInv, UnrunIsUnwritten
  <1>11. RequestsNet'
    <2> SUFFICES ASSUME NEW v \in Workers PROVE RequestNet(pc'[v], job'[v], slip', run')
      BY DEF RequestsNet
    <2>a. /\ RequestNet(pc[v], job[v], slip, run) /\ job[v] \in Job
          /\ job[v].period \in Periods /\ job[v].emp \in Employees
      BY DEF NetInv, RequestsNet, Types, TypeOK, Job
    <2>1. CASE v = w
      <3>1. \A e \in Employees : e \in job[w].left => ~slip'[<<job[w].period, e>>].exists
        <4> SUFFICES ASSUME NEW e \in Employees, e \in job[w].left
                     PROVE ~slip'[<<job[w].period, e>>].exists
          OBVIOUS
        <4>1. <<job[w].period, e>> \in Slips \ {s}
          BY <1>2, <1>3 DEF Slips
        <4> QED BY <1>3, <1>6, <4>1
      <3>2. "markEmis" \notin BeforeUpsert /\ "markEmis" \notin {"start", "list", "updateWrite"}
        BY DEF BeforeUpsert
      <3> QED BY <1>1, <1>3, <1>7, <2>1, <3>1, <3>2 DEF RequestNet, StillDue
    <2>2. CASE v # w
      <3>1. pc'[v] = pc[v] /\ job'[v] = job[v]
        BY <1>1, <1>7, <2>2
      <3>2. pc[v] \in PassPC => \A e \in Employees : slip'[<<job[v].period, e>>] = slip[<<job[v].period, e>>]
        <4> SUFFICES ASSUME pc[v] \in PassPC, NEW e \in Employees
                     PROVE slip'[<<job[v].period, e>>] = slip[<<job[v].period, e>>]
          OBVIOUS
        <4>1. <<job[v].period, e>> \in Slips \ {s}
          BY <1>2, <1>8, <2>a, <2>2 DEF Slips, InPass
        <4> QED BY <1>6, <4>1
      <3>3. pc[v] = "updateWrite" =>
                slip'[<<job[v].period, job[v].emp>>] = slip[<<job[v].period, job[v].emp>>]
        <4> SUFFICES ASSUME pc[v] = "updateWrite"
                     PROVE slip'[<<job[v].period, job[v].emp>>] = slip[<<job[v].period, job[v].emp>>]
          OBVIOUS
        <4>1. slip[<<job[v].period, job[v].emp>>].exists /\ ~slip[s].exists
          BY <1>2, <1>3, <2>a DEF RequestNet
        <4>2. <<job[v].period, job[v].emp>> \in Slips \ {s}
          BY <2>a, <4>1 DEF Slips
        <4> QED BY <1>6, <4>2
      <3> QED BY <1>1, <2>a, <3>1, <3>2, <3>3 DEF RequestNet
    <2> QED BY <2>1, <2>2
  <1> QED BY <1>8, <1>9, <1>10, <1>11 DEF NetInv

(* An edit writes the amounts it has read, which no pass has changed since. *)
LEMMA EditNet == ASSUME Types, NetInv, NEW w \in Workers, UpdateWrite(w) PROVE NetInv'
  <1> DEFINE s == Here(w)
             new == job[w].terms
             row == [exists |-> slip[s].exists,
                     terms |-> [count |-> slip[s].terms.count, tds |-> new.tds, other |-> new.other],
                     net |-> new]
  <1>1. pc[w] = "updateWrite" /\ Save(s, row) /\ Done(w) /\ run' = run
    BY DEF UpdateWrite
  <1>2. s = <<job[w].period, job[w].emp>> /\ s \in Slips /\ job[w] \in Job
    BY HereIsSlip DEF Types, TypeOK, Here
  <1>3. slip[s].exists /\ new.count = slip[s].terms.count
    <2>1. RequestNet(pc[w], job[w], slip, run)
      BY DEF NetInv, RequestsNet
    <2> QED BY <1>1, <1>2, <2>1 DEF RequestNet
  <1>4. new = [count |-> new.count, tds |-> new.tds, other |-> new.other]
    BY <1>2 DEF Job
  <1>5. row.net = row.terms /\ row.exists /\ row.terms.count = slip[s].terms.count
    BY <1>3, <1>4
  <1>6. slip' = [slip EXCEPT ![s] = row] /\ slip \in [Slips -> Slip]
    BY <1>1 DEF Save, Types, TypeOK
  <1> HIDE DEF row, s
  <1>7. /\ slip'[s] = row /\ \A t \in Slips \ {s} : slip'[t] = slip[t]
        /\ \A t \in Slips : slip'[t].exists = slip[t].exists
                          /\ slip'[t].terms.count = slip[t].terms.count
    BY <1>2, <1>3, <1>5, <1>6
  <1>8. /\ job' \in [Workers -> Job] /\ pc'[w] = "idle"
        /\ \A v \in Workers \ {w} : job'[v] = job[v] /\ pc'[v] = pc[v]
    BY <1>1, DoneStep DEF Types
  <1>9. OnePass'
    BY <1>8 DEF NetInv, OnePass, PassPC
  <1>10. NetMatchesTerms' /\ UnwrittenIsBlank'
    BY <1>5, <1>7 DEF NetInv, NetMatchesTerms, UnwrittenIsBlank
  <1>11. UnrunIsUnwritten'
    BY <1>1, <1>7 DEF NetInv, UnrunIsUnwritten, Slips
  <1>12. RequestsNet'
    <2> SUFFICES ASSUME NEW v \in Workers PROVE RequestNet(pc'[v], job'[v], slip', run')
      BY DEF RequestsNet
    <2>1. CASE v = w
      BY <1>8, <2>1, PassStages DEF RequestNet, PassPC
    <2>2. CASE v # w
      <3>1. /\ pc'[v] = pc[v] /\ job'[v] = job[v] /\ RequestNet(pc[v], job[v], slip, run)
            /\ job[v].period \in Periods /\ job[v].emp \in Employees
        BY <1>8, <2>2 DEF NetInv, RequestsNet, Types, TypeOK, Job
      <3>2. \A e \in Employees : <<job[v].period, e>> \in Slips
        BY <3>1 DEF Slips
      <3> QED BY <1>1, <1>7, <3>1, <3>2 DEF RequestNet
    <2> QED BY <2>1, <2>2
  <1> QED BY <1>9, <1>10, <1>11, <1>12 DEF NetInv

LEMMA FinishKeepsNet == ASSUME Types, NetInv, NEW w \in Workers, Finish(w) PROVE NetInv'
  <1>1. CASE ApproveWrite(w) \/ DisburseWrite(w)
    <2>1. Done(w) /\ slip' = slip /\ RunsStay
      BY <1>1 DEF ApproveWrite, DisburseWrite, StatusWrite, RunsStay, Types, TypeOK
    <2> QED BY <2>1, DoneNet
  <1>2. CASE ReleaseWrite(w) \/ RejectWrite(w)
    <2>1. Done(w) /\ slip' = slip /\ RunsStay
      BY <1>2 DEF ReleaseWrite, RejectWrite, RunsStay
    <2> QED BY <2>1, DoneNet
  <1>3. CASE UpdateWrite(w)
    BY <1>3, EditNet
  <1>4. CASE UpdateRead(w)
    <2> DEFINE row == slip[Here(w)]
               dto == job[w].terms
               new == [count |-> row.terms.count,
                       tds   |-> IF dto.tds = Keep THEN row.terms.tds ELSE dto.tds,
                       other |-> IF dto.other = Keep THEN row.terms.other ELSE dto.other]
               j == [job[w] EXCEPT !.terms = new]
    <2>a. slip' = slip /\ RunsStay
      BY <1>4 DEF UpdateRead, db, RunsStay
    <2>1. CASE row.exists
      <3>1. Note(w, j) /\ Goto(w, "updateWrite")
        BY <1>4, <2>1 DEF UpdateRead
      <3>2. job[w] \in Job /\ Here(w) \in Slips /\ row \in Slip /\ row.terms \in Terms
        BY HereIsSlip DEF Types, TypeOK, Slip
      <3>3. j \in Job /\ j.terms = new /\ j.period = job[w].period /\ j.emp = job[w].emp
        BY <3>2 DEF Job, Terms
      <3>4. "updateWrite" \in PC /\ "updateWrite" \notin PassPC /\ "updateWrite" \notin BeforeUpsert
        BY DEF PC, PassPC, BeforeUpsert
      <3>5. RequestNet("updateWrite", j, slip, run')
        BY <2>1, <3>3, <3>4 DEF RequestNet, Here
      <3> QED BY <2>a, <3>1, <3>3, <3>4, <3>5, MoveNet DEF Goto, Note
    <2>2. CASE ~row.exists
      BY <1>4, <2>2, <2>a, DoneNet DEF UpdateRead
    <2> QED BY <2>1, <2>2
  <1> QED BY <1>1, <1>2, <1>3, <1>4 DEF Finish

LEMMA PassKeepsNet == ASSUME Types, NetInv, NEW w \in Workers, Pass(w) PROVE NetInv'
  <1>a. /\ job[w] \in Job /\ job[w].period \in Periods /\ job[w].left \subseteq Employees
        /\ job \in [Workers -> Job] /\ run \in [Periods -> RunStatus]
    BY DEF Types, TypeOK, Job
  <1>b. Note(w, job[w]) \/ job' # job
    BY <1>a DEF Note
  <1>c. RequestNet(pc[w], job[w], slip, run)
    BY DEF NetInv, RequestsNet
  <1>1. CASE CreateRun(w)
    <2>1. slip' = slip /\ RunsStay
      BY <1>1, <1>a DEF CreateRun, RunsStay
    <2>2. CASE run[job[w].period] # "NONE"
      BY <1>1, <2>1, <2>2, DoneNet DEF CreateRun
    <2>3. CASE run[job[w].period] = "NONE"
      <3>1. /\ Goto(w, "start") /\ job' = job /\ run'[job[w].period] = "DRAFT"
            /\ "start" \in PC /\ "start" \in PassPC /\ "start" \notin BeforeUpsert
        BY <1>1, <1>a, <2>3 DEF CreateRun, PC, PassPC, BeforeUpsert
      <3>2. RequestNet("start", job[w], slip, run')
        BY <1>a, <2>3, <3>1 DEF RequestNet, NetInv, UnrunIsUnwritten
      <3>3. ASSUME NEW v \in Workers PROVE ~InPass(v, job[w].period)
        BY <2>3 DEF NetInv, RequestsNet, RequestNet, InPass
      <3> QED BY <1>a, <1>b, <2>1, <3>1, <3>2, <3>3, MoveNet DEF Goto, Note
    <2> QED BY <2>2, <2>3
  <1>2. CASE StartPass(w)
    <2>1. /\ slip' = slip /\ RunsStay /\ Goto(w, "list") /\ job' = job /\ pc[w] = "start"
          /\ {"list", "start"} \subseteq PassPC /\ "list" \notin BeforeUpsert
      BY <1>2, <1>a DEF StartPass, RunsStay, PassPC, BeforeUpsert
    <2>2. \A e \in Employees : StillDue("list", job[w], e) => StillDue(pc[w], job[w], e)
      BY <2>1 DEF StillDue
    <2> QED BY <1>a, <1>b, <2>1, <2>2, PassOnNet
  <1>3. CASE ListEmployees(w)
    <2>1. /\ slip' = slip /\ RunsStay /\ Goto(w, "loop") /\ pc[w] = "list"
          /\ {"list", "loop"} \subseteq PassPC /\ "loop" \notin BeforeUpsert
      BY <1>3 DEF ListEmployees, RunsStay, db, PassPC, BeforeUpsert
    <2>2. PICK S \in SUBSET Employees : Note(w, [job[w] EXCEPT !.left = S])
      BY <1>3 DEF ListEmployees
    <2>3. [job[w] EXCEPT !.left = S] \in Job /\ [job[w] EXCEPT !.left = S].period = job[w].period
      BY <1>a DEF Job
    <2>4. \A e \in Employees : StillDue(pc[w], job[w], e)
      BY <2>1 DEF StillDue
    <2> QED BY <2>1, <2>2, <2>3, <2>4, PassOnNet
  <1>4. CASE ReadEntry(w)
    <2>1. /\ slip' = slip /\ RunsStay /\ Goto(w, "readIncentives") /\ pc[w] = "loop"
          /\ {"loop", "readIncentives"} \subseteq PassPC
          /\ "readIncentives" \notin {"start", "list"}
      BY <1>4 DEF ReadEntry, RunsStay, db, PassPC
    <2>2. PICK e \in job[w].left :
              Note(w, [job[w] EXCEPT !.emp = e, !.left = @ \ {e}, !.picked = {},
                                     !.base = slip[<<job[w].period, e>>].terms.count])
      BY <1>4 DEF ReadEntry
    <2> DEFINE j == [job[w] EXCEPT !.emp = e, !.left = @ \ {e}, !.picked = {},
                                   !.base = slip[<<job[w].period, e>>].terms.count]
    <2>3. e \in Employees /\ <<job[w].period, e>> \in Slips
      BY <1>a DEF Slips
    <2>4. slip[<<job[w].period, e>>].terms.count \in [Items -> Nat]
      BY <2>3 DEF Types, TypeOK, Slip, Terms
    <2>5. /\ j \in Job /\ j.period = job[w].period /\ j.emp = e /\ j.left = job[w].left \ {e}
      BY <1>a, <2>3, <2>4 DEF Job
    <2>6. \A d \in Employees : StillDue("readIncentives", j, d) => StillDue(pc[w], job[w], d)
      BY <2>1, <2>5 DEF StillDue
    <2>7. Note(w, j)
      BY <2>2
    <2> HIDE DEF j
    <2> QED BY <2>1, <2>5, <2>6, <2>7, PassOnNet
  <1>5. ASSUME NEW from \in BeforeUpsert, NEW rows \in SUBSET Items, NEW to \in BeforeUpsert,
               Pick(w, from, rows, to)
        PROVE NetInv'
    <2> DEFINE j == [job[w] EXCEPT !.picked = @ \cup rows]
    <2>1. /\ slip' = slip /\ RunsStay /\ Goto(w, to) /\ Note(w, j) /\ pc[w] = from
          /\ pc[w] \in PassPC /\ to \in PassPC /\ to \notin {"start", "list"}
      BY <1>5, PassStages DEF Pick, RunsStay, db, BeforeUpsert, PassPC
    <2>2. /\ j \in Job /\ j.period = job[w].period /\ j.emp = job[w].emp /\ j.left = job[w].left
      BY <1>a DEF Job
    <2>3. /\ \A e \in Employees : StillDue(to, j, e) => StillDue(pc[w], job[w], e)
          /\ j.emp \notin j.left
      BY <1>c, <1>5, <2>1, <2>2 DEF StillDue, RequestNet
    <2> HIDE DEF j
    <2> QED BY <2>1, <2>2, <2>3, PassOnNet
  <1>6. CASE ReadIncentives(w) \/ ReadThanks(w) \/ ReadLoans(w)
    <2>1. /\ Unsettled(w, Incentives) \in SUBSET Items /\ Unsettled(w, Thanks) \in SUBSET Items
          /\ DueEmis(w) \in SUBSET Items
      BY DEF DueEmis, Unsettled, Items
    <2> QED BY <1>5, <1>6, <2>1 DEF ReadIncentives, ReadThanks, ReadLoans, BeforeUpsert
  <1>7. CASE UpsertEntry(w)
    BY <1>7, UpsertNet
  <1>8. CASE MarkEmis(w) \/ CloseLoans(w) \/ MarkIncentives(w) \/ MarkThanks(w)
    <2>1. PICK to \in {"closeLoans", "markIncentives", "markThanks", "loop"} : Goto(w, to)
      BY <1>8 DEF MarkEmis, CloseLoans, MarkIncentives, MarkThanks
    <2>2. /\ slip' = slip /\ RunsStay /\ job' = job /\ pc[w] \in AfterUpsert
      BY <1>8 DEF MarkEmis, CloseLoans, MarkIncentives, MarkThanks, RunsStay, AfterUpsert
    <2>3. /\ pc[w] \in PassPC /\ to \in PassPC /\ to \notin BeforeUpsert
          /\ to \notin {"start", "list"}
      BY <2>2, PassStages DEF PassPC, BeforeUpsert
    <2>4. \A e \in Employees : StillDue(to, job[w], e) => StillDue(pc[w], job[w], e)
      BY <2>3 DEF StillDue
    <2> QED BY <1>a, <1>b, <2>1, <2>2, <2>3, <2>4, PassOnNet
  <1>9. CASE CompleteRun(w)
    <2>1. Done(w) /\ slip' = slip /\ RunsStay
      BY <1>9, <1>a DEF CompleteRun, RunsStay
    <2> QED BY <2>1, DoneNet
  <1> QED BY <1>1, <1>2, <1>3, <1>4, <1>6, <1>7, <1>8, <1>9 DEF Pass

LEMMA NextNet == ASSUME NeverAgain, Types, NetInv, [Next]_vars PROVE NetInv'
  <1>1. ASSUME NEW w \in Workers, Crash(w) PROVE NetInv'
    BY <1>1, DoneNet DEF Crash, db, RunsStay
  <1>2. CASE UNCHANGED vars
    BY <1>2 DEF vars, NetInv, OnePass, RequestsNet, UnrunIsUnwritten, UnwrittenIsBlank, NetMatchesTerms
  <1> QED BY <1>1, <1>2, UpstreamNet, RequestKeepsNet, PassKeepsNet, FinishKeepsNet DEF Next

LEMMA InitNet == Init => NetInv
  <1> SUFFICES ASSUME Init PROVE NetInv
    OBVIOUS
  <1>1. OnePass /\ RequestsNet
    BY DEF Init, OnePass, RequestsNet, RequestNet, PassPC, BeforeUpsert
  <1>2. UnrunIsUnwritten /\ UnwrittenIsBlank /\ NetMatchesTerms
    BY DEF Init, UnrunIsUnwritten, UnwrittenIsBlank, NetMatchesTerms, Slips
  <1> QED BY <1>1, <1>2 DEF NetInv

(* As long as no pass is made over a completed run again, the net salary a *)
(* slip stores is computed from the slip's own terms, however many edits   *)
(* of tds and otherDeductions race each other and the pass, and also where *)
(* one of them dies: updateEntry writes amounts it read in an earlier      *)
(* statement.                                                              *)
THEOREM NetIsOfItsTerms == ASSUME NeverAgain PROVE Spec => []NetMatchesTerms
  <1>1. Types /\ NetInv /\ [Next]_vars => NetInv'
    BY NextNet
  <1>2. NetInv => NetMatchesTerms
    BY DEF NetInv
  <1> QED BY <1>1, <1>2, InitTypes, NextTypes, InitNet, PTL DEF Spec
=============================================================================
