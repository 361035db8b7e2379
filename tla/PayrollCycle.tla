---------------------------- MODULE PayrollCycle ----------------------------
(***************************************************************************)
(* The monthly payroll run of one organization and the three ledgers that  *)
(* feed it: loan instalments (EMIs), incentives and Green Thanks awards.   *)
(*                                                                         *)
(* A request handler is a sequence of awaited database statements.  Each   *)
(* statement is one action, and what the handler has read so far lives in  *)
(* job[w], so every other handler may run between two statements.          *)
(* Money is kept as the question the properties ask of it: terms.count[i]  *)
(* says how many times the amount of item i is contained in the entry's    *)
(* loanDeduction, incentiveAmount or greenThanksAmount.                    *)
(***************************************************************************)
EXTENDS Naturals

CONSTANTS
    Employees,
    Periods,            \* the (month, year) pairs payroll is run for
    Loans,
    Emis,               \* LoanEmiSchedule rows
    Incentives,         \* IncentiveLedger rows
    Thanks,             \* GreenThanks rows
    EmpOf,              \* item -> the employee it belongs to
    LoanOf,             \* EMI row -> its loan
    DueIn,              \* EMI row -> the period of its (emiMonth, emiYear)
    Workers,            \* concurrently served requests
    Amounts,            \* values of tds and otherDeductions, 0 among them
    Keep,               \* dto.tds or dto.otherDeductions left out
    NoEntry,            \* payrollEntryId = null
    Reprocessing,       \* processRun may be called again on a COMPLETED run
    MovesPeriod,        \* a release or an approval may name another payroll period
    Crashes             \* a handler may die between two statements

Items == Emis \cup Incentives \cup Thanks
Slips == Periods \X Employees

ASSUME ConstantsAssumption ==
    /\ Employees # {} /\ Periods # {}
    /\ EmpOf \in [Items -> Employees]
    /\ LoanOf \in [Emis -> Loans]
    /\ DueIn \in [Emis -> Periods]
    /\ Amounts \subseteq Nat /\ 0 \in Amounts
    /\ Keep \notin Amounts
    /\ NoEntry \notin Slips
    /\ {Reprocessing, MovesPeriod, Crashes} \subseteq BOOLEAN

ASSUME KindsAreDisjoint ==
    /\ Emis \cap Incentives = {}
    /\ Emis \cap Thanks = {}
    /\ Incentives \cap Thanks = {}

VARIABLES
    run,    \* period -> PayrollRun.status, "NONE" when there is no row
    slip,   \* <<period, employee>> -> PayrollEntry
    item,   \* item -> its ledger row
    loan,   \* loan -> LoanApplication.status
    pc,     \* worker -> the statement its request executes next
    job     \* worker -> what its request has read

vars == <<run, slip, item, loan, pc, job>>
db == <<run, slip, item, loan>>

Zero == [i \in Items |-> 0]
NoTerms == [count |-> Zero, tds |-> 0, other |-> 0]

AnyPeriod == CHOOSE p \in Periods : TRUE
AnyEmployee == CHOOSE e \in Employees : TRUE
Blank == [period |-> AnyPeriod, emp |-> AnyEmployee, left |-> {}, base |-> Zero,
          picked |-> {}, terms |-> NoTerms]

RunStatus == {"NONE", "DRAFT", "PROCESSING", "COMPLETED", "APPROVED", "DISBURSED"}
Editable == {"DRAFT", "PROCESSING", "COMPLETED"}

Terms == [count : [Items -> Nat], tds : Amounts, other : Amounts]
Slip == [exists : BOOLEAN, terms : Terms, net : Terms]
Row == [state : {"absent", "held", "open", "rejected"}, period : Periods,
        settled : BOOLEAN, entry : Slips \cup {NoEntry}]
PassPC == {"start", "list", "loop", "readIncentives", "readThanks", "readLoans",
           "upsert", "markEmis", "closeLoans", "markIncentives", "markThanks"}
PC == PassPC \cup {"idle", "create", "approve", "disburse",
                   "updateRead", "updateWrite", "release", "reject"}
Job == [period : Periods, emp : Employees, left : SUBSET Employees,
        base : [Items -> Nat], picked : SUBSET Items,
        terms : [count : [Items -> Nat], tds : Amounts \cup {Keep},
                 other : Amounts \cup {Keep}]]

TypeOK ==
    /\ run \in [Periods -> RunStatus]
    /\ slip \in [Slips -> Slip]
    /\ item \in [Items -> Row]
    /\ loan \in [Loans -> {"PENDING", "ACTIVE", "CLOSED"}]
    /\ pc \in [Workers -> PC]
    /\ job \in [Workers -> Job]

Init ==
    /\ run = [p \in Periods |-> "NONE"]
    /\ slip = [s \in Slips |-> [exists |-> FALSE, terms |-> NoTerms, net |-> NoTerms]]
    /\ item = [i \in Items |-> [state |-> "absent", settled |-> FALSE, entry |-> NoEntry,
                                period |-> IF i \in Emis THEN DueIn[i] ELSE AnyPeriod]]
    /\ loan = [l \in Loans |-> "PENDING"]
    /\ pc = [w \in Workers |-> "idle"]
    /\ job = [w \in Workers |-> Blank]

Goto(w, to) == pc' = [pc EXCEPT ![w] = to]
Save(s, row) == slip' = [slip EXCEPT ![s] = row]
Note(w, j) == job' = [job EXCEPT ![w] = j]
Done(w) == Goto(w, "idle") /\ Note(w, Blank)
InPass(w, p) == pc[w] \in PassPC /\ job[w].period = p
Here(w) == <<job[w].period, job[w].emp>>

-----------------------------------------------------------------------------
(* The statements of the upstream handlers that create pay items.          *)

(* LoansService.approve: ACTIVE and the whole EMI schedule, one transaction. *)
PostLoan(l) ==
    /\ loan[l] = "PENDING"
    /\ loan' = [loan EXCEPT ![l] = "ACTIVE"]
    /\ item' = [i \in Items |-> IF i \in Emis /\ LoanOf[i] = l
                                THEN [item[i] EXCEPT !.state = "open"] ELSE item[i]]
    /\ UNCHANGED <<run, slip, pc, job>>

(* TodosService.approve: the ledger row, held or released at once. *)
PostIncentive(i, p, hold) ==
    /\ i \in Incentives /\ item[i].state = "absent"
    /\ item' = [item EXCEPT ![i] =
                    [@ EXCEPT !.state = IF hold THEN "held" ELSE "open", !.period = p]]
    /\ UNCHANGED <<run, slip, loan, pc, job>>

(* GreenThanksService.create: a pending row.  Its payroll period is empty    *)
(* until approved; p stands for the month an approval defaults to.          *)
PostThanks(i, p) ==
    /\ i \in Thanks /\ item[i].state = "absent"
    /\ item' = [item EXCEPT ![i] = [@ EXCEPT !.state = "held", !.period = p]]
    /\ UNCHANGED <<run, slip, loan, pc, job>>

-----------------------------------------------------------------------------
(* IncentiveLedgerService.release and GreenThanksService.approve: the row  *)
(* is read and checked, then written whatever happened to it meanwhile.    *)

DecideRead(w, i, p, to) ==
    /\ pc[w] = "idle"
    /\ item[i].state = "held" /\ ~item[i].settled
    /\ MovesPeriod \/ p = item[i].period
    /\ Note(w, [job[w] EXCEPT !.period = p, !.picked = {i}])
    /\ Goto(w, to)
    /\ UNCHANGED db

(* release, or approve with dto.approve; the dto may name a payroll period. *)
ReleaseRead(w, i, p) == i \in Incentives \cup Thanks /\ DecideRead(w, i, p, "release")

(* approve with dto.approve = false *)
RejectRead(w, i, p) == i \in Thanks /\ DecideRead(w, i, p, "reject")

ReleaseWrite(w) ==
    /\ pc[w] = "release"
    /\ item' = [i \in Items |-> IF i \in job[w].picked
                    THEN [item[i] EXCEPT !.state = "open", !.period = job[w].period]
                    ELSE item[i]]
    /\ Done(w)
    /\ UNCHANGED <<run, slip, loan>>

RejectWrite(w) ==
    /\ pc[w] = "reject"
    /\ item' = [i \in Items |-> IF i \in job[w].picked
                    THEN [item[i] EXCEPT !.state = "rejected"] ELSE item[i]]
    /\ Done(w)
    /\ UNCHANGED <<run, slip, loan>>

-----------------------------------------------------------------------------
(* PayrollService.initiateRun and processRun *)

InitiateRun(w, p) ==
    /\ pc[w] = "idle"
    /\ run[p] = "NONE"
    /\ Note(w, [job[w] EXCEPT !.period = p])
    /\ Goto(w, "create")
    /\ UNCHANGED db

(* @@unique([organizationId, month, year]) makes the second create fail. *)
CreateRun(w) ==
    /\ pc[w] = "create"
    /\ \/ /\ run[job[w].period] = "NONE"
          /\ run' = [run EXCEPT ![job[w].period] = "DRAFT"]
          /\ Goto(w, "start")
          /\ UNCHANGED job
       \/ /\ run[job[w].period] # "NONE"
          /\ Done(w)
          /\ UNCHANGED run
    /\ UNCHANGED <<slip, item, loan>>

(* The direct call of processRun: no route reaches it after initiateRun; it *)
(* is called as the tests do, on a completed run nobody is processing.      *)
ReprocessRun(w, p) ==
    /\ Reprocessing
    /\ pc[w] = "idle"
    /\ run[p] = "COMPLETED"
    /\ \A v \in Workers : ~InPass(v, p)
    /\ Note(w, [job[w] EXCEPT !.period = p])
    /\ Goto(w, "start")
    /\ UNCHANGED db

StartPass(w) ==
    /\ pc[w] = "start"
    /\ run' = [run EXCEPT ![job[w].period] = "PROCESSING"]
    /\ Goto(w, "list")
    /\ UNCHANGED <<slip, item, loan, job>>

(* dto.employeeIds, deletedAt and EXITED may leave out any employee. *)
ListEmployees(w) ==
    /\ pc[w] = "list"
    /\ \E S \in SUBSET Employees : Note(w, [job[w] EXCEPT !.left = S])
    /\ Goto(w, "loop")
    /\ UNCHANGED db

ReadEntry(w) ==
    /\ pc[w] = "loop"
    /\ \E e \in job[w].left :
          Note(w, [job[w] EXCEPT !.emp = e, !.left = @ \ {e}, !.picked = {},
                                 !.base = slip[<<job[w].period, e>>].terms.count])
    /\ Goto(w, "readIncentives")
    /\ UNCHANGED db

(* Faults of the three queries: settled rows again, or rows of any period. *)
UnsettledAgain(w, kind) ==
    {i \in kind : /\ EmpOf[i] = job[w].emp
                  /\ item[i].period = job[w].period
                  /\ item[i].state = "open"}
UnsettledOfAnyPeriod(w, kind) ==
    {i \in kind : EmpOf[i] = job[w].emp /\ item[i].state = "open" /\ ~item[i].settled}

(* The rows the three getXForPeriod queries return to worker w. *)
Unsettled(w, kind) ==
    {i \in kind : /\ EmpOf[i] = job[w].emp
                  /\ item[i].period = job[w].period
                  /\ item[i].state = "open"
                  /\ ~item[i].settled}

DueEmis(w) == {i \in Unsettled(w, Emis) : loan[LoanOf[i]] = "ACTIVE"}

Pick(w, from, rows, to) ==
    /\ pc[w] = from
    /\ Note(w, [job[w] EXCEPT !.picked = @ \cup rows])
    /\ Goto(w, to)
    /\ UNCHANGED db

ReadIncentives(w) == Pick(w, "readIncentives", Unsettled(w, Incentives), "readThanks")
ReadThanks(w) == Pick(w, "readThanks", Unsettled(w, Thanks), "readLoans")
ReadLoans(w) == Pick(w, "readLoans", DueEmis(w), "upsert")

(* Fault: the amounts of an earlier pass are overwritten, not accumulated. *)
UpsertOverwrites(w) ==
    LET total == [i \in Items |-> IF i \in job[w].picked THEN 1 ELSE 0]
        old == slip[Here(w)]
    IN /\ pc[w] = "upsert"
       /\ Save(Here(w),
               [exists |-> TRUE,
                terms  |-> [count |-> total, tds |-> old.terms.tds, other |-> old.terms.other],
                net    |-> [count |-> total, tds |-> 0, other |-> 0]])
       /\ Goto(w, "markEmis")
       /\ UNCHANGED <<run, item, loan, job>>

(* Accumulates onto what was read at the start of the loop body.  An update *)
(* keeps the row's tds and otherDeductions; the net never subtracts them.   *)
UpsertEntry(w) ==
    LET total == [i \in Items |-> job[w].base[i] + (IF i \in job[w].picked THEN 1 ELSE 0)]
        old == slip[Here(w)]
    IN /\ pc[w] = "upsert"
       /\ Save(Here(w),
               [exists |-> TRUE,
                terms  |-> [count |-> total, tds |-> old.terms.tds, other |-> old.terms.other],
                net    |-> [count |-> total, tds |-> 0, other |-> 0]])
       /\ Goto(w, "markEmis")
       /\ UNCHANGED <<run, item, loan, job>>

Settle(w, kind, linked) ==
    item' = [i \in Items |->
        IF i \in job[w].picked \cap kind
        THEN [item[i] EXCEPT !.settled = TRUE, !.entry = IF linked THEN Here(w) ELSE @]
        ELSE item[i]]

MarkEmis(w) ==
    /\ pc[w] = "markEmis"
    /\ Settle(w, Emis, TRUE)
    /\ Goto(w, "closeLoans")
    /\ UNCHANGED <<run, slip, loan, job>>

(* Faults: a loan is closed by its first instalment; a loan is closed only *)
(* by a pass that took all its instalments.                                *)
CloseLoansTouched(w) ==
    /\ pc[w] = "closeLoans"
    /\ LET touched == {LoanOf[i] : i \in job[w].picked \cap Emis}
       IN loan' = [l \in Loans |->
              IF l \in touched /\ loan[l] = "ACTIVE" THEN "CLOSED" ELSE loan[l]]
    /\ Goto(w, "markIncentives")
    /\ UNCHANGED <<run, slip, item, job>>
CloseLoansAllPicked(w) ==
    /\ pc[w] = "closeLoans"
    /\ LET paidUp == {l \in Loans : {i \in Emis : LoanOf[i] = l} \subseteq job[w].picked}
       IN loan' = [l \in Loans |->
              IF l \in paidUp /\ loan[l] = "ACTIVE" THEN "CLOSED" ELSE loan[l]]
    /\ Goto(w, "markIncentives")
    /\ UNCHANGED <<run, slip, item, job>>

(* The tail of markEmiDeducted.  Per loan, the count of undeducted rows and *)
(* the conditional update are one step: rows are never unmarked or added,   *)
(* so a count of 0 is still 0 when the update runs.                         *)
CloseLoans(w) ==
    /\ pc[w] = "closeLoans"
    /\ LET touched == {LoanOf[i] : i \in job[w].picked \cap Emis}
           paidUp == {l \in touched : \A i \in Emis : LoanOf[i] = l => item[i].settled}
       IN loan' = [l \in Loans |->
              IF l \in paidUp /\ loan[l] = "ACTIVE" THEN "CLOSED" ELSE loan[l]]
    /\ Goto(w, "markIncentives")
    /\ UNCHANGED <<run, slip, item, job>>

(* Fault: the ledger rows stay unmarked. *)
MarkNoIncentives(w) ==
    /\ pc[w] = "markIncentives"
    /\ Goto(w, "markThanks")
    /\ UNCHANGED <<run, slip, item, loan, job>>

MarkIncentives(w) ==
    /\ pc[w] = "markIncentives"
    /\ Settle(w, Incentives, TRUE)
    /\ Goto(w, "markThanks")
    /\ UNCHANGED <<run, slip, loan, job>>

(* GreenThanks has no payrollEntryId column. *)
MarkThanks(w) ==
    /\ pc[w] = "markThanks"
    /\ Settle(w, Thanks, FALSE)
    /\ Goto(w, "loop")
    /\ UNCHANGED <<run, slip, loan, job>>

(* Fault: the final status is not written. *)
CompleteLater(w) ==
    /\ pc[w] = "loop"
    /\ job[w].left = {}
    /\ Done(w)
    /\ UNCHANGED <<run, slip, item, loan>>

CompleteRun(w) ==
    /\ pc[w] = "loop"
    /\ job[w].left = {}
    /\ run' = [run EXCEPT ![job[w].period] = "COMPLETED"]
    /\ Done(w)
    /\ UNCHANGED <<slip, item, loan>>

-----------------------------------------------------------------------------
(* PayrollService.approveRun, disburseRun and updateEntry *)

StatusRead(w, p, from, to) ==
    /\ pc[w] = "idle"
    /\ run[p] = from
    /\ Note(w, [job[w] EXCEPT !.period = p])
    /\ Goto(w, to)
    /\ UNCHANGED db

StatusWrite(w, at, status) ==
    /\ pc[w] = at
    /\ run' = [run EXCEPT ![job[w].period] = status]
    /\ Done(w)
    /\ UNCHANGED <<slip, item, loan>>

ApproveRead(w, p) == StatusRead(w, p, "COMPLETED", "approve")
ApproveWrite(w) == StatusWrite(w, "approve", "APPROVED")
DisburseRead(w, p) == StatusRead(w, p, "APPROVED", "disburse")
DisburseWrite(w) == StatusWrite(w, "disburse", "DISBURSED")

UpdateCheck(w, p, e, tds, other) ==
    /\ pc[w] = "idle"
    /\ run[p] \in Editable
    /\ Note(w, [job[w] EXCEPT !.period = p, !.emp = e,
                   !.terms = [count |-> Zero, tds |-> tds, other |-> other]])
    /\ Goto(w, "updateRead")
    /\ UNCHANGED db

UpdateRead(w) ==
    /\ pc[w] = "updateRead"
    /\ LET row == slip[Here(w)]
           dto == job[w].terms
       IN \/ /\ row.exists
             /\ Note(w, [job[w] EXCEPT !.terms =
                    [count |-> row.terms.count,
                     tds   |-> IF dto.tds = Keep THEN row.terms.tds ELSE dto.tds,
                     other |-> IF dto.other = Keep THEN row.terms.other ELSE dto.other]])
             /\ Goto(w, "updateWrite")
          \/ /\ ~row.exists
             /\ Done(w)
    /\ UNCHANGED db

(* Fault: the net salary is not recomputed. *)
UpdateKeepsNet(w) ==
    /\ pc[w] = "updateWrite"
    /\ LET row == slip[Here(w)]
           new == job[w].terms
       IN Save(Here(w), [row EXCEPT !.terms =
                            [count |-> row.terms.count, tds |-> new.tds, other |-> new.other]])
    /\ Done(w)
    /\ UNCHANGED <<run, item, loan>>

UpdateWrite(w) ==
    /\ pc[w] = "updateWrite"
    /\ LET row == slip[Here(w)]
           new == job[w].terms
       IN Save(Here(w),
               [exists |-> row.exists,
                terms  |-> [count |-> row.terms.count, tds |-> new.tds, other |-> new.other],
                net    |-> new])
    /\ Done(w)
    /\ UNCHANGED <<run, item, loan>>

-----------------------------------------------------------------------------
(* The process dies, or a statement throws: earlier statements stay. *)
Crash(w) ==
    /\ Crashes
    /\ pc[w] # "idle"
    /\ Done(w)
    /\ UNCHANGED db

Upstream ==
    \/ \E l \in Loans : PostLoan(l)
    \/ \E i \in Incentives, p \in Periods, hold \in BOOLEAN : PostIncentive(i, p, hold)
    \/ \E i \in Thanks, p \in Periods : PostThanks(i, p)

Request(w) ==
    \E p \in Periods :
        \/ InitiateRun(w, p)
        \/ ReprocessRun(w, p)
        \/ ApproveRead(w, p)
        \/ DisburseRead(w, p)
        \/ \E i \in Items : ReleaseRead(w, i, p) \/ RejectRead(w, i, p)
        \/ \E e \in Employees, t \in Amounts \cup {Keep}, o \in Amounts \cup {Keep} :
              UpdateCheck(w, p, e, t, o)

Pass(w) ==
    \/ CreateRun(w) \/ StartPass(w) \/ ListEmployees(w) \/ ReadEntry(w)
    \/ ReadIncentives(w) \/ ReadThanks(w) \/ ReadLoans(w) \/ UpsertEntry(w)
    \/ MarkEmis(w) \/ CloseLoans(w) \/ MarkIncentives(w) \/ MarkThanks(w)
    \/ CompleteRun(w)

Finish(w) ==
    \/ ApproveWrite(w) \/ DisburseWrite(w)
    \/ UpdateRead(w) \/ UpdateWrite(w) \/ ReleaseWrite(w) \/ RejectWrite(w)

Next ==
    \/ Upstream
    \/ \E w \in Workers : Request(w) \/ Pass(w) \/ Finish(w) \/ Crash(w)

Spec == Init /\ [][Next]_vars

(* The event loop runs the continuation of every settled await. *)
Fairness == \A w \in Workers : WF_vars(Pass(w)) /\ WF_vars(Finish(w))
-----------------------------------------------------------------------------
Counted(s, i) == slip[s].terms.count[i]
Processing(p) == \E w \in Workers : InPass(w, p)

(* No amount is in two pay slips, or twice in one: whatever requests        *)
(* interleave with the passes, whenever rows are posted and wherever a pass *)
(* dies, the accumulation of processRun never takes a row a second time.    *)
PaidAtMostOnce ==
    \A i \in Items, s, t \in Slips :
        /\ Counted(s, i) <= 1
        /\ Counted(s, i) = 1 /\ Counted(t, i) = 1 => s = t

(* A ledger row is marked deducted or paid only after its amount reached    *)
(* the pay slip it is linked to: nobody loses an incentive, and no EMI is   *)
(* written off, because a pass died or another overwrote the slip.          *)
SettledIsPaid ==
    \A i \in Items : item[i].settled =>
        /\ \E p \in Periods : Counted(<<p, EmpOf[i]>>, i) = 1
        /\ i \notin Thanks => /\ item[i].entry \in Slips
                              /\ Counted(item[i].entry, i) = 1

(* When a run says COMPLETED and no pass is under way, all three mark steps *)
(* of every slip happened: each amount in the run's slips is settled.       *)
CompletedIsSettled ==
    \A p \in Periods, e \in Employees, i \in Items :
        run[p] = "COMPLETED" /\ ~Processing(p) /\ Counted(<<p, e>>, i) > 0
            => item[i].settled

(* markEmiDeducted closes a loan only when every instalment was taken from  *)
(* some pay slip, also when the passes of two periods mark rows of the same *)
(* loan at the same time.                                                   *)
ClosedIsPaid ==
    \A i \in Emis : loan[LoanOf[i]] = "CLOSED" =>
        \E s \in Slips : Counted(s, i) = 1

(* The stored net salary was computed from the row's own terms: its amounts *)
(* and its tds and otherDeductions (payroll-calculation.ts:121).            *)
NetMatchesTerms == \A s \in Slips : slip[s].net = slip[s].terms

(* Without a crash every run that was created reaches COMPLETED.            *)
RunCompletes ==
    \A p \in Periods : run[p] \in {"DRAFT", "PROCESSING"}
        ~> run[p] \in {"COMPLETED", "APPROVED", "DISBURSED"}

(* Without a crash a loan whose every instalment is deducted gets closed,   *)
(* although each pass looks only at the rows it has just marked.            *)
PaidLoanCloses ==
    \A l \in Loans :
        (loan[l] = "ACTIVE" /\ \A i \in Emis : LoanOf[i] = l => item[i].settled)
            ~> loan[l] = "CLOSED"

(* The cycle implements the promise of PayOnce: the pass that writes a slip *)
(* pays the items, every other statement is a stutter.                      *)
Promise == INSTANCE PayOnce WITH paid <- [s \in Slips |-> slip[s].terms.count]
PaysOnce == Promise!Spec
-----------------------------------------------------------------------------
(* The strengthening that makes the safety invariants inductive when        *)
(* releases and approvals agree on the payroll period of a row.             *)

BeforeUpsert == {"readIncentives", "readThanks", "readLoans", "upsert"}
AfterUpsert == {"markEmis", "closeLoans", "markIncentives", "markThanks"}

(* The statements up to and including the one that settles item i. *)
MarkAhead(i) ==
    IF i \in Emis THEN {"markEmis"}
    ELSE IF i \in Incentives THEN {"markEmis", "closeLoans", "markIncentives"}
    ELSE AfterUpsert

(* An edit about to be written holds stored values. *)
EditResolved ==
    \A w \in Workers : pc[w] = "updateWrite" =>
        job[w].terms.tds \in Amounts /\ job[w].terms.other \in Amounts

OnePass ==
    \A v, w \in Workers :
        pc[v] \in PassPC /\ pc[w] \in PassPC /\ job[v].period = job[w].period => v = w

PassKeepsRunOpen ==
    \A w \in Workers :
        /\ pc[w] \in PassPC => run[job[w].period] # "NONE"
        /\ pc[w] \in PassPC \ {"start"} => run[job[w].period] # "COMPLETED"

ReleaseKeepsPeriod ==
    \A w \in Workers : pc[w] = "release" =>
        \A i \in job[w].picked : item[i].state # "absent" /\ item[i].period = job[w].period

PickedIsDue ==
    \A w \in Workers : pc[w] \in BeforeUpsert \cup AfterUpsert =>
        \A i \in job[w].picked :
            EmpOf[i] = job[w].emp /\ item[i].period = job[w].period /\ item[i].state # "absent"

PickedIsNew ==
    \A w \in Workers : pc[w] \in BeforeUpsert =>
        /\ job[w].base = slip[Here(w)].terms.count
        /\ \A i \in job[w].picked : Counted(Here(w), i) = 0 /\ ~item[i].settled

PickedIsCounted ==
    \A w \in Workers : pc[w] \in AfterUpsert =>
        \A i \in job[w].picked : Counted(Here(w), i) = 1

CountedIsDue ==
    \A s \in Slips, i \in Items :
        /\ Counted(s, i) \in {0, 1}
        /\ Counted(s, i) = 1 => /\ s = <<item[i].period, EmpOf[i]>>
                                /\ item[i].state # "absent"
                                /\ run[s[1]] # "NONE"

(* An amount in a slip is settled, about to be settled by the pass that put *)
(* it there, or stranded in a run no pass will ever work on again.          *)
CountedIsSettled ==
    \A s \in Slips, i \in Items : Counted(s, i) = 1 =>
        \/ item[i].settled
        \/ \E w \in Workers : /\ pc[w] \in MarkAhead(i)
                               /\ Here(w) = s
                               /\ i \in job[w].picked
        \/ ~Processing(s[1]) /\ run[s[1]] # "COMPLETED"

ClosedIsSettled ==
    \A i \in Emis : loan[LoanOf[i]] = "CLOSED" => item[i].settled

IInv ==
    /\ TypeOK
    /\ EditResolved
    /\ OnePass
    /\ PassKeepsRunOpen
    /\ ReleaseKeepsPeriod
    /\ PickedIsDue
    /\ PickedIsNew
    /\ PickedIsCounted
    /\ CountedIsDue
    /\ CountedIsSettled
    /\ SettledIsPaid
    /\ ClosedIsSettled
=============================================================================
