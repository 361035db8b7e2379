# A verification project for iGreen Tec's HRMS backend

The repository is a NestJS/Prisma/MySQL backend for human resources: payroll, loans, leave,
onboarding, exit, assets, attendance, rewards and the everyday services of many organizations,
with a scheduler, a Redis session store, sockets and BullMQ queues beside it. This directory
models the part of it where correctness depends on *order*: requests that read, decide and write
in separate statements, jobs that run beside them, failures in between, and who gets to which
handler in the first place.

Paths below are relative to `src/src/modules/`, or are given from `src/`.

## 1. The system

One Node process (`ecosystem.config.js`: one instance, fork mode) serves HTTP requests. A
handler is a chain of `await`s; between any two of them every other handler and every cron job
may run. State is in MySQL. Most services follow one pattern:

1. `findFirst` a row and check its status,
2. compute,
3. `update({ where: { id } })`: the check is *not* part of the update's condition.

Few handlers use a transaction, and those that do still make their check before it. So the
unit of interleaving is the statement or the transaction, and that is an action in the models.

### Inventory

The last column is what makes the component correct; the names are the properties that say so.

| component | state it keeps | operations | interacts with | hard behaviour and what must hold |
|---|---|---|---|---|
| Payroll runs (`payroll/`) | `PayrollRun`, `PayrollEntry` | initiate, process, approve, disburse, edit an entry | reads and marks EMIs, incentives, Green Thanks; reads leave, bonuses | a pass of many statements, no transaction, edits and other passes beside it: `PaidAtMostOnce`, `SettledIsPaid`, `CompletedIsSettled`, `NetMatchesTerms`, `RunCompletes`; thresholds, rounding and LOP days: `WagesAddUp` |
| Loans (`loans/`) | `LoanApplication`, `LoanEmiSchedule` | apply, approve (makes the schedule), reject, settlement quote, deduct | deducted and closed by payroll | rounding of the schedule, concurrent deduction and closing: `AmountsAddUp`, `ClosedIsPaid`, `PaidLoanCloses` |
| Incentive ledger (`incentives/`) | `IncentiveLedger`, rules | hold, release to a period, deduct | earned by todos, paid by payroll | release racing the pass that pays: `PaidAtMostOnce` and the finding of payroll_rerelease |
| Todos (`todos/`) | `Todo` and its ledger row | create, submit, approve, reject | writes the incentive ledger | submission racing review: `LedgerMatchesTodos` |
| Green Thanks (`green-thanks/`) | entries, quarterly limit | send, approve, reject | paid by payroll | quota sum and insert are two statements: `AwardsAreInOrder` |
| Leave (`leave/`) | applications, balance rows | apply, cancel, approve, reject, monthly accrual | special leave granted by service requests; read by payroll | balance read-modify-write, accrual beside it: `DaysAddUp`, `OnlySpecialOverdraws`, `ApprovedIsCharged` |
| Leave policies (`leave/leave-policies.service.ts`, `organizations/leave-policies/`) | `LeavePolicyType` rows | create, update with `reconcileTypes` | referred to by balances and applications | a list reconciled statement by statement: `UsedStays`, `AnsweredAsAsked` |
| Exit (`exit/`) | `ExitRecord` with a checklist in JSON | create, update clearance, settle | counts assets, sets the employee EXITED, revokes chat; room requests admit again | a settlement of several commits: `SettlementIsWhole`, `SettledIsFinalUnraced` |
| Assets (`assets/`) | `Asset`, `AssetAssignment` log | create, assign, return | counted by the exit | status and log in two tables: `OneHolderUnraced`, `AssignedHasHolder`, `HistoryIsKept` |
| Employees (`employees/`) | `Employee`, `User` | create, edit (the address too), status, org chart, photo and documents, delete, restore | a status change revokes chat | employee code, plan limit, unique keys, two walks of the org chart: `HiredOnce`, `ChartsAgree`, `AssignedIsLive` |
| Onboarding (`employees/onboarding/`) | `OnboardingLink`, transitions | invite, details, documents, review, approve, revoke, resend, hourly expiry | makes employee, user, leave balances, welcome mail | candidate, HR and scheduler write by id: `JoinedIsComplete`, `ChangesAreLoggedUnraced` |
| Attendance (`attendance/`), on duty (`attendance/od/`) | `AttendanceLog` per day, `OdRecord` | check in/out, manual, import, corrections, on-duty entries | an on-duty entry marks attendance | upserts that make half-filled rows; sum, then write: `DayAddsUp` |
| Sessions (`auth/`, `src/src/redis/`, `organizations/auto-logout.scheduler.ts`) | refresh tokens, reset links, login history | login, refresh, logout, passwords, nightly logout | every guard | compare, then save; a day marker written before the work: `RevokedIsGone`, `LinkWorksOnce` |
| Guards and routes (`src/src/common/guards/`, all controllers) | decorators, `User.mustChangePassword`, `Employee.status`, roles | what a request gets through to | every handler | 282 routes in the order of registration, two gates, roles given at any time: `NoRouteIsHidden`, `GatedDoLittle`, `DecidersMayLook`, `OthersActivate` |
| Roles (`roles/`, `src/src/common/rbac/`) | `Role`, `UserRole` | create, update, remove, assign, refresh after a release | the guards | requests beside the refresh: `NothingIsTaken`, `RefreshCompletes` |
| Departments (`organizations/departments/`) | names, parents, levels | create, change, remove, restore | employees, designations | a walk up and a descent, one row a query: `Acyclic`, `TreeIsSound` |
| Designations, structures, zones (`organizations/…`) | rows with a removal mark | assign, remove, restore, link | employees | a count of uses before the removal: `AssignedIsLive` |
| Service requests (`service-requests/`) | requests | create, assign, resolve, grant, start, close | grants special leave | status by id: `ResolvedIsGranted`, `ResolvedStaysResolved` |
| Performance (`performance/`) | cycles, ratings | create, activate, close, submit a rating | the org chart | a walk of queries between check and write: `RatedFromAbove` |
| Disciplinary (`disciplinary/`) | memos, the review flag | create | employees | insert, count, flag, mail: `FlagIsEarned`, `ReviewIsDue` |
| Files (`files/`) | bytes on disk, `FileAsset` | upload, delete | photos, logos, documents, notices; updates of employees and of the organization write any address over a photo's or logo's column | a column, a row and a file that must agree: `AttachmentIsStored`, `InUseIsStored`, `NothingIsLeft` |
| Chat (`chat/`) | conversations, members, messages | open, send, join, revoke | Redis, sockets, employee status | a message's way from a request to the sockets: `SentToMembers`, `OneRoomEach`, `SuspendedIsOut` |
| Notices (`notices/`) | notices, reads | draft, schedule, publish, remove, read | files | a job that materializes what is due: `PublishedIsFinal` |
| Billing (`invoices/`, `platform-organizations/`) | organizations, subscriptions, invoices | register, suspend, pay, void, three cron jobs | – | an invoice and the subscription's next date in two statements: `PeriodsFollowOn`, `PaidStaysPaid`, `StatusesAgree` |
| Insurance, incentive rules, holidays, tax rules, platform administrators | single rows | create, edit | read by everything | none that relates two of them (section 7) |
| Reports, dashboard, notifications, SMS | none | queries, layout, mail | – | none that is state |

## 2. How the code becomes a model

* A handler is one action per statement or transaction. `pc[w]` or `job[w].at` is the statement request
  `w` will execute next, `job[w]` what it has read. A request that dies simply becomes idle
  (`Crash`, `Fail`, `Abandon`): what it has committed stays.
* An action named `…Read` is everything up to and including the last read before the write:
  authorization is taken as given (it is the subject of `Access`), guards are the handler's checks.
  `…Write` uses what `job[w]` remembers, stale or not, just as `update({ where: { id } })` does.
* Reads in a loop that a write may come between (a walk up a tree, a job over a list of rows) are one
  action per turn. Calls nobody awaits (`void this.files.deleteFile(…)`) are a set of pending work.
* A transaction is one action. A unique key that would be violated makes the action change
  nothing.
* Data are kept as far as a property asks about them: dates are small numbers, payloads vanish,
  money in `PayrollCycle` is *which items a slip contains, and how often*; in loans it is in cents, in
  `SalaryTerms` in rupees.
* `(* Fault: … *)` definitions are not part of any next-state relation. Each is the definition
  near it with a plausible mistake, and shows that a property would notice the mistake.

### Modules

| module | what it models | source |
|---|---|---|
| `PayrollCycle` | the payroll run, slips, and the three ledgers it pays from | `payroll/payroll.service.ts`, and the deduction, hold, release, approval statements of `loans/`, `incentives/`, `green-thanks/` |
| `SalaryTerms` | the amounts of a slip: gross, LOP days of the leaves, PF, ESI, net, repeated passes and edits | `payroll/payroll-calculation.ts`, its use in `payroll/payroll.service.ts` |
| `PayOnce` | the abstract promise: a pay item enters at most one slip, its owner's | – (abstract specification of the former) |
| `EmiSchedule` | `buildAmortizationSchedule` in cents with its roundings | `loans/loan-amortization.ts` |
| `LoanBook` | application to closing, with the settlement quote | `loans/loans.service.ts` |
| `TodoRewards` | todos and their ledger row | `todos/todos.service.ts` |
| `GreenThanks` | sending within the quarterly limit, review, payment | `green-thanks/green-thanks.service.ts` |
| `LeaveManagement` | applications, balances, special grant, accrual | `leave/leave-applications.service.ts`, `leave/leave-balance.service.ts`, the grant in `service-requests/` |
| `PolicyTypes` | the types of a leave policy under `reconcileTypes` | `leave/leave-policies.service.ts`, `organizations/leave-policies/` (two copies of one algorithm) |
| `AssetCustody` | assets, the log of assignments, removal of who holds them | `assets/assets.service.ts`, `remove` and `restore` of `employees/employees.service.ts` |
| `ExitSettlement` | clearance, settlement, employee status, chat; EXTENDS `AssetCustody` | `exit/exit.service.ts`, `patchStatus` in `employees/employees.service.ts`, members in `chat/chat.service.ts` |
| `Hiring` | employee codes, plan limit, the employee-and-user transaction, the change of an address | `create`, `update`, `updateSelf` of `employees/employees.service.ts`, `employees/helpers/emp-code.helper.ts`, `resolveEmpCode` of onboarding |
| `Onboarding` | links from invitation to employee; EXTENDS `Hiring` | `employees/onboarding/` |
| `AttendanceDay` | one day's row and its on-duty record | `attendance/attendance.service.ts`, `attendance/od/od.service.ts` |
| `Billing` | organizations, subscriptions, invoices, the three cron jobs | `invoices/`, `platform-organizations/` |
| `AccessRoles` | the roles of one organization and the refresh of a release | `roles/roles.service.ts`, `src/src/common/rbac/` |
| `DepartmentTree` | names, parents and levels of departments | `organizations/departments/departments.service.ts` |
| `Masters` | removal behind a count of uses, assignment, restoring | `organizations/` (designations, payroll structures, zones, leave policies), `employees/employees.service.ts` |
| `Sessions` | the refresh token, the login history, reset links, the nightly logout | `auth/auth.service.ts`, `src/src/redis/`, `organizations/auto-logout.scheduler.ts` |
| `ServiceDesk` | requests from raising to closing | `service-requests/service-requests.service.ts` |
| `Appraisals` | cycles, ratings, the org chart and its walks | `performance/`, `employees/employees.service.ts` |
| `Uploads` | files and the columns that point at them | `files/files.service.ts`, its callers in `employees/`, `organizations/`, `notices/` |
| `ChatRooms` | rooms, members, a message's way to the sockets | `chat/`, `patchStatus` in `employees/` |
| `NoticeBoard` | notices and the job that publishes | `notices/` |
| `Disciplinary` | memos, the count, the flag | `disciplinary/` |
| `Routes` | every route in the order of registration with what it asks for; the canonical roles' permissions | all controllers, `src/src/app.module.ts`, `src/src/common/constants/rbac.constant.ts` |
| `Access` | the two gates, the permission check and the handlers that change what they read; EXTENDS `Routes` | `src/src/common/guards/`, `auth/strategies/`, and the handlers named in it |
| `MC…` | instances for TLC, history variables, properties of the composed system | – |
| `PayrollProofs`, `LeaveProofs`, `ExitProofs`, `PeopleProofs`, `RewardsProofs`, `DeskProofs`, `OrgProofs` | theorems | – |
| `SumTheorems` | lemmas on sums, counts and step-by-step recursion that the others cite | – |

Composition: payroll and its ledgers interact in every statement and are one module. The exit
extends asset custody, which it counts. Onboarding extends hiring, which direct creation shares.
Access extends the table of routes. Components without a common table are checked in one run by a
choice of `side` in the initial state (`MCPaySides`, `MCRewards`, `MCPeople`, `MCOrg`, `MCDesk`): that
is a union of behaviours, not a product. Where two of them touch one row (a special leave, a notice's
attachment, an employee's status), each models what it needs of it.

Things a reader may look for, and where they are:

* *Payroll.* One pass is `processRun`: read the ledgers of one employee, upsert the slip, mark
  the rows, next employee. `terms.count[i]` is how often item `i` is in the slip's amounts.
* *Leave.* The deduction reads a row and writes absolute values outside any transaction; the
  accrual increments in place; the special grant is a transaction that reads a snapshot.
  `charged` counts deductions (a history variable: no code reads it).
* *Onboarding.* A code is a prefix rank and a number, because the code orders them as strings:
  rank 1 is `EMP-`, 0 and 2 are codes somebody typed that sort before and after it. Every typed
  code has digits (`parseInt` of none is not modelled), and collation is abstracted to the rank. The
  helper's three attempts are one action.
* *Attendance.* `CheckOutRead` requires a check-in time, since the handler throws without one.
* *Sessions.* A token is the second it was signed in: two tokens of one user and second are the same
  string. `Promise.all` of two statements is a set of statements done in either order.
* *Routes.* `Table` is the order in which Nest registers modules, and in a module its controllers.
  `HandlerOf(i)` is the first route that matches what a client of route `i` sends, with an id where
  the route has a parameter.
* *Access.* The guards read the account when the request arrives; the handler runs later. A request
  whose handler changes nothing the guards read meets no other, so it is admitted alone.

## 3. The runs

Twelve runs, eight that pass and four that find a disagreement; `PROJECT.json` names module,
configuration and properties. Two history variables of the MC modules qualify properties: `raced` (two
requests of the kind in question have overlapped: what one had read another has changed) and `died` (a
request or job ended between two statements). A conjunct `~raced => …` and the suffix "Unraced" mean
the behaviours without the former. These conditions are the point: they separate what the code's checks guarantee
by themselves from what is lost when they race, and section 5 says what is lost. Conjuncts without one hold
under every interleaving and failure in the model.

**payroll_pay** (two requests at a time, two periods, crashes, repeated passes; a loan with two
instalments beside an incentive, or Green Thanks). `PaidAtMostOnce`: no item is in two slips, or
twice in one. `SettledIsPaid`: a row marked deducted has its amount in a slip of its owner and is linked to
it. `CompletedIsSettled`: a completed run has marked everything in its slips. `ClosedIsPaid`: a
loan is closed only when every instalment is in a slip. `PaysOnce`: the cycle implements `PayOnce`.

**payroll_live** (no crash, weak fairness of every continuation; two passes at a time over two
periods of a loan, or one pass beside racing edits of tds and other deductions). `RunCompletes`: a created
run completes. `PaidLoanCloses`: a fully deducted loan is closed, although two passes mark its rows at
the same time. `NetMatchesTerms`: the stored net belongs to the stored terms. Repeated passes are off for it,
because the second pass recomputes the net without the edit (section 5).

**payroll_rerelease** (violation). Two releases of one held incentive that name different
periods: the second moves a row a pass has already read, and two runs pay it.

**loan_outstanding** (violation). The settlement quotes the balance *after* the next instalment.

**leave_books** (two requests at a time, two spans that share a day, a special grant, an accrual,
crashes). `DaysAddUp`: a row never accounts for more days than it is entitled to, and until the accrual
first runs taken and remaining add up to the entitlement. `OnlySpecialOverdraws`: only special leave takes
a balance below zero. `ApprovedIsCharged`: an approved leave was deducted at least once.
`NoOverlapUnraced`: live applications have no day in common; `TakenIsChargedUnraced`: taken
days are the days deducted, application by application.

**exit_races** (two requests at a time in all, of exits, statuses and assets, with crashes; one employee and one
asset; three scenes, see the table of bounds). `AssignedHasHolder`: an ASSIGNED asset has an open assignment,
whatever requests meet or die, unless its last return asked for ASSIGNED. `HistoryIsKept`: a closed assignment is never
reopened or rewritten, whatever meets. `OneHolderUnraced`: an asset has one holder, and what is held is
ASSIGNED, until two requests about one asset meet. `SettlementIsWhole`: a settled exit has had its
NOC, whatever meets; and unless exit or status requests overlap or die, it has deactivated the employee, if it gave a
reason and the employee was never removed, and an exited employee is in no room but those it was admitted
to since. `SettledIsFinalUnraced`.

**rewards_earn** (one todo with two submitters and two reviewers; three Green Thanks between two
employees over a quarter's end; two loans, tenures 1 and 3, rates 0, 5 % and 25 % a month, amounts that no
tenure divides, one decision at a time beside two passes; two leaves and the slips of two consecutive months).
`LedgerMatchesTodos`: exactly the approved todos earn, quantity times rate. `AwardsAreInOrder`: nobody gives more
than the limit (one request per sender at a time) and only approved entries are paid (one review at a time).
`AmountsAddUp`: the principals of a schedule add up to the approved amount to the cent, each balance is what the
later instalments repay, and a loan is closed only when repaid; and `WagesAddUp` of the slips: leaves that do not
go on into the next month are deducted once, day by day, wherever in the month they begin or end; ESI is the
rate rounded up, at most a rupee too much; who is paid anything contributes to PF or ESI; and the
contributions never exceed what is paid by more than that rupee, however passes, decisions on leaves,
changes of structure and edits follow on one another.

**people_join** (one link, two requests at a time, HR's own creations with typed and generated codes under
a plan of two, and changes of an employee's address; one attendance day with two requests; crashes). `HiredOnce`:
a link names an employee that came by it, codes are unique, and an ACTIVATED link names an employee, under every
race; and the link has become no other employee, unless two of its requests met *and* an employee of it has changed
the address, the key that keeps the second approval out. `JoinedIsComplete`: what HR reviews has details and documents, and whoever came by a link has all leave
balances and the welcome mail. `ChangesAreLoggedUnraced`: each status change is in the table and its log row
starts where the link was. `DayAddsUp`: hours are the time between the two times; the on-duty total is
never more than was entered, and all of it when no addition is overtaken or dies.

**people_codes** (violation; one request at a time). With a code in use that sorts after `EMP-…`,
the generated code is the same every time: the first approval takes it, all later ones fail.

**people_open** (violation; one request at a time). A correction request or on-duty entry creates a
row without times; check-in says "check out first" and check-out throws.

**org_admin** (six sides, see the table). `BillsAreInOrder`: the periods an organization is billed for follow on
one another without gap, and one is billed twice only after a crash; suspension and activation reach the organization
and its subscription alike, whatever happens to other organizations, unless two who write them meet on this one or
one of them dies between the two writes. `StructureIsSound`: departments stay a tree until two *moves* meet; levels
follow as long as no requests meet; what a live employee is assigned to is not removed; a leave type
something refers to is never removed, whatever meets. `RequestsGoWhereTheyMay`: each of the 282 routes is
reached by its own requests; a gated account reaches only logout, `me` and change-password; and each
canonical role that may decide on rows may read rows of that kind. `StepsDoAsTheySay` (action property): a
reminder does not take a paid invoice back to overdue; a refresh takes no permission from anybody and does every role;
an updated policy has the types asked for; nobody activates their own account, and a forced password change ends
only by its owner or by a link.

**desk_daily** (seven sides, see the table). `SessionsEnd`: a logout, a change of password or the nightly logout
leaves no older token, and a reset link works once. `RequestsAreSettled`: a special leave is resolved only by
granting it, whatever calls meet; one call at a time it is granted once and stays resolved. `RecordsAgree`: the
walk up the org chart and the walk down see the same people, rings included; memos flag from the
threshold on and never before. `FilesAreAccounted`: a notice's attachment is stored, whatever meets; photos and
documents are if uploads do not meet and no update has written an address of its own over the photo's; and no file
is left that nothing points at unless a request dies or unlinking fails, but for a photo behind such an address.
`RoomsAreForMembers`: sockets are sent only what is stored in a room their employee was a member of; two employees have one room; a suspended one is out of the department's. `StepsAreAllowed` (action property): a
rating is written in an open cycle by someone above; a published notice is only ever deleted.

Every property of a passing run has a mutant in `PROJECT.json` that it catches. `CHECK_DEADLOCK FALSE` is
given where the system may stop: every bounded supply (loans, applications, links, months) may
be used up.

### What counts as raced or dead, side by side

| side | `raced` | `died` |
|---|---|---|
| todos; Green Thanks | two submissions or two reviews at a time | – |
| exits, statuses | two of their requests at a time | a request, before its last statement |
| assets | two requests about one asset (`clashed`) | nothing: dying changes nothing |
| joining; days | two requests of the link (`moved`: an employee of it changed the address); one overtaken on its day | between approval's statements; between an on-duty entry and its total |
| bills | an invoice the reminders have read is paid or voided (`contested` organizations: two administrators' requests, or one and the suspension job, meet on it, or the process dies between two writes) | the process |
| roles, items, policies | two requests on one row (`Overlap`) | – |
| departments | two requests at a time; a behaviour ends when two moves meet | a request, or a restore (it does not check the parent) |
| access | nothing: its properties are unconditional | – |
| sessions | a behaviour ends when a revocation meets another request of the user | a request |
| requests, notices | two calls on one row | – |
| ratings | the cycle or the chart changes during a submission | – |
| files | two uploads to one column, or an upload and a removal (`byHand`: the photo's address was given in an update) | a request, the process, or an unlink |
| chat | two that open, or one that opens and a revocation | a revocation |
| memos | two memos at a time | a request |

### Bounds, and why they are enough

* Two concurrent requests: every hazard in the list is a pair (two writers of one row, or a
  writer and a job). The theorems lift several properties to any number.
* One or two rows of each kind: a property relates at most two rows of a kind (overlap of two
  applications, two employees with one code, two loans sharing passes), and the runs with two
  have them. Two instalments and two periods are the least that let passes of one loan overlap.
* Slips: months of 28 and 31 days, so that a day is worth a whole number of rupees and not; structures of 21000
  and 30000, of which half a month leaves 15000: gross minus LOP lies below, at and above both thresholds; leaves of the first half, the second half, the
  first day after, and across the end; `MaxAsked = 4` requests, so a pass may be repeated after an edit or a leave.
  The whole run has about 1 200 000 states.
* Trees and rings need three: three departments, three employees (`Ids`); three files, so that one
  is replaced while another is being uploaded.
* `Days`, `Times`, `Points`, `Quantities`: the values on both sides of each comparison
  (`DaysPerYear`, `Limit` are chosen so that the second request is the one that exceeds them).
* `Months = 1` accrual, `MaxMinutes = 2` (two on-duty entries), `Quarters = {1, 2}`: bounds on
  counters that only grow. `Threshold = 2` stands for the five memos of the code: the flag needs a memo below it
  and two that meet at it.
* exit_races: `MaxServed = 2` requests at a time; the scenes "assets" (no exits), "clearance" (exits with a reason, one asset
  handed over and back) and "people" (removal, restoring and rooms, reasons or none, no assets) share the bound, and
  each holds what the others leave out. Returns ask for AVAILABLE or ASSIGNED, which stand for the statuses that a later
  request refuses and accepts. About 2 190 000 states.
* org_admin: two organizations over two days with two administrators, three invoices each and any number of crashes; one user, three role rows and two
  releases, two requests beside the refresh of the second; four items, one of each kind; a policy of two types; one
  founder and one more employee, with all 282 routes and the roles `org_admin`, `hr_manager` and `employee`. `MaxAsked` bounds how many requests
  each side begins. About 560 000 states.
* desk_daily: a day of three seconds with the nightly cutoff at two, so a token may be issued before, at and
  after the cutoff; two members, two rooms and a message; a notice over two minutes. About 510 000 states.
* Symmetry is used for sets of interchangeable requests and rows only, never with a liveness property.

### Fairness

Only `payroll_live` uses fairness: weak fairness of every *continuation* of a pass that has begun and of
the end of its request (`Pass(w)`, `Finish(w)`), none of any request's beginning. A continuation is the code after an `await`; Node runs it
once the database has answered. `initiateRun` calls `processRun` inline, so a created run is
always somebody's continuation. No fairness for the process staying alive is hidden in it:
crashes are off in that run and section 5 says what a crash leaves (a run in PROCESSING that
no route resumes). Every other property is a safety property.

## 4. The theorems

Proved by TLAPS for *all* values of the constants that satisfy the named assumptions, with crashes
allowed and any number of concurrent requests. "Property" is the name in the run's configuration.

| theorem | property, or statement | hypothesis |
|---|---|---|
| `PayrollProofs!TypesAreKept` | `TypeOK` | – |
| `…!Inductive`, `NothingIsPaidTwice`, `NothingIsWrittenOff`, `CompletedRunsAreSettled`, `ClosedLoansArePaid` | `IInv`, `PaidAtMostOnce`, `SettledIsPaid`, `CompletedIsSettled`, `ClosedIsPaid` | `SamePeriod`: two releases of one row name the same period |
| `…!PayrollKeepsThePromise` | `PaysOnce`: the cycle implements `PayOnce` | `SamePeriod` |
| `…!NetIsOfItsTerms` | `NetMatchesTerms` | `NeverAgain`: no run is processed twice |
| `LeaveProofs!LeaveTypes`, `DaysAreNeverMade`, `OverdrawnBySpecialLeave`, `ApprovalsArePaid` | types, `DaysAddUp`, `OnlySpecialOverdraws`, `ApprovedIsCharged` | – |
| `…!ServedAloneNoOverlap`, `ServedAloneDaysAreCharged` | `NoOverlapUnraced`, `TakenIsChargedUnraced` | – |
| `ExitProofs!ExitTypes` | `TypeOK` | – |
| `…!AssignedAssetsHaveHolders`, `AssignmentsAreHistory`, `OneHolderAtATime` | `AssignedHasHolder`, `HistoryIsKept`, `OneHolderUnraced` | – |
| `…!SettlementsAreWhole`, `SettledIsFinal` | `SettlementIsWhole`, `SettledIsFinalUnraced` | – |
| `PeopleProofs!JoiningTypes`, `PeopleTypes` | types of `Onboarding`; `TypesAreOK` of people_join | – |
| `…!EachIsHiredOnce`, `JoinedAreComplete`, `ChangesFollowTheTable`, `DaysAddUp` | `HiredOnce`, `JoinedIsComplete`, `ChangesAreLoggedUnraced`, `DayAddsUp` | – |
| `…!NextCodeIsFreeAmongEmp`, `HelperCodeIsFree` | the generated code is free | no code in use sorts after `EMP-…`; one of the helper's three candidates is free |
| `RewardsProofs!TodosArePaidOnce` | `LedgerMatchesTodos` | – |
| `…!NobodyGivesTooMuch` | `AwardsAreInOrder` | `OneAtATime`: one request per sender, one reviewer |
| `…!AmountsAreRight` | `AmountsAddUp` | `OneOfficer`: one loan is decided at a time |
| `…!RewardTypes` | `TypesAreOK` of rewards_earn | – |
| `DeskProofs!SessionsAreEnded`, `RequestsSettle`, `RecordsOfAllAgree`, `FilesAreKept`, `RoomsAreTheirs` | `SessionsEnd`, `RequestsAreSettled`, `RecordsAgree`, `FilesAreAccounted`, `RoomsAreForMembers` | – |
| `…!StepsAreAllowedOnes`, `DeskTypes` | `StepsAreAllowed`, `TypesAreOK` of desk_daily | – |
| `OrgProofs!OrgTypes`, `BillsFollowOn`, `StructureHolds`, `StepsAreAsAsked` | `TypesAreOK` of org_admin, `BillsAreInOrder`, `StructureIsSound`, `StepsDoAsTheySay` | – |

*Assumptions on the constants* only say what the code's types say: that marks such as "no parent" or "no row"
are not among the ids they stand beside (`ThanksAssumption`, `DeskAssumption`, `DayAssumption`, `OrgAssumption`), that limits and
bounds are natural numbers. `LoanAssumption` says besides that each amount is `Ample` for its rate and tenure: the cent by
which every instalment may be rounded, with the interest it gathers until the last one, cannot use the loan up. At 12 %
a year 2 rupees for one year are ample, 6 for two, 160 for ten, the longest tenure; below, the level instalment rounded
up may repay a loan before its last month, and the last balances would be negative. `SalaryAssumption` says
that a month has 28 to 31 days, that no leave ends before it begins and that each has a day in one of the months. `PatchAssumption` of `ExitSettlement` says the
statuses a status request may ask for are statuses. `ActivationIsGuarded` of `Access` is not about a constant but a fact of the
table of routes, which has no parameter and which the prover does not read entry by entry: the route that activates an
employee asks for a token and its path is none of the exempt ones. TLC evaluates each of them on the run of its module.

*Hypotheses about requests* are not conveniences. Without `SamePeriod` the run
`payroll_rerelease` is a counterexample; processing a run again
forgets its edits; two approvals of one loan make two schedules (section 5 for each).
`NextCodeIsFreeAmongEmp` is the exact complement of the finding of `people_codes`. The instances of the runs satisfy
them: one reviewer, one loan officer and one request per sender are the values of the configurations.

*Why the invariants are not inductive by themselves, and what makes them so.*

* Payroll (`IInv`): that no item is paid twice depends on the moment between a pass's read and
  its upsert. The strengthening says: a run has at most one pass at work; what a pass has picked
  is unpaid until it upserts; a slip belongs to the run of its period; and what is in a slip but
  not marked is about to be marked by the pass at work, or stranded in a run no pass will take up.
  Then two passes cannot pick one row: they belong to different periods, a row is due in one. For the net
  (`NetInv`) an edit in flight has read the slip's terms as they are: with no second pass nothing else writes them.
* Leave (`LeaveInv`): a deduction writes values it read earlier. The strengthening bounds
  *what was read* by the row's present entitlement (which only grows), and says that a worker
  about to approve has charged. So stale values lose days but never make them. While requests are
  served alone, what one has read is what the row says (`ReadOK`), what `apply` found free is free (`SoleInv`),
  and a row's taken days are the *sum* of the deductions of its applications (`Paid`); a deduction moves one
  summand and the row by the same number.
* Assets and exit: a request about to close an assignment holds an index into the log, and
  the row at that index is its asset's; the log only grows. While no two requests about one asset meet, an asset whose
  request has read AVAILABLE has no open assignment, and one to be returned has the one that was found. A settlement under way has read a NOC that nobody can take back without overlapping
  (`NocFollows`), and each of its later writes is still to come or has been done (`ExitGoesOn`).
* Joining (`JoinInv`, `AloneInv`, `WelcomeInv`): what a request waiting before a statement has decided. Only `approve`
  activates a link; the code it will write is a code. With the unique keys in the transaction's guard
  the link then names an employee, and keeps naming it when it changes the address (`AddressMoves`). Two things keep a second one
  out (`OnceInv`): whoever came by a link and has not moved sits at the link's address, which is then taken; and served
  alone, a link that names somebody is ACTIVATED, which no approval finds under review. Served alone, the copy of its link that a request carries is the link;
  and whoever was hired from a link without balances or mail is in the hands of the approval that is still at it.
  That a maximal code exists in string order, which the generated code needs, is proved from the
  well-founded order of cardinalities (`LastIsLast`).
* Days (`DayInv`): what an on-duty request is about to add is part of the records and not yet of the total; the
  total is bounded by the sum over the records, with equality when none was lost.
* Todos (`TodoInv`): a review that read SUBMITTED finds no ledger row, because a row is made only by the
  review that approves. Green Thanks (`ThanksInv`): what a sender has given in a quarter is a sum over a
  set of entries; one tab per sender means the sum a request has read is still the sum when it writes.
* Loans (`LoanInv`): with one officer, whoever is about to approve or reject has read a loan that is still pending, and
  that one has no schedule. The schedule is a recursion through rounded quotients. Each balance is the one before less
  the principal between them, so the principals of the later months add up to it, and the last instalment takes the
  rest. That nothing goes below zero is proved from the exact balance: the rounded one is below it by at most a cent for
  each instalment so far, with interest (`BalanceAtLeast`), and an ample loan has more than that left. A pass
  marks rows and changes no amount; it closes a loan when it counts no row that is not marked.
* Slips (`SalaryInv`): what a slip deducts was computed from the wages it names, and a month is `fresh` while its LOP days are
  those of the leaves in force. A leave that does not go on into the next month touches exactly one, so the sum over the
  months of what each lost is the sum over the leaves, by induction over the months. The thresholds are linear arithmetic.
* Service requests (`RequestInv`): a write by id may come long after its check. The strengthening says what
  each call in flight has checked *that still holds*: a plain resolution was begun on a request that is not
  for special leave, which never changes, and a closing on one whose leave had been granted, which is never
  taken back. Called alone, also the status it read.
* Files (`FilesInv`): the id of an upload under way is new to every other request and to every pending
  deletion; the file the notice names is of the kind "notice", so a photo's purge does not take it, and a
  removal takes only what the notice's column held when it read it, which is no later upload's. Unraced, every
  stored file is named by a row, is being uploaded, or is in the hands of who will delete it.
* Sessions (`SessionsAlone`, `LinksAlone`): while no revocation meets a request of its user, a token that is older
  than the last revocation is neither stored nor in any request's hands; a link that was used is
  unset, and no request in flight has found it.
* Org chart (`RecordsOfAllAgree`): the two walks are recursive functions over the number of steps. That they
  name each other is proved by a path: whoever is listed has a chain of managers of at most so many links. Ratings
  (`RatersFine`): a request on its walk carries such a chain from the person rated to the manager it has reached.
* Chat (`ChatTyped`, `ChatAlone`, `OutOrLeaving`): a message on its way to a socket is stored, a socket joins by a
  membership that was there; unraced, a suspended member is out of the department's room or about to be.
* Notices (`NoticesAlone`) and memos (`MemoInv`): an editor has read the notice as it is; the count a memo's request has
  read is a count of memos that exist, so it flags only when there are as many.
* Billing (`PeriodsFit`, `StatusesFit`): an organization's last invoice ends where its next period begins, or is
  already that period's, and then the renewal has yet to advance the subscription or has died; what the renewal has
  read of an organization holds until it is done with it. Organization and subscription
  differ only between the two statements of whoever is changing them: on an organization that is not contested there is
  one who does, an administrator or the job.
* Departments (`DeptInv`): a walk up the tree has passed a set of departments without the one to be moved, and
  whatever is above that set is in it or is where the walk stands; nothing but another move can change that
  before the parent is written. `TreeAlone`: the descent has corrected a set, and what it has to do is
  exactly the live departments right below that set, each with the level it is to get.
* Items (`ItemsAlone`): while requests on an item do not meet, what a removal has counted is still zero and what an
  assignment has found live is live.
* Roles (`RolesAlone`): what a removal found unassigned is unassigned, the role the refresh has in hand is as it was
  read, and every canonical role it has done has all its permissions, while nothing else is under way.
* Accounts (`AccessInv`): a request that is about to activate somebody comes from an account that was active when it
  arrived, and no handler takes that back; so its caller is not the one who waits, however long the request does.
* Policies (`PolicyInv`): nothing is said of what `reconcileTypes` has read: the proof goes through because the
  database checks each statement against the rows of that moment (unique type, restricted delete). Alone
  (`Serving`), the rows are those read and those kept, the types kept are those asked for but for the items to come,
  and what is dropped is what no item kept.
* Sums and recursion: the library's induction takes an operator as its parameter, which no prover here can be given.
  `SumTheorems` goes by least counterexample instead: a non-empty set of natural numbers has a least element, so a
  sum over a finite set is determined by one of its parts and the rest, changes by what one summand changes by, and a
  function defined step by step has its defining equation at every step.

*Only model-checked:* the liveness properties `RunCompletes` and `PaidLoanCloses` (fairness and ENABLED are beyond the
prover), and `RequestsGoWhereTheyMay`. The latter is about the table of routes, which has no
parameter: TLC goes through all 282 entries. What a proof for any accounts and requests would add to that is a single
step, one evaluation of the gates, and it would have to assume what the run finds out.

## 5. What the code does otherwise

Four disagreements are runs (section 3). The following were met while modelling; each is a behaviour
the models *have*, and the reason a property above carries a condition. They are given for the
reader's judgement, without a run of their own.

* Payroll: two approvals that both read COMPLETED can take a DISBURSED run back to APPROVED; an edit
  may be written after the run is approved; processing a run again recomputes the net without
  the edited deductions; a process that dies in a pass leaves the run in PROCESSING, which no route
  resumes (initiate answers 409 for the period). A run initiated for some employees takes the period
  for all. LOP days of a leave that spans two months are deducted in both.
* Slips: a leave approved after its month's pass is not deducted unless the run is processed again, and one
  that a late cancellation takes back after the pass stays deducted. `dto.days` is not compared with the dates of the leave, so
  LOP may exceed the month: gross minus LOP is then negative, and so is ESI. In binary fractions 0.75 per cent may lie just
  above a whole rupee and is rounded up past it: of a gross of 9600 with 21 LOP days of 28, the ESI of
  2400 is 19 (18 exactly), and 15000 with 28 LOP days of 28 leaves nothing and an ESI of 1.
* Leave: two clicks on approve deduct twice, as does a retry after a failure between the deduction
  and the status; cancel racing approve revives a cancelled leave or loses its days; a lost update
  loses an accrual; a row created lazily gets the full year although the policy accrues monthly.
* Leave policies: an update that gives an existing row another type, and the row's old type to a new
  entry, loses the latter (policy {x: CASUAL}, asked for [{id: x, PATERNITY}, {CASUAL}]: `reconcileTypes`
  drops what it has matched). It is not a transaction: a failure half way leaves part of the list.
* Loans: two approvals make two schedules; a rejection racing an approval leaves a rejected loan with a
  schedule payroll will deduct. A loan that is not `Ample` is accepted: of 1 rupee over 120 months without
  interest, instalments of a cent repay it in 100, the next 19 take the balance below zero and the last gives 19 cents back.
* Assets: two assignments give one asset two holders; a return that asks for ASSIGNED, which `return-asset.dto.ts:11-18`
  permits, leaves the asset ASSIGNED to nobody: it can be neither assigned nor returned again. Removing an
  employee does not look at what it holds.
* Exit: a clearance update that read the record before settlement takes SETTLED back to CLEARED; two
  departments clearing at once lose one tick; settle commits SETTLED before it
  deactivates the employee, which is then refused if the reason is empty (400) or the employee was removed in the meantime
  (404), and settle cannot be repeated; a room request makes a suspended or exited employee a member again; a racing status change overwrites EXITED;
  an employee EXITED by a request that died keeps the chat memberships.
* Todos: a late submission reopens an approved todo or changes its quantity after payment; a late
  rejection marks a paid todo rejected. Green Thanks: two requests of one sender exceed the
  limit; a late rejection marks a paid entry rejected.
* Onboarding: a review, revocation, or expiry that read the link earlier overwrites any status,
  ACTIVATED included; two approvals that overlap, with a change of the new employee's address between their
  transactions, make two employees of one link, which names the later one; the scheduler expires a link whose expiry was extended after its query; a late
  save drops the completed documents step of a submitted link. `approve` never
  checks the plan's `maxEmployees`, and direct creation makes no leave balances (a TODO in
  `employees/employees.service.ts:61` says so). A final submission without any file is accepted.
* Attendance: timestamps come from the client, so hours may be negative; check-out looks for a row of
  its own date, so a night shift finds none.
* Sessions: `logoutSession` closes the row of the login history but not the token, although the repository's
  README calls it "Terminate specific session"; a change or reset of the password leaves history rows open;
  two tokens signed in the same second are the same string, so a refresh within it does not rotate. A refresh that
  compared before a logout stores a new token after it.
* Roles: the refresh finds roles by *name*, so a custom role with a canonical name is changed by it,
  although `src/src/common/rbac/rbac-refresh.ts:27-30` and `rbac/rbac.controller.ts` say custom roles are never touched.
* Guards: `assertSelfOrAdmin` (`employees/employees.service.ts:507`) does not accept `*`; the employee
  role cannot create service requests (`service_request:create` is only the admins'), nor GET its own employee
  record (`employee:read`); hr_manager may approve links but not list the roles, leave policies and payroll
  structures an approval names; three permissions (`user:read`, `user:manage`, `profile:read`) are asked for by
  no route; `employees.create` gives no role; PRE_BOARDING → EXITED lifts the activation gate as ACTIVE does.
* Departments and items: two moves that meet make a ring; restoring puts a department under a removed
  parent; a removed department keeps its name from being given again (the unique key covers it, the check beforehand does
  not); the removal of a structure does not count linked designations; restoring
  an employee brings back references to items removed since; zones are never restored.
* Billing: paying an overdue invoice does not take the subscription out of PAST_DUE, so the suspension job
  later suspends an organization that owes nothing; a suspend and an activate that interleave, a switch
  that meets the job, or one that dies half way leave the organization and its subscription with different statuses (an
  active organization with a SUSPENDED subscription).
* Service requests: a stale assign reopens a resolved request.
* Performance: managers may form a ring; a rating is stored in a cycle closed during the walk.
* Disciplinary: two memos that meet at the threshold send two notices about termination.
* Files: updates of an employee or of the organization write any address over the photo's or logo's column
  (`employees/employees.service.ts:404`, `:477`, `organizations/organizations.service.ts:39`): the file it named
  stays until the next upload purges it, and the address need not be of a file; two uploads of documents at a time lose one of the two entries; a crash leaves files nothing points at.
* Chat: the gateway's comment says `chat:message` is acknowledged, but the handler returns nothing; a message
  sent over HTTP is stored but not published; sockets stay joined after a revocation; `createDirectRoom` reactivates
  a revoked member; and a suspended employee stays logged in and may open rooms, although
  `chat/chat.controller.ts:33` says "any authenticated, active employee may use chat".
* Notices: a due notice the job has not materialized yet can still be edited; `expiresAt` is never checked.

## 6. Plan

Order of modelling, most important first; all of it is done but for the last lines.

1. `PayrollCycle`, `PayOnce` with proofs. 2. `LeaveManagement` with proofs. 3. `AssetCustody`
   and `ExitSettlement` with proofs. 4. `EmiSchedule`, `LoanBook` with proofs. 5. `TodoRewards`, `GreenThanks` with proofs.
6. `Hiring`, `Onboarding`, `AttendanceDay` (proofs). 7. `ServiceDesk`. 8. `Sessions`. 9. `Billing` (proofs).
10. `ChatRooms`. 11. `Appraisals`, `Disciplinary`, `NoticeBoard`, `Uploads` (all of MCDesk proved). 12. `AccessRoles`,
    `DepartmentTree`, `Masters`, `PolicyTypes` (proofs). 13. `Routes` and `Access` (proofs but for the table). 14. `SalaryTerms` (proofs).

Left:

* One-time codes and the lockout after failed logins in `auth/`, with the lifetimes of their Redis keys.
* Insurance enrolment and claims, if a second operation on a claim appears; incentive and tax rules.

New components join a `side` of an existing run where they share no table with it, so
that the number of runs stays small; where a deeper property appears it replaces a shallower one.

## 7. Not modelled, and why

`PROJECT.json` lists every component with its reason. In short: queries, reports, PDF layout, dashboards
and notifications change no state. Insurance, incentive and tax rules, holidays, global leave and the
platform's price list are rows that one operation checks and writes; what reads them takes them as
constants. The handlers are taken as permitted in the modules about them, and who gets to them is modelled once,
in `Access`, for one organization: tenancy (each query's `orgId`) and validation of bodies do not depend
on the state modelled. Storage, mail, SMS, Redis and MySQL are
trusted to do what their clients expect: a statement is atomic, a transaction commits or does
not, a unique key holds, a restricted delete fails.
