------------------------------- MODULE Routes -------------------------------
(***************************************************************************)
(* The routes of the HTTP API in the order Nest registers them, which is   *)
(* the order in which Express tries them: the decorators of every          *)
(* controller.  What a handler does is in the other modules; here it is    *)
(* only who gets to it.                                                    *)
(***************************************************************************)
EXTENDS Naturals, Sequences, SequencesExt, FiniteSetsExt

(* A segment of a route that stands for any one segment of a path. *)
Id == ":id"

(* What a route asks of the caller's token: a set of permissions, or that  *)
(* there is no token, any token, or one of the platform.                   *)
LoggedIn == {}
Public == {"Public"}
Platform == {"PlatformJwtAuthGuard"}

Route(m, p, n) == [method |-> m, path |-> p, needs |-> n]
Get(p, n) == Route("GET", p, n)
Post(p, n) == Route("POST", p, n)
Put(p, n) == Route("PUT", p, n)
Patch(p, n) == Route("PATCH", p, n)
Delete(p, n) == Route("DELETE", p, n)

(* A controller's routes, under its path. *)
Under(base, routes) == [i \in DOMAIN routes |-> [routes[i] EXCEPT !.path = base \o @]]

HealthRoutes == Under(<<>>, <<
    Get(<<"health">>, Public)>>)

LoginRoutes == Under(<<"auth">>, <<
    Post(<<"login">>, Public)>>)

OtpRoutes == Under(<<"auth">>, <<
    Post(<<"otp", "send">>, Public), Post(<<"otp", "verify">>, Public)>>)

TokensRoutes == Under(<<"auth">>, <<
    Post(<<"refresh">>, Public), Post(<<"logout">>, LoggedIn), Get(<<"me">>, LoggedIn)>>)

PasswordsRoutes == Under(<<"auth">>, <<
    Post(<<"device-token">>, LoggedIn), Post(<<"reset-password">>, Public),
    Put(<<"change-password">>, LoggedIn)>>)

LoginHistoryRoutes == Under(<<"auth">>, <<
    Get(<<"sessions">>, LoggedIn), Delete(<<"sessions">>, LoggedIn),
    Delete(<<"sessions", Id>>, LoggedIn)>>)

RolesRoutes == Under(<<"roles">>, <<
    Post(<<>>, {"role:create"}), Get(<<>>, {"role:read"}), Get(<<Id>>, {"role:read"}),
    Put(<<Id>>, {"role:update"}), Delete(<<Id>>, {"role:delete"})>>)

AssignmentsRoutes == Under(<<"roles">>, <<
    Post(<<"assign">>, {"role:assign"}), Delete(<<"assign", Id, Id>>, {"role:assign"}),
    Get(<<"users", Id>>, {"role:read"})>>)

OrganizationRoutes == Under(<<"organization">>, <<
    Get(<<>>, {"org:read"}), Put(<<>>, {"org:update"}), Post(<<"logo">>, {"org:update"})>>)

CurrenciesRoutes == Under(<<"currencies">>, <<
    Get(<<>>, {"org:read"})>>)

DepartmentsRoutes == Under(<<"departments">>, <<
    Post(<<>>, {"employee:create"}), Get(<<"trash">>, {"employee:read"}),
    Get(<<"tree">>, {"employee:read"}), Get(<<>>, {"employee:read"}),
    Get(<<Id>>, {"employee:read"}), Put(<<Id>>, {"employee:update"}),
    Patch(<<Id, "move">>, {"employee:update"}), Delete(<<Id>>, {"employee:delete"}),
    Patch(<<Id, "restore">>, {"employee:update"})>>)

DesignationsRoutes == Under(<<"designations">>, <<
    Get(<<"trash">>, {"employee:read"}), Get(<<"for-assignment">>, {"employee:read"}),
    Post(<<>>, {"employee:create"}), Get(<<>>, {"employee:read"}),
    Get(<<Id>>, {"employee:read"}), Put(<<Id>>, {"employee:update"}),
    Delete(<<Id>>, {"employee:delete"}), Patch(<<Id, "restore">>, {"employee:update"})>>)

TaxRulesRoutes == Under(<<"tax-rules">>, <<
    Get(<<"meta">>, {"payroll:read"}), Get(<<"trash">>, {"payroll:read"}),
    Post(<<>>, {"payroll:create"}), Get(<<>>, {"payroll:read"}),
    Get(<<Id>>, {"payroll:read"}), Put(<<Id>>, {"payroll:create"}),
    Patch(<<Id, "status">>, {"payroll:create"}), Delete(<<Id>>, {"payroll:create"}),
    Patch(<<Id, "restore">>, {"payroll:create"})>>)

PayrollStructuresRoutes == Under(<<"payroll-structures">>, <<
    Get(<<"trash">>, {"payroll:read"}), Post(<<>>, {"payroll:create"}),
    Get(<<>>, {"payroll:read"}), Get(<<Id>>, {"payroll:read"}),
    Put(<<Id>>, {"payroll:update"}), Delete(<<Id>>, {"payroll:delete"}),
    Patch(<<Id, "restore">>, {"payroll:update"})>>)

StructureDesignationsRoutes == Under(<<"payroll-structures">>, <<
    Post(<<Id, "designations">>, {"payroll:update"}),
    Get(<<Id, "designations">>, {"payroll:read"}),
    Delete(<<Id, "designations", Id>>, {"payroll:update"})>>)

LeavePoliciesRoutes == Under(<<"leave-policies">>, <<
    Get(<<"rule-schema">>, {"org:read"}), Get(<<"trash">>, {"org:update"}),
    Post(<<>>, {"org:update"}), Get(<<>>, {"org:read"}), Get(<<Id>>, {"org:read"}),
    Put(<<Id>>, {"org:update"}), Delete(<<Id>>, {"org:update"}),
    Patch(<<Id, "restore">>, {"org:update"})>>)

LeaveRulesRoutes == Under(<<"leave-policies">>, <<
    Get(<<Id, "rules", "trash">>, {"org:update"}), Post(<<Id, "rules">>, {"org:update"}),
    Get(<<Id, "rules">>, {"org:read"}),
    Patch(<<Id, "rules", "reorder">>, {"org:update"}),
    Get(<<Id, "rules", Id>>, {"org:read"}), Put(<<Id, "rules", Id>>, {"org:update"}),
    Delete(<<Id, "rules", Id>>, {"org:update"}),
    Patch(<<Id, "rules", Id, "restore">>, {"org:update"})>>)

WorkLocationsRoutes == Under(<<"work-locations">>, <<
    Post(<<>>, {"org:update"}), Get(<<>>, {"org:read"}), Get(<<Id>>, {"org:read"}),
    Put(<<Id>>, {"org:update"}), Delete(<<Id>>, {"org:update"})>>)

ZonesRoutes == Under(<<"zones">>, <<
    Post(<<>>, {"org:update"}), Get(<<>>, {"org:read"}), Get(<<Id>>, {"org:read"}),
    Put(<<Id>>, {"org:update"}), Delete(<<Id>>, {"org:update"})>>)

EmployeesRoutes == Under(<<"employees">>, <<
    Get(<<"stats">>, {"employee:read"}), Get(<<"trash">>, {"employee:read"}),
    Post(<<>>, {"employee:create"}), Get(<<>>, {"employee:read"}),
    Get(<<Id>>, {"employee:read"}), Put(<<Id>>, {"employee:update"}),
    Patch(<<Id, "self">>, {"profile:update"}),
    Patch(<<Id, "status">>, {"employee:update"}), Delete(<<Id>>, {"employee:delete"}),
    Patch(<<Id, "restore">>, {"employee:update"})>>)

EmployeeFilesRoutes == Under(<<"employees">>, <<
    Post(<<Id, "documents">>, LoggedIn)>>)

EmployeeDetailsRoutes == Under(<<"employees">>, <<
    Post(<<Id, "profile-photo">>, LoggedIn), Patch(<<Id, "bank-details">>, LoggedIn),
    Patch(<<Id, "emergency-contact">>, LoggedIn)>>)

ReportingChainRoutes == Under(<<"employees">>, <<
    Get(<<Id, "subordinates">>, {"employee:read"}),
    Get(<<Id, "reporting-chain">>, {"employee:read"}),
    Post(<<Id, "send-password-reset">>, {"employee:update"})>>)

OnboardingLinksRoutes == Under(<<"onboarding-links">>, <<
    Post(<<>>, {"employee:create"}), Get(<<>>, {"employee:read"}),
    Get(<<Id>>, {"employee:read"}), Post(<<Id, "review">>, {"employee:update"}),
    Post(<<Id, "request-changes">>, {"employee:update"})>>)

LinkDecisionsRoutes == Under(<<"onboarding-links">>, <<
    Post(<<Id, "reject">>, {"employee:update"}),
    Post(<<Id, "approve">>, {"employee:create"}),
    Post(<<Id, "resend">>, {"employee:create"}), Delete(<<Id>>, {"employee:delete"})>>)

CandidateFormRoutes == Under(<<"onboarding", "public">>, <<
    Get(<<Id>>, Public), Put(<<Id, "details">>, Public)>>)

CandidateFilesRoutes == Under(<<"onboarding", "public">>, <<
    Post(<<Id, "documents">>, Public)>>)

ChatRoomsRoutes == Under(<<"chat">>, <<
    Post(<<"rooms">>, LoggedIn), Get(<<"employees">>, LoggedIn)>>)

ChatHistoryRoutes == Under(<<"chat">>, <<
    Get(<<"rooms">>, LoggedIn), Get(<<"rooms", Id, "messages">>, LoggedIn)>>)

ChatSendingRoutes == Under(<<"chat">>, <<
    Post(<<"rooms", Id, "messages">>, LoggedIn),
    Post(<<"rooms", Id, "attachment">>, LoggedIn)>>)

LeaveRoutes == Under(<<"leave">>, <<
    Get(<<"policies">>, {"leave:read"}), Post(<<"policies">>, {"org:update"}),
    Put(<<"policies", Id>>, {"org:update"}),
    Put(<<"policies", Id, "toggle">>, {"org:update"}),
    Get(<<"balances">>, {"leave:read"}), Get(<<"my-balance">>, {"leave:apply"}),
    Get(<<"my">>, {"leave:apply"}), Post(<<"apply">>, {"leave:apply"}),
    Get(<<>>, {"leave:read"})>>)

LeaveDecisionsRoutes == Under(<<"leave">>, <<
    Put(<<Id, "cancel">>, {"leave:apply"}), Put(<<Id, "approve">>, {"leave:approve"}),
    Put(<<Id, "reject">>, {"leave:approve"}), Get(<<"holidays">>, {"leave:read"}),
    Post(<<"holidays">>, {"org:update"}), Put(<<"holidays", Id>>, {"org:update"}),
    Delete(<<"holidays", Id>>, {"org:update"})>>)

GlobalLeavesRoutes == Under(<<"leave">>, <<
    Get(<<"global-leaves", "my">>, {"leave:read"}),
    Get(<<"global-leaves">>, {"leave:read"}), Post(<<"global-leaves">>, {"org:update"}),
    Post(<<"global-leaves", "bulk">>, {"org:update"}),
    Delete(<<"global-leaves", Id>>, {"org:update"})>>)

PlatformAuthRoutes == Under(<<"platform", "auth">>, <<
    Post(<<"login">>, Public), Get(<<"me">>, Platform)>>)

PlansRoutes == Under(<<"platform", "plans">>, <<
    Get(<<>>, Public), Post(<<>>, Platform), Put(<<Id>>, Platform),
    Delete(<<Id>>, Platform)>>)

PlatformOrganizationsRoutes == Under(<<"platform", "organizations">>, <<
    Post(<<>>, Platform), Get(<<>>, Platform), Get(<<Id>>, Platform),
    Put(<<Id>>, Platform), Put(<<Id, "suspend">>, Platform),
    Put(<<Id, "activate">>, Platform), Put(<<Id, "subscription">>, Platform)>>)

InvoicesRoutes == Under(<<"platform">>, <<
    Get(<<"invoices">>, Platform), Get(<<"organizations", Id, "invoices">>, Platform),
    Post(<<"organizations", Id, "invoices">>, Platform),
    Put(<<"invoices", Id, "mark-paid">>, Platform),
    Put(<<"invoices", Id, "void">>, Platform)>>)

DashboardFiguresRoutes == Under(<<"dashboards">>, <<
    Get(<<"kpis">>, LoggedIn),
    Get(<<"loan-leave-summary">>, {"loan:read", "leave:read"}),
    Get(<<"admin-alerts">>, {"onboarding:manage"})>>)

DashboardsRoutes == Under(<<"dashboards">>, <<
    Get(<<>>, LoggedIn), Get(<<"defaults">>, LoggedIn), Post(<<>>, LoggedIn),
    Put(<<Id>>, LoggedIn), Delete(<<Id>>, LoggedIn),
    Post(<<"seed-defaults">>, {"org:update"})>>)

OnDutyRoutes == Under(<<"attendance", "od">>, <<
    Post(<<>>, {"attendance:checkin"}),
    Post(<<Id, "locations">>, {"attendance:checkin"}), Get(<<>>, LoggedIn)>>)

AttendanceRoutes == Under(<<"attendance">>, <<
    Post(<<"check-in">>, {"attendance:checkin"}),
    Post(<<"check-out">>, {"attendance:checkin"}),
    Post(<<"live-location">>, {"attendance:checkin"}),
    Get(<<"live">>, {"attendance:read"}), Post(<<"manual">>, {"attendance:correct"}),
    Post(<<"import">>, {"attendance:correct"}),
    Post(<<"correction-request">>, {"attendance:checkin"}),
    Put(<<"correction", Id, "approve">>, {"attendance:correct"}),
    Get(<<"my">>, {"attendance:checkin"}), Get(<<>>, {"attendance:read"}),
    Get(<<Id>>, {"attendance:read"})>>)

(* Fault: the controllers the other way round. *)
IdsFirst == AttendanceRoutes \o OnDutyRoutes

(* OdController is registered first, so that attendance/od is not taken    *)
(* for the id of a record.                                                 *)
AttendanceModuleRoutes == OnDutyRoutes \o AttendanceRoutes

PayrollRoutes == Under(<<"payroll">>, <<
    Post(<<"runs">>, {"payroll:run"}), Get(<<"runs">>, {"payroll:read"}),
    Get(<<"runs", Id>>, {"payroll:read"}),
    Put(<<"runs", Id, "approve">>, {"payroll:approve"}),
    Put(<<"runs", Id, "disburse">>, {"payroll:approve"}),
    Get(<<"runs", Id, "entries">>, {"payroll:read"}),
    Get(<<"runs", Id, "entries", Id>>, {"payroll:read"}),
    Put(<<"runs", Id, "entries", Id>>, {"payroll:run"})>>)

LoansRoutes == Under(<<"loans">>, <<
    Post(<<>>, {"loan:apply"}), Get(<<>>, {"loan:read"}), Get(<<Id>>, {"loan:read"}),
    Put(<<Id, "approve">>, {"loan:approve"}), Put(<<Id, "reject">>, {"loan:approve"}),
    Get(<<Id, "emi-schedule">>, {"loan:read"})>>)

IncentiveRulesRoutes == Under(<<"incentive-rules">>, <<
    Post(<<>>, {"incentive:manage"}), Get(<<>>, {"incentive:read"}),
    Get(<<Id>>, {"incentive:read"}), Put(<<Id>>, {"incentive:manage"})>>)

IncentiveLedgerRoutes == Under(<<"incentive-ledger">>, <<
    Get(<<>>, {"incentive:read"}), Put(<<Id, "release">>, {"incentive:manage"})>>)

GreenThanksConfigRoutes == Under(<<"green-thanks", "config">>, <<
    Get(<<>>, {"green_thanks:manage"}), Put(<<>>, {"green_thanks:manage"})>>)

GreenThanksRoutes == Under(<<"green-thanks">>, <<
    Get(<<"recipients">>, {"green_thanks:create"}), Post(<<>>, {"green_thanks:create"}),
    Get(<<>>, {"green_thanks:read"}), Put(<<Id, "approve">>, {"green_thanks:create"})>>)

TodosRoutes == Under(<<"todos">>, <<
    Post(<<>>, {"todo:create"}), Get(<<>>, {"todo:read"}), Get(<<Id>>, {"todo:read"}),
    Put(<<Id, "submit">>, {"todo:create"}), Put(<<Id, "approve">>, {"todo:approve"})>>)

NoticesRoutes == Under(<<"notices">>, <<
    Post(<<>>, {"notice:manage"}), Get(<<>>, {"notice:read"}),
    Get(<<Id>>, {"notice:read"}), Put(<<Id>>, {"notice:manage"}),
    Put(<<Id, "publish">>, {"notice:manage"}), Delete(<<Id>>, {"notice:manage"}),
    Post(<<Id, "attachment">>, {"notice:manage"}), Put(<<Id, "read">>, {"notice:read"}),
    Get(<<Id, "read-receipts">>, {"notice:manage"})>>)

PerformanceRoutes == Under(<<"performance">>, <<
    Post(<<"cycles">>, {"performance:manage"}), Get(<<"cycles">>, {"performance:read"}),
    Get(<<"my-ratings">>, {"performance:read"}),
    Get(<<"cycles", Id>>, {"performance:read"}),
    Put(<<"cycles", Id, "activate">>, {"performance:manage"}),
    Put(<<"cycles", Id, "close">>, {"performance:manage"}),
    Post(<<"cycles", Id, "ratings">>, {"performance:manage"}),
    Get(<<"cycles", Id, "ratings">>, {"performance:read"}),
    Get(<<"kpis">>, {"performance:read"})>>)

ServiceRequestsRoutes == Under(<<"service-requests">>, <<
    Get(<<>>, {"service_request:read"}), Get(<<"settings">>, {"service_request:read"}),
    Get(<<Id>>, {"service_request:read"}), Post(<<>>, {"service_request:create"}),
    Put(<<Id, "assign">>, {"service_request:manage"})>>)

RequestDecisionsRoutes == Under(<<"service-requests">>, <<
    Put(<<Id, "resolve">>, {"service_request:manage"}),
    Put(<<Id, "grant-special-leave">>, {"service_request:manage"}),
    Put(<<Id, "status">>, {"service_request:manage"}),
    Post(<<Id, "comments">>, {"service_request:create"})>>)

AssetsRoutes == Under(<<"assets">>, <<
    Get(<<>>, {"asset:read"}), Get(<<"employee", Id, "history">>, {"asset:read"}),
    Get(<<Id>>, {"asset:read"}), Post(<<>>, {"asset:assign"}),
    Put(<<Id>>, {"asset:assign"}), Post(<<Id, "assign">>, {"asset:assign"}),
    Put(<<Id, "return">>, {"asset:return"})>>)

DisciplinaryRoutes == Under(<<"disciplinary">>, <<
    Post(<<>>, {"disciplinary:manage"}), Get(<<>>, {"disciplinary:read"}),
    Get(<<"employee", Id, "summary">>, {"disciplinary:read"}),
    Get(<<Id>>, {"disciplinary:read"})>>)

ExitsRoutes == Under(<<"exit">>, <<
    Post(<<>>, {"exit:manage"}), Get(<<>>, {"exit:manage"}),
    Get(<<Id>>, {"exit:manage"}), Put(<<Id, "clearance">>, {"exit:manage"}),
    Put(<<Id, "settle">>, {"exit:manage"})>>)

InsuranceRoutes == Under(<<"insurance">>, <<
    Get(<<"policies">>, {"insurance:read"}), Post(<<"policies">>, {"insurance:manage"}),
    Get(<<"policies", Id>>, {"insurance:read"}),
    Put(<<"policies", Id>>, {"insurance:manage"}),
    Post(<<"enroll">>, {"insurance:manage"}), Get(<<"enrollments">>, {"insurance:read"}),
    Get(<<"enrollments", Id>>, {"insurance:read"}),
    Put(<<"enrollments", Id>>, {"insurance:manage"}),
    Put(<<"enrollments", Id, "approve">>, {"insurance:manage"})>>)

ReportsRoutes == Under(<<"reports">>, <<
    Get(<<"headcount">>, {"report:read"}), Get(<<"attendance">>, {"report:read"}),
    Get(<<"leave">>, {"report:read"}), Get(<<"payroll">>, {"report:read"}),
    Get(<<"loans">>, {"report:read"}), Get(<<"incentives">>, {"report:read"}),
    Get(<<"attendance-track">>, {"report:read"}),
    Get(<<"performance">>, {"report:read"}), Get(<<"todo-incentive">>, {"report:read"})>>)

ReportFilesRoutes == Under(<<"reports">>, <<
    Get(<<"audit">>, {"report:audit"}), Get(<<Id, "export">>, {"report:export"})>>)

RbacRoutes == Under(<<"platform", "rbac">>, <<
    Post(<<"refresh">>, Platform)>>)

SmsTemplatesRoutes == Under(<<"sms-templates">>, <<
    Get(<<>>, {"sms_template:read"}), Get(<<Id>>, {"sms_template:read"}),
    Put(<<Id>>, {"sms_template:update"})>>)

-----------------------------------------------------------------------------
(* AppModule imports its modules in this order, each with those it imports. *)
Table == FlattenSeq(<<
    HealthRoutes, LoginRoutes, OtpRoutes, TokensRoutes, PasswordsRoutes,
    LoginHistoryRoutes, RolesRoutes, AssignmentsRoutes, OrganizationRoutes,
    CurrenciesRoutes, DepartmentsRoutes, DesignationsRoutes, TaxRulesRoutes,
    PayrollStructuresRoutes, StructureDesignationsRoutes, LeavePoliciesRoutes,
    LeaveRulesRoutes, WorkLocationsRoutes, ZonesRoutes, EmployeesRoutes,
    EmployeeFilesRoutes, EmployeeDetailsRoutes, ReportingChainRoutes,
    OnboardingLinksRoutes, LinkDecisionsRoutes, CandidateFormRoutes,
    CandidateFilesRoutes, ChatRoomsRoutes, ChatHistoryRoutes,
    ChatSendingRoutes, LeaveRoutes, LeaveDecisionsRoutes, GlobalLeavesRoutes,
    PlatformAuthRoutes, PlansRoutes, PlatformOrganizationsRoutes,
    InvoicesRoutes, DashboardFiguresRoutes, DashboardsRoutes,
    AttendanceModuleRoutes, PayrollRoutes, LoansRoutes, IncentiveRulesRoutes,
    IncentiveLedgerRoutes, GreenThanksConfigRoutes, GreenThanksRoutes,
    TodosRoutes, NoticesRoutes, PerformanceRoutes, ServiceRequestsRoutes,
    RequestDecisionsRoutes, AssetsRoutes, DisciplinaryRoutes, ExitsRoutes,
    InsuranceRoutes, ReportsRoutes, ReportFilesRoutes, RbacRoutes,
    SmsTemplatesRoutes>>)

(* A request for route i, with a value for each of its parameters: ids,    *)
(* tokens and report types, none of which is a word of a route.            *)
Asked(i) == [method |-> Table[i].method,
             path |-> [k \in DOMAIN Table[i].path |->
                          IF Table[i].path[k] = Id THEN "7" ELSE Table[i].path[k]]]

Matches(route, asked) ==
    /\ route.method = asked.method
    /\ Len(route.path) = Len(asked.path)
    /\ \A k \in DOMAIN route.path : route.path[k] \in {Id, asked.path[k]}

(* The first route that matches handles a request. *)
EarlierMatches(i) == {j \in 1 .. (i - 1) : Matches(Table[j], Asked(i))}
Hiding == UNION {{<<j, i>> : j \in EarlierMatches(i)} : i \in DOMAIN Table}
HandlerOf(i) == Min({i} \cup {p[1] : p \in {q \in Hiding : q[2] = i}})

(* The paths that roles.guard.ts lets pass whatever the state of the account. *)
Exempt(path) ==
    \E word \in {"change-password", "logout", "me", "refresh"} :
        IsSuffix(<<"auth", word>>, path)

-----------------------------------------------------------------------------
(* SYSTEM_ROLES *)

Catalogue ==
    {"employee:read", "employee:create", "employee:update", "employee:delete",
     "payroll:read", "payroll:run", "payroll:approve", "payroll:create", "payroll:update",
     "payroll:delete", "leave:read", "leave:apply", "leave:approve", "loan:read",
     "loan:apply", "loan:approve", "todo:read", "todo:create", "todo:approve",
     "attendance:read", "attendance:checkin", "attendance:correct", "org:read",
     "org:update", "role:read", "role:create", "role:update", "role:delete", "role:assign",
     "asset:read", "asset:assign", "asset:return", "service_request:read",
     "service_request:create", "service_request:manage", "report:read", "report:export",
     "report:audit", "onboarding:manage", "exit:manage", "user:read", "user:manage",
     "profile:read", "profile:update", "performance:read", "performance:manage",
     "incentive:read", "incentive:manage", "insurance:read", "insurance:manage",
     "disciplinary:read", "disciplinary:manage", "notice:read", "notice:manage",
     "green_thanks:read", "green_thanks:create", "green_thanks:manage",
     "sms_template:read", "sms_template:update"}

HrManager == {
    "employee:read", "employee:create", "employee:update", "leave:read",
    "leave:approve", "attendance:read", "attendance:correct", "onboarding:manage",
    "exit:manage", "report:read", "report:export", "profile:read",
    "profile:update", "user:read", "performance:read", "performance:manage",
    "disciplinary:read", "disciplinary:manage", "notice:read", "notice:manage",
    "green_thanks:read", "green_thanks:create", "green_thanks:manage",
    "insurance:read", "insurance:manage"}

FinanceManager == {
    "employee:read", "payroll:read", "payroll:create", "payroll:update",
    "payroll:delete", "payroll:run", "payroll:approve", "loan:read",
    "loan:approve", "report:read", "report:export", "profile:read",
    "incentive:read", "incentive:manage"}

DeptManager == {
    "employee:read", "leave:read", "leave:approve", "todo:read", "todo:approve",
    "attendance:read", "profile:read", "performance:read", "notice:read",
    "green_thanks:read", "green_thanks:create"}

FieldSupervisor == {
    "employee:read", "attendance:read", "todo:read", "todo:approve",
    "profile:read", "notice:read", "green_thanks:read", "green_thanks:create"}

Employee == {
    "leave:read", "leave:apply", "todo:read", "todo:create", "attendance:checkin",
    "loan:read", "loan:apply", "profile:read", "profile:update", "notice:read",
    "green_thanks:read", "green_thanks:create"}

ItAdmin == {
    "asset:read", "asset:assign", "asset:return", "service_request:read",
    "service_request:create", "service_request:manage", "user:read",
    "profile:read", "report:audit"}

All == "*"

PermissionsOf ==
    [super_admin |-> {All}, org_admin |-> Catalogue, hr_manager |-> HrManager,
     finance_manager |-> FinanceManager, dept_manager |-> DeptManager,
     field_supervisor |-> FieldSupervisor, employee |-> Employee, it_admin |-> ItAdmin]

(* PermissionsGuard, but for its gates. *)
Grants(permissions, needs) == All \in permissions \/ needs \subseteq permissions
=============================================================================
