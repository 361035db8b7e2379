------------------------------- MODULE Billing -------------------------------
(***************************************************************************)
(* Organizations, their subscriptions and the invoices for them: the       *)
(* administrator's requests and the three cron jobs of the billing         *)
(* scheduler.  A job reads its rows once and then writes one row after the *)
(* other; the process serves requests in between.  Amounts are left out:   *)
(* an invoice is a period, a due date and a status.                        *)
(***************************************************************************)
EXTENDS Integers, Sequences

CONSTANTS
    Orgs,
    Cycles,         \* of billing
    Length,         \* cycle -> days of its period
    DueAfter,       \* days from the start of a period to its due date
    Grace,          \* gracePeriodDays
    MaxDay,         \* bound on the clock
    MaxInvoices,    \* bound on the invoices
    MaxAsked,       \* bound on the requests about what is registered
    Admins,         \* requests to suspend or activate that are served at a time
    NoOrg,
    Crashes

VARIABLES
    day,            \* the clock
    active,         \* Organization.isActive; an organization exists when it has a subscription
    sub,            \* OrganizationSubscription
    invoices,       \* in the order of their numbers, which count them
    job,            \* job -> the rows it has read and is not done with, and the one in hand
    admin,          \* the suspensions and activations under way
    asked           \* requests so far

vars == <<day, active, sub, invoices, job, admin, asked>>

Jobs == {"remind", "suspend", "renew"}
NoStatus == "NONE"
SubStatus == {NoStatus, "ACTIVE", "PAST_DUE", "SUSPENDED"}
InvoiceStatus == {"SENT", "OVERDUE", "PAID", "VOID"}

NoRequest == [org |-> NoOrg, to |-> NoStatus]
NoSub == [status |-> NoStatus, cycle |-> NoStatus, end |-> 0, next |-> 0]

Rows == [org : Orgs, number : Nat, cycle : Cycles \cup {NoStatus}, next : Nat]
Row(o, n, c, d) == [org |-> o, number |-> n, cycle |-> c, next |-> d]
NoRow == Row(NoOrg, 0, NoStatus, 0)
Idle == [todo |-> {}, row |-> NoRow, at |-> "idle", number |-> 0]

TypeOK ==
    /\ day \in Nat
    /\ active \in [Orgs -> BOOLEAN]
    /\ sub \in [Orgs -> [status : SubStatus, cycle : Cycles \cup {NoStatus}, end : Nat, next : Nat]]
    /\ \A i \in DOMAIN invoices :
          invoices[i] \in [org : Orgs, status : InvoiceStatus, from : Nat, to : Nat, due : Nat]
    /\ job \in [Jobs -> [todo : SUBSET Rows, row : Rows \cup {NoRow},
                         at : {"idle", "next", "issue", "write"}, number : Nat]]
    /\ admin \in [Admins -> [org : Orgs \cup {NoOrg}, to : SubStatus]]
    /\ asked \in 0 .. MaxAsked

Init ==
    /\ day = 0
    /\ active = [o \in Orgs |-> FALSE]
    /\ sub = [o \in Orgs |-> NoSub]
    /\ invoices = <<>>
    /\ job = [j \in Jobs |-> Idle]
    /\ admin = [a \in Admins |-> NoRequest]
    /\ asked = 0

Exists(o) == sub[o].status # NoStatus
Numbers == DOMAIN invoices

Issue(o, from, to) ==
    invoices' = Append(invoices, [org |-> o, status |-> "SENT", from |-> from, to |-> to,
                                  due |-> from + DueAfter])

-----------------------------------------------------------------------------
(* The administrator. *)
Ask == asked < MaxAsked /\ asked' = asked + 1

(* One transaction; roles, admin user and employee belong to the           *)
(* organization alone.                                                     *)
Register(o, c) ==
    /\ ~Exists(o)
    /\ Len(invoices) < MaxInvoices
    /\ active' = [active EXCEPT ![o] = TRUE]
    /\ sub' = [sub EXCEPT ![o] = [status |-> "ACTIVE", cycle |-> c,
                                  end |-> day + Length[c], next |-> day + Length[c]]]
    /\ Issue(o, day, day + Length[c])
    /\ UNCHANGED <<day, job, admin, asked>>

(* suspend and activate: the organization first, then its subscription.    *)
SwitchOrg(a, o, to) ==
    /\ Exists(o) /\ admin[a] = NoRequest
    /\ active' = [active EXCEPT ![o] = (to = "ACTIVE")]
    /\ admin' = [admin EXCEPT ![a] = [org |-> o, to |-> to]]
    /\ Ask
    /\ UNCHANGED <<day, sub, invoices, job>>

SwitchSub(a) ==
    /\ admin[a] # NoRequest
    /\ sub' = [sub EXCEPT ![admin[a].org].status = admin[a].to]
    /\ admin' = [admin EXCEPT ![a] = NoRequest]
    /\ UNCHANGED <<day, active, invoices, job, asked>>

UpdateSubscription(o, c) ==
    /\ Exists(o)
    /\ sub' = [sub EXCEPT ![o].cycle = c]
    /\ Ask
    /\ UNCHANGED <<day, active, invoices, job, admin>>

(* A payment may be recorded for an invoice in any status, and again; the  *)
(* payment's own row is left out.                                          *)
MarkPaid(i) ==
    /\ invoices' = [invoices EXCEPT ![i].status = "PAID"]
    /\ Ask
    /\ UNCHANGED <<day, active, sub, job, admin>>

VoidInvoice(i) ==
    /\ invoices' = [invoices EXCEPT ![i].status = "VOID"]
    /\ Ask
    /\ UNCHANGED <<day, active, sub, job, admin>>

-----------------------------------------------------------------------------
(* A job reads its rows, takes one of them, and does its two writes. *)

Begin(j, rows) ==
    /\ job[j].at = "idle"
    /\ rows # {}
    /\ job' = [job EXCEPT ![j] = [Idle EXCEPT !.todo = rows, !.at = "next"]]
    /\ UNCHANGED <<day, active, sub, invoices, admin, asked>>

Take(j, r) == r \in job[j].todo /\ job[j].at = "next"
InHand(j, r) == job[j].at = "write" /\ job[j].row = r
Keep(j, r) == job' = [job EXCEPT ![j].at = "write", ![j].row = r]
Drop(j, r) ==
    LET rest == job[j].todo \ {r}
    IN job' = [job EXCEPT ![j] = IF rest = {} THEN Idle
                                 ELSE [Idle EXCEPT !.todo = rest, !.at = "next"]]

RemindRead ==
    Begin("remind", {Row(invoices[i].org, i, NoStatus, 0) :
                        i \in {n \in Numbers : invoices[n].status = "SENT" /\ invoices[n].due < day}})

RemindInvoice(r) ==
    /\ Take("remind", r)
    /\ invoices' = [invoices EXCEPT ![r.number].status = "OVERDUE"]
    /\ Keep("remind", r)
    /\ UNCHANGED <<day, active, sub, admin, asked>>

RemindSub(r) ==
    /\ InHand("remind", r)
    /\ sub' = [sub EXCEPT ![r.org].status = IF @ = "ACTIVE" THEN "PAST_DUE" ELSE @]
    /\ Drop("remind", r)
    /\ UNCHANGED <<day, active, invoices, admin, asked>>

SuspendRead ==
    Begin("suspend", {Row(o, 0, NoStatus, 0) :
                         o \in {p \in Orgs : sub[p].status = "PAST_DUE" /\ day > sub[p].end + Grace}})

SuspendSub(r) ==
    /\ Take("suspend", r)
    /\ sub' = [sub EXCEPT ![r.org].status = "SUSPENDED"]
    /\ Keep("suspend", r)
    /\ UNCHANGED <<day, active, invoices, admin, asked>>

SuspendOrg(r) ==
    /\ InHand("suspend", r)
    /\ active' = [active EXCEPT ![r.org] = FALSE]
    /\ Drop("suspend", r)
    /\ UNCHANGED <<day, sub, invoices, admin, asked>>

RenewRead ==
    Begin("renew", {Row(o, 0, sub[o].cycle, sub[o].next) :
                       o \in {p \in Orgs : sub[p].status = "ACTIVE" /\ sub[p].next <= day}})

(* The number of the next invoice is a count of them, taken before it is   *)
(* made.                                                                   *)
RenewCount(r) ==
    /\ Take("renew", r)
    /\ Len(invoices) < MaxInvoices
    /\ job' = [job EXCEPT !["renew"].at = "issue", !["renew"].row = r,
                          !["renew"].number = Len(invoices) + 1]
    /\ UNCHANGED <<day, active, sub, invoices, admin, asked>>

(* If somebody else has had the number, the unique key ends the whole pass. *)
RenewInvoice ==
    LET r == job["renew"].row
    IN /\ job["renew"].at = "issue"
       /\ IF job["renew"].number = Len(invoices) + 1
          THEN Issue(r.org, r.next, r.next + Length[r.cycle]) /\ Keep("renew", r)
          ELSE job' = [job EXCEPT !["renew"] = Idle] /\ UNCHANGED invoices
       /\ UNCHANGED <<day, active, sub, admin, asked>>

(* Fault: the date of the next invoice stays. *)
RenewEnd(r) ==
    /\ InHand("renew", r)
    /\ sub' = [sub EXCEPT ![r.org].end = r.next + Length[r.cycle]]
    /\ Drop("renew", r)
    /\ UNCHANGED <<day, active, invoices, admin, asked>>

RenewSub(r) ==
    /\ InHand("renew", r)
    /\ LET end == r.next + Length[r.cycle]
       IN sub' = [sub EXCEPT ![r.org].next = end, ![r.org].end = end]
    /\ Drop("renew", r)
    /\ UNCHANGED <<day, active, invoices, admin, asked>>

-----------------------------------------------------------------------------
Tick == day < MaxDay /\ day' = day + 1 /\ UNCHANGED <<active, sub, invoices, job, admin, asked>>

(* The process dies with whatever it is doing. *)
Crash ==
    /\ Crashes
    /\ job' = [j \in Jobs |-> Idle]
    /\ admin' = [a \in Admins |-> NoRequest]
    /\ <<job, admin>>' # <<job, admin>>
    /\ UNCHANGED <<day, active, sub, invoices, asked>>

Next ==
    \/ \E o \in Orgs : \/ \E c \in Cycles : Register(o, c) \/ UpdateSubscription(o, c)
                       \/ \E a \in Admins, to \in {"ACTIVE", "SUSPENDED"} : SwitchOrg(a, o, to)
    \/ \E i \in Numbers : MarkPaid(i) \/ VoidInvoice(i)
    \/ \E a \in Admins : SwitchSub(a)
    \/ RemindRead \/ SuspendRead \/ RenewRead
    \/ \E r \in job["remind"].todo : RemindInvoice(r) \/ RemindSub(r)
    \/ \E r \in job["suspend"].todo : SuspendSub(r) \/ SuspendOrg(r)
    \/ \E r \in job["renew"].todo : RenewCount(r) \/ RenewSub(r)
    \/ RenewInvoice
    \/ Tick \/ Crash

Spec == Init /\ [][Next]_vars

-----------------------------------------------------------------------------
(* PROPERTIES *)

Of(o) == {i \in Numbers : invoices[i].org = o}

(* The invoices of an organization follow on one another: each period      *)
(* begins where the one before it ended, or, if the process has died, where *)
(* that one began.  No period is skipped.                                  *)
Consecutive(i, k) ==
    /\ i < k /\ invoices[i].org = invoices[k].org
    /\ \A n \in Of(invoices[i].org) : ~(i < n /\ n < k)

PeriodsFollowOn(died) ==
    \A i, k \in Numbers :
        Consecutive(i, k) => \/ invoices[k].from = invoices[i].to
                             \/ died /\ invoices[k].from = invoices[i].from

(* What is half done with an organization, by a request or by the job.     *)
Asked(o) == \E a \in Admins : admin[a].org = o
Busy(o) == Asked(o) \/ job["suspend"].row.org = o

(* Two requests on one organization meet, or a request and the job: the job *)
(* has read the organization and is not done with it.                      *)
Meet(o) ==
    \/ \E a, b \in Admins : a # b /\ admin[a].org = o /\ admin[b].org = o
    \/ Asked(o) /\ \E r \in job["suspend"].todo : r.org = o

(* An organization is active unless its subscription is suspended, if none *)
(* have met on it nor died half way.                                       *)
StatusesAgree(contested) ==
    \A o \in Orgs \ contested :
        Exists(o) /\ ~Busy(o) => (active[o] <=> sub[o].status # "SUSPENDED")

(* A paid invoice does not become overdue.                                 *)
PaidStaysPaid ==
    \A i \in Numbers : invoices[i].status = "PAID" => invoices'[i].status # "OVERDUE"

(* An invoice that the reminders have read is paid or voided meanwhile.    *)
Contended == \E r \in job["remind"].todo : invoices[r.number].status \notin {"SENT", "OVERDUE"}
=============================================================================
