----------------------------- MODULE OrgProofs -----------------------------
(***************************************************************************)
(* For any number of organizations, departments, items, leave types and    *)
(* requests: bills follow on and statuses agree, roles take nothing away,  *)
(* departments stay a tree and their levels follow it, what is in use is   *)
(* not removed, and nobody activates their own account.  Which routes a    *)
(* request gets through to is left to the model checker.                   *)
(***************************************************************************)
EXTENDS MCOrg, SequenceTheorems, SumTheorems

-----------------------------------------------------------------------------
(* BILLS *)

Cycles == DOMAIN DaysIn
Subs == [status : B!SubStatus, cycle : Cycles \cup {B!NoStatus}, end : Nat, next : Nat]
Bills == [org : Orgs, status : B!InvoiceStatus, from : Nat, to : Nat, due : Nat]
BillJobs == [todo : SUBSET B!Rows, row : B!Rows \cup {B!NoRow},
             at : {"idle", "next", "issue", "write"}, number : Nat]

Requested == [org : Orgs \cup {NoOrg}, to : B!SubStatus]

BillsTyped ==
    /\ day \in Nat /\ active \in [Orgs -> BOOLEAN] /\ billed \in 0 .. MaxBilled
    /\ sub \in [Orgs -> Subs]
    /\ \A o \in Orgs : B!Exists(o) => sub[o].cycle \in Cycles
    /\ invoices \in Seq(Bills)
    /\ jobs \in [B!Jobs -> BillJobs]
    /\ admin \in [Workers -> Requested]
    /\ \A a \in Workers : admin[a] # B!NoRequest =>
          /\ admin[a].org \in Orgs /\ B!Exists(admin[a].org)
          /\ admin[a].to \in {"ACTIVE", "SUSPENDED"}

(* The last invoice of an organization ends where its next one is to       *)
(* begin, or is the next one: the renewal has yet to say so, or has died.  *)
LastOf(o, i) == i \in B!Of(o) /\ \A n \in B!Of(o) : n <= i
Renewing(o) == jobs["renew"].at = "write" /\ jobs["renew"].row.org = o
LastFits(o, i) ==
    \/ invoices[i].to = sub[o].next
    \/ invoices[i].from = sub[o].next /\ (died \/ Renewing(o))

(* What the renewal has read of an organization holds until it is done.    *)
RowFits(r) == B!Exists(r.org) /\ r.next = sub[r.org].next /\ r.cycle \in Cycles
Renewal ==
    LET j == jobs["renew"]
    IN /\ \A r \in j.todo : RowFits(r)
       /\ \A r, s \in j.todo : r.org = s.org => r = s
       /\ j.at \in {"issue", "write"} => j.row \in j.todo
       /\ j.at = "write" => \A i \in B!Numbers : LastOf(j.row.org, i) =>
             invoices[i].from = j.row.next /\ invoices[i].to = j.row.next + DaysIn[j.row.cycle]

PeriodsFit ==
    /\ B!PeriodsFollowOn(died)
    /\ \A i \in B!Numbers : B!Exists(invoices[i].org)
    /\ \A o \in Orgs, i \in B!Numbers : LastOf(o, i) => LastFits(o, i)
    /\ \A r \in jobs["suspend"].todo : B!Exists(r.org)
    /\ Renewal

(* Suspension and activation reach the organization first and then its     *)
(* subscription, the job the other way round; so an organization on which  *)
(* no two of them have met is half way at most with one of them.           *)
OrgFits(o) ==
    /\ B!Exists(o) /\ ~B!Busy(o) => (active[o] <=> sub[o].status # "SUSPENDED")
    /\ \A a \in Workers : admin[a].org = o => active[o] = (admin[a].to = "ACTIVE")
    /\ jobs["suspend"].row.org = o => sub[o].status = "SUSPENDED"
    /\ ~B!Meet(o)
SuspendFits ==
    LET j == jobs["suspend"]
    IN IF j.at = "write" THEN j.row \in j.todo ELSE j.row = B!NoRow
StatusesFit == SuspendFits /\ \A o \in Orgs \ contested : OrgFits(o)

LEMMA PeriodsInDays == \A c \in Cycles : DaysIn[c] \in Nat
BY DEF DaysIn, Cycles

LEMMA BillIdle ==
    /\ B!Idle \in BillJobs /\ B!Idle.at = "idle" /\ B!Idle.todo = {} /\ B!Idle.row = B!NoRow
    /\ B!NoRow.org = NoOrg /\ B!NoRequest \in Requested /\ B!NoRequest.org = NoOrg /\ B!NoSub \in Subs /\ B!NoSub.status = B!NoStatus
BY DEF B!Idle, BillJobs, B!NoRow, B!Row, B!NoSub, Subs, B!SubStatus, B!NoStatus, B!NoRequest, Requested

LEMMA BillStart == B!Init => BillsTyped /\ PeriodsFit /\ StatusesFit /\ ~B!Contended
<1> SUFFICES ASSUME B!Init PROVE BillsTyped /\ PeriodsFit /\ StatusesFit /\ ~B!Contended
  OBVIOUS
<1>1. BillsTyped
  BY BillIdle, OrgAssumption DEF B!Init, BillsTyped, B!Exists, B!SubStatus, B!NoStatus
<1>2. B!Numbers = {}
  BY DEF B!Init, B!Numbers
<1>3. PeriodsFit
  BY <1>2, BillIdle DEF B!Init, PeriodsFit, B!PeriodsFollowOn, Renewal, B!Jobs
<1>4. StatusesFit
  BY BillIdle, OrgAssumption
  DEF B!Init, StatusesFit, SuspendFits, OrgFits, B!Meet, B!Asked, B!Exists, B!Jobs
<1>5. ~B!Contended
  BY BillIdle DEF B!Init, B!Contended, B!Jobs
<1> QED
  BY <1>1, <1>3, <1>4, <1>5

-----------------------------------------------------------------------------
(* The last invoices of the organizations and their periods. *)

SameBills ==
    /\ B!Numbers' = B!Numbers
    /\ \A i \in B!Numbers : /\ invoices'[i].org = invoices[i].org
                            /\ invoices'[i].from = invoices[i].from
                            /\ invoices'[i].to = invoices[i].to
SameDates ==
    \A o \in Orgs : sub'[o].next = sub[o].next /\ (B!Exists(o)' <=> B!Exists(o))

LEMMA SameLast == SameBills => \A o, i : LastOf(o, i)' <=> LastOf(o, i)
<1> SUFFICES ASSUME SameBills PROVE \A o, i : LastOf(o, i)' <=> LastOf(o, i)
  OBVIOUS
<1>1. \A o : B!Of(o)' = B!Of(o)
  BY DEF SameBills, B!Of
<1> QED
  BY <1>1 DEF LastOf

LEMMA SameFollowOn ==
    ASSUME SameBills, B!PeriodsFollowOn(died), died => died'
    PROVE  B!PeriodsFollowOn(died)'
<1>1. \A o : B!Of(o)' = B!Of(o)
  BY DEF SameBills, B!Of
<1>2. \A i, k \in B!Numbers : B!Consecutive(i, k)' <=> B!Consecutive(i, k)
  BY <1>1 DEF SameBills, B!Consecutive
<1> QED
  BY <1>2 DEF SameBills, B!PeriodsFollowOn

LEMMA BillsOf ==
    ASSUME BillsTyped, NEW i \in B!Numbers
    PROVE  invoices[i] \in Bills /\ invoices[i].org \in Orgs
<1>1. invoices[i] \in Bills
  BY DEF BillsTyped, B!Numbers
<1> QED
  BY <1>1 DEF Bills

LEMMA BillJobTypes ==
    ASSUME BillsTyped, NEW j \in B!Jobs
    PROVE  /\ jobs[j] \in BillJobs
           /\ jobs[j].todo \subseteq B!Rows /\ jobs[j].row \in B!Rows \cup {B!NoRow}
           /\ \A r \in jobs[j].todo : r.org \in Orgs
BY DEF BillsTyped, BillJobs, B!Rows

(* A step of anybody but the renewal. *)
LEMMA OtherBills ==
    ASSUME BillsTyped, PeriodsFit, SameBills, SameDates, UNCHANGED jobs["renew"], died => died',
           \A r \in jobs'["suspend"].todo : 
              r \in jobs["suspend"].todo \/ (r.org \in Orgs /\ B!Exists(r.org))
    PROVE  PeriodsFit'
<1>1. \A i \in B!Numbers : invoices[i] \in Bills /\ invoices[i].org \in Orgs
  BY BillsOf
<1>2. \A i \in B!Numbers' : B!Exists(invoices[i].org)'
  BY <1>1 DEF SameBills, SameDates, PeriodsFit
<1>3. \A o \in Orgs, i \in B!Numbers' : LastOf(o, i)' => LastFits(o, i)'
  BY SameLast DEF PeriodsFit, LastFits, Renewing, SameBills, SameDates
<1>4. Renewal'
  <2>1. \A r \in jobs["renew"].todo : r.org \in Orgs
    BY DEF BillsTyped, BillJobs, B!Rows, B!Jobs
  <2>2. \A r \in jobs["renew"].todo : RowFits(r)'
    BY <2>1 DEF PeriodsFit, Renewal, RowFits, SameDates
  <2>3. ASSUME jobs["renew"].at = "write"
        PROVE  \A i \in B!Numbers' : LastOf(jobs["renew"].row.org, i)' =>
                 /\ invoices'[i].from = jobs["renew"].row.next
                 /\ invoices'[i].to = jobs["renew"].row.next + DaysIn[jobs["renew"].row.cycle]
    BY <2>3, SameLast DEF SameBills, PeriodsFit, Renewal
  <2> QED
    BY <2>2, <2>3, SameLast DEF PeriodsFit, Renewal
<1>5. B!PeriodsFollowOn(died)'
  BY SameFollowOn DEF PeriodsFit
<1>6. ASSUME NEW r \in jobs'["suspend"].todo PROVE B!Exists(r.org)'
  <2>1. B!Exists(r.org) /\ r.org \in Orgs
    BY <1>6, BillJobTypes DEF PeriodsFit, B!Jobs
  <2> QED
    BY <2>1 DEF SameDates
<1> QED
  BY <1>2, <1>3, <1>4, <1>5, <1>6 DEF PeriodsFit

-----------------------------------------------------------------------------
(* The steps that leave periods alone. *)

BillBecomes(i, s) == invoices' = [invoices EXCEPT ![i].status = s]

(* One invoice's status changes.                                           *)
LEMMA StatusOfBill ==
    ASSUME BillsTyped, NEW i, NEW s \in B!InvoiceStatus,
           BillBecomes(i, s)
    PROVE  /\ invoices' \in Seq(Bills) /\ SameBills
           /\ \A k \in B!Numbers : k # i => invoices'[k] = invoices[k]
<1>1. Len(invoices) \in Nat /\ B!Numbers = 1 .. Len(invoices) /\ DOMAIN invoices = 1 .. Len(invoices)
  BY DEF BillsTyped, B!Numbers
<1>2. PICK b : b = [invoices[i] EXCEPT !.status = s]
  OBVIOUS
<1>3. invoices' = [invoices EXCEPT ![i] = b]
  BY <1>2 DEF BillBecomes
<1>4. ASSUME NEW k \in 1 .. Len(invoices)
      PROVE  /\ invoices'[k] \in Bills
             /\ invoices'[k].org = invoices[k].org
             /\ invoices'[k].from = invoices[k].from
             /\ invoices'[k].to = invoices[k].to
             /\ k # i => invoices'[k] = invoices[k]
  <2>1. invoices[k] \in Bills
    BY BillsOf, <1>1
  <2>2. CASE k = i
    <3>1. b \in Bills /\ b.org = invoices[i].org /\ b.from = invoices[i].from /\ b.to = invoices[i].to
      BY <1>2, <2>1, <2>2 DEF Bills
    <3> QED
      BY <1>1, <1>3, <2>2, <3>1
  <2>3. CASE k # i
    BY <1>1, <1>3, <2>1, <2>3
  <2> QED
    BY <2>2, <2>3
<1>5. DOMAIN invoices' = 1 .. Len(invoices)
  BY <1>1, <1>3
<1>6. CASE i \in 1 .. Len(invoices)
  <2>1. invoices[i] \in Bills
    BY BillsOf, <1>1, <1>6
  <2>2. b \in Bills
    BY <1>2, <2>1 DEF Bills
  <2>3. invoices \in Seq(Bills)
    BY DEF BillsTyped
  <2>4. [invoices EXCEPT ![i] = b] \in Seq(Bills)
    BY <1>6, <2>2, <2>3, ExceptSeq
  <2> QED
    BY <1>3, <1>1, <1>4, <1>5, <2>4 DEF SameBills, B!Numbers
<1>7. CASE i \notin 1 .. Len(invoices)
  <2>1. invoices' = invoices
    BY <1>1, <1>3, <1>7 DEF BillsTyped
  <2> QED
    BY <2>1, <1>1 DEF BillsTyped, SameBills, B!Numbers
<1> QED
  BY <1>6, <1>7

(* A subscription's status or cycle changes.                               *)
LEMMA StatusOfSub ==
    ASSUME BillsTyped, NEW o \in Orgs, NEW s, s \in B!SubStatus, B!Exists(o) <=> s # B!NoStatus,
           sub' = [sub EXCEPT ![o].status = s]
    PROVE  /\ sub' \in [Orgs -> Subs] /\ SameDates
           /\ \A p \in Orgs : B!Exists(p)' => sub'[p].cycle \in Cycles
           /\ \A p \in Orgs : sub'[p].status = IF p = o THEN s ELSE sub[p].status
<1>1. PICK b : b = [sub[o] EXCEPT !.status = s]
  OBVIOUS
<1>2. sub[o] \in Subs
  BY DEF BillsTyped
<1>3. b \in Subs /\ b.next = sub[o].next /\ b.status = s /\ b.cycle = sub[o].cycle
  BY <1>1, <1>2 DEF Subs
<1>4. sub' = [sub EXCEPT ![o] = b]
  BY <1>1
<1> QED
  BY <1>3, <1>4 DEF BillsTyped, SameDates, B!Exists

(* A job goes on to its next row, or to a write.                           *)
LEMMA BillJobMoves ==
    ASSUME BillsTyped, NEW j \in B!Jobs, NEW r \in jobs[j].todo,
           B!Keep(j, r) \/ B!Drop(j, r)
    PROVE  /\ jobs' \in [B!Jobs -> BillJobs]
           /\ \A k \in B!Jobs \ {j} : jobs'[k] = jobs[k]
           /\ B!Keep(j, r) => /\ jobs'[j].at = "write" /\ jobs'[j].row = r
                              /\ jobs'[j].todo = jobs[j].todo
           /\ B!Drop(j, r) => /\ jobs'[j].at \in {"idle", "next"} /\ jobs'[j].row = B!NoRow
                              /\ jobs'[j].todo = jobs[j].todo \ {r}
<1>1. jobs[j] \in BillJobs /\ jobs[j].todo \in SUBSET B!Rows /\ r \in B!Rows
  BY BillJobTypes
<1>2. CASE B!Keep(j, r)
  <2>1. PICK q : q = [jobs[j] EXCEPT !.at = "write", !.row = r]
    OBVIOUS
  <2>2. q \in BillJobs /\ q.at = "write" /\ q.row = r /\ q.todo = jobs[j].todo
    BY <1>1, <2>1 DEF BillJobs
  <2>3. jobs' = [jobs EXCEPT ![j] = q]
    BY <1>2, <2>1 DEF B!Keep
  <2>4. /\ jobs' \in [B!Jobs -> BillJobs]
        /\ \A k \in B!Jobs \ {j} : jobs'[k] = jobs[k]
        /\ jobs'[j] = q
    BY <2>2, <2>3 DEF BillsTyped
  <2>5. CASE B!Drop(j, r)
    <3>1. jobs'[j].at # "write"
      BY <2>5, <2>4, BillIdle DEF B!Drop, B!Idle, BillsTyped
    <3> QED
      BY <2>2, <2>4, <3>1
  <2> QED
    BY <2>2, <2>4, <2>5
<1>3. CASE B!Drop(j, r)
  <2> DEFINE rest == jobs[j].todo \ {r}
  <2>1. PICK q : q = IF rest = {} THEN B!Idle ELSE [B!Idle EXCEPT !.todo = rest, !.at = "next"]
    OBVIOUS
  <2>2. q \in BillJobs /\ q.at \in {"idle", "next"} /\ q.row = B!NoRow /\ q.todo = rest
    <3>1. CASE rest = {}
      BY <2>1, <3>1, BillIdle
    <3>2. CASE rest # {}
      BY <1>1, <2>1, <3>2 DEF B!Idle, BillJobs
    <3> QED
      BY <3>1, <3>2
  <2>3. jobs' = [jobs EXCEPT ![j] = q]
    BY <1>3, <2>1 DEF B!Drop
  <2>4. /\ jobs' \in [B!Jobs -> BillJobs]
        /\ \A k \in B!Jobs \ {j} : jobs'[k] = jobs[k]
        /\ jobs'[j] = q
    BY <2>2, <2>3 DEF BillsTyped
  <2>5. CASE B!Keep(j, r)
    <3>1. jobs'[j].at = "write"
      BY <2>5, <1>1 DEF B!Keep, BillsTyped
    <3> QED
      BY <2>2, <2>4, <3>1
  <2> QED
    BY <2>2, <2>4, <2>5
<1> QED
  BY <1>2, <1>3

-----------------------------------------------------------------------------
(* What every step keeps, and what it keeps of an organization on which no *)
(* two have met.                                                           *)

Meets ==
    /\ contested \subseteq contested'
    /\ \A o \in Orgs \ contested' : ~B!Meet(o)' /\ ~(B!Crash /\ B!Busy(o))

BillsGoOn ==
    /\ BillsTyped' /\ PeriodsFit'
    /\ StatusesFit /\ Meets => StatusesFit'
    /\ ~B!Contended => B!PaidStaysPaid

LEMMA NoBillChanges == UNCHANGED invoices => SameBills
BY DEF SameBills, B!Numbers

LEMMA NoSubChanges == UNCHANGED sub => SameDates
BY DEF SameDates, B!Exists

LEMMA NothingPaid == UNCHANGED invoices => B!PaidStaysPaid
BY DEF B!PaidStaysPaid

LEMMA JobNames == "remind" \in B!Jobs /\ "suspend" \in B!Jobs /\ "renew" \in B!Jobs
BY DEF B!Jobs

(* It is enough that a step keeps this of each such organization.          *)
LEMMA EachOrgFits ==
    ASSUME StatusesFit, Meets, SuspendFits',
           \A o \in Orgs : OrgFits(o) /\ ~B!Meet(o)' => OrgFits(o)'
    PROVE  StatusesFit'
BY DEF StatusesFit, Meets

(* Requests and the job's row are as they were, and so are the statuses.   *)
LEMMA SameStatuses ==
    ASSUME BillsTyped, StatusesFit, Meets, UNCHANGED <<active, admin>>, UNCHANGED jobs["suspend"],
           \A o \in Orgs : (sub'[o].status = "SUSPENDED" <=> sub[o].status = "SUSPENDED")
                           /\ (B!Exists(o)' <=> B!Exists(o))
    PROVE  StatusesFit'
<1>1. SuspendFits'
  BY DEF StatusesFit, SuspendFits
<1>2. ASSUME NEW o \in Orgs, OrgFits(o), ~B!Meet(o)' PROVE OrgFits(o)'
  BY <1>2 DEF OrgFits, B!Busy, B!Asked
<1> QED
  BY <1>1, <1>2, EachOrgFits

(* One request begins or ends. *)
LEMMA OneAdmin ==
    ASSUME BillsTyped, NEW a \in Workers, NEW q \in Requested, admin' = [admin EXCEPT ![a] = q]
    PROVE  /\ admin' \in [Workers -> Requested] /\ admin'[a] = q
           /\ \A b \in Workers \ {a} : admin'[b] = admin[b]
BY DEF BillsTyped

LEMMA OrgSwitches ==
    ASSUME BillsTyped, PeriodsFit, UNCHANGED died, NEW a \in Workers, NEW o \in Orgs,
           NEW to \in {"ACTIVE", "SUSPENDED"}, B!SwitchOrg(a, o, to)
    PROVE  BillsGoOn
<1> DEFINE q == [org |-> o, to |-> to]
<1>1. /\ UNCHANGED <<day, sub, invoices, jobs>> /\ B!Exists(o) /\ admin[a] = B!NoRequest
      /\ active' = [active EXCEPT ![o] = (to = "ACTIVE")]
      /\ admin' = [admin EXCEPT ![a] = q] /\ billed' \in 0 .. MaxBilled
  BY OrgAssumption DEF B!SwitchOrg, B!Ask, BillsTyped
<1>2. q \in Requested /\ q.org = o /\ q.to = to
  BY DEF Requested, B!SubStatus
<1> HIDE DEF q
<1>3. /\ admin' \in [Workers -> Requested] /\ admin'[a] = q
      /\ \A b \in Workers \ {a} : admin'[b] = admin[b]
  BY <1>1, <1>2, OneAdmin
<1>4. /\ active' \in [Orgs -> BOOLEAN] /\ active'[o] = (to = "ACTIVE")
      /\ \A p \in Orgs \ {o} : active'[p] = active[p]
  BY <1>1 DEF BillsTyped
<1>5. BillsTyped'
  <2>1. ASSUME NEW b \in Workers, admin'[b] # B!NoRequest
        PROVE  /\ admin'[b].org \in Orgs /\ B!Exists(admin'[b].org)
               /\ admin'[b].to \in {"ACTIVE", "SUSPENDED"}
    BY <1>1, <1>2, <1>3, <2>1 DEF BillsTyped
  <2> QED
    BY <1>1, <1>3, <1>4, <2>1 DEF BillsTyped, B!Exists
<1>6. PeriodsFit'
  BY <1>1, OtherBills, NoBillChanges, NoSubChanges
<1>7. ASSUME StatusesFit, Meets PROVE StatusesFit'
  <2>1. SuspendFits'
    BY <1>1, <1>7 DEF StatusesFit, SuspendFits
  <2>2. ASSUME NEW p \in Orgs, OrgFits(p), ~B!Meet(p)' PROVE OrgFits(p)'
    <3>1. CASE p = o
      <4>1. B!Busy(p)'
        BY <1>2, <1>3, <3>1 DEF B!Busy, B!Asked
      <4>2. \A b \in Workers : admin'[b].org = p => b = a
        BY <1>2, <1>3, <2>2, <3>1 DEF B!Meet
      <4> QED
        BY <1>1, <1>2, <1>3, <1>4, <2>2, <3>1, <4>1, <4>2 DEF OrgFits
    <3>2. CASE p # o
      <4>1. admin[a].org # p /\ admin'[a].org # p
        BY <1>1, <1>2, <1>3, <3>2, BillIdle, OrgAssumption
      <4>2. \A b \in Workers : admin'[b].org = p => admin[b] = admin'[b]
        BY <1>3, <4>1
      <4>3. \A b \in Workers : admin[b].org = p => admin[b] = admin'[b]
        BY <1>3, <4>1
      <4> QED
        BY <1>1, <1>4, <2>2, <3>2, <4>2, <4>3 DEF OrgFits, B!Busy, B!Asked, B!Exists
    <3> QED
      BY <3>1, <3>2
  <2> QED
    BY <1>7, <2>1, <2>2, EachOrgFits
<1> QED
  BY <1>1, <1>5, <1>6, <1>7, NothingPaid DEF BillsGoOn

LEMMA SubSwitches ==
    ASSUME BillsTyped, PeriodsFit, UNCHANGED died, NEW a \in Workers, B!SwitchSub(a)
    PROVE  BillsGoOn
<1> DEFINE o == admin[a].org
           to == admin[a].to
<1>1. /\ UNCHANGED <<day, active, invoices, jobs, billed>> /\ admin[a] # B!NoRequest
      /\ sub' = [sub EXCEPT ![o].status = to]
      /\ admin' = [admin EXCEPT ![a] = B!NoRequest]
  BY DEF B!SwitchSub
<1>2. o \in Orgs /\ B!Exists(o) /\ to \in {"ACTIVE", "SUSPENDED"}
  BY <1>1 DEF BillsTyped
<1> HIDE DEF to
<1>3. /\ admin' \in [Workers -> Requested] /\ admin'[a] = B!NoRequest
      /\ \A b \in Workers \ {a} : admin'[b] = admin[b]
  BY <1>1, BillIdle, OneAdmin
<1>4. /\ sub' \in [Orgs -> Subs] /\ SameDates
      /\ \A p \in Orgs : B!Exists(p)' => sub'[p].cycle \in Cycles
      /\ \A p \in Orgs : sub'[p].status = IF p = o THEN to ELSE sub[p].status
  <2>1. to \in B!SubStatus /\ (B!Exists(o) <=> to # B!NoStatus)
    BY <1>2 DEF B!SubStatus, B!NoStatus
  <2> QED
    BY <1>1, <1>2, <2>1, StatusOfSub
<1>5. BillsTyped'
  <2>1. ASSUME NEW b \in Workers, admin'[b] # B!NoRequest, NEW p, p = admin'[b].org
        PROVE  p \in Orgs /\ B!Exists(p)' /\ admin'[b].to \in {"ACTIVE", "SUSPENDED"}
    <3>1. admin'[b] = admin[b]
      BY <1>3, <2>1
    <3>2. p \in Orgs /\ B!Exists(p) /\ admin'[b].to \in {"ACTIVE", "SUSPENDED"}
      BY <2>1, <3>1 DEF BillsTyped
    <3> QED
      BY <1>4, <3>2 DEF SameDates
  <2> QED
    BY <1>1, <1>3, <1>4, <2>1 DEF BillsTyped, B!Exists
<1>6. PeriodsFit'
  BY <1>1, <1>4, OtherBills, NoBillChanges
<1>7. ASSUME StatusesFit, Meets PROVE StatusesFit'
  <2>1. SuspendFits'
    BY <1>1, <1>7 DEF StatusesFit, SuspendFits
  <2>2. ASSUME NEW p \in Orgs, OrgFits(p), ~B!Meet(p)' PROVE OrgFits(p)'
    <3>1. CASE p = o
      <4>1. \A b \in Workers : admin'[b].org # p
        BY <1>2, <1>3, <2>2, <3>1, BillIdle, OrgAssumption DEF OrgFits, B!Meet
      <4>2. active[p] = (to = "ACTIVE")
        BY <2>2, <3>1 DEF OrgFits, to
      <4>3. jobs["suspend"].row.org # p
        <5>1. CASE jobs["suspend"].at = "write"
          BY <1>7, <2>2, <3>1, <5>1 DEF StatusesFit, SuspendFits, OrgFits, B!Meet, B!Asked
        <5>2. CASE jobs["suspend"].at # "write"
          BY <1>7, <2>2, <5>2, BillIdle, OrgAssumption DEF StatusesFit, SuspendFits
        <5> QED
          BY <5>1, <5>2
      <4> QED
        BY <1>1, <1>2, <1>4, <2>2, <3>1, <4>1, <4>2, <4>3 DEF OrgFits
    <3>2. CASE p # o
      <4>1. admin'[a].org # p
        BY <1>3, BillIdle, OrgAssumption
      <4>2. \A b \in Workers : admin'[b].org = p => admin[b] = admin'[b]
        BY <1>3, <4>1
      <4>3. \A b \in Workers : admin[b].org = p => admin[b] = admin'[b]
        BY <1>3, <3>2
      <4> QED
        BY <1>1, <1>4, <2>2, <3>2, <4>2, <4>3 DEF OrgFits, B!Busy, B!Asked, SameDates
    <3> QED
      BY <3>1, <3>2
  <2> QED
    BY <1>7, <2>1, <2>2, EachOrgFits
<1> QED
  BY <1>1, <1>5, <1>6, <1>7, NothingPaid DEF BillsGoOn

LEMMA SubUpdates ==
    ASSUME BillsTyped, PeriodsFit, UNCHANGED died, NEW o \in Orgs, NEW c \in Cycles,
           B!UpdateSubscription(o, c)
    PROVE  BillsGoOn
<1>1. PICK b : b = [sub[o] EXCEPT !.cycle = c]
  OBVIOUS
<1>2. /\ UNCHANGED <<day, active, invoices, jobs, admin>> /\ billed' \in 0 .. MaxBilled
      /\ sub' = [sub EXCEPT ![o] = b] /\ B!Exists(o)
  BY <1>1, OrgAssumption DEF B!UpdateSubscription, B!Ask, BillsTyped
<1>3. sub[o] \in Subs
  BY DEF BillsTyped
<1>4. b \in Subs /\ b.next = sub[o].next /\ b.status = sub[o].status /\ b.cycle = c
  BY <1>1, <1>3 DEF Subs
<1>5. /\ sub' \in [Orgs -> Subs] /\ SameDates
      /\ \A p \in Orgs : B!Exists(p)' => sub'[p].cycle \in Cycles
      /\ \A p \in Orgs : sub'[p].status = sub[p].status
  BY <1>2, <1>4 DEF BillsTyped, SameDates, B!Exists
<1>6. BillsTyped'
  BY <1>2, <1>5 DEF BillsTyped, B!Exists
<1>7. PeriodsFit'
  BY <1>2, <1>5, OtherBills, NoBillChanges
<1>8. StatusesFit /\ Meets => StatusesFit'
  BY <1>2, <1>5, SameStatuses DEF SameDates
<1> QED
  BY <1>2, <1>6, <1>7, <1>8, NothingPaid DEF BillsGoOn

LEMMA BillsMarked ==
    ASSUME BillsTyped, PeriodsFit, UNCHANGED died, NEW i \in B!Numbers, B!MarkPaid(i) \/ B!VoidInvoice(i)
    PROVE  BillsGoOn
<1>1. PICK s \in {"PAID", "VOID"} : invoices' = [invoices EXCEPT ![i].status = s]
  BY DEF B!MarkPaid, B!VoidInvoice
<1>2. UNCHANGED <<day, active, sub, jobs, admin>> /\ billed' \in 0 .. MaxBilled
  BY OrgAssumption DEF B!MarkPaid, B!VoidInvoice, B!Ask, BillsTyped
<1>3. /\ invoices' \in Seq(Bills) /\ SameBills
      /\ \A k \in B!Numbers : k # i => invoices'[k] = invoices[k]
  <2>1. s \in B!InvoiceStatus
    BY DEF B!InvoiceStatus
  <2>2. BillBecomes(i, s)
    BY <1>1 DEF BillBecomes
  <2> QED
    BY <2>1, <2>2, StatusOfBill
<1>4. BillsTyped'
  BY <1>2, <1>3 DEF BillsTyped, B!Exists
<1>5. PeriodsFit'
  BY <1>2, <1>3, OtherBills, NoSubChanges
<1>6. StatusesFit /\ Meets => StatusesFit'
  BY <1>2, SameStatuses DEF B!Exists
<1>7. B!PaidStaysPaid
  <2>1. invoices'[i].status = s
    <3>1. invoices[i] \in Bills
      BY BillsOf
    <3> QED
      BY <1>1, <3>1 DEF Bills, B!Numbers
  <2> QED
    BY <1>3, <2>1 DEF B!PaidStaysPaid
<1> QED
  BY <1>4, <1>5, <1>6, <1>7 DEF BillsGoOn

-----------------------------------------------------------------------------
(* The jobs read their rows. *)

LEMMA JobReads ==
    ASSUME BillsTyped, PeriodsFit, UNCHANGED died, B!RemindRead \/ B!SuspendRead
    PROVE  BillsGoOn
<1> DEFINE R1 == {B!Row(invoices[i].org, i, B!NoStatus, 0) :
                     i \in {n \in B!Numbers : invoices[n].status = "SENT" /\ invoices[n].due < day}}
           R2 == {B!Row(o, 0, B!NoStatus, 0) :
                     o \in {p \in Orgs : sub[p].status = "PAST_DUE" /\ day > sub[p].end + 0}}
<1>a. R1 \subseteq B!Rows
  <2>1. ASSUME NEW i \in B!Numbers PROVE B!Row(invoices[i].org, i, B!NoStatus, 0) \in B!Rows
    <3>1. i \in Nat /\ invoices[i].org \in Orgs
      BY BillsOf DEF BillsTyped, B!Numbers
    <3> QED
      BY <3>1 DEF B!Row, B!Rows
  <2> QED
    BY <2>1
<1>b. R2 \subseteq B!Rows /\ \A r \in R2 : r.org \in Orgs /\ B!Exists(r.org)
  <2>1. ASSUME NEW o \in Orgs PROVE B!Row(o, 0, B!NoStatus, 0) \in B!Rows /\ B!Row(o, 0, B!NoStatus, 0).org = o
    BY DEF B!Row, B!Rows
  <2> QED
    BY <2>1 DEF B!Exists, B!NoStatus
<1>1. PICK j \in {"remind", "suspend"}, rows \in SUBSET B!Rows :
         /\ B!Begin(j, rows)
         /\ j = "suspend" => \A r \in rows : r.org \in Orgs /\ B!Exists(r.org)
  <2>1. B!Begin("remind", R1) \/ B!Begin("suspend", R2)
    BY DEF B!RemindRead, B!SuspendRead
  <2> HIDE DEF R1, R2
  <2> QED
    BY <1>a, <1>b, <2>1
<1>2. rows \subseteq B!Rows
  OBVIOUS
<1>3. PICK q : q = [B!Idle EXCEPT !.todo = rows, !.at = "next"]
  OBVIOUS
<1>4. q \in BillJobs /\ q.at = "next" /\ q.row = B!NoRow /\ q.todo = rows
  BY <1>2, <1>3 DEF B!Idle, BillJobs
<1>5. jobs' = [jobs EXCEPT ![j] = q] /\ UNCHANGED <<day, active, sub, invoices, admin, billed>>
  BY <1>1, <1>3 DEF B!Begin
<1>6. /\ jobs' \in [B!Jobs -> BillJobs] /\ jobs'[j] = q
      /\ \A k \in B!Jobs \ {j} : jobs'[k] = jobs[k]
  BY <1>1, <1>4, <1>5, JobNames DEF BillsTyped
<1>7. BillsTyped'
  BY <1>5, <1>6 DEF BillsTyped, B!Exists
<1>8. PeriodsFit'
  <2>1. UNCHANGED jobs["renew"]
    BY <1>1, <1>6, JobNames
  <2> QED
    BY <1>1, <1>4, <1>5, <1>6, <2>1, JobNames, OtherBills, NoBillChanges, NoSubChanges
<1>9. ASSUME StatusesFit, Meets PROVE StatusesFit'
  <2>1. CASE j = "suspend"
    <3>1. jobs[j].at = "idle"
      BY <1>1 DEF B!Begin
    <3>2. SuspendFits' /\ jobs'["suspend"].row = jobs["suspend"].row
      BY <1>4, <1>6, <1>9, <2>1, <3>1 DEF StatusesFit, SuspendFits
    <3>3. ASSUME NEW p \in Orgs, OrgFits(p), ~B!Meet(p)' PROVE OrgFits(p)'
      BY <1>5, <3>2, <3>3 DEF OrgFits, B!Busy, B!Asked, B!Exists
    <3> QED
      BY <1>9, <3>2, <3>3, EachOrgFits
  <2>2. CASE j # "suspend"
    <3>1. UNCHANGED jobs["suspend"]
      BY <1>6, <2>2, JobNames
    <3> QED
      BY <1>5, <1>9, <3>1, SameStatuses DEF B!Exists
  <2> QED
    BY <2>1, <2>2
<1> QED
  BY <1>5, <1>7, <1>8, <1>9, NothingPaid DEF BillsGoOn

(* The reminder. *)

LEMMA BillsReminded ==
    ASSUME BillsTyped, PeriodsFit, UNCHANGED died, NEW r \in jobs["remind"].todo, B!RemindInvoice(r)
    PROVE  BillsGoOn
<1>1. /\ invoices' = [invoices EXCEPT ![r.number].status = "OVERDUE"] /\ B!Keep("remind", r)
      /\ UNCHANGED <<day, active, sub, admin, billed>>
  BY DEF B!RemindInvoice
<1>2. /\ invoices' \in Seq(Bills) /\ SameBills
      /\ \A k \in B!Numbers : k # r.number => invoices'[k] = invoices[k]
  <2>1. "OVERDUE" \in B!InvoiceStatus
    BY DEF B!InvoiceStatus
  <2>2. BillBecomes(r.number, "OVERDUE")
    BY <1>1 DEF BillBecomes
  <2> QED
    BY <2>1, <2>2, StatusOfBill
<1>3. /\ jobs' \in [B!Jobs -> BillJobs]
      /\ \A k \in B!Jobs \ {"remind"} : jobs'[k] = jobs[k]
  BY <1>1, JobNames, BillJobMoves
<1>4. BillsTyped'
  BY <1>1, <1>2, <1>3 DEF BillsTyped, B!Exists
<1>5. UNCHANGED jobs["renew"] /\ UNCHANGED jobs["suspend"]
  BY <1>3, JobNames
<1>6. PeriodsFit'
  BY <1>1, <1>2, <1>5, OtherBills, NoSubChanges
<1>7. StatusesFit /\ Meets => StatusesFit'
  BY <1>1, <1>5, SameStatuses DEF B!Exists
<1>8. ASSUME ~B!Contended PROVE B!PaidStaysPaid
  BY <1>2, <1>8 DEF B!PaidStaysPaid, B!Contended
<1> QED
  BY <1>4, <1>6, <1>7, <1>8 DEF BillsGoOn

LEMMA SubsReminded ==
    ASSUME BillsTyped, PeriodsFit, UNCHANGED died, NEW r \in jobs["remind"].todo, B!RemindSub(r)
    PROVE  BillsGoOn
<1> DEFINE o == r.org
           s == IF sub[o].status = "ACTIVE" THEN "PAST_DUE" ELSE sub[o].status
<1>1. /\ sub' = [sub EXCEPT ![o].status = s] /\ B!Drop("remind", r)
      /\ UNCHANGED <<day, active, invoices, admin, billed>>
  BY DEF B!RemindSub
<1>2. o \in Orgs
  BY JobNames, BillJobTypes
<1>3. /\ sub' \in [Orgs -> Subs] /\ SameDates
      /\ \A p \in Orgs : B!Exists(p)' => sub'[p].cycle \in Cycles
      /\ \A p \in Orgs : sub'[p].status = IF p = o THEN s ELSE sub[p].status
  <2>1. sub[o].status \in B!SubStatus
    BY <1>2 DEF BillsTyped, Subs
  <2>2. s \in B!SubStatus /\ (B!Exists(o) <=> s # B!NoStatus)
    BY <2>1 DEF B!SubStatus, B!NoStatus, B!Exists
  <2> HIDE DEF s
  <2> QED
    BY <1>1, <1>2, <2>2, StatusOfSub
<1>4. /\ jobs' \in [B!Jobs -> BillJobs]
      /\ \A k \in B!Jobs \ {"remind"} : jobs'[k] = jobs[k]
  BY <1>1, JobNames, BillJobMoves
<1>5. UNCHANGED jobs["renew"] /\ UNCHANGED jobs["suspend"]
  BY <1>4, JobNames
<1>6. BillsTyped'
  BY <1>1, <1>3, <1>4 DEF BillsTyped, SameDates
<1>7. PeriodsFit'
  BY <1>1, <1>3, <1>5, OtherBills, NoBillChanges
<1>8. \A p \in Orgs : sub'[p].status = "SUSPENDED" <=> sub[p].status = "SUSPENDED"
  BY <1>3
<1>9. StatusesFit /\ Meets => StatusesFit'
  BY <1>1, <1>3, <1>5, <1>8, SameStatuses DEF SameDates
<1> QED
  BY <1>1, <1>6, <1>7, <1>9, NothingPaid DEF BillsGoOn


(* The suspension. *)

LEMMA SubsSuspended ==
    ASSUME BillsTyped, PeriodsFit, UNCHANGED died, NEW r \in jobs["suspend"].todo, B!SuspendSub(r)
    PROVE  BillsGoOn
<1> DEFINE o == r.org
<1>1. /\ sub' = [sub EXCEPT ![o].status = "SUSPENDED"] /\ B!Keep("suspend", r)
      /\ UNCHANGED <<day, active, invoices, admin, billed>> /\ jobs["suspend"].at = "next"
  BY DEF B!SuspendSub, B!Take
<1>2. o \in Orgs /\ B!Exists(o)
  BY JobNames, BillJobTypes DEF PeriodsFit
<1>3. /\ sub' \in [Orgs -> Subs] /\ SameDates
      /\ \A p \in Orgs : B!Exists(p)' => sub'[p].cycle \in Cycles
      /\ \A p \in Orgs : sub'[p].status = IF p = o THEN "SUSPENDED" ELSE sub[p].status
  <2>1. "SUSPENDED" \in B!SubStatus /\ "SUSPENDED" # B!NoStatus
    BY DEF B!SubStatus, B!NoStatus
  <2> QED
    BY <1>1, <1>2, <2>1, StatusOfSub
<1>4. /\ jobs' \in [B!Jobs -> BillJobs]
      /\ \A k \in B!Jobs \ {"suspend"} : jobs'[k] = jobs[k]
      /\ jobs'["suspend"].at = "write" /\ jobs'["suspend"].row = r
      /\ jobs'["suspend"].todo = jobs["suspend"].todo
  BY <1>1, JobNames, BillJobMoves
<1>5. UNCHANGED jobs["renew"]
  BY <1>4, JobNames
<1>6. BillsTyped'
  BY <1>1, <1>3, <1>4 DEF BillsTyped, SameDates
<1>7. PeriodsFit'
  BY <1>1, <1>3, <1>4, <1>5, OtherBills, NoBillChanges
<1>8. ASSUME StatusesFit, Meets PROVE StatusesFit'
  <2>1. SuspendFits'
    BY <1>4 DEF SuspendFits
  <2>2. jobs["suspend"].row.org = NoOrg
    BY <1>1, <1>8, BillIdle DEF StatusesFit, SuspendFits
  <2>3. ASSUME NEW p \in Orgs, OrgFits(p), ~B!Meet(p)' PROVE OrgFits(p)'
    <3>1. CASE p = o
      <4>1. B!Busy(p)'
        BY <1>4, <3>1 DEF B!Busy
      <4> QED
        BY <1>1, <1>3, <2>3, <3>1, <4>1 DEF OrgFits
    <3>2. CASE p # o
      <4>1. jobs'["suspend"].row.org # p /\ jobs["suspend"].row.org # p
        BY <1>4, <2>2, <3>2, OrgAssumption
      <4> QED
        BY <1>1, <1>3, <2>3, <3>2, <4>1 DEF OrgFits, B!Busy, B!Asked, SameDates
    <3> QED
      BY <3>1, <3>2
  <2> QED
    BY <1>8, <2>1, <2>3, EachOrgFits
<1> QED
  BY <1>1, <1>6, <1>7, <1>8, NothingPaid DEF BillsGoOn

LEMMA OrgsSuspended ==
    ASSUME BillsTyped, PeriodsFit, UNCHANGED died, NEW r \in jobs["suspend"].todo, B!SuspendOrg(r)
    PROVE  BillsGoOn
<1> DEFINE o == r.org
<1>1. /\ active' = [active EXCEPT ![o] = FALSE] /\ B!Drop("suspend", r)
      /\ UNCHANGED <<day, sub, invoices, admin, billed>>
      /\ jobs["suspend"].at = "write" /\ jobs["suspend"].row = r
  BY DEF B!SuspendOrg, B!InHand
<1>2. o \in Orgs
  BY JobNames, BillJobTypes
<1>3. /\ active' \in [Orgs -> BOOLEAN] /\ active'[o] = FALSE
      /\ \A p \in Orgs \ {o} : active'[p] = active[p]
  BY <1>1, <1>2 DEF BillsTyped
<1>4. /\ jobs' \in [B!Jobs -> BillJobs]
      /\ \A k \in B!Jobs \ {"suspend"} : jobs'[k] = jobs[k]
      /\ jobs'["suspend"].at # "write" /\ jobs'["suspend"].row = B!NoRow
      /\ jobs'["suspend"].todo = jobs["suspend"].todo \ {r}
  BY <1>1, JobNames, BillJobMoves
<1>5. UNCHANGED jobs["renew"]
  BY <1>4, JobNames
<1>6. BillsTyped'
  BY <1>1, <1>3, <1>4 DEF BillsTyped, B!Exists
<1>7. PeriodsFit'
  BY <1>1, <1>4, <1>5, OtherBills, NoBillChanges, NoSubChanges
<1>8. ASSUME StatusesFit, Meets PROVE StatusesFit'
  <2>1. SuspendFits'
    BY <1>4 DEF SuspendFits
  <2>2. jobs'["suspend"].row.org = NoOrg
    BY <1>4, BillIdle
  <2>3. ASSUME NEW p \in Orgs, OrgFits(p), ~B!Meet(p)' PROVE OrgFits(p)'
    <3>1. CASE p = o
      <4>1. sub[p].status = "SUSPENDED"
        BY <1>1, <2>3, <3>1 DEF OrgFits
      <4>2. \A b \in Workers : admin[b].org # p
        BY <2>3, <3>1 DEF OrgFits, B!Meet, B!Asked
      <4> QED
        BY <1>1, <1>3, <2>2, <2>3, <3>1, <4>1, <4>2, OrgAssumption DEF OrgFits
    <3>2. CASE p # o
      <4>1. jobs'["suspend"].row.org # p /\ jobs["suspend"].row.org # p
        BY <1>1, <2>2, <3>2, OrgAssumption
      <4> QED
        BY <1>1, <1>3, <2>3, <3>2, <4>1 DEF OrgFits, B!Busy, B!Asked, B!Exists
    <3> QED
      BY <3>1, <3>2
  <2> QED
    BY <1>8, <2>1, <2>3, EachOrgFits
<1> QED
  BY <1>1, <1>6, <1>7, <1>8, NothingPaid DEF BillsGoOn

-----------------------------------------------------------------------------
(* A new invoice. *)

LEMMA OneMoreBill ==
    ASSUME BillsTyped, NEW o \in Orgs, NEW from \in Nat, NEW to \in Nat, B!Issue(o, from, to)
    PROVE  LET k == Len(invoices) + 1
           IN /\ invoices' \in Seq(Bills) /\ B!Numbers' = B!Numbers \cup {k} /\ k \notin B!Numbers
              /\ \A i \in B!Numbers : invoices'[i] = invoices[i] /\ i < k
              /\ invoices'[k].org = o /\ invoices'[k].from = from /\ invoices'[k].to = to
<1>1. PICK x : x = [org |-> o, status |-> "SENT", from |-> from, to |-> to, due |-> from + 1]
  OBVIOUS
<1>2. x \in Bills /\ x.org = o /\ x.from = from /\ x.to = to
  BY <1>1 DEF Bills, B!InvoiceStatus
<1>3. invoices' = Append(invoices, x)
  BY <1>1 DEF B!Issue
<1>4. /\ invoices \in Seq(Bills) /\ B!Numbers = 1 .. Len(invoices) /\ Len(invoices) \in Nat
  BY DEF BillsTyped, B!Numbers
<1>5. /\ invoices' \in Seq(Bills) /\ Len(invoices') = Len(invoices) + 1
      /\ \A i \in 1 .. Len(invoices) : invoices'[i] = invoices[i]
      /\ invoices'[Len(invoices) + 1] = x
  BY <1>2, <1>3, <1>4, AppendProperties
<1>6. B!Numbers' = 1 .. Len(invoices) + 1
  BY <1>5 DEF B!Numbers
<1> QED
  BY <1>2, <1>4, <1>5, <1>6

LEMMA LastAfterOneMore ==
    ASSUME BillsTyped, NEW o \in Orgs, NEW k, NEW p \in Orgs, NEW i,
           B!Numbers' = B!Numbers \cup {k}, k \notin B!Numbers,
           \A n \in B!Numbers : invoices'[n] = invoices[n] /\ n < k,
           invoices'[k].org = o, LastOf(p, i)', k \in Nat
    PROVE  IF p = o THEN i = k ELSE LastOf(p, i)
<1>1. \A n \in B!Numbers : n \in Nat
  BY DEF BillsTyped, B!Numbers
<1>2. B!Of(p)' = IF p = o THEN B!Of(p) \cup {k} ELSE B!Of(p)
  BY DEF B!Of
<1>3. \A n \in B!Of(p) : n \in B!Numbers
  BY DEF B!Of
<1> QED
  BY <1>1, <1>2, <1>3 DEF LastOf

(* The new invoice follows on the one that was the organization's last.    *)
LEMMA FollowOnOneMore ==
    ASSUME BillsTyped, B!PeriodsFollowOn(died), UNCHANGED died, NEW o \in Orgs, NEW k \in Nat,
           B!Numbers' = B!Numbers \cup {k}, k \notin B!Numbers,
           \A n \in B!Numbers : invoices'[n] = invoices[n] /\ n < k,
           invoices'[k].org = o,
           \A i \in B!Numbers : LastOf(o, i) =>
              \/ invoices'[k].from = invoices[i].to
              \/ died /\ invoices'[k].from = invoices[i].from
    PROVE  B!PeriodsFollowOn(died)'
<1>1. \A n \in B!Numbers : n \in Nat /\ invoices[n].org \in Orgs
  BY BillsOf DEF BillsTyped, B!Numbers
<1>2. \A p : B!Of(p)' = IF p = o THEN B!Of(p) \cup {k} ELSE B!Of(p)
  BY DEF B!Of
<1>3. ASSUME NEW i \in B!Numbers', NEW l \in B!Numbers', B!Consecutive(i, l)'
      PROVE  \/ invoices'[l].from = invoices'[i].to
             \/ died /\ invoices'[l].from = invoices'[i].from
  <2>1. i < l /\ invoices'[i].org = invoices'[l].org
        /\ \A n \in B!Numbers' : invoices'[n].org = invoices'[i].org => ~(i < n /\ n < l)
    BY <1>3 DEF B!Consecutive, B!Of
  <2>2. i \in B!Numbers
    BY <1>1, <2>1
  <2>3. CASE l \in B!Numbers
    <3>1. B!Consecutive(i, l)
      BY <2>1, <2>2, <2>3 DEF B!Consecutive, B!Of
    <3> QED
      BY <2>2, <2>3, <3>1 DEF B!PeriodsFollowOn
  <2>4. CASE l = k
    <3>1. \A n \in B!Of(o) : n \in B!Numbers /\ n < k
      BY DEF B!Of
    <3>2. LastOf(o, i)
      <4>1. invoices[i].org = o
        BY <2>1, <2>2, <2>4
      <4>2. \A n \in B!Of(o) : ~(i < n)
        BY <2>1, <2>4, <3>1, <4>1 DEF B!Of
      <4> QED
        BY <1>1, <2>2, <3>1, <4>1, <4>2 DEF LastOf, B!Of
    <3> QED
      BY <2>2, <2>4, <3>2
  <2> QED
    BY <2>3, <2>4
<1> QED
  BY <1>3 DEF B!PeriodsFollowOn

-----------------------------------------------------------------------------
(* The renewal. *)

LEMMA RenewalReads ==
    ASSUME BillsTyped, PeriodsFit, UNCHANGED died, B!RenewRead
    PROVE  BillsGoOn
<1> DEFINE rows == {B!Row(o, 0, sub[o].cycle, sub[o].next) :
                       o \in {p \in Orgs : sub[p].status = "ACTIVE" /\ sub[p].next <= day}}
<1>1. /\ jobs["renew"].at = "idle"
      /\ jobs' = [jobs EXCEPT !["renew"] = [B!Idle EXCEPT !.todo = rows, !.at = "next"]]
      /\ UNCHANGED <<day, active, sub, invoices, admin, billed>>
  BY DEF B!RenewRead, B!Begin
<1>2. ASSUME NEW o \in Orgs, sub[o].status = "ACTIVE"
      PROVE  LET r == B!Row(o, 0, sub[o].cycle, sub[o].next)
             IN r \in B!Rows /\ r.org = o /\ RowFits(r)
  <2>1. sub[o].cycle \in Cycles /\ sub[o].next \in Nat /\ B!Exists(o)
    BY <1>2 DEF BillsTyped, B!Exists, B!NoStatus, Subs
  <2>2. PICK r : r = B!Row(o, 0, sub[o].cycle, sub[o].next)
    OBVIOUS
  <2>3. r \in B!Rows /\ r.org = o /\ r.cycle = sub[o].cycle /\ r.next = sub[o].next
    BY <2>1, <2>2 DEF B!Row, B!Rows, Cycles
  <2> QED
    BY <2>1, <2>2, <2>3 DEF RowFits
<1>3. rows \subseteq B!Rows
  BY <1>2
<1>4. \A r \in rows : RowFits(r) /\ r = B!Row(r.org, 0, sub[r.org].cycle, sub[r.org].next)
  BY <1>2
<1>5. PICK q : q = [B!Idle EXCEPT !.todo = rows, !.at = "next"]
  OBVIOUS
<1> HIDE DEF rows
<1>6. q \in BillJobs /\ q.at = "next" /\ q.row = B!NoRow /\ q.todo = rows
  BY <1>3, <1>5 DEF B!Idle, BillJobs
<1>7. /\ jobs' \in [B!Jobs -> BillJobs] /\ jobs'["renew"] = q
      /\ \A k \in B!Jobs \ {"renew"} : jobs'[k] = jobs[k]
  BY <1>1, <1>5, <1>6, JobNames DEF BillsTyped
<1>8. BillsTyped'
  BY <1>1, <1>7 DEF BillsTyped, B!Exists
<1>9. UNCHANGED jobs["suspend"]
  BY <1>7, JobNames
<1>10. PeriodsFit'
  <2>1. Renewal'
    BY <1>1, <1>4, <1>6, <1>7 DEF Renewal, RowFits, B!Exists
  <2>2. \A o \in Orgs, i \in B!Numbers' : LastOf(o, i)' => LastFits(o, i)'
    BY <1>1, <1>6, <1>7, SameLast, NoBillChanges DEF SameBills, PeriodsFit, LastFits, Renewing
  <2>3. B!PeriodsFollowOn(died)'
    BY <1>1, SameFollowOn, NoBillChanges DEF PeriodsFit
  <2>4. \A i \in B!Numbers' : B!Exists(invoices[i].org)'
    BY <1>1 DEF PeriodsFit, B!Exists, B!Numbers
  <2>5. \A r \in jobs'["suspend"].todo : B!Exists(r.org)'
    BY <1>1, <1>9 DEF PeriodsFit, B!Exists
  <2> QED
    BY <2>1, <2>2, <2>3, <2>4, <2>5 DEF PeriodsFit
<1>11. StatusesFit /\ Meets => StatusesFit'
  BY <1>1, <1>9, SameStatuses DEF B!Exists
<1> QED
  BY <1>1, <1>8, <1>10, <1>11, NothingPaid DEF BillsGoOn

LEMMA RenewalCounts ==
    ASSUME BillsTyped, PeriodsFit, UNCHANGED died, NEW r \in jobs["renew"].todo, B!RenewCount(r)
    PROVE  BillsGoOn
<1>1. PICK q : q = [jobs["renew"] EXCEPT !.at = "issue", !.row = r, !.number = Len(invoices) + 1]
  OBVIOUS
<1>2. /\ UNCHANGED <<day, active, sub, invoices, admin, billed>> /\ jobs["renew"].at = "next"
      /\ jobs' = [jobs EXCEPT !["renew"] = q]
  BY <1>1 DEF B!RenewCount, B!Take
<1>3. jobs["renew"] \in BillJobs /\ r \in B!Rows /\ Len(invoices) \in Nat
  BY JobNames, BillJobTypes DEF BillsTyped
<1>4. q \in BillJobs /\ q.at = "issue" /\ q.row = r /\ q.todo = jobs["renew"].todo
  <2>1. q = [todo |-> jobs["renew"].todo, row |-> r, at |-> "issue", number |-> Len(invoices) + 1]
    BY <1>1, <1>3 DEF BillJobs
  <2>2. jobs["renew"].todo \in SUBSET B!Rows /\ Len(invoices) + 1 \in Nat
    BY <1>3, JobNames, BillJobTypes
  <2> QED
    BY <1>3, <2>1, <2>2 DEF BillJobs
<1>7. /\ jobs' \in [B!Jobs -> BillJobs] /\ jobs'["renew"] = q
      /\ \A k \in B!Jobs \ {"renew"} : jobs'[k] = jobs[k]
  BY <1>2, <1>4, JobNames DEF BillsTyped
<1>8. BillsTyped'
  BY <1>2, <1>7 DEF BillsTyped, B!Exists
<1>9. UNCHANGED jobs["suspend"]
  BY <1>7, JobNames
<1>10. PeriodsFit'
  <2>1. Renewal'
    BY <1>2, <1>4, <1>7 DEF PeriodsFit, Renewal, RowFits, B!Exists
  <2>2. \A o \in Orgs, i \in B!Numbers' : LastOf(o, i)' => LastFits(o, i)'
    BY <1>2, <1>4, <1>7, SameLast, NoBillChanges DEF SameBills, PeriodsFit, LastFits, Renewing
  <2>3. B!PeriodsFollowOn(died)'
    BY <1>2, SameFollowOn, NoBillChanges DEF PeriodsFit
  <2>4. \A i \in B!Numbers' : B!Exists(invoices[i].org)'
    BY <1>2 DEF PeriodsFit, B!Exists, B!Numbers
  <2>5. \A x \in jobs'["suspend"].todo : B!Exists(x.org)'
    BY <1>2, <1>9 DEF PeriodsFit, B!Exists
  <2> QED
    BY <2>1, <2>2, <2>3, <2>4, <2>5 DEF PeriodsFit
<1>11. StatusesFit /\ Meets => StatusesFit'
  BY <1>2, <1>9, SameStatuses DEF B!Exists
<1> QED
  BY <1>2, <1>8, <1>10, <1>11, NothingPaid DEF BillsGoOn

LEMMA RenewalIssues ==
    ASSUME BillsTyped, PeriodsFit, UNCHANGED died, B!RenewInvoice,
           jobs["renew"].number = Len(invoices) + 1
    PROVE  BillsGoOn
<1> DEFINE r == jobs["renew"].row
           o == r.org
           k == Len(invoices) + 1
           end == r.next + DaysIn[r.cycle]
<1>1. /\ B!Issue(o, r.next, end) /\ B!Keep("renew", r) /\ jobs["renew"].at = "issue"
      /\ UNCHANGED <<day, active, sub, admin, billed>>
  BY DEF B!RenewInvoice
<1>2. r \in jobs["renew"].todo /\ RowFits(r) /\ o \in Orgs
  BY <1>1, JobNames, BillJobTypes DEF PeriodsFit, Renewal
<1>3. r.next \in Nat /\ end \in Nat /\ Len(invoices) \in Nat /\ r.next = sub[o].next
  <2>1. sub[o] \in Subs /\ r.next = sub[o].next
    BY <1>2 DEF BillsTyped, RowFits
  <2> QED
    BY <1>2, <2>1, PeriodsInDays DEF Subs, BillsTyped, RowFits
<1>4. /\ invoices' \in Seq(Bills) /\ B!Numbers' = B!Numbers \cup {k} /\ k \notin B!Numbers
      /\ \A i \in B!Numbers : invoices'[i] = invoices[i] /\ i < k
      /\ invoices'[k].org = o /\ invoices'[k].from = r.next /\ invoices'[k].to = end
  BY <1>1, <1>2, <1>3, OneMoreBill
<1>5. /\ jobs' \in [B!Jobs -> BillJobs]
      /\ \A j \in B!Jobs \ {"renew"} : jobs'[j] = jobs[j]
      /\ jobs'["renew"].at = "write" /\ jobs'["renew"].row = r
      /\ jobs'["renew"].todo = jobs["renew"].todo
  BY <1>1, <1>2, JobNames, BillJobMoves
<1>6. UNCHANGED jobs["suspend"]
  BY <1>5, JobNames
<1> HIDE DEF r, k, end
<1>7. \A p \in Orgs : \A i : LastOf(p, i)' => IF p = o THEN i = k ELSE LastOf(p, i)
  BY <1>2, <1>3, <1>4, LastAfterOneMore DEF k
<1>8. BillsTyped'
  BY <1>1, <1>4, <1>5 DEF BillsTyped, B!Exists
<1>9. PeriodsFit'
  <2>1. \A i \in B!Numbers : LastOf(o, i) => \/ r.next = invoices[i].to
                                             \/ died /\ r.next = invoices[i].from
    BY <1>1, <1>2, <1>3 DEF PeriodsFit, LastFits, Renewing
  <2>2. B!PeriodsFollowOn(died)'
    BY <1>2, <1>3, <1>4, <2>1, FollowOnOneMore DEF PeriodsFit, k
  <2>3. ASSUME NEW i \in B!Numbers' PROVE B!Exists(invoices[i].org)'
    BY <1>1, <1>2, <1>4 DEF PeriodsFit, RowFits, B!Exists
  <2>4. ASSUME NEW p \in Orgs, NEW i \in B!Numbers', LastOf(p, i)' PROVE LastFits(p, i)'
    <3>1. CASE p = o
      BY <1>1, <1>3, <1>4, <1>5, <1>7, <2>4, <3>1 DEF LastFits, Renewing
    <3>2. CASE p # o
      <4>1. LastOf(p, i) /\ i \in B!Numbers
        BY <1>7, <2>4, <3>2 DEF LastOf, B!Of
      <4>2. ~Renewing(p)
        BY <1>1 DEF Renewing
      <4> QED
        BY <1>1, <1>4, <4>1, <4>2 DEF PeriodsFit, LastFits
    <3> QED
      BY <3>1, <3>2
  <2>5. Renewal'
    <3>1. \A x \in jobs["renew"].todo : RowFits(x)'
      BY <1>1 DEF PeriodsFit, Renewal, RowFits, B!Exists
    <3>2. ASSUME NEW i \in B!Numbers', LastOf(jobs["renew"].row.org, i)'
          PROVE  invoices'[i].from = r.next /\ invoices'[i].to = end
      <4>1. jobs'["renew"].row.org = o
        BY <1>5
      <4>2. i = k
        BY <1>2, <1>7, <3>2, <4>1
      <4> QED
        BY <1>4, <4>2
    <3> QED
      BY <1>2, <1>5, <3>1, <3>2 DEF PeriodsFit, Renewal, end
  <2>6. \A x \in jobs'["suspend"].todo : B!Exists(x.org)'
    BY <1>1, <1>6 DEF PeriodsFit, B!Exists
  <2> QED
    BY <2>2, <2>3, <2>4, <2>5, <2>6 DEF PeriodsFit
<1>10. StatusesFit /\ Meets => StatusesFit'
  BY <1>1, <1>6, SameStatuses DEF B!Exists
<1>11. B!PaidStaysPaid
  BY <1>4 DEF B!PaidStaysPaid
<1> QED
  BY <1>8, <1>9, <1>10, <1>11 DEF BillsGoOn

(* The number was taken in between: the pass ends.                         *)
LEMMA RenewalStops ==
    ASSUME BillsTyped, PeriodsFit, UNCHANGED died, B!RenewInvoice,
           jobs["renew"].number # Len(invoices) + 1
    PROVE  BillsGoOn
<1>1. /\ jobs' = [jobs EXCEPT !["renew"] = B!Idle] /\ jobs["renew"].at = "issue"
      /\ UNCHANGED <<day, active, sub, invoices, admin, billed>>
  BY DEF B!RenewInvoice
<1>2. /\ jobs' \in [B!Jobs -> BillJobs] /\ jobs'["renew"] = B!Idle
      /\ \A k \in B!Jobs \ {"renew"} : jobs'[k] = jobs[k]
  BY <1>1, JobNames, BillIdle DEF BillsTyped
<1>3. UNCHANGED jobs["suspend"]
  BY <1>2, JobNames
<1>4. BillsTyped'
  BY <1>1, <1>2 DEF BillsTyped, B!Exists
<1>5. PeriodsFit'
  <2>1. Renewal'
    BY <1>2, BillIdle DEF Renewal
  <2>2. \A o \in Orgs, i \in B!Numbers' : LastOf(o, i)' => LastFits(o, i)'
    BY <1>1, <1>2, SameLast, NoBillChanges DEF SameBills, PeriodsFit, LastFits, Renewing
  <2>3. B!PeriodsFollowOn(died)'
    BY <1>1, SameFollowOn, NoBillChanges DEF PeriodsFit
  <2>4. \A i \in B!Numbers' : B!Exists(invoices[i].org)'
    BY <1>1 DEF PeriodsFit, B!Exists, B!Numbers
  <2>5. \A x \in jobs'["suspend"].todo : B!Exists(x.org)'
    BY <1>1, <1>3 DEF PeriodsFit, B!Exists
  <2> QED
    BY <2>1, <2>2, <2>3, <2>4, <2>5 DEF PeriodsFit
<1>6. StatusesFit /\ Meets => StatusesFit'
  BY <1>1, <1>3, SameStatuses DEF B!Exists
<1> QED
  BY <1>1, <1>4, <1>5, <1>6, NothingPaid DEF BillsGoOn

LEMMA RenewalEnds ==
    ASSUME BillsTyped, PeriodsFit, UNCHANGED died, NEW r \in jobs["renew"].todo, B!RenewSub(r)
    PROVE  BillsGoOn
<1>1. PICK o : o = r.org
  OBVIOUS
<1>2. PICK end : end = r.next + DaysIn[r.cycle]
  OBVIOUS
<1>3. PICK b : b = [sub[o] EXCEPT !.next = end, !.end = end]
  OBVIOUS
<1>4. /\ sub' = [sub EXCEPT ![o] = b] /\ B!Drop("renew", r)
      /\ UNCHANGED <<day, active, invoices, admin, billed>>
      /\ jobs["renew"].at = "write" /\ jobs["renew"].row = r
  BY <1>1, <1>2, <1>3 DEF B!RenewSub, B!InHand
<1>5. RowFits(r) /\ o \in Orgs /\ sub[o] \in Subs
  BY <1>1, JobNames, BillJobTypes DEF PeriodsFit, Renewal, BillsTyped
<1>6. end \in Nat
  BY <1>1, <1>2, <1>5, PeriodsInDays DEF RowFits, Subs
<1>7. b \in Subs /\ b.next = end /\ b.status = sub[o].status /\ b.cycle = sub[o].cycle
  BY <1>3, <1>5, <1>6 DEF Subs
<1>8. /\ sub' \in [Orgs -> Subs] /\ sub'[o] = b /\ \A p \in Orgs \ {o} : sub'[p] = sub[p]
  BY <1>4, <1>5, <1>7 DEF BillsTyped
<1>9. \A p \in Orgs : sub'[p].status = sub[p].status /\ sub'[p].cycle = sub[p].cycle
  BY <1>7, <1>8
<1>10. /\ jobs' \in [B!Jobs -> BillJobs]
       /\ \A j \in B!Jobs \ {"renew"} : jobs'[j] = jobs[j]
       /\ jobs'["renew"].at \in {"idle", "next"}
       /\ jobs'["renew"].todo = jobs["renew"].todo \ {r}
  BY <1>4, JobNames, BillJobMoves
<1>11. UNCHANGED jobs["suspend"]
  BY <1>10, JobNames
<1>12. BillsTyped'
  BY <1>4, <1>8, <1>9, <1>10 DEF BillsTyped, B!Exists
<1>13. PeriodsFit'
  <2>1. Renewal'
    <3>1. ASSUME NEW x \in jobs'["renew"].todo PROVE RowFits(x)'
      <4>1. x \in jobs["renew"].todo /\ x # r
        BY <1>10
      <4>2. x.org # o /\ x.org \in Orgs /\ RowFits(x)
        BY <1>1, <4>1, JobNames, BillJobTypes DEF PeriodsFit, Renewal
      <4> QED
        BY <1>8, <4>2 DEF RowFits, B!Exists
    <3> QED
      BY <1>10, <3>1 DEF PeriodsFit, Renewal
  <2>2. ASSUME NEW p \in Orgs, NEW i \in B!Numbers', LastOf(p, i)' PROVE LastFits(p, i)'
    <3>1. LastOf(p, i) /\ i \in B!Numbers
      BY <1>4, <2>2, SameLast, NoBillChanges DEF SameBills
    <3>2. CASE p = o
      <4>1. invoices[i].to = end
        BY <1>1, <1>2, <1>4, <3>1, <3>2 DEF PeriodsFit, Renewal
      <4> QED
        BY <1>4, <1>7, <1>8, <3>2, <4>1 DEF LastFits
    <3>3. CASE p # o
      BY <1>1, <1>4, <1>8, <3>1, <3>3 DEF PeriodsFit, LastFits, Renewing
    <3> QED
      BY <3>2, <3>3
  <2>3. B!PeriodsFollowOn(died)'
    BY <1>4, SameFollowOn, NoBillChanges DEF PeriodsFit
  <2>4. \A i \in B!Numbers' : B!Exists(invoices[i].org)'
    BY <1>4, <1>9, BillsOf DEF PeriodsFit, B!Exists, B!Numbers
  <2>5. \A x \in jobs'["suspend"].todo : B!Exists(x.org)'
    BY <1>9, <1>11, JobNames, BillJobTypes DEF PeriodsFit, B!Exists
  <2> QED
    BY <2>1, <2>2, <2>3, <2>4, <2>5 DEF PeriodsFit
<1>14. StatusesFit /\ Meets => StatusesFit'
  BY <1>4, <1>9, <1>11, SameStatuses DEF B!Exists
<1> QED
  BY <1>4, <1>12, <1>13, <1>14, NothingPaid DEF BillsGoOn

-----------------------------------------------------------------------------
(* Registration, the clock, and the end of the process. *)

LEMMA OrgRegisters ==
    ASSUME BillsTyped, PeriodsFit, UNCHANGED died, NEW o \in Orgs, NEW c \in Cycles, B!Register(o, c)
    PROVE  BillsGoOn
<1>1. PICK end : end = day + DaysIn[c]
  OBVIOUS
<1>2. PICK b : b = [status |-> "ACTIVE", cycle |-> c, end |-> end, next |-> end]
  OBVIOUS
<1>3. /\ ~B!Exists(o) /\ active' = [active EXCEPT ![o] = TRUE]
      /\ sub' = [sub EXCEPT ![o] = b] /\ B!Issue(o, day, end)
      /\ UNCHANGED <<day, jobs, admin, billed>>
  BY <1>1, <1>2 DEF B!Register
<1>4. day \in Nat /\ end \in Nat /\ Len(invoices) \in Nat
  BY <1>1, PeriodsInDays DEF BillsTyped
<1>5. b \in Subs /\ b.next = end /\ b.status = "ACTIVE" /\ b.cycle = c
  BY <1>2, <1>4 DEF Subs, B!SubStatus, Cycles
<1>6. /\ sub' \in [Orgs -> Subs] /\ sub'[o] = b /\ \A p \in Orgs \ {o} : sub'[p] = sub[p]
      /\ active' \in [Orgs -> BOOLEAN] /\ active'[o]
      /\ \A p \in Orgs \ {o} : active'[p] = active[p]
  BY <1>3, <1>5 DEF BillsTyped
<1>7. \A p \in Orgs : IF p = o THEN B!Exists(p)' ELSE B!Exists(p)' <=> B!Exists(p)
  BY <1>5, <1>6 DEF B!Exists, B!NoStatus
<1>8. PICK k \in Nat :
         /\ invoices' \in Seq(Bills) /\ B!Numbers' = B!Numbers \cup {k} /\ k \notin B!Numbers
         /\ \A i \in B!Numbers : invoices'[i] = invoices[i] /\ i < k
         /\ invoices'[k].org = o /\ invoices'[k].from = day /\ invoices'[k].to = end
  BY <1>3, <1>4, OneMoreBill
<1>9. \A p \in Orgs : \A i : LastOf(p, i)' => IF p = o THEN i = k ELSE LastOf(p, i)
  BY <1>8, LastAfterOneMore
<1>10. BillsTyped'
  BY <1>3, <1>5, <1>6, <1>7, <1>8 DEF BillsTyped
<1>11. PeriodsFit'
  <2>1. \A i \in B!Numbers : invoices[i].org # o
    BY <1>3 DEF PeriodsFit
  <2>2. B!PeriodsFollowOn(died)'
    <3>1. \A i \in B!Numbers : ~LastOf(o, i)
      BY <2>1 DEF LastOf, B!Of
    <3> QED
      BY <1>8, <3>1, FollowOnOneMore DEF PeriodsFit
  <2>3. \A i \in B!Numbers' : B!Exists(invoices[i].org)'
    BY <1>7, <1>8, BillsOf DEF PeriodsFit
  <2>4. ASSUME NEW p \in Orgs, NEW i \in B!Numbers', LastOf(p, i)' PROVE LastFits(p, i)'
    <3>1. CASE p = o
      BY <1>5, <1>6, <1>8, <1>9, <2>4, <3>1 DEF LastFits
    <3>2. CASE p # o
      <4>1. LastOf(p, i) /\ i \in B!Numbers
        BY <1>9, <2>4, <3>2 DEF LastOf, B!Of
      <4> QED
        BY <1>3, <1>6, <1>8, <3>2, <4>1 DEF PeriodsFit, LastFits, Renewing
    <3> QED
      BY <3>1, <3>2
  <2>5. Renewal'
    <3>1. \A x \in jobs["renew"].todo : x.org \in Orgs /\ x.org # o /\ RowFits(x)
      BY <1>3, JobNames, BillJobTypes DEF PeriodsFit, Renewal, RowFits
    <3>2. \A x \in jobs["renew"].todo : RowFits(x)'
      BY <1>6, <1>7, <3>1 DEF RowFits
    <3>3. ASSUME jobs["renew"].at = "write", NEW i \in B!Numbers', LastOf(jobs["renew"].row.org, i)'
          PROVE  /\ invoices'[i].from = jobs["renew"].row.next
                 /\ invoices'[i].to = jobs["renew"].row.next + DaysIn[jobs["renew"].row.cycle]
      <4>1. jobs["renew"].row \in jobs["renew"].todo
        BY <3>3 DEF PeriodsFit, Renewal
      <4>2. LastOf(jobs["renew"].row.org, i) /\ i \in B!Numbers
        BY <1>3, <1>9, <3>1, <3>3, <4>1 DEF LastOf, B!Of
      <4> QED
        BY <1>8, <3>3, <4>2 DEF PeriodsFit, Renewal
    <3> QED
      BY <1>3, <3>2, <3>3 DEF PeriodsFit, Renewal
  <2>6. \A x \in jobs'["suspend"].todo : B!Exists(x.org)'
    BY <1>3, <1>7, JobNames, BillJobTypes DEF PeriodsFit
  <2> QED
    BY <2>2, <2>3, <2>4, <2>5, <2>6 DEF PeriodsFit
<1>12. ASSUME StatusesFit, Meets PROVE StatusesFit'
  <2>1. SuspendFits'
    BY <1>3, <1>12 DEF StatusesFit, SuspendFits
  <2>2. ASSUME NEW p \in Orgs, OrgFits(p), ~B!Meet(p)' PROVE OrgFits(p)'
    <3>1. CASE p = o
      <4>1. \A x \in Workers : admin[x].org # p
        BY <1>3, <3>1, BillIdle, OrgAssumption DEF BillsTyped
      <4>2. jobs["suspend"].row.org # p
        <5>1. CASE jobs["suspend"].at = "write"
          BY <1>3, <1>12, <3>1, <5>1, JobNames, BillJobTypes DEF StatusesFit, SuspendFits, PeriodsFit
        <5>2. CASE jobs["suspend"].at # "write"
          BY <1>12, <5>2, BillIdle, OrgAssumption DEF StatusesFit, SuspendFits
        <5> QED
          BY <5>1, <5>2
      <4> QED
        BY <1>3, <1>5, <1>6, <2>2, <3>1, <4>1, <4>2 DEF OrgFits
    <3>2. CASE p # o
      BY <1>3, <1>6, <1>7, <2>2, <3>2 DEF OrgFits, B!Busy, B!Asked
    <3> QED
      BY <3>1, <3>2
  <2> QED
    BY <1>12, <2>1, <2>2, EachOrgFits
<1>13. B!PaidStaysPaid
  BY <1>8 DEF B!PaidStaysPaid
<1> QED
  BY <1>10, <1>11, <1>12, <1>13 DEF BillsGoOn

LEMMA BillsTick ==
    ASSUME BillsTyped, PeriodsFit, UNCHANGED died, B!Tick
    PROVE  BillsGoOn
<1>1. day' = day + 1 /\ UNCHANGED <<active, sub, invoices, jobs, admin, billed>>
  BY DEF B!Tick
<1>2. BillsTyped'
  BY <1>1 DEF BillsTyped, B!Exists
<1>3. PeriodsFit'
  BY <1>1, OtherBills, NoBillChanges, NoSubChanges
<1>4. StatusesFit /\ Meets => StatusesFit'
  BY <1>1, SameStatuses DEF B!Exists
<1> QED
  BY <1>1, <1>2, <1>3, <1>4, NothingPaid DEF BillsGoOn

LEMMA BillsCrash ==
    ASSUME BillsTyped, PeriodsFit, died', B!Crash
    PROVE  BillsGoOn
<1>1. /\ jobs' = [j \in B!Jobs |-> B!Idle] /\ admin' = [a \in Workers |-> B!NoRequest]
      /\ UNCHANGED <<day, active, sub, invoices, billed>>
  BY DEF B!Crash
<1>2. BillsTyped'
  BY <1>1, BillIdle DEF BillsTyped, B!Exists
<1>3. PeriodsFit'
  <2>1. Renewal'
    BY <1>1, BillIdle, JobNames DEF Renewal
  <2>2. \A o \in Orgs, i \in B!Numbers' : LastOf(o, i)' => LastFits(o, i)'
    BY <1>1, SameLast, NoBillChanges DEF SameBills, PeriodsFit, LastFits, Renewing
  <2>3. B!PeriodsFollowOn(died)'
    BY <1>1, SameFollowOn, NoBillChanges DEF PeriodsFit
  <2>4. \A i \in B!Numbers' : B!Exists(invoices[i].org)'
    BY <1>1 DEF PeriodsFit, B!Exists, B!Numbers
  <2>5. \A x \in jobs'["suspend"].todo : B!Exists(x.org)'
    BY <1>1, BillIdle, JobNames
  <2> QED
    BY <2>1, <2>2, <2>3, <2>4, <2>5 DEF PeriodsFit
<1>4. ASSUME StatusesFit, Meets PROVE StatusesFit'
  <2>1. SuspendFits'
    BY <1>1, BillIdle, JobNames DEF SuspendFits
  <2>2. ASSUME NEW p \in Orgs \ contested', OrgFits(p), ~B!Meet(p)' PROVE OrgFits(p)'
    <3>1. ~B!Busy(p)
      BY <1>4, <2>2 DEF Meets
    <3> QED
      BY <1>1, <2>2, <3>1, BillIdle, JobNames, OrgAssumption DEF OrgFits, B!Exists
  <2> QED
    BY <1>4, <2>1, <2>2 DEF StatusesFit, Meets
<1> QED
  BY <1>1, <1>2, <1>3, <1>4, NothingPaid DEF BillsGoOn

LEMMA BillsKeep ==
    ASSUME BillsTyped, PeriodsFit, B!Next, died \in BOOLEAN, died' = (died \/ B!Crash)
    PROVE  BillsGoOn
<1>1. CASE B!Crash
  BY <1>1, BillsCrash
<1>2. CASE ~B!Crash
  <2>1. UNCHANGED died
    BY <1>2
  <2>2. ASSUME NEW o \in Orgs, NEW c \in Cycles, B!Register(o, c) \/ B!UpdateSubscription(o, c)
        PROVE  BillsGoOn
    BY <2>1, <2>2, OrgRegisters, SubUpdates
  <2>3. ASSUME NEW a \in Workers, NEW o \in Orgs, NEW to \in {"ACTIVE", "SUSPENDED"},
               B!SwitchOrg(a, o, to)
        PROVE  BillsGoOn
    BY <2>1, <2>3, OrgSwitches
  <2>4. ASSUME NEW i \in B!Numbers, B!MarkPaid(i) \/ B!VoidInvoice(i) PROVE BillsGoOn
    BY <2>1, <2>4, BillsMarked
  <2>5. ASSUME NEW r \in jobs["remind"].todo, B!RemindInvoice(r) \/ B!RemindSub(r) PROVE BillsGoOn
    BY <2>1, <2>5, BillsReminded, SubsReminded
  <2>6. ASSUME NEW r \in jobs["suspend"].todo, B!SuspendSub(r) \/ B!SuspendOrg(r) PROVE BillsGoOn
    BY <2>1, <2>6, SubsSuspended, OrgsSuspended
  <2>7. ASSUME NEW r \in jobs["renew"].todo, B!RenewCount(r) \/ B!RenewSub(r) PROVE BillsGoOn
    BY <2>1, <2>7, RenewalCounts, RenewalEnds
  <2>10. ASSUME NEW a \in Workers, B!SwitchSub(a) PROVE BillsGoOn
    BY <2>1, <2>10, SubSwitches
  <2>8. ASSUME B!RemindRead \/ B!SuspendRead \/ B!RenewRead \/ B!Tick PROVE BillsGoOn
    BY <2>1, <2>8, JobReads, RenewalReads, BillsTick
  <2>9. ASSUME B!RenewInvoice PROVE BillsGoOn
    BY <2>1, <2>9, RenewalIssues, RenewalStops
  <2> QED
    BY <1>2, <2>2, <2>3, <2>4, <2>5, <2>6, <2>7, <2>8, <2>9, <2>10 DEF B!Next, Cycles
<1> QED
  BY <1>1, <1>2

-----------------------------------------------------------------------------
(* DEPARTMENTS *)

DeptRows == [state : {"none", "live", "deleted"}, name : DeptNames \cup {Same},
             parent : D!Parents, level : 0 .. 2]
DeptJobs == [at : D!Steps, id : D!Parents, name : D!Fields, parent : D!Fields, spot : D!Parents,
             level : 0 .. 2, todo : Seq(Ids \X (0 .. 3))]

Made == {d \in Ids : dept[d].state # "none"}

(* What is above a set of departments is in it, or is this one department. *)
UpTo(V, spot) == \A k \in V : dept[k].parent \in V \cup {spot, Root}

(* A walk has passed only departments that are not the one to be moved;    *)
(* once it has reached the root, they are all that is above the parent.    *)
Passed(j) ==
    /\ j.at = "walk" =>
          /\ j.parent \in Made /\ j.spot \in Made \cup {Root}
          /\ \E V \in SUBSET Made : j.parent \in V \cup {j.spot} /\ j.id \notin V /\ UpTo(V, j.spot)
    /\ j.at \in {"level", "write"} /\ j.parent \in Ids =>
          \E V \in SUBSET Made : j.parent \in V /\ j.id \notin V /\ UpTo(V, Root)

JobFits(j) ==
    /\ j.at = "idle" => j = D!NoJob
    /\ j.at = "insert" => /\ j.id \in Ids \ Made /\ j.name \in DeptNames
                          /\ j.parent \in Made \cup {Root}
    /\ j.at \notin {"idle", "insert"} => j.id \in Made
    /\ j.at \in {"walk", "level", "write"} =>
          j.name \in DeptNames \cup {Same} /\ j.parent \in Made \cup {Root, Same}
    /\ j.at \in {"walk", "level"} => j.parent \in Made
    /\ j.at = "cascade" => j.todo # <<>>
    /\ Passed(j)

DeptTyped ==
    /\ changed \in 0 .. 2
    /\ dept \in [Ids -> DeptRows]
    /\ djob \in [Workers -> DeptJobs]
    /\ \A d \in Made : dept[d].parent \in Made \cup {Root}
    /\ IsFiniteSet(Made)
    /\ \A w \in Workers : JobFits(djob[w])
    /\ \A v, w \in Workers : v # w /\ djob[v].at = "insert" => djob[w].id # djob[v].id

DeptInv == DeptTyped /\ D!Acyclic

LEMMA DeptIdle ==
    /\ D!NoJob \in DeptJobs /\ D!NoJob.at = "idle" /\ D!NoJob.id = Root
    /\ D!NoRow \in DeptRows /\ D!NoRow.state = "none"
BY DEF D!NoJob, DeptJobs, D!Steps, D!Parents, D!Fields, D!NoRow, D!Row, DeptRows

LEMMA IdleFits == JobFits(D!NoJob)
BY DeptIdle DEF JobFits, Passed

LEMMA DeptStart == D!Init => DeptInv
<1> SUFFICES ASSUME D!Init PROVE DeptInv
  OBVIOUS
<1>1. Made = {} /\ dept \in [Ids -> DeptRows]
  BY DeptIdle DEF D!Init, Made
<1>2. djob \in [Workers -> DeptJobs] /\ \A w \in Workers : djob[w] = D!NoJob
  BY DeptIdle DEF D!Init
<1>3. DeptTyped
  BY <1>1, <1>2, DeptIdle, IdleFits, FS_EmptySet DEF DeptTyped, D!Init
<1>4. D!Acyclic
  BY <1>1 DEF D!Acyclic, Made
<1> QED
  BY <1>3, <1>4 DEF DeptInv

(* A step of another request leaves a request what it knows: rows stay,    *)
(* and a parent is only replaced by none while it has a parent to give.    *)
LEMMA FitsStays ==
    ASSUME NEW j, JobFits(j), Made \subseteq Made', j.at = "insert" => j.id \notin Made',
           \/ \A k \in Made : dept'[k].parent \in {dept[k].parent, Root}
           \/ ~(j.at \in {"walk", "level", "write"} /\ j.parent \in Ids)
    PROVE  JobFits(j)'
<1>1. ASSUME NEW V \in SUBSET Made, NEW s, UpTo(V, s),
             \A k \in Made : dept'[k].parent \in {dept[k].parent, Root}
      PROVE  UpTo(V, s)'
  BY <1>1 DEF UpTo
<1>2. Made \subseteq Ids
  BY DEF Made
<1>3. Passed(j)'
  <2>1. CASE \A k \in Made : dept'[k].parent \in {dept[k].parent, Root}
    <3>1. ASSUME j.at = "walk"
          PROVE  /\ j.parent \in Made' /\ j.spot \in Made' \cup {Root}
                 /\ \E V \in SUBSET Made' : j.parent \in V \cup {j.spot} /\ j.id \notin V /\ UpTo(V, j.spot)'
      <4>1. PICK V \in SUBSET Made : j.parent \in V \cup {j.spot} /\ j.id \notin V /\ UpTo(V, j.spot)
        BY <3>1 DEF JobFits, Passed
      <4>2. UpTo(V, j.spot)'
        BY <1>1, <2>1, <4>1
      <4> QED
        BY <3>1, <4>1, <4>2 DEF JobFits, Passed
    <3>2. ASSUME j.at \in {"level", "write"}, j.parent \in Ids
          PROVE  \E V \in SUBSET Made' : j.parent \in V /\ j.id \notin V /\ UpTo(V, Root)'
      <4>1. PICK V \in SUBSET Made : j.parent \in V /\ j.id \notin V /\ UpTo(V, Root)
        BY <3>2 DEF JobFits, Passed
      <4>2. UpTo(V, Root)'
        BY <1>1, <2>1, <4>1
      <4> QED
        BY <4>1, <4>2
    <3> QED
      BY <3>1, <3>2 DEF Passed
  <2>2. CASE ~(j.at \in {"walk", "level", "write"} /\ j.parent \in Ids)
    BY <1>2, <2>2 DEF JobFits, Passed
  <2> QED
    BY <2>1, <2>2
<1> QED
  BY <1>3 DEF JobFits

(* A request goes on without writing.                                      *)
LEMMA DeptGoes ==
    ASSUME DeptInv, NEW w \in Workers, NEW j \in DeptJobs, djob' = [djob EXCEPT ![w] = j],
           UNCHANGED dept, changed' \in 0 .. 2, JobFits(j),
           j.at = "insert" => \A v \in Workers : djob[v].id # j.id
    PROVE  DeptInv'
<1>1. Made' = Made /\ (D!Acyclic)' /\ dept' \in [Ids -> DeptRows]
  BY DEF Made, DeptInv, D!Acyclic, DeptTyped
<1>2. djob' \in [Workers -> DeptJobs] /\ djob'[w] = j /\ \A v \in Workers \ {w} : djob'[v] = djob[v]
  BY DEF DeptInv, DeptTyped
<1>3. \A i : JobFits(i)' <=> JobFits(i)
  BY <1>1 DEF JobFits, Passed, UpTo
<1>4. \A v \in Workers : JobFits(djob'[v])
  BY <1>2 DEF DeptInv, DeptTyped
<1>5. j.at # "insert" => j.id \in Made \cup {Root}
  BY DeptIdle DEF JobFits
<1>6. ASSUME NEW v \in Workers, djob[v].at = "insert", v # w, j.at # "insert" PROVE djob[v].id # j.id
  BY <1>5, <1>6, OrgAssumption DEF DeptInv, DeptTyped, JobFits
<1>7. \A v, u \in Workers : v # u /\ djob'[v].at = "insert" => djob'[u].id # djob'[v].id
  BY <1>2, <1>6 DEF DeptInv, DeptTyped
<1>8. \A v \in Workers : JobFits(djob[v])'
  BY <1>3, <1>4
<1> QED
  BY <1>1, <1>2, <1>7, <1>8 DEF DeptInv, DeptTyped

(* A request writes: no other request may be about to move a department    *)
(* if the tree is given a new edge.                                        *)
LEMMA DeptWrites ==
    ASSUME DeptInv, NEW w \in Workers, NEW j \in DeptJobs, djob' = [djob EXCEPT ![w] = j],
           dept' \in [Ids -> DeptRows], changed' \in 0 .. 2,
           Made \subseteq Made', Made' \subseteq Made \cup {djob[w].id},
           \A d \in Made' : dept'[d].parent \in Made' \cup {Root},
           (D!Acyclic)', JobFits(j)', j.at # "insert", j.id \in {djob[w].id, Root},
           \/ \A k \in Made : dept'[k].parent \in {dept[k].parent, Root}
           \/ \A v \in Workers \ {w} : ~D!Moving(v)
    PROVE  DeptInv'
<1>1. djob' \in [Workers -> DeptJobs] /\ djob'[w] = j /\ \A v \in Workers \ {w} : djob'[v] = djob[v]
  BY DEF DeptInv, DeptTyped
<1>2. IsFiniteSet(Made')
  <2>1. IsFiniteSet(Made \cup {djob[w].id})
    BY FS_AddElement DEF DeptInv, DeptTyped
  <2> QED
    BY <2>1, FS_Subset
<1>3. ASSUME NEW v \in Workers \ {w} PROVE JobFits(djob[v])'
  <2>1. JobFits(djob[v])
    BY DEF DeptInv, DeptTyped
  <2>2. djob[v].at = "insert" => djob[v].id \notin Made /\ djob[v].id # djob[w].id
    BY <2>1 DEF JobFits, DeptInv, DeptTyped
  <2>3. djob[v].at = "insert" => djob[v].id \notin Made'
    BY <2>2
  <2>4. \/ \A k \in Made : dept'[k].parent \in {dept[k].parent, Root}
        \/ ~(djob[v].at \in {"walk", "level", "write"} /\ djob[v].parent \in Ids)
    BY DEF D!Moving
  <2>5. PICK i : i = djob[v]
    OBVIOUS
  <2>6. JobFits(i)'
    BY <2>1, <2>3, <2>4, <2>5, FitsStays
  <2> QED
    BY <1>1, <2>5, <2>6
<1>4. \A v \in Workers : JobFits(djob[v])'
  BY <1>1, <1>3
<1>5. \A v, u \in Workers : v # u /\ djob'[v].at = "insert" => djob'[u].id # djob'[v].id
  BY <1>1, OrgAssumption DEF DeptInv, DeptTyped, JobFits
<1> QED
  BY <1>1, <1>2, <1>4, <1>5 DEF DeptInv, DeptTyped

LEMMA JobIsTyped ==
    ASSUME NEW s \in D!Steps, NEW i \in D!Parents, NEW n \in D!Fields, NEW p \in D!Fields,
           NEW k \in D!Parents, NEW l \in 0 .. 2
    PROVE  [at |-> s, id |-> i, name |-> n, parent |-> p, spot |-> k, level |-> l, todo |-> <<>>]
               \in DeptJobs
<1>1. <<>> \in Seq(Ids \X (0 .. 3))
  OBVIOUS
<1> QED
  BY <1>1 DEF DeptJobs

LEMMA DeptCreate ==
    ASSUME DeptInv, NEW w \in Workers, NEW d \in Ids, NEW n \in DeptNames, NEW p \in D!Parents,
           D!CreateRead(w, d, n, p)
    PROVE  DeptInv'
<1>1. PICK j : j = [D!NoJob EXCEPT !.at = "insert", !.id = d, !.name = n, !.parent = p,
                                   !.level = IF p = Root THEN 0 ELSE dept[p].level + 1]
  OBVIOUS
<1>2. djob' = [djob EXCEPT ![w] = j] /\ UNCHANGED <<dept, changed>>
  BY <1>1 DEF D!CreateRead, D!Begin
<1>3. p # Root => p \in Made /\ dept[p].level \in 0 .. 1
  BY DEF D!CreateRead, D!Live, Made, DeptInv, DeptTyped, DeptRows
<1>4. j.at = "insert" /\ j.id = d /\ j.name = n /\ j.parent = p
  BY <1>1 DEF D!NoJob
<1>5. j \in DeptJobs
  <2>1. j = [at |-> "insert", id |-> d, name |-> n, parent |-> p, spot |-> Root,
             level |-> IF p = Root THEN 0 ELSE dept[p].level + 1, todo |-> <<>>]
    BY <1>1 DEF D!NoJob
  <2>2. (IF p = Root THEN 0 ELSE dept[p].level + 1) \in 0 .. 2
    BY <1>3
  <2>3. "insert" \in D!Steps /\ d \in D!Parents /\ n \in D!Fields /\ p \in D!Fields /\ Root \in D!Parents
    BY DEF D!Steps, D!Parents, D!Fields
  <2> QED
    BY <2>1, <2>2, <2>3, JobIsTyped
<1>6. d \notin Made /\ \A v \in Workers : djob[v].id # d
  BY DEF D!CreateRead, Made
<1>7. JobFits(j)
  BY <1>3, <1>4, <1>6 DEF JobFits, Passed, D!Parents
<1>8. changed' \in 0 .. 2
  BY <1>2 DEF DeptInv, DeptTyped
<1> QED
  BY <1>2, <1>4, <1>5, <1>6, <1>7, <1>8, DeptGoes

LEMMA DeptChange ==
    ASSUME DeptInv, NEW w \in Workers, NEW d \in Ids, NEW n \in DeptNames \cup {Same},
           NEW p \in D!Parents \cup {Same}, D!ChangeRead(w, d, n, p)
    PROVE  DeptInv'
<1>1. PICK j : j = [D!NoJob EXCEPT !.at = IF p \in Ids THEN "walk" ELSE "write",
                                   !.id = d, !.name = n, !.parent = p,
                                   !.spot = IF p = Same THEN Root ELSE p]
  OBVIOUS
<1>2. djob' = [djob EXCEPT ![w] = j] /\ UNCHANGED dept /\ changed' = changed + 1 /\ changed < 2
  BY <1>1 DEF D!ChangeRead, D!Begin, D!Ask
<1>3. d \in Made /\ (p \in Ids => p \in Made /\ p # d)
  BY DEF D!ChangeRead, D!Live, Made
<1>4. /\ j.at = IF p \in Ids THEN "walk" ELSE "write"
      /\ j.id = d /\ j.name = n /\ j.parent = p /\ (p \in Ids => j.spot = p)
  BY <1>1, OrgAssumption DEF D!NoJob
<1>5. j \in DeptJobs
  <2>1. j = [at |-> IF p \in Ids THEN "walk" ELSE "write", id |-> d, name |-> n, parent |-> p,
             spot |-> IF p = Same THEN Root ELSE p, level |-> 0, todo |-> <<>>]
    BY <1>1 DEF D!NoJob
  <2>2. (IF p \in Ids THEN "walk" ELSE "write") \in D!Steps
    BY DEF D!Steps
  <2>3. d \in D!Parents /\ n \in D!Fields /\ p \in D!Fields /\ (IF p = Same THEN Root ELSE p) \in D!Parents
    BY DEF D!Parents, D!Fields
  <2>4. 0 \in 0 .. 2
    OBVIOUS
  <2> QED
    BY <2>1, <2>2, <2>3, <2>4, JobIsTyped, Zenon
<1>6. j.at = "walk" => j.parent \in {} \cup {j.spot} /\ j.id \notin {} /\ UpTo({}, j.spot)
  BY <1>4 DEF UpTo
<1>7. Passed(j)
  BY <1>3, <1>4, <1>6 DEF Passed
<1>8. JobFits(j)
  BY <1>3, <1>4, <1>7 DEF JobFits, D!Parents
<1>9. changed' \in 0 .. 2
  BY <1>2 DEF DeptInv, DeptTyped
<1> QED
  BY <1>2, <1>4, <1>5, <1>8, <1>9, DeptGoes

LEMMA DeptAskToRemove ==
    ASSUME DeptInv, NEW w \in Workers, NEW d \in Ids, D!RemoveRead(w, d) \/ D!RestoreRead(w, d)
    PROVE  DeptInv'
<1>1. PICK s \in {"remove", "restore"} : djob' = [djob EXCEPT ![w] = [D!NoJob EXCEPT !.at = s, !.id = d]]
  BY DEF D!RemoveRead, D!RestoreRead, D!Begin
<1>2. PICK j : j = [D!NoJob EXCEPT !.at = s, !.id = d]
  OBVIOUS
<1>3. UNCHANGED dept /\ changed' = changed + 1 /\ changed < 2
  BY DEF D!RemoveRead, D!RestoreRead, D!Begin, D!Ask
<1>4. d \in Made
  BY DEF D!RemoveRead, D!RestoreRead, D!Live, Made
<1>5. j.at = s /\ j.id = d
  BY <1>2 DEF D!NoJob
<1>6. j \in DeptJobs
  <2>1. j = [at |-> s, id |-> d, name |-> Same, parent |-> Same, spot |-> Root, level |-> 0, todo |-> <<>>]
    BY <1>2 DEF D!NoJob
  <2>2. s \in D!Steps /\ d \in D!Parents /\ Same \in D!Fields /\ Root \in D!Parents
    BY DEF D!Parents, D!Fields, D!Steps
  <2>3. 0 \in 0 .. 2
    OBVIOUS
  <2> QED
    BY <2>1, <2>2, <2>3, JobIsTyped, Zenon
<1>7. JobFits(j)
  BY <1>4, <1>5 DEF JobFits, Passed
<1>8. changed' \in 0 .. 2
  BY <1>3 DEF DeptInv, DeptTyped
<1> QED
  BY <1>1, <1>2, <1>3, <1>5, <1>6, <1>7, <1>8, DeptGoes

LEMMA DeptRest ==
    ASSUME DeptInv, NEW w \in Workers, djob' = [djob EXCEPT ![w] = D!NoJob], UNCHANGED <<dept, changed>>
    PROVE  DeptInv'
<1>1. changed' \in 0 .. 2
  BY DEF DeptInv, DeptTyped
<1>2. D!NoJob.at # "insert"
  BY DeptIdle
<1> QED
  BY <1>1, <1>2, DeptIdle, IdleFits, DeptGoes

LEMMA DeptWalk ==
    ASSUME DeptInv, NEW w \in Workers, D!Walk(w), UNCHANGED changed
    PROVE  DeptInv'
<1>1. PICK i : i = djob[w]
  OBVIOUS
<1>2. i.at = "walk" /\ i \in DeptJobs /\ JobFits(i) /\ UNCHANGED dept /\ changed' \in 0 .. 2
  BY <1>1 DEF D!Walk, D!At, DeptInv, DeptTyped
<1>3. CASE i.spot = i.id
  BY <1>1, <1>3, DeptRest DEF D!Walk, D!Done
<1>4. PICK V \in SUBSET Made : i.parent \in V \cup {i.spot} /\ i.id \notin V /\ UpTo(V, i.spot)
  BY <1>2 DEF JobFits, Passed
<1>5. CASE i.spot # i.id /\ i.spot = Root
  <2>1. PICK j : j = [i EXCEPT !.at = "level"]
    OBVIOUS
  <2>2. djob' = [djob EXCEPT ![w] = j]
    BY <1>1, <1>5, <2>1 DEF D!Walk
  <2>3. j.at = "level" /\ j.id = i.id /\ j.name = i.name /\ j.parent = i.parent /\ j \in DeptJobs
    BY <1>2, <2>1 DEF DeptJobs, D!Steps
  <2>4. i.parent \in V
    BY <1>2, <1>4, <1>5, OrgAssumption DEF JobFits, Made
  <2>5. Passed(j)
    BY <1>4, <1>5, <2>3, <2>4 DEF Passed
  <2>6. JobFits(j)
    BY <1>2, <2>3, <2>5 DEF JobFits
  <2> QED
    BY <1>2, <2>2, <2>3, <2>6, DeptGoes
<1>6. CASE i.spot # i.id /\ i.spot # Root
  <2>1. PICK p : p = dept[i.spot].parent
    OBVIOUS
  <2>2. i.spot \in Made
    BY <1>2, <1>6 DEF JobFits, Passed
  <2>3. p \in Made \cup {Root}
    BY <2>1, <2>2 DEF DeptInv, DeptTyped
  <2>4. PICK j : j = [i EXCEPT !.spot = p]
    OBVIOUS
  <2>5. djob' = [djob EXCEPT ![w] = j]
    BY <1>1, <1>6, <2>1, <2>4 DEF D!Walk
  <2>6. /\ j.at = "walk" /\ j.id = i.id /\ j.name = i.name /\ j.parent = i.parent /\ j.spot = p
        /\ j \in DeptJobs
    BY <1>2, <2>3, <2>4 DEF DeptJobs, D!Steps, D!Parents, Made
  <2>7. UpTo(V \cup {i.spot}, p)
    BY <1>4, <2>1 DEF UpTo
  <2>8. V \cup {i.spot} \in SUBSET Made /\ i.id \notin V \cup {i.spot}
    BY <1>4, <1>6, <2>2
  <2>9. Passed(j)
    BY <1>2, <1>4, <2>3, <2>6, <2>7, <2>8 DEF Passed, JobFits
  <2>10. JobFits(j)
    BY <1>2, <2>6, <2>9 DEF JobFits
  <2> QED
    BY <1>2, <2>5, <2>6, <2>10, DeptGoes
<1> QED
  BY <1>3, <1>5, <1>6

LEMMA DeptReadLevel ==
    ASSUME DeptInv, NEW w \in Workers, D!ReadLevel(w), UNCHANGED changed
    PROVE  DeptInv'
<1>1. PICK i : i = djob[w]
  OBVIOUS
<1>2. i.at = "level" /\ i \in DeptJobs /\ JobFits(i) /\ UNCHANGED dept /\ changed' \in 0 .. 2
  BY <1>1 DEF D!ReadLevel, D!At, DeptInv, DeptTyped
<1>3. PICK l : l = dept[i.parent].level + 1
  OBVIOUS
<1>4. PICK j : j = [i EXCEPT !.at = "write", !.level = l]
  OBVIOUS
<1>5. djob' = [djob EXCEPT ![w] = j]
  BY <1>1, <1>2, <1>3, <1>4 DEF D!ReadLevel, DeptInv, DeptTyped, DeptJobs
<1>6. i.parent \in Made
  BY <1>2 DEF JobFits
<1>7. l \in 0 .. 2
  BY <1>1, <1>3, <1>6 DEF D!ReadLevel, DeptInv, DeptTyped, DeptRows, Made
<1>8. /\ j.at = "write" /\ j.id = i.id /\ j.name = i.name /\ j.parent = i.parent /\ j.level = l
      /\ j \in DeptJobs
  BY <1>2, <1>4, <1>7 DEF DeptJobs, D!Steps
<1>9. JobFits(j)
  BY <1>2, <1>8 DEF JobFits, Passed
<1> QED
  BY <1>2, <1>5, <1>8, <1>9, DeptGoes

(* The rows to be corrected, in any order: each of them, and once.         *)
LEMMA OrdersHold ==
    ASSUME NEW S, IsFiniteSet(S), S \subseteq Ids, NEW l \in 0 .. 3, NEW s \in D!Orders(S, l)
    PROVE  /\ s \in Seq(Ids \X (0 .. 3)) /\ (s = <<>> <=> S = {})
           /\ \A i \in 1 .. Len(s) : s[i][1] \in S /\ s[i][2] = l
           /\ \A i, k \in 1 .. Len(s) : s[i][1] = s[k][1] => i = k
           /\ \A c \in S : \E i \in 1 .. Len(s) : s[i][1] = c
<1> DEFINE T == {<<c, l>> : c \in S}
<1>1. [c \in S |-> <<c, l>>] \in Surjection(S, T)
  BY DEF Surjection
<1>2. IsFiniteSet(T)
  BY <1>1, FS_Surjection
<1> DEFINE n == Cardinality(T)
<1>3. n \in Nat
  BY <1>2, FS_CardinalityType
<1>a. D!Cardinality(T) = Cardinality(T)
  BY DEF D!Cardinality, Cardinality
<1>4. s \in [1 .. n -> T] /\ \A i, k \in 1 .. n : i # k => s[i] # s[k]
  BY <1>a DEF D!Orders, D!SetToSeqs
<1>5. s \in Injection(1 .. n, T)
  BY <1>4 DEF Injection, IsInjective
<1>6. Cardinality(1 .. n) = n
  BY <1>3, FS_Interval
<1>7. s \in Surjection(1 .. n, T)
  BY <1>2, <1>5, <1>6, FS_Injection
<1>8. \A t \in T : \E i \in 1 .. n : s[i] = t
  BY <1>7 DEF Surjection
<1>9. T \subseteq Ids \X (0 .. 3)
  OBVIOUS
<1>10. s \in Seq(Ids \X (0 .. 3)) /\ Len(s) = n
  <2>1. s \in [1 .. n -> Ids \X (0 .. 3)]
    BY <1>4, <1>9
  <2>2. s \in Seq(Ids \X (0 .. 3))
    <3>1. PICK m \in Nat : m = n
      BY <1>3
    <3>2. s \in [1 .. m -> Ids \X (0 .. 3)]
      BY <2>1, <3>1
    <3> HIDE DEF n, T
    <3> QED
      BY <3>2, SeqDef
  <2>3. DOMAIN s = 1 .. n
    BY <2>1
  <2>4. Len(s) = n
    BY <1>3, <2>2, <2>3, LenProperties
  <2> QED
    BY <2>2, <2>4
<1>11. \A i \in 1 .. n : s[i] \in T /\ s[i][1] \in S /\ s[i][2] = l
  BY <1>4
<1>12. \A i, k \in 1 .. n : s[i][1] = s[k][1] => i = k
  <2> SUFFICES ASSUME NEW i \in 1 .. n, NEW k \in 1 .. n, s[i][1] = s[k][1] PROVE i = k
    OBVIOUS
  <2>1. s[i] = <<s[i][1], l>> /\ s[k] = <<s[k][1], l>>
    BY <1>11
  <2> QED
    BY <1>4, <2>1
<1>13. ASSUME NEW c \in S PROVE \E i \in 1 .. n : s[i][1] = c
  <2>1. PICK i \in 1 .. n : s[i] = <<c, l>>
    BY <1>8
  <2> QED
    BY <2>1
<1>14. s = <<>> <=> S = {}
  <2>1. s = <<>> => n = 0
    BY <1>10
  <2>2. S = {} => n = 0
    BY <1>3, <1>11
  <2>3. n = 0 => s = <<>>
    BY <1>10, EmptySeq
  <2>4. n = 0 => S = {}
    BY <1>13
  <2> QED
    BY <2>1, <2>2, <2>3, <2>4
<1> HIDE DEF n, T
<1> QED
  BY <1>10, <1>11, <1>12, <1>13, <1>14

LEMMA DeptInsert ==
    ASSUME DeptInv, NEW w \in Workers, D!Insert(w), UNCHANGED changed
    PROVE  DeptInv'
<1>1. PICK i : i = djob[w]
  OBVIOUS
<1>2. i.at = "insert" /\ i \in DeptJobs /\ JobFits(i) /\ changed' \in 0 .. 2
  BY <1>1 DEF D!Insert, D!At, DeptInv, DeptTyped
<1>3. i.id \in Ids \ Made /\ i.name \in DeptNames /\ i.parent \in Made \cup {Root} /\ i.level \in 0 .. 2
  BY <1>2 DEF JobFits, DeptJobs
<1>4. PICK r : r = [state |-> "live", name |-> i.name, parent |-> i.parent, level |-> i.level]
  OBVIOUS
<1>5. r.state = "live" /\ r.parent = i.parent
  BY <1>4
<1>6. r \in DeptRows
  BY <1>3, <1>4 DEF DeptRows, D!Parents, Made
<1>7. dept \in [Ids -> DeptRows] /\ dept' = [dept EXCEPT ![i.id] = r]
  BY <1>1, <1>4 DEF D!Insert, D!Row, DeptInv, DeptTyped
<1>8. dept' \in [Ids -> DeptRows] /\ dept'[i.id] = r /\ \A d \in Ids \ {i.id} : dept'[d] = dept[d]
  BY <1>3, <1>6, <1>7
<1>9. Made' = Made \cup {i.id}
  BY <1>3, <1>5, <1>8 DEF Made
<1>10. \A d \in Made' : dept'[d].parent \in Made' \cup {Root}
  BY <1>3, <1>5, <1>8, <1>9 DEF DeptInv, DeptTyped, Made
<1>11. (D!Acyclic)'
  <2>1. SUFFICES ASSUME NEW S \in SUBSET Made', S # {} PROVE \E d \in S : dept'[d].parent \notin S
    BY DEF D!Acyclic, Made
  <2>2. CASE S \subseteq {i.id}
    BY <1>3, <1>5, <1>8, <2>1, <2>2, OrgAssumption
  <2>3. CASE ~ S \subseteq {i.id}
    <3>1. S \ {i.id} \in SUBSET Made /\ S \ {i.id} # {}
      BY <1>9, <2>3
    <3>2. PICK d \in S \ {i.id} : dept[d].parent \notin S \ {i.id}
      BY <3>1 DEF DeptInv, D!Acyclic, Made
    <3>3. dept[d].parent # i.id
      BY <1>3, <3>1, <3>2, OrgAssumption DEF DeptInv, DeptTyped
    <3> QED
      BY <1>8, <3>1, <3>2, <3>3 DEF Made
  <2> QED
    BY <2>2, <2>3
<1>12. djob' = [djob EXCEPT ![w] = D!NoJob]
  BY DEF D!Insert, D!Done
<1>13. JobFits(D!NoJob)'
  BY DeptIdle DEF JobFits, Passed
<1>14. \A k \in Made : dept'[k].parent \in {dept[k].parent, Root}
  BY <1>3, <1>8 DEF Made
<1>15. Made \subseteq Made' /\ Made' \subseteq Made \cup {djob[w].id}
  BY <1>1, <1>9
<1>16. D!NoJob \in DeptJobs /\ D!NoJob.at # "insert" /\ D!NoJob.id \in {djob[w].id, Root}
  BY DeptIdle
<1> QED
  BY <1>2, <1>8, <1>10, <1>11, <1>12, <1>13, <1>14, <1>15, <1>16, DeptWrites

(* States and levels change, the tree does not.                            *)
LEMMA DeptSameTree ==
    ASSUME DeptInv, NEW w \in Workers, NEW d \in Ids, NEW r \in DeptRows,
           (r.state = "none") = (dept[d].state = "none"), r.parent = dept[d].parent, dept' = [dept EXCEPT ![d] = r],
           NEW j \in DeptJobs, djob' = [djob EXCEPT ![w] = j], UNCHANGED changed,
           j.id \in {djob[w].id, Root}, j.at # "insert",
           j = D!NoJob \/ (JobFits(j) /\ j.at = "cascade")
    PROVE  DeptInv'
<1>1. dept \in [Ids -> DeptRows]
  BY DEF DeptInv, DeptTyped
<1>2. dept' \in [Ids -> DeptRows] /\ dept'[d] = r /\ \A k \in Ids \ {d} : dept'[k] = dept[k]
  BY <1>1
<1>3. Made' = Made
  BY <1>2 DEF Made
<1>4. \A k \in Made : dept'[k].parent = dept[k].parent
  BY <1>2 DEF Made
<1>5. \A k \in Made' : dept'[k].parent \in Made' \cup {Root}
  BY <1>3, <1>4 DEF DeptInv, DeptTyped
<1>6. (D!Acyclic)'
  <2>1. SUFFICES ASSUME NEW S \in SUBSET Made', S # {} PROVE \E k \in S : dept'[k].parent \notin S
    BY DEF D!Acyclic, Made
  <2> QED
    BY <1>3, <1>4, <2>1 DEF DeptInv, D!Acyclic, Made
<1>7. JobFits(j)'
  <2>1. CASE j = D!NoJob
    BY <2>1, DeptIdle DEF JobFits, Passed
  <2>2. CASE JobFits(j) /\ j.at = "cascade"
    BY <1>3, <2>2 DEF JobFits, Passed
  <2> QED
    BY <2>1, <2>2
<1>8. Made \subseteq Made' /\ Made' \subseteq Made \cup {djob[w].id} /\ changed' \in 0 .. 2
  BY <1>3 DEF DeptInv, DeptTyped
<1> QED
  BY <1>2, <1>4, <1>5, <1>6, <1>7, <1>8, DeptWrites

LEMMA DeptSetState ==
    ASSUME DeptInv, NEW w \in Workers, UNCHANGED changed, NEW s \in {"live", "deleted"},
           NEW a \in {"remove", "restore"}, D!SetState(w, a, s)
    PROVE  DeptInv'
<1>1. PICK d : d = djob[w].id
  OBVIOUS
<1>2. djob[w].at = a /\ djob' = [djob EXCEPT ![w] = D!NoJob] /\ dept' = [dept EXCEPT ![d].state = s]
  BY <1>1 DEF D!SetState, D!At, D!Done
<1>3. d \in Made
  BY <1>1, <1>2 DEF DeptInv, DeptTyped, JobFits
<1>4. PICK r : r = [dept[d] EXCEPT !.state = s]
  OBVIOUS
<1>5. dept[d] \in DeptRows /\ dept \in [Ids -> DeptRows] /\ d \in Ids
  BY <1>3 DEF DeptInv, DeptTyped, Made
<1>6. r \in DeptRows /\ r.state = s /\ r.parent = dept[d].parent
  BY <1>4, <1>5 DEF DeptRows
<1>7. dept' = [dept EXCEPT ![d] = r]
  BY <1>2, <1>4, <1>5
<1>8. D!NoJob \in DeptJobs /\ D!NoJob.at # "insert" /\ D!NoJob.id \in {djob[w].id, Root}
  BY DeptIdle
<1>9. (r.state = "none") = (dept[d].state = "none")
  BY <1>3, <1>6 DEF Made
<1> QED
  BY <1>2, <1>5, <1>6, <1>7, <1>8, <1>9, DeptSameTree

LEMMA DeptCascade ==
    ASSUME DeptInv, NEW w \in Workers, UNCHANGED changed, D!Cascade(w)
    PROVE  DeptInv'
<1>1. PICK i : i = djob[w]
  OBVIOUS
<1>2. i.at = "cascade" /\ i \in DeptJobs /\ JobFits(i) /\ i.todo # <<>> /\ i.todo \in Seq(Ids \X (0 .. 3))
  BY <1>1 DEF D!Cascade, D!At, DeptInv, DeptTyped, JobFits, DeptJobs
<1>3. PICK c, l : c = Head(i.todo)[1] /\ l = Head(i.todo)[2]
  OBVIOUS
<1>4. c \in Ids /\ l \in 0 .. 3 /\ Tail(i.todo) \in Seq(Ids \X (0 .. 3))
  BY <1>2, <1>3, HeadTailProperties
<1>5. l \in 0 .. 2 /\ dept' = [dept EXCEPT ![c].level = l]
  BY <1>1, <1>3, <1>4 DEF D!Cascade
<1>6. PICK below \in D!Orders(D!Children(c), l + 1) :
          IF below \o Tail(i.todo) = <<>> THEN D!Done(w)
          ELSE djob' = [djob EXCEPT ![w].todo = below \o Tail(i.todo)]
  BY <1>1, <1>3 DEF D!Cascade
<1>7. IsFiniteSet(D!Children(c)) /\ D!Children(c) \subseteq Ids
  <2>1. D!Children(c) \subseteq Made
    BY DEF D!Children, D!Live, Made
  <2> QED
    BY <2>1, FS_Subset DEF DeptInv, DeptTyped, Made
<1>8. l + 1 \in 0 .. 3
  BY <1>5
<1>9. below \in Seq(Ids \X (0 .. 3))
  BY <1>6, <1>7, <1>8, OrdersHold
<1>10. PICK rest : rest = below \o Tail(i.todo)
  OBVIOUS
<1>11. rest \in Seq(Ids \X (0 .. 3))
  BY <1>4, <1>9, <1>10, ConcatProperties
<1>12. PICK j : j = IF rest = <<>> THEN D!NoJob ELSE [i EXCEPT !.todo = rest]
  OBVIOUS
<1>13. djob' = [djob EXCEPT ![w] = j]
  BY <1>1, <1>2, <1>6, <1>10, <1>12 DEF D!Done, DeptInv, DeptTyped, DeptJobs
<1>14. rest # <<>> => /\ j.at = "cascade" /\ j.id = i.id /\ j.todo = rest /\ j \in DeptJobs
  BY <1>2, <1>11, <1>12 DEF DeptJobs
<1>15. j = D!NoJob \/ (JobFits(j) /\ j.at = "cascade")
  BY <1>2, <1>12, <1>14 DEF JobFits, Passed
<1>16. j \in DeptJobs /\ j.at # "insert" /\ j.id \in {djob[w].id, Root}
  BY <1>1, <1>12, <1>14, DeptIdle
<1>17. PICK r : r = [dept[c] EXCEPT !.level = l]
  OBVIOUS
<1>18. dept[c] \in DeptRows /\ dept \in [Ids -> DeptRows]
  BY <1>4 DEF DeptInv, DeptTyped
<1>19. r \in DeptRows /\ r.state = dept[c].state /\ r.parent = dept[c].parent
  BY <1>5, <1>17, <1>18 DEF DeptRows
<1>20. dept' = [dept EXCEPT ![c] = r] /\ (r.state = "none") = (dept[c].state = "none")
  BY <1>5, <1>17, <1>18, <1>19
<1> QED
  BY <1>4, <1>13, <1>15, <1>16, <1>19, <1>20, DeptSameTree

(* A department is moved to where the walk has not met it: nothing that is *)
(* above its new parent is below it.                                       *)
LEMMA DeptChangeWrite ==
    ASSUME DeptInv, NEW w \in Workers, UNCHANGED changed, D!ChangeWrite(w), ~D!MovesMeet
    PROVE  DeptInv'
<1>1. PICK i : i = djob[w]
  OBVIOUS
<1>2. i.at = "write" /\ i \in DeptJobs /\ JobFits(i) /\ changed' \in 0 .. 2
  BY <1>1 DEF D!ChangeWrite, D!At, DeptInv, DeptTyped
<1>3. /\ i.id \in Made /\ i.id \in Ids /\ i.level \in 0 .. 2
      /\ i.name \in DeptNames \cup {Same} /\ i.parent \in Made \cup {Root, Same}
  BY <1>2 DEF JobFits, DeptJobs, Made
<1>4. dept \in [Ids -> DeptRows] /\ dept[i.id] \in DeptRows
  BY <1>3 DEF DeptInv, DeptTyped
<1> DEFINE old == dept[i.id]
<1>5. PICK r : r = [state |-> old.state, name |-> IF i.name = Same THEN old.name ELSE i.name,
                    parent |-> IF i.parent # Same THEN i.parent ELSE old.parent,
                    level |-> IF i.parent # Same THEN i.level ELSE old.level]
  OBVIOUS
<1>6. /\ r.state = old.state /\ r.state # "none"
      /\ r.parent = IF i.parent # Same THEN i.parent ELSE old.parent
  BY <1>3, <1>5 DEF Made
<1>7. r \in DeptRows
  BY <1>3, <1>4, <1>5 DEF DeptRows, D!Parents, Made
<1>8. dept' = [dept EXCEPT ![i.id] = r]
  BY <1>1, <1>5 DEF D!ChangeWrite, D!Row
<1>9. dept' \in [Ids -> DeptRows] /\ dept'[i.id] = r /\ \A d \in Ids \ {i.id} : dept'[d] = dept[d]
  BY <1>3, <1>4, <1>7, <1>8
<1>10. Made' = Made
  BY <1>3, <1>6, <1>9 DEF Made
<1>11. \A d \in Made' : dept'[d].parent \in Made' \cup {Root}
  BY <1>3, <1>6, <1>9, <1>10 DEF DeptInv, DeptTyped, Made
<1>12. (D!Acyclic)'
  <2>1. SUFFICES ASSUME NEW S \in SUBSET Made, S # {} PROVE \E d \in S : dept'[d].parent \notin S
    BY <1>10 DEF D!Acyclic, Made
  <2>2. \A d \in S \ {i.id} : dept'[d].parent = dept[d].parent
    BY <1>9 DEF Made
  <2>3. PICK d \in S : dept[d].parent \notin S
    BY <2>1 DEF DeptInv, D!Acyclic, Made
  <2>4. CASE i.parent \in {Root, Same}
    BY <1>6, <1>9, <2>2, <2>3, <2>4, OrgAssumption DEF Made
  <2>5. CASE i.parent \notin {Root, Same}
    <3>1. i.parent \in Ids /\ r.parent = i.parent
      BY <1>3, <1>6, <2>5 DEF Made
    <3>2. PICK V \in SUBSET Made : i.parent \in V /\ i.id \notin V /\ UpTo(V, Root)
      BY <1>2, <3>1 DEF JobFits, Passed
    <3>3. CASE S \cap V = {}
      BY <1>9, <2>2, <2>3, <3>1, <3>2, <3>3
    <3>4. CASE S \cap V # {}
      <4>1. PICK k \in S \cap V : dept[k].parent \notin S \cap V
        BY <3>4 DEF DeptInv, D!Acyclic, Made
      <4>2. dept[k].parent \in V \cup {Root}
        BY <3>2, <4>1 DEF UpTo
      <4>3. dept[k].parent \notin S
        BY <4>1, <4>2, OrgAssumption DEF Made
      <4> QED
        BY <2>2, <3>2, <4>1, <4>3
    <3> QED
      BY <3>3, <3>4
  <2> QED
    BY <2>4, <2>5
<1>13. \/ \A k \in Made : dept'[k].parent \in {dept[k].parent, Root}
       \/ \A v \in Workers \ {w} : ~D!Moving(v)
  <2>1. CASE i.parent \in Ids
    BY <1>1, <1>2, <2>1 DEF D!MovesMeet, D!Moving
  <2>2. CASE i.parent \notin Ids
    BY <1>3, <1>6, <1>9, <2>2 DEF Made
  <2> QED
    BY <2>1, <2>2
<1>14. PICK j : /\ djob' = [djob EXCEPT ![w] = j] /\ j \in DeptJobs
                /\ j = D!NoJob \/ (j.at = "cascade" /\ j.id = i.id /\ j.todo # <<>>)
  <2>1. CASE ~(i.parent # Same /\ D!Children(i.id) # {})
    <3>1. djob' = [djob EXCEPT ![w] = D!NoJob]
      BY <1>1, <2>1 DEF D!ChangeWrite, D!Done
    <3> QED
      BY <3>1, DeptIdle
  <2>2. CASE i.parent # Same /\ D!Children(i.id) # {}
    <3>1. PICK below \in D!Orders(D!Children(i.id), i.level + 1) :
              djob' = [djob EXCEPT ![w] = [i EXCEPT !.at = "cascade", !.todo = below]]
      BY <1>1, <2>2 DEF D!ChangeWrite
    <3>2. D!Children(i.id) \subseteq Made
      BY DEF D!Children, D!Live, Made
    <3>3. IsFiniteSet(D!Children(i.id)) /\ D!Children(i.id) \subseteq Ids
      BY <3>2, FS_Subset DEF DeptInv, DeptTyped, Made
    <3>4. i.level + 1 \in 0 .. 3
      BY <1>3
    <3>5. below \in Seq(Ids \X (0 .. 3)) /\ below # <<>>
      BY <2>2, <3>1, <3>3, <3>4, OrdersHold
    <3>6. PICK j : j = [i EXCEPT !.at = "cascade", !.todo = below]
      OBVIOUS
    <3>7. j.at = "cascade" /\ j.id = i.id /\ j.todo # <<>> /\ j \in DeptJobs
      BY <1>2, <3>5, <3>6 DEF DeptJobs, D!Steps
    <3> QED
      BY <3>1, <3>6, <3>7
  <2> QED
    BY <2>1, <2>2
<1>15. JobFits(j)'
  BY <1>3, <1>10, <1>14, DeptIdle DEF JobFits, Passed
<1>16. j.at # "insert" /\ j.id \in {djob[w].id, Root}
  BY <1>1, <1>14, DeptIdle
<1>17. Made \subseteq Made' /\ Made' \subseteq Made \cup {djob[w].id}
  BY <1>10
<1> QED
  BY <1>2, <1>9, <1>11, <1>12, <1>13, <1>14, <1>15, <1>16, <1>17, DeptWrites

LEMMA DeptKeeps ==
    ASSUME DeptInv, D!Next, ~D!MovesMeet
    PROVE  DeptInv'
<1>1. PICK w \in Workers :
        \/ \E d \in Ids, n \in DeptNames, p \in D!Parents : D!CreateRead(w, d, n, p)
        \/ \E d \in Ids, n \in DeptNames \cup {Same}, p \in D!Parents \cup {Same} : D!ChangeRead(w, d, n, p)
        \/ \E d \in Ids : D!RemoveRead(w, d) \/ D!RestoreRead(w, d)
        \/ /\ \/ D!Insert(w) \/ D!Refuse(w) \/ D!Walk(w) \/ D!ReadLevel(w) \/ D!ChangeWrite(w)
              \/ D!Cascade(w) \/ D!RemoveWrite(w) \/ D!RestoreWrite(w)
              \/ D!Fail(w)
           /\ UNCHANGED changed
  BY DEF D!Next
<1>2. CASE \E d \in Ids, n \in DeptNames, p \in D!Parents : D!CreateRead(w, d, n, p)
  BY <1>2, DeptCreate
<1>3. CASE \E d \in Ids, n \in DeptNames \cup {Same}, p \in D!Parents \cup {Same} : D!ChangeRead(w, d, n, p)
  BY <1>3, DeptChange
<1>4. CASE \E d \in Ids : D!RemoveRead(w, d) \/ D!RestoreRead(w, d)
  BY <1>4, DeptAskToRemove
<1>5. CASE UNCHANGED changed /\ (D!RemoveWrite(w) \/ D!RestoreWrite(w))
  BY <1>5, DeptSetState DEF D!RemoveWrite, D!RestoreWrite
<1>6. CASE UNCHANGED changed /\ (D!Fail(w) \/ D!Refuse(w))
  BY <1>6, DeptRest DEF D!Fail, D!Refuse, D!Done
<1>7. CASE UNCHANGED changed /\ (D!Insert(w) \/ D!Walk(w) \/ D!ReadLevel(w) \/ D!ChangeWrite(w) \/ D!Cascade(w))
  BY <1>7, DeptInsert, DeptWalk, DeptReadLevel, DeptChangeWrite, DeptCascade
<1> QED
  BY <1>1, <1>2, <1>3, <1>4, <1>5, <1>6, <1>7

-----------------------------------------------------------------------------
(* One request at a time.                                                  *)

LevelFits(d) ==
    dept[d].level = IF dept[d].parent = Root THEN 0 ELSE dept[dept[d].parent].level + 1
ParentsLive == \A d \in Ids : D!Live(d) /\ dept[d].parent # Root => D!Live(dept[d].parent)

(* The descent has corrected D, and has all that is right below D to do.   *)
Firsts(t) == {t[k][1] : k \in 1 .. Len(t)}
Below(C) == {c \in Ids \ C : D!Live(c) /\ dept[c].parent \in C}
Listed(t, C) ==
    /\ Firsts(t) = Below(C)
    /\ \A k, l \in 1 .. Len(t) : t[k][1] = t[l][1] => k = l
    /\ \A k \in 1 .. Len(t) : t[k][2] = dept[dept[t[k][1]].parent].level + 1
Descends(i, t) ==
    \E C \in SUBSET Made : i \in C /\ (\A x \in C \ {i} : dept[x].parent \in C) /\ Listed(t, C)

LevelGiven(j) == j.level = IF j.parent = Root THEN 0 ELSE dept[j.parent].level + 1
JobSafe(j) ==
    /\ j.at = "insert" => (j.parent = Root \/ D!Live(j.parent)) /\ LevelGiven(j)
    /\ j.at \in {"walk", "level", "write"} =>
          D!Live(j.id) /\ (j.parent \notin {Root, Same} => D!Live(j.parent))
    /\ j.at = "write" /\ j.parent # Same => LevelGiven(j)
    /\ j.at = "remove" => D!Live(j.id) /\ D!Children(j.id) = {}
    /\ j.at = "cascade" => Descends(j.id, j.todo)

ToDo(j) == IF j.at = "cascade" THEN Firsts(j.todo) ELSE {}
TreeFits(j) ==
    /\ ParentsLive
    /\ \A d \in Ids \ ToDo(j) : D!Live(d) => LevelFits(d)
    /\ JobSafe(j)

TreeAlone ==
    /\ ~D!Overlap
    /\ \A w \in Workers : djob[w] # D!NoJob => TreeFits(djob[w])
    /\ (\A w \in Workers : djob[w] = D!NoJob) => TreeFits(D!NoJob)

LEMMA NoLoop == ASSUME DeptInv, NEW d \in Made PROVE d \in Ids /\ dept[d].parent # d
<1>1. {d} \in SUBSET Made
  OBVIOUS
<1>2. \E k \in {d} : dept[k].parent \notin {d}
  BY <1>1 DEF DeptInv, D!Acyclic, Made
<1> QED
  BY <1>2 DEF Made

LEMMA TreeStart == D!Init => TreeAlone
<1> SUFFICES ASSUME D!Init PROVE TreeAlone
  OBVIOUS
<1>1. \A d \in Ids : dept[d].state = "none"
  BY DeptIdle DEF D!Init
<1>2. \A w \in Workers : djob[w] = D!NoJob
  BY DEF D!Init
<1>3. TreeFits(D!NoJob)
  BY <1>1, DeptIdle DEF TreeFits, ParentsLive, JobSafe, D!Live
<1> QED
  BY <1>2, <1>3 DEF TreeAlone, D!Overlap

LEMMA SameRows == ASSUME UNCHANGED dept, NEW j PROVE TreeFits(j)' <=> TreeFits(j)
<1>1. Made' = Made
  BY DEF Made
<1>2. \A d : (D!Live(d)' <=> D!Live(d)) /\ (LevelFits(d)' <=> LevelFits(d))
  BY DEF D!Live, LevelFits
<1>3. \A d : D!Children(d)' = D!Children(d)
  BY <1>2 DEF D!Children
<1>5. ParentsLive' <=> ParentsLive
  BY <1>2 DEF ParentsLive
<1>6. \A C : Below(C)' = Below(C)
  BY <1>2 DEF Below
<1>7. \A t, C : Listed(t, C)' <=> Listed(t, C)
  BY <1>6 DEF Listed
<1>8. \A i, t : Descends(i, t)' <=> Descends(i, t)
  BY <1>1, <1>7 DEF Descends
<1>9. LevelGiven(j)' <=> LevelGiven(j)
  BY DEF LevelGiven
<1>10. JobSafe(j)' <=> JobSafe(j)
  BY <1>2, <1>3, <1>8, <1>9 DEF JobSafe
<1> QED
  BY <1>2, <1>5, <1>10 DEF TreeFits

(* What a read has seen, it goes on with.                                  *)
LEMMA TreeGoes ==
    ASSUME NEW w \in Workers, NEW j, djob' = [djob EXCEPT ![w] = j], UNCHANGED dept,
           NEW i, TreeFits(i), i.at # "cascade", j.at # "cascade", JobSafe(j)
    PROVE  \E k : djob' = [djob EXCEPT ![w] = k] /\ TreeFits(k)'
<1>1. TreeFits(j)
  BY DEF TreeFits, ToDo
<1> QED
  BY <1>1, SameRows

LEMMA TreeCreateRead ==
    ASSUME DeptInv, NEW w \in Workers, TreeFits(djob[w]), NEW d \in Ids, NEW n \in DeptNames,
           NEW p \in D!Parents, D!CreateRead(w, d, n, p)
    PROVE  \E j : djob' = [djob EXCEPT ![w] = j] /\ TreeFits(j)'
<1>1. PICK j : j = [D!NoJob EXCEPT !.at = "insert", !.id = d, !.name = n, !.parent = p,
                                   !.level = IF p = Root THEN 0 ELSE dept[p].level + 1]
  OBVIOUS
<1>2. djob' = [djob EXCEPT ![w] = j] /\ UNCHANGED dept /\ djob[w].at # "cascade"
  BY <1>1, DeptIdle DEF D!CreateRead, D!Begin
<1>3. /\ j.at = "insert" /\ j.id = d /\ j.name = n /\ j.parent = p
      /\ j.level = IF p = Root THEN 0 ELSE dept[p].level + 1
  BY <1>1 DEF D!NoJob
<1>4. JobSafe(j)
  BY <1>3 DEF JobSafe, LevelGiven, D!CreateRead
<1> QED
  BY <1>2, <1>3, <1>4, TreeGoes

LEMMA TreeChangeRead ==
    ASSUME DeptInv, NEW w \in Workers, TreeFits(djob[w]), NEW d \in Ids, NEW n \in DeptNames \cup {Same},
           NEW p \in D!Parents \cup {Same}, D!ChangeRead(w, d, n, p)
    PROVE  \E j : djob' = [djob EXCEPT ![w] = j] /\ TreeFits(j)'
<1>1. PICK j : j = [D!NoJob EXCEPT !.at = IF p \in Ids THEN "walk" ELSE "write",
                                   !.id = d, !.name = n, !.parent = p,
                                   !.spot = IF p = Same THEN Root ELSE p]
  OBVIOUS
<1>2. djob' = [djob EXCEPT ![w] = j] /\ UNCHANGED dept /\ djob[w].at # "cascade"
  BY <1>1, DeptIdle DEF D!ChangeRead, D!Begin
<1>3. /\ j.at = IF p \in Ids THEN "walk" ELSE "write"
      /\ j.id = d /\ j.name = n /\ j.parent = p /\ j.level = 0
  BY <1>1 DEF D!NoJob
<1>4. j.at = "write" /\ p # Same => p = Root
  BY <1>3 DEF D!Parents
<1>5. D!Live(d) /\ (p \notin {Root, Same} => D!Live(p))
  BY DEF D!ChangeRead, D!Parents
<1>6. JobSafe(j)
  BY <1>3, <1>4, <1>5 DEF JobSafe, LevelGiven
<1> QED
  BY <1>2, <1>3, <1>6, TreeGoes

LEMMA TreeAskToRemove ==
    ASSUME DeptInv, NEW w \in Workers, TreeFits(djob[w]), NEW d \in Ids, D!RemoveRead(w, d) \/ D!RestoreRead(w, d)
    PROVE  \E j : djob' = [djob EXCEPT ![w] = j] /\ TreeFits(j)'
<1>1. PICK s \in {"remove", "restore"} :
          /\ djob' = [djob EXCEPT ![w] = [D!NoJob EXCEPT !.at = s, !.id = d]]
          /\ s = "remove" => D!Live(d) /\ D!Children(d) = {}
  BY DEF D!RemoveRead, D!RestoreRead, D!Begin
<1>2. PICK j : j = [D!NoJob EXCEPT !.at = s, !.id = d]
  OBVIOUS
<1>3. djob' = [djob EXCEPT ![w] = j] /\ UNCHANGED dept /\ djob[w].at # "cascade"
  BY <1>1, <1>2, DeptIdle DEF D!RemoveRead, D!RestoreRead, D!Begin
<1>4. j.at = s /\ j.id = d
  BY <1>2 DEF D!NoJob
<1>5. JobSafe(j)
  BY <1>1, <1>4 DEF JobSafe
<1> QED
  BY <1>3, <1>4, <1>5, TreeGoes

(* A write that a name is in the way of.                                   *)
LEMMA TreeRefuse ==
    ASSUME NEW w \in Workers, TreeFits(djob[w]), D!Refuse(w)
    PROVE  \E j : djob' = [djob EXCEPT ![w] = j] /\ TreeFits(j)'
<1>1. JobSafe(D!NoJob) /\ D!NoJob.at = "idle"
  BY DeptIdle DEF JobSafe
<1>2. /\ djob' = [djob EXCEPT ![w] = D!NoJob] /\ UNCHANGED dept
      /\ djob[w].at \in {"insert", "write"}
  BY DEF D!Refuse, D!Done, D!At
<1> QED
  BY <1>1, <1>2, TreeGoes

LEMMA TreeWalk ==
    ASSUME DeptInv, NEW w \in Workers, TreeFits(djob[w]), D!Walk(w)
    PROVE  \E j : djob' = [djob EXCEPT ![w] = j] /\ TreeFits(j)'
<1>1. PICK i : i = djob[w]
  OBVIOUS
<1>2. i.at = "walk" /\ i \in DeptJobs /\ UNCHANGED dept /\ TreeFits(i)
  BY <1>1 DEF D!Walk, D!At, DeptInv, DeptTyped
<1>3. CASE djob' = [djob EXCEPT ![w] = D!NoJob]
  <2>1. JobSafe(D!NoJob)
    BY DeptIdle DEF JobSafe
  <2> QED
    BY <1>2, <1>3, <2>1, DeptIdle, TreeGoes
<1>4. CASE djob' = [djob EXCEPT ![w] = [i EXCEPT !.at = "level"]]
  <2>1. PICK j : j = [i EXCEPT !.at = "level"]
    OBVIOUS
  <2>2. j.at = "level" /\ j.id = i.id /\ j.name = i.name /\ j.parent = i.parent
    BY <1>2, <2>1 DEF DeptJobs
  <2>3. JobSafe(j)
    BY <1>2, <2>2 DEF TreeFits, JobSafe
  <2> QED
    BY <1>2, <1>4, <2>1, <2>2, <2>3, TreeGoes
<1>5. CASE djob' = [djob EXCEPT ![w] = [i EXCEPT !.spot = dept[i.spot].parent]]
  <2>1. PICK j : j = [i EXCEPT !.spot = dept[i.spot].parent]
    OBVIOUS
  <2>2. j.at = "walk" /\ j.id = i.id /\ j.name = i.name /\ j.parent = i.parent
    BY <1>2, <2>1 DEF DeptJobs
  <2>3. JobSafe(j)
    BY <1>2, <2>2 DEF TreeFits, JobSafe
  <2> QED
    BY <1>2, <1>5, <2>1, <2>2, <2>3, TreeGoes
<1> QED
  BY <1>1, <1>3, <1>4, <1>5 DEF D!Walk, D!Done

LEMMA TreeReadLevel ==
    ASSUME DeptInv, NEW w \in Workers, TreeFits(djob[w]), D!ReadLevel(w)
    PROVE  \E j : djob' = [djob EXCEPT ![w] = j] /\ TreeFits(j)'
<1>1. PICK i : i = djob[w]
  OBVIOUS
<1>2. i.at = "level" /\ i \in DeptJobs /\ JobFits(i) /\ UNCHANGED dept /\ TreeFits(i)
  BY <1>1 DEF D!ReadLevel, D!At, DeptInv, DeptTyped
<1>3. PICK l : l = dept[i.parent].level + 1
  OBVIOUS
<1>4. PICK j : j = [i EXCEPT !.at = "write", !.level = l]
  OBVIOUS
<1>5. djob' = [djob EXCEPT ![w] = j]
  BY <1>1, <1>2, <1>3, <1>4 DEF D!ReadLevel, DeptInv, DeptTyped, DeptJobs
<1>6. j.at = "write" /\ j.id = i.id /\ j.name = i.name /\ j.parent = i.parent /\ j.level = l
  BY <1>2, <1>4 DEF DeptJobs
<1>7. i.parent # Root
  BY <1>2, OrgAssumption DEF JobFits, Made
<1>8. JobSafe(j)
  BY <1>2, <1>3, <1>6, <1>7 DEF TreeFits, JobSafe, LevelGiven
<1> QED
  BY <1>2, <1>5, <1>6, <1>8, TreeGoes

(* A write that ends the request.                                          *)
LEMMA TreeRests ==
    ASSUME NEW w \in Workers, djob' = [djob EXCEPT ![w] = D!NoJob], ParentsLive',
           \A d \in Ids : D!Live(d)' => LevelFits(d)'
    PROVE  \E j : djob' = [djob EXCEPT ![w] = j] /\ TreeFits(j)'
<1>1. TreeFits(D!NoJob)'
  BY DeptIdle DEF TreeFits, JobSafe, ToDo
<1> QED
  BY <1>1

LEMMA TreeInsert ==
    ASSUME DeptInv, NEW w \in Workers, TreeFits(djob[w]), D!Insert(w)
    PROVE  \E j : djob' = [djob EXCEPT ![w] = j] /\ TreeFits(j)'
<1>1. PICK i : i = djob[w]
  OBVIOUS
<1>2. i.at = "insert" /\ i \in DeptJobs /\ JobFits(i) /\ TreeFits(i)
  BY <1>1 DEF D!Insert, D!At, DeptInv, DeptTyped
<1>3. i.id \in Ids \ Made /\ i.parent \in Made \cup {Root}
  BY <1>2 DEF JobFits
<1>4. (i.parent = Root \/ D!Live(i.parent)) /\ LevelGiven(i)
  BY <1>2 DEF TreeFits, JobSafe
<1>5. PICK r : r = [state |-> "live", name |-> i.name, parent |-> i.parent, level |-> i.level]
  OBVIOUS
<1>6. r.state = "live" /\ r.name = i.name /\ r.parent = i.parent /\ r.level = i.level
  BY <1>5
<1>7. dept' = [dept EXCEPT ![i.id] = r] /\ dept \in [Ids -> DeptRows]
  BY <1>1, <1>5 DEF D!Insert, D!Row, DeptInv, DeptTyped
<1>8. dept'[i.id] = r /\ \A d \in Ids \ {i.id} : dept'[d] = dept[d]
  BY <1>3, <1>7
<1>9. \A d \in Ids : D!Live(d)' <=> D!Live(d) \/ d = i.id
  BY <1>3, <1>6, <1>8 DEF D!Live
<1>11. \A d \in Made : dept[d].parent \in (Ids \ {i.id}) \cup {Root}
  BY <1>3, OrgAssumption DEF DeptInv, DeptTyped, Made
<1>12. ParentsLive'
  <2> SUFFICES ASSUME NEW d \in Ids, D!Live(d)', NEW p, p = dept'[d].parent, p # Root PROVE D!Live(p)'
    BY DEF ParentsLive, D!Live
  <2>1. CASE d = i.id
    BY <1>3, <1>4, <1>6, <1>8, <1>9, <2>1 DEF Made
  <2>2. CASE d # i.id
    <3>1. D!Live(p)
      BY <1>2, <1>8, <1>9, <2>2 DEF TreeFits, ParentsLive
    <3> QED
      BY <1>9, <3>1 DEF D!Live
  <2> QED
    BY <2>1, <2>2
<1>13. \A d \in Ids : D!Live(d)' => LevelFits(d)'
  <2> SUFFICES ASSUME NEW d \in Ids, D!Live(d)' PROVE LevelFits(d)'
    OBVIOUS
  <2>1. CASE d = i.id
    BY <1>3, <1>4, <1>6, <1>8, <2>1 DEF LevelFits, LevelGiven, Made
  <2>2. CASE d # i.id
    <3>1. D!Live(d) /\ d \in Made
      BY <1>9, <2>2 DEF D!Live, Made
    <3>2. LevelFits(d)
      BY <1>2, <3>1 DEF TreeFits, ToDo
    <3> QED
      BY <1>8, <1>11, <2>2, <3>1, <3>2 DEF LevelFits
  <2> QED
    BY <2>1, <2>2
<1>14. djob' = [djob EXCEPT ![w] = D!NoJob]
  BY DEF D!Insert, D!Done
<1> QED
  BY <1>12, <1>13, <1>14, TreeRests

LEMMA TreeRemoveWrite ==
    ASSUME DeptInv, NEW w \in Workers, TreeFits(djob[w]), D!RemoveWrite(w)
    PROVE  \E j : djob' = [djob EXCEPT ![w] = j] /\ TreeFits(j)'
<1>1. PICK i : i = djob[w]
  OBVIOUS
<1>2. i.at = "remove" /\ JobFits(i) /\ TreeFits(i)
  BY <1>1 DEF D!RemoveWrite, D!SetState, D!At, DeptInv, DeptTyped
<1>3. i.id \in Ids /\ D!Children(i.id) = {}
  BY <1>2 DEF TreeFits, JobSafe, JobFits, Made
<1>4. dept' = [dept EXCEPT ![i.id].state = "deleted"] /\ dept \in [Ids -> DeptRows]
  BY <1>1 DEF D!RemoveWrite, D!SetState, DeptInv, DeptTyped
<1>5. PICK r : r = [dept[i.id] EXCEPT !.state = "deleted"]
  OBVIOUS
<1>6. dept[i.id] \in DeptRows
  BY <1>3, <1>4
<1>7. r.state = "deleted" /\ r.parent = dept[i.id].parent /\ r.level = dept[i.id].level
  BY <1>5, <1>6 DEF DeptRows
<1>8. dept'[i.id] = r /\ \A d \in Ids \ {i.id} : dept'[d] = dept[d]
  BY <1>3, <1>4, <1>5
<1>9. \A d : D!Live(d)' <=> D!Live(d) /\ d # i.id
  BY <1>3, <1>7, <1>8 DEF D!Live
<1>11. ParentsLive'
  <2> SUFFICES ASSUME NEW d \in Ids, D!Live(d)', NEW p, p = dept'[d].parent, p # Root PROVE D!Live(p)'
    BY DEF ParentsLive, D!Live
  <2>1. D!Live(d) /\ d # i.id /\ dept'[d] = dept[d]
    BY <1>8, <1>9
  <2>2. D!Live(dept[d].parent) /\ dept[d].parent # i.id
    BY <1>2, <1>3, <2>1 DEF TreeFits, ParentsLive, D!Children
  <2> QED
    BY <1>9, <2>1, <2>2
<1>12. \A d \in Ids : D!Live(d)' => LevelFits(d)'
  <2> SUFFICES ASSUME NEW d \in Ids, D!Live(d)' PROVE LevelFits(d)'
    OBVIOUS
  <2>1. D!Live(d) /\ dept'[d] = dept[d] /\ LevelFits(d)
    BY <1>2, <1>8, <1>9 DEF TreeFits, ToDo
  <2>2. dept[d].parent # Root => dept[d].parent \in Ids
    BY <1>2, <2>1 DEF TreeFits, ParentsLive, D!Live
  <2>3. dept[d].parent \in Ids => dept'[dept[d].parent].level = dept[dept[d].parent].level
    BY <1>7, <1>8
  <2> QED
    BY <2>1, <2>2, <2>3 DEF LevelFits
<1>13. djob' = [djob EXCEPT ![w] = D!NoJob]
  BY DEF D!RemoveWrite, D!SetState, D!Done
<1> QED
  BY <1>11, <1>12, <1>13, TreeRests

(* A write that goes on to correct the levels below.                       *)
LEMMA TreeDescends ==
    ASSUME NEW w \in Workers, NEW j, djob' = [djob EXCEPT ![w] = j], ParentsLive',
           j.at = "cascade", Descends(j.id, j.todo)',
           \A d \in Ids \ Firsts(j.todo) : D!Live(d)' => LevelFits(d)'
    PROVE  \E k : djob' = [djob EXCEPT ![w] = k] /\ TreeFits(k)'
<1>1. TreeFits(j)'
  BY DEF TreeFits, JobSafe, ToDo
<1> QED
  BY <1>1

LEMMA OrdersAreFirsts ==
    ASSUME NEW S, IsFiniteSet(S), S \subseteq Ids, NEW l \in 0 .. 3, NEW s \in D!Orders(S, l)
    PROVE  Firsts(s) = S
BY OrdersHold DEF Firsts

LEMMA TreeChangeWrite ==
    ASSUME DeptInv, NEW w \in Workers, TreeFits(djob[w]), D!ChangeWrite(w)
    PROVE  \E j : djob' = [djob EXCEPT ![w] = j] /\ TreeFits(j)'
<1>1. PICK i : i = djob[w]
  OBVIOUS
<1>2. i.at = "write" /\ i \in DeptJobs /\ JobFits(i) /\ TreeFits(i)
  BY <1>1 DEF D!ChangeWrite, D!At, DeptInv, DeptTyped
<1>3. /\ i.id \in Made /\ i.id \in Ids /\ i.level \in 0 .. 2
      /\ i.name \in DeptNames \cup {Same} /\ i.parent \in Made \cup {Root, Same}
  BY <1>2 DEF JobFits, DeptJobs, Made
<1>4. /\ D!Live(i.id) /\ (i.parent \notin {Root, Same} => D!Live(i.parent))
      /\ i.parent # Same => LevelGiven(i)
  BY <1>2 DEF TreeFits, JobSafe
<1>5. dept \in [Ids -> DeptRows] /\ dept[i.id].parent # i.id /\ dept[i.id].parent \in Made \cup {Root}
  BY <1>3, NoLoop DEF DeptInv, DeptTyped
<1>6. i.parent # i.id
  <2>1. CASE i.parent \in Ids
    <3>1. PICK V \in SUBSET Made : i.parent \in V /\ i.id \notin V
      BY <1>2, <2>1 DEF JobFits, Passed
    <3> QED
      BY <3>1
  <2>2. CASE i.parent \notin Ids
    BY <1>3, <2>2
  <2> QED
    BY <2>1, <2>2
<1> DEFINE old == dept[i.id]
<1>7. PICK r : r = [state |-> old.state, name |-> IF i.name = Same THEN old.name ELSE i.name,
                    parent |-> IF i.parent # Same THEN i.parent ELSE old.parent,
                    level |-> IF i.parent # Same THEN i.level ELSE old.level]
  OBVIOUS
<1>8. /\ r.state = old.state
      /\ r.name = IF i.name = Same THEN old.name ELSE i.name
      /\ r.parent = IF i.parent # Same THEN i.parent ELSE old.parent
      /\ r.level = IF i.parent # Same THEN i.level ELSE old.level
  BY <1>7
<1>9. dept' = [dept EXCEPT ![i.id] = r]
  BY <1>1, <1>7 DEF D!ChangeWrite, D!Row
<1>10. dept'[i.id] = r /\ \A d \in Ids \ {i.id} : dept'[d] = dept[d]
  BY <1>3, <1>5, <1>9
<1>11. Made' = Made /\ \A d : D!Live(d)' <=> D!Live(d)
  BY <1>3, <1>8, <1>10 DEF Made, D!Live
<1>13. r.parent # i.id /\ (r.parent # Root => D!Live(r.parent) /\ r.parent \in Ids)
  BY <1>2, <1>3, <1>4, <1>5, <1>6, <1>8 DEF TreeFits, ParentsLive, D!Live
<1>14. ParentsLive'
  <2> SUFFICES ASSUME NEW d \in Ids, D!Live(d)', NEW p, p = dept'[d].parent, p # Root PROVE D!Live(p)'
    BY DEF ParentsLive, D!Live
  <2>1. CASE d = i.id
    BY <1>10, <1>11, <1>13, <2>1
  <2>2. CASE d # i.id
    <3>1. D!Live(p)
      BY <1>2, <1>10, <1>11, <2>2 DEF TreeFits, ParentsLive
    <3> QED
      BY <1>11, <3>1
  <2> QED
    BY <2>1, <2>2
<1>15. LevelFits(i.id)'
  <2>1. LevelFits(i.id)
    BY <1>2, <1>3, <1>4 DEF TreeFits, ToDo
  <2>2. r.level = IF r.parent = Root THEN 0 ELSE dept[r.parent].level + 1
    BY <1>4, <1>8, <2>1 DEF LevelGiven, LevelFits
  <2>3. r.parent # Root => dept'[r.parent] = dept[r.parent]
    BY <1>10, <1>13
  <2> QED
    BY <1>10, <2>2, <2>3 DEF LevelFits
<1>16. ASSUME NEW d \in Ids \ {i.id}, D!Live(d), dept[d].parent # i.id \/ r.level = old.level PROVE LevelFits(d)'
  <2>1. LevelFits(d)
    BY <1>2, <1>16 DEF TreeFits, ToDo
  <2>2. dept[d].parent # Root => dept[d].parent \in Ids
    BY <1>2, <1>16 DEF TreeFits, ParentsLive, D!Live
  <2>3. dept[d].parent # Root => dept'[dept[d].parent].level = dept[dept[d].parent].level
    BY <1>10, <1>16, <2>2
  <2> QED
    BY <1>10, <2>1, <2>3 DEF LevelFits
<1>17. CASE ~(i.parent # Same /\ D!Children(i.id) # {})
  <2>1. djob' = [djob EXCEPT ![w] = D!NoJob]
    BY <1>1, <1>17 DEF D!ChangeWrite, D!Done
  <2>2. ASSUME NEW d \in Ids \ {i.id}, D!Live(d) PROVE dept[d].parent # i.id \/ r.level = old.level
    BY <1>8, <1>17, <2>2 DEF D!Children
  <2>3. \A d \in Ids : D!Live(d)' => LevelFits(d)'
    BY <1>11, <1>15, <1>16, <2>2
  <2> QED
    BY <1>14, <2>1, <2>3, TreeRests
<1>18. CASE i.parent # Same /\ D!Children(i.id) # {}
  <2>1. PICK below \in D!Orders(D!Children(i.id), i.level + 1) :
            djob' = [djob EXCEPT ![w] = [i EXCEPT !.at = "cascade", !.todo = below]]
    BY <1>1, <1>18 DEF D!ChangeWrite
  <2>2. D!Children(i.id) \subseteq Made
    BY DEF D!Children, D!Live, Made
  <2>3. IsFiniteSet(D!Children(i.id)) /\ D!Children(i.id) \subseteq Ids
    BY <2>2, FS_Subset DEF DeptInv, DeptTyped, Made
  <2>4. i.level + 1 \in 0 .. 3
    BY <1>3
  <2>5. /\ \A k \in 1 .. Len(below) : below[k][1] \in D!Children(i.id) /\ below[k][2] = i.level + 1
        /\ \A k, l \in 1 .. Len(below) : below[k][1] = below[l][1] => k = l
        /\ Firsts(below) = D!Children(i.id)
    BY <2>1, <2>3, <2>4, OrdersHold, OrdersAreFirsts
  <2>6. PICK j : j = [i EXCEPT !.at = "cascade", !.todo = below]
    OBVIOUS
  <2>7. j.at = "cascade" /\ j.id = i.id /\ j.todo = below
    BY <1>2, <2>6 DEF DeptJobs
  <2>8. \A c \in D!Children(i.id) : c \in Ids \ {i.id} /\ D!Live(c) /\ dept'[c].parent = i.id
    BY <1>5, <1>10, <2>3 DEF D!Children
  <2>9. D!Children(i.id) = Below({i.id})'
    BY <1>8, <1>10, <1>11, <2>8 DEF D!Children, Below
  <2>10. \A k \in 1 .. Len(below) : below[k][2] = dept'[dept'[below[k][1]].parent].level + 1
    BY <1>8, <1>10, <1>18, <2>5, <2>8
  <2>11. Listed(below, {i.id})'
    BY <2>5, <2>9, <2>10 DEF Listed
  <2>12. Descends(i.id, below)'
    <3>1. {i.id} \in SUBSET Made'
      BY <1>3, <1>11
    <3> QED
      BY <2>11, <3>1 DEF Descends
  <2>13. \A d \in Ids \ Firsts(below) : D!Live(d)' => LevelFits(d)'
    BY <1>11, <1>15, <1>16, <2>5 DEF D!Children
  <2> QED
    BY <1>14, <2>1, <2>6, <2>7, <2>12, <2>13, TreeDescends
<1> QED
  BY <1>17, <1>18

(* What is right below the corrected departments, when one more of them    *)
(* has been corrected: no department is met twice.                         *)
LEMMA NextBelow ==
    ASSUME DeptInv, NEW i \in Ids, NEW C \in SUBSET Made, i \in C, \A x \in C \ {i} : dept[x].parent \in C,
           NEW c \in Below(C)
    PROVE  /\ D!Children(c) \cap (C \cup {c}) = {}
           /\ D!Children(c) \cap Below(C) = {}
           /\ Below(C \cup {c}) = (Below(C) \ {c}) \cup D!Children(c)
           /\ C \cup {c} \in SUBSET Made
<1>1. c \in Made /\ c \in Ids \ C /\ dept[c].parent \in C /\ dept[c].parent # c
  <2>1. c \in Made /\ c \in Ids \ C /\ dept[c].parent \in C
    BY DEF Below, D!Live, Made
  <2> QED
    BY <2>1
<1>2. dept[i].parent # c
  <2> SUFFICES ASSUME dept[i].parent = c PROVE FALSE
    OBVIOUS
  <2>1. C \cup {c} \in SUBSET Made /\ C \cup {c} # {}
    BY <1>1
  <2>2. PICK d \in C \cup {c} : dept[d].parent \notin C \cup {c}
    BY <2>1 DEF DeptInv, D!Acyclic, Made
  <2> QED
    BY <1>1, <2>2
<1>3. D!Children(c) \cap (C \cup {c}) = {}
  BY <1>1, <1>2 DEF D!Children
<1>4. D!Children(c) \cap Below(C) = {}
  BY <1>1 DEF D!Children, Below
<1>5. Below(C \cup {c}) = (Below(C) \ {c}) \cup D!Children(c)
  BY <1>1, <1>3 DEF D!Children, Below
<1> QED
  BY <1>1, <1>3, <1>4, <1>5

Once(t) == \A k, l \in 1 .. Len(t) : t[k][1] = t[l][1] => k = l
Before(b, t, rest) ==
    /\ \A k \in 1 .. Len(rest) : \/ \E m \in 1 .. Len(b) : rest[k] = b[m]
                                 \/ \E m \in 2 .. Len(t) : rest[k] = t[m]
    /\ Firsts(rest) = Firsts(b) \cup (Firsts(t) \ {t[1][1]})

(* The head of a list is replaced by what comes before the rest.           *)
LEMMA Replaced ==
    ASSUME NEW S, NEW t \in Seq(S), t # <<>>, NEW b \in Seq(S), NEW rest, rest = b \o Tail(t),
           Once(t), Once(b), Firsts(b) \cap Firsts(t) = {}
    PROVE  rest \in Seq(S) /\ Before(b, t, rest) /\ Once(rest)
<1>0. /\ \A k, l \in 1 .. Len(t) : t[k][1] = t[l][1] => k = l
      /\ \A k, l \in 1 .. Len(b) : b[k][1] = b[l][1] => k = l
  BY DEF Once
<1>1. /\ Tail(t) \in Seq(S) /\ Len(Tail(t)) = Len(t) - 1
      /\ \A k \in 1 .. Len(t) - 1 : Tail(t)[k] = t[k + 1]
      /\ Len(t) \in Nat /\ Len(t) > 0 /\ Len(b) \in Nat
  BY HeadTailProperties, LenProperties
<1>2. PICK n \in Nat, m \in Nat : n = Len(b) /\ m = Len(t)
  BY <1>1
<1>3. /\ rest \in Seq(S) /\ Len(rest) = n + m - 1
      /\ \A k \in 1 .. n + m - 1 : rest[k] = IF k <= n THEN b[k] ELSE t[k - n + 1]
  <2>1. /\ rest \in Seq(S) /\ Len(rest) = Len(b) + Len(Tail(t))
        /\ \A k \in 1 .. Len(b) + Len(Tail(t)) : rest[k] = IF k <= Len(b) THEN b[k] ELSE Tail(t)[k - Len(b)]
    BY <1>1, ConcatProperties
  <2>2. ASSUME NEW k \in 1 .. n + m - 1, ~(k <= n) PROVE Tail(t)[k - n] = t[k - n + 1]
    <3>1. k - n \in 1 .. m - 1
      BY <2>2
    <3> QED
      BY <1>1, <1>2, <3>1
  <2> QED
    BY <1>1, <1>2, <2>1, <2>2
<1>4. \A k \in 1 .. Len(rest) : \/ \E l \in 1 .. Len(b) : rest[k] = b[l]
                               \/ \E l \in 2 .. Len(t) : rest[k] = t[l]
  <2> SUFFICES ASSUME NEW k \in 1 .. n + m - 1
               PROVE  (\E l \in 1 .. n : rest[k] = b[l]) \/ (\E l \in 2 .. m : rest[k] = t[l])
    BY <1>2, <1>3
  <2>1. CASE k <= n
    BY <1>3, <2>1
  <2>2. CASE ~(k <= n)
    <3>1. k - n + 1 \in 2 .. m
      BY <2>2
    <3> QED
      BY <1>3, <2>2, <3>1
  <2> QED
    BY <2>1, <2>2
<1>5. Firsts(rest) = Firsts(b) \cup (Firsts(t) \ {t[1][1]})
  <2>1. ASSUME NEW k \in 1 .. Len(rest) PROVE rest[k][1] \in Firsts(b) \cup (Firsts(t) \ {t[1][1]})
    <3>1. CASE \E l \in 1 .. Len(b) : rest[k] = b[l]
      BY <3>1 DEF Firsts
    <3>2. CASE \E l \in 2 .. Len(t) : rest[k] = t[l]
      <4>1. PICK l \in 2 .. Len(t) : rest[k] = t[l]
        BY <3>2
      <4>2. l \in 1 .. Len(t) /\ 1 \in 1 .. Len(t) /\ l # 1
        BY <1>1, <4>1
      <4>3. t[l][1] # t[1][1]
        BY <1>0, <4>2
      <4> QED
        BY <4>1, <4>2, <4>3 DEF Firsts
    <3> QED
      BY <1>4, <3>1, <3>2
  <2>2. ASSUME NEW k \in 1 .. n PROVE \E l \in 1 .. Len(rest) : rest[l][1] = b[k][1]
    <3>1. k \in 1 .. n + m - 1 /\ k <= n
      BY <1>1, <1>2
    <3> QED
      BY <1>3, <3>1
  <2>3. ASSUME NEW k \in 2 .. m PROVE \E l \in 1 .. Len(rest) : rest[l][1] = t[k][1]
    <3>1. k + n - 1 \in 1 .. n + m - 1 /\ ~(k + n - 1 <= n) /\ (k + n - 1) - n + 1 = k
      BY <1>1, <1>2
    <3>2. rest[k + n - 1] = t[k]
      BY <1>3, <3>1
    <3> QED
      BY <1>3, <3>1, <3>2
  <2>4. \A k \in 1 .. m : k = 1 \/ k \in 2 .. m
    OBVIOUS
  <2>5. ASSUME NEW x \in Firsts(b) PROVE x \in Firsts(rest)
    BY <1>2, <2>2 DEF Firsts
  <2>6. ASSUME NEW x \in Firsts(t) \ {t[1][1]} PROVE x \in Firsts(rest)
    <3>1. PICK k \in 1 .. m : x = t[k][1] /\ k # 1
      BY <1>2 DEF Firsts
    <3>2. \E l \in 1 .. Len(rest) : rest[l][1] = x
      BY <2>3, <2>4, <3>1
    <3> QED
      BY <3>2 DEF Firsts
  <2>7. \A x \in Firsts(rest) : x \in Firsts(b) \cup (Firsts(t) \ {t[1][1]})
    BY <2>1 DEF Firsts
  <2> QED
    BY <2>5, <2>6, <2>7
<1>6. ASSUME NEW k \in 1 .. Len(rest), NEW l \in 1 .. Len(rest), rest[k][1] = rest[l][1] PROVE k = l
  <2>1. k \in 1 .. n + m - 1 /\ l \in 1 .. n + m - 1
    BY <1>3
  <2>2. CASE k <= n /\ l <= n
    BY <1>0, <1>2, <1>3, <1>6, <2>1, <2>2
  <2>3. CASE ~(k <= n) /\ ~(l <= n)
    <3>1. k - n + 1 \in 1 .. m /\ l - n + 1 \in 1 .. m
      BY <2>1, <2>3
    <3>2. rest[k] = t[k - n + 1] /\ rest[l] = t[l - n + 1]
      BY <1>3, <2>1, <2>3
    <3>3. k - n + 1 = l - n + 1
      BY <1>0, <1>2, <1>6, <3>1, <3>2
    <3> QED
      BY <3>3
  <2>4. ASSUME NEW a \in 1 .. n, NEW e \in 1 .. n + m - 1, ~(e <= n) PROVE rest[a][1] # rest[e][1]
    <3>1. a \in 1 .. n + m - 1 /\ a <= n /\ e - n + 1 \in 1 .. m
      BY <1>1, <1>2, <2>4
    <3>2. rest[a] = b[a] /\ rest[e] = t[e - n + 1]
      BY <1>3, <2>4, <3>1
    <3>3. rest[a][1] \in Firsts(b) /\ rest[e][1] \in Firsts(t)
      BY <1>2, <3>1, <3>2 DEF Firsts
    <3> QED
      BY <3>3
  <2>5. \A a \in 1 .. n + m - 1 : a <= n => a \in 1 .. n
    OBVIOUS
  <2> QED
    BY <1>6, <2>1, <2>2, <2>3, <2>4, <2>5
<1> QED
  BY <1>3, <1>4, <1>5, <1>6 DEF Before, Once

LEMMA TreeCascade ==
    ASSUME DeptInv, NEW w \in Workers, TreeFits(djob[w]), D!Cascade(w)
    PROVE  \E j : djob' = [djob EXCEPT ![w] = j] /\ TreeFits(j)'
<1>1. PICK i : i = djob[w]
  OBVIOUS
<1>2. /\ i.at = "cascade" /\ i \in DeptJobs /\ JobFits(i) /\ TreeFits(i)
      /\ i.todo # <<>> /\ i.todo \in Seq(Ids \X (0 .. 3))
  BY <1>1 DEF D!Cascade, D!At, DeptInv, DeptTyped, JobFits, DeptJobs
<1>3. PICK t \in Seq(Ids \X (0 .. 3)) : t = i.todo /\ t # <<>>
  BY <1>2
<1>4. 1 \in 1 .. Len(t) /\ Head(t) = t[1]
  BY <1>3, EmptySeq
<1>5. PICK c, l : c = t[1][1] /\ l = t[1][2]
  OBVIOUS
<1>6. c \in Ids /\ l \in 0 .. 3
  BY <1>3, <1>4, <1>5, ElementOfSeq
<1>7. l \in 0 .. 2 /\ dept' = [dept EXCEPT ![c].level = l]
  BY <1>1, <1>3, <1>4, <1>5, <1>6 DEF D!Cascade
<1>8. PICK below \in D!Orders(D!Children(c), l + 1) :
          IF below \o Tail(t) = <<>> THEN D!Done(w)
          ELSE djob' = [djob EXCEPT ![w].todo = below \o Tail(t)]
  BY <1>1, <1>3, <1>4, <1>5 DEF D!Cascade
<1>9. IsFiniteSet(D!Children(c)) /\ D!Children(c) \subseteq Ids
  <2>1. D!Children(c) \subseteq Made
    BY DEF D!Children, D!Live, Made
  <2> QED
    BY <2>1, FS_Subset DEF DeptInv, DeptTyped, Made
<1>10. /\ below \in Seq(Ids \X (0 .. 3)) /\ Firsts(below) = D!Children(c)
       /\ \A k \in 1 .. Len(below) : below[k][1] \in D!Children(c) /\ below[k][2] = l + 1
       /\ \A k, m \in 1 .. Len(below) : below[k][1] = below[m][1] => k = m
  <2>1. l + 1 \in 0 .. 3
    BY <1>7
  <2> QED
    BY <1>8, <1>9, <2>1, OrdersHold, OrdersAreFirsts
<1>11. PICK C \in SUBSET Made :
           i.id \in C /\ (\A x \in C \ {i.id} : dept[x].parent \in C) /\ Listed(t, C)
  BY <1>2, <1>3 DEF TreeFits, JobSafe, Descends
<1>12. /\ Firsts(t) = Below(C)
       /\ \A k, m \in 1 .. Len(t) : t[k][1] = t[m][1] => k = m
       /\ \A k \in 1 .. Len(t) : t[k][2] = dept[dept[t[k][1]].parent].level + 1
  BY <1>11 DEF Listed
<1>13. c \in Below(C) /\ l = dept[dept[c].parent].level + 1
  BY <1>4, <1>5, <1>12 DEF Firsts
<1>14. i.id \in Ids
  BY <1>11 DEF Made
<1>15. /\ D!Children(c) \cap (C \cup {c}) = {} /\ D!Children(c) \cap Below(C) = {}
       /\ Below(C \cup {c}) = (Below(C) \ {c}) \cup D!Children(c)
       /\ C \cup {c} \in SUBSET Made
  BY <1>11, <1>13, <1>14, NextBelow
<1>16. PICK rest : rest = below \o Tail(t)
  OBVIOUS
<1>17. /\ rest \in Seq(Ids \X (0 .. 3))
       /\ \A k \in 1 .. Len(rest) : \/ \E m \in 1 .. Len(below) : rest[k] = below[m]
                                    \/ \E m \in 2 .. Len(t) : rest[k] = t[m]
       /\ Firsts(rest) = D!Children(c) \cup (Below(C) \ {c})
       /\ \A k, m \in 1 .. Len(rest) : rest[k][1] = rest[m][1] => k = m
  <2>1. Firsts(below) \cap Firsts(t) = {}
    BY <1>10, <1>12, <1>15
  <2>2. /\ rest \in Seq(Ids \X (0 .. 3))
        /\ \A k \in 1 .. Len(rest) : \/ \E m \in 1 .. Len(below) : rest[k] = below[m]
                                     \/ \E m \in 2 .. Len(t) : rest[k] = t[m]
        /\ Firsts(rest) = Firsts(below) \cup (Firsts(t) \ {t[1][1]})
        /\ \A k, m \in 1 .. Len(rest) : rest[k][1] = rest[m][1] => k = m
    <3>1. PICK S : S = Ids \X (0 .. 3)
      OBVIOUS
    <3>2. t \in Seq(S) /\ t # <<>> /\ below \in Seq(S)
      BY <1>3, <1>10, <3>1
    <3>3. Once(t) /\ Once(below)
      BY <1>10, <1>12 DEF Once
    <3>4. rest \in Seq(S) /\ Before(below, t, rest) /\ Once(rest)
      BY <1>3, <1>16, <2>1, <3>2, <3>3, Replaced
    <3> QED
      BY <3>1, <3>4 DEF Before, Once
  <2> QED
    BY <1>5, <1>10, <1>12, <2>2
<1>18. PICK r : r = [dept[c] EXCEPT !.level = l]
  OBVIOUS
<1>19. dept[c] \in DeptRows /\ dept \in [Ids -> DeptRows]
  BY <1>6 DEF DeptInv, DeptTyped
<1>20. r.state = dept[c].state /\ r.parent = dept[c].parent /\ r.name = dept[c].name /\ r.level = l
  BY <1>18, <1>19 DEF DeptRows
<1>21. dept'[c] = r /\ \A d \in Ids \ {c} : dept'[d] = dept[d]
  BY <1>6, <1>7, <1>18, <1>19
<1>22. /\ Made' = Made /\ \A d : D!Live(d)' <=> D!Live(d)
       /\ \A d \in Ids : dept'[d].parent = dept[d].parent /\ dept'[d].name = dept[d].name
  BY <1>6, <1>20, <1>21 DEF Made, D!Live
<1>24. ParentsLive'
  <2> SUFFICES ASSUME NEW d \in Ids, D!Live(d)', NEW p, p = dept'[d].parent, p # Root PROVE D!Live(p)'
    BY DEF ParentsLive, D!Live
  <2>1. D!Live(p)
    BY <1>2, <1>22 DEF TreeFits, ParentsLive
  <2> QED
    BY <1>22, <2>1
<1>25. ASSUME NEW d \in Ids \ Firsts(rest), D!Live(d) PROVE LevelFits(d)'
  <2>1. d # c => d \notin Below(C) /\ d \notin D!Children(c)
    BY <1>17, <1>25
  <2>2. d # c => LevelFits(d) /\ dept[d].parent # c
    BY <1>2, <1>3, <1>12, <1>25, <2>1 DEF TreeFits, ToDo, D!Children
  <2>3. dept[d].parent # Root => dept[d].parent \in Ids
    BY <1>2, <1>25 DEF TreeFits, ParentsLive, D!Live
  <2>4. CASE d # c
    BY <1>21, <2>2, <2>3, <2>4 DEF LevelFits
  <2>5. CASE d = c
    <3>1. dept[c].parent \in Ids /\ dept[c].parent # c /\ dept[c].parent # Root
      BY <1>13, OrgAssumption DEF Below, Made
    <3> QED
      BY <1>13, <1>20, <1>21, <2>5, <3>1 DEF LevelFits
  <2> QED
    BY <2>4, <2>5
<1>26. Descends(i.id, rest)'
  <2>1. Below(C \cup {c})' = Below(C \cup {c})
    BY <1>22 DEF Below
  <2>2. Firsts(rest) = Below(C \cup {c})'
    BY <1>15, <1>17, <2>1
  <2>3. ASSUME NEW k \in 1 .. Len(rest) PROVE rest[k][2] = dept'[dept'[rest[k][1]].parent].level + 1
    <3>1. CASE \E m \in 1 .. Len(below) : rest[k] = below[m]
      <4>1. rest[k][1] \in D!Children(c) /\ rest[k][2] = l + 1
        BY <1>10, <3>1
      <4>2. dept'[rest[k][1]].parent = c
        BY <1>9, <1>22, <4>1 DEF D!Children
      <4> QED
        BY <1>20, <1>21, <4>1, <4>2
    <3>2. CASE \E m \in 2 .. Len(t) : rest[k] = t[m]
      <4>1. PICK m \in 2 .. Len(t) : rest[k] = t[m]
        BY <3>2
      <4>2. m \in 1 .. Len(t)
        BY <4>1
      <4>3. t[m][1] \in Below(C) /\ t[m][2] = dept[dept[t[m][1]].parent].level + 1
        BY <1>12, <4>2 DEF Firsts
      <4>4. t[m][1] \in Ids /\ dept[t[m][1]].parent \in Ids \ {c}
        BY <1>13, <4>3 DEF Below, Made
      <4> QED
        BY <1>21, <1>22, <4>1, <4>3, <4>4
    <3> QED
      BY <1>17, <3>1, <3>2
  <2>4. Listed(rest, C \cup {c})'
    BY <1>17, <2>2, <2>3 DEF Listed
  <2>5. \A x \in (C \cup {c}) \ {i.id} : dept'[x].parent \in C \cup {c}
    BY <1>11, <1>13, <1>22 DEF Below, Made
  <2>6. C \cup {c} \in SUBSET Made'
    BY <1>15, <1>22
  <2> QED
    BY <1>11, <2>4, <2>5, <2>6 DEF Descends
<1>27. CASE rest = <<>>
  <2>1. djob' = [djob EXCEPT ![w] = D!NoJob]
    BY <1>8, <1>16, <1>27 DEF D!Done
  <2>2. Firsts(rest) = {}
    BY <1>27 DEF Firsts
  <2>3. \A d \in Ids : D!Live(d)' => LevelFits(d)'
    BY <1>22, <1>25, <2>2
  <2> QED
    BY <1>24, <2>1, <2>3, TreeRests
<1>28. CASE rest # <<>>
  <2>1. PICK j : j = [i EXCEPT !.todo = rest]
    OBVIOUS
  <2>2. djob' = [djob EXCEPT ![w] = j]
    BY <1>1, <1>2, <1>8, <1>16, <1>28, <2>1 DEF DeptInv, DeptTyped, DeptJobs
  <2>3. j.at = "cascade" /\ j.id = i.id /\ j.todo = rest
    BY <1>2, <2>1 DEF DeptJobs
  <2>4. \A d \in Ids \ Firsts(j.todo) : D!Live(d)' => LevelFits(d)'
    BY <1>22, <1>25, <2>3
  <2>5. Descends(j.id, j.todo)'
    BY <1>26, <2>3
  <2> QED
    BY <1>24, <2>2, <2>3, <2>4, <2>5, TreeDescends
<1> QED
  BY <1>27, <1>28

LEMMA TreeServed ==
    ASSUME DeptInv, D!Next, ~ \E w \in Workers : D!Fail(w) \/ D!RestoreWrite(w)
    PROVE  \E w \in Workers : /\ TreeFits(djob[w]) => \E j : djob' = [djob EXCEPT ![w] = j] /\ TreeFits(j)'
                              /\ djob[w] # D!NoJob \/ djob'[w] # D!NoJob
                              /\ \E j : djob' = [djob EXCEPT ![w] = j]
<1>1. PICK w \in Workers :
        \/ \E d \in Ids, n \in DeptNames, p \in D!Parents : D!CreateRead(w, d, n, p)
        \/ \E d \in Ids, n \in DeptNames \cup {Same}, p \in D!Parents \cup {Same} : D!ChangeRead(w, d, n, p)
        \/ \E d \in Ids : D!RemoveRead(w, d) \/ D!RestoreRead(w, d)
        \/ D!Insert(w) \/ D!Refuse(w) \/ D!Walk(w) \/ D!ReadLevel(w) \/ D!ChangeWrite(w)
        \/ D!Cascade(w) \/ D!RemoveWrite(w)
  BY DEF D!Next
<1>2. CASE \E d \in Ids, n \in DeptNames, p \in D!Parents : D!CreateRead(w, d, n, p)
  <2>1. \E j : djob' = [djob EXCEPT ![w] = j] /\ j.at # "idle"
    <3>1. PICK d \in Ids, n \in DeptNames, p \in D!Parents : D!CreateRead(w, d, n, p)
      BY <1>2
    <3>2. PICK j : j = [D!NoJob EXCEPT !.at = "insert", !.id = d, !.name = n, !.parent = p,
                                       !.level = IF p = Root THEN 0 ELSE dept[p].level + 1]
      OBVIOUS
    <3>3. j.at = "insert"
      BY <3>2 DEF D!NoJob
    <3> QED
      BY <3>1, <3>2, <3>3 DEF D!CreateRead, D!Begin
  <2>2. djob'[w] # D!NoJob
    BY <2>1, DeptIdle DEF DeptInv, DeptTyped
  <2> QED
    BY <1>2, <2>1, <2>2, TreeCreateRead
<1>3. CASE \E d \in Ids, n \in DeptNames \cup {Same}, p \in D!Parents \cup {Same} : D!ChangeRead(w, d, n, p)
  <2>1. \E j : djob' = [djob EXCEPT ![w] = j] /\ j.at # "idle"
    <3>1. PICK d \in Ids, n \in DeptNames \cup {Same}, p \in D!Parents \cup {Same} : D!ChangeRead(w, d, n, p)
      BY <1>3
    <3>2. PICK j : j = [D!NoJob EXCEPT !.at = IF p \in Ids THEN "walk" ELSE "write",
                                       !.id = d, !.name = n, !.parent = p,
                                       !.spot = IF p = Same THEN Root ELSE p]
      OBVIOUS
    <3>3. j.at \in {"walk", "write"}
      BY <3>2 DEF D!NoJob
    <3> QED
      BY <3>1, <3>2, <3>3 DEF D!ChangeRead, D!Begin
  <2>2. djob'[w] # D!NoJob
    BY <2>1, DeptIdle DEF DeptInv, DeptTyped
  <2> QED
    BY <1>3, <2>1, <2>2, TreeChangeRead
<1>4. CASE \E d \in Ids : D!RemoveRead(w, d) \/ D!RestoreRead(w, d)
  <2>1. \E j : djob' = [djob EXCEPT ![w] = j] /\ j.at # "idle"
    <3>1. PICK d \in Ids, s \in {"remove", "restore"} : djob' = [djob EXCEPT ![w] = [D!NoJob EXCEPT !.at = s, !.id = d]]
      BY <1>4 DEF D!RemoveRead, D!RestoreRead, D!Begin
    <3>2. PICK j : j = [D!NoJob EXCEPT !.at = s, !.id = d]
      OBVIOUS
    <3>3. j.at = s
      BY <3>2 DEF D!NoJob
    <3> QED
      BY <3>1, <3>2, <3>3
  <2>2. djob'[w] # D!NoJob
    BY <2>1, DeptIdle DEF DeptInv, DeptTyped
  <2> QED
    BY <1>4, <2>1, <2>2, TreeAskToRemove
<1>5. CASE D!Insert(w) \/ D!Walk(w) \/ D!ReadLevel(w) \/ D!ChangeWrite(w) \/ D!Cascade(w) \/ D!RemoveWrite(w)
  <2>1. djob[w] # D!NoJob
    BY <1>5, DeptIdle DEF D!Insert, D!Walk, D!ReadLevel, D!ChangeWrite, D!Cascade, D!RemoveWrite, D!SetState, D!At
  <2>2. TreeFits(djob[w]) => \E j : djob' = [djob EXCEPT ![w] = j] /\ TreeFits(j)'
    BY <1>5, TreeInsert, TreeWalk, TreeReadLevel, TreeChangeWrite, TreeCascade, TreeRemoveWrite
  <2>3. \E j : djob' = [djob EXCEPT ![w] = j]
    <3>1. \A f, j : f = [djob EXCEPT ![w] = j] => \E k : f = [djob EXCEPT ![w] = k]
      OBVIOUS
    <3>2. CASE D!Insert(w) \/ D!Walk(w) \/ D!RemoveWrite(w)
      BY <3>1, <3>2 DEF D!Insert, D!Walk, D!RemoveWrite, D!SetState, D!Done
    <3>3. CASE D!ReadLevel(w)
      <4>1. PICK l : l = dept[djob[w].parent].level + 1
        OBVIOUS
      <4>2. djob' = [djob EXCEPT ![w] = [djob[w] EXCEPT !.at = "write", !.level = l]]
        BY <3>3, <4>1 DEF D!ReadLevel, DeptInv, DeptTyped, DeptJobs
      <4> QED
        BY <4>2
    <3>4. CASE D!ChangeWrite(w)
      BY <3>1, <3>4 DEF D!ChangeWrite, D!Done
    <3>5. CASE D!Cascade(w)
      <4>1. D!Done(w) \/ \E rest : djob' = [djob EXCEPT ![w].todo = rest]
        BY <3>5 DEF D!Cascade
      <4>2. ASSUME NEW rest, djob' = [djob EXCEPT ![w].todo = rest] PROVE djob' = [djob EXCEPT ![w] = [djob[w] EXCEPT !.todo = rest]]
        BY <4>2 DEF DeptInv, DeptTyped
      <4> QED
        BY <4>1, <4>2 DEF D!Done
    <3> QED
      BY <1>5, <3>2, <3>3, <3>4, <3>5
  <2> QED
    BY <2>1, <2>2, <2>3
<1>6. CASE D!Refuse(w)
  <2>1. \E j : djob' = [djob EXCEPT ![w] = j]
    BY <1>6 DEF D!Refuse, D!Done
  <2>2. djob[w] # D!NoJob
    BY <1>6, DeptIdle DEF D!Refuse, D!At
  <2> QED
    BY <1>6, <2>1, <2>2, TreeRefuse
<1> QED
  BY <1>1, <1>2, <1>3, <1>4, <1>5, <1>6

LEMMA TreeKeeps ==
    ASSUME DeptInv, TreeAlone, D!Next, ~ \E w \in Workers : D!Fail(w) \/ D!RestoreWrite(w), ~(D!Overlap)'
    PROVE  TreeAlone'
<1>1. PICK w \in Workers :
        /\ TreeFits(djob[w]) => \E j : djob' = [djob EXCEPT ![w] = j] /\ TreeFits(j)'
        /\ djob[w] # D!NoJob \/ djob'[w] # D!NoJob
        /\ \E j : djob' = [djob EXCEPT ![w] = j]
  BY TreeServed
<1>2. \A v \in Workers \ {w} : djob'[v] = djob[v]
  BY <1>1 DEF DeptInv, DeptTyped
<1>3. \A v \in Workers \ {w} : djob[v] = D!NoJob
  BY <1>1, <1>2 DEF TreeAlone, D!Overlap
<1>4. TreeFits(djob[w])
  BY <1>3 DEF TreeAlone
<1>5. PICK j : djob' = [djob EXCEPT ![w] = j] /\ TreeFits(j)'
  BY <1>1, <1>4
<1>6. djob'[w] = j
  BY <1>5 DEF DeptInv, DeptTyped
<1> QED
  BY <1>2, <1>3, <1>5, <1>6 DEF TreeAlone

-----------------------------------------------------------------------------
(* ITEMS *)

Items == DOMAIN Kind
ItemJobs == [op : {"idle", "assign", "remove", "link"}, item : Items \cup {None},
             who : Employees \cup Items \cup {None}]
OfItems(j) ==
    CASE j.op = "assign" -> j.item \in Items /\ j.who \in Employees
      [] j.op = "remove" -> j.item \in Items
      [] j.op = "link" -> j.item \in M!Of("structure") /\ j.who \in M!Of("designation")
      [] j.op = "idle" -> j = M!NoJob

ItemsTyped ==
    /\ live \subseteq Items \cup Employees /\ chosen \in 0 .. 4
    /\ assigned \in [Employees -> [M!Kinds -> Items \cup {None}]]
    /\ \A e \in Employees, k \in M!Kinds : assigned[e][k] \in M!Of(k) \cup {None}
    /\ linked \in [M!Of("designation") -> M!Of("structure") \cup {None}]
    /\ mjob \in [Workers -> ItemJobs]
    /\ \A w \in Workers : OfItems(mjob[w])

(* While no assignment meets a removal of the same item: what a removal    *)
(* has found unassigned is unassigned, and what an assignment has found    *)
(* live is live.  All employees count, deleted ones as well.               *)
Unassigned(i) == \A e \in Employees : assigned[e][Kind[i]] # i
AssignsLive(j) ==
    /\ j.op = "assign" => j.item \in live
    /\ j.op = "remove" /\ M!CountsDeleted(j.item) => Unassigned(j.item)
ItemsAlone ==
    /\ ~M!Overlap
    /\ \A i \in Items : M!CountsDeleted(i) /\ i \notin live => Unassigned(i)
    /\ \A w \in Workers : AssignsLive(mjob[w])

LEMMA ItemIdle == M!NoJob \in ItemJobs /\ M!NoJob.op = "idle" /\ OfItems(M!NoJob)
BY DEF M!NoJob, ItemJobs, OfItems

LEMMA ItemStart == M!Init => ItemsTyped /\ ItemsAlone
<1> SUFFICES ASSUME M!Init PROVE ItemsTyped /\ ItemsAlone
  OBVIOUS
<1>1. ItemsTyped
  BY ItemIdle DEF M!Init, ItemsTyped, M!Of, Items
<1>2. ItemsAlone
  BY ItemIdle DEF M!Init, ItemsAlone, AssignsLive, M!Overlap, Items
<1> QED
  BY <1>1, <1>2

LEMMA ItemJob ==
    ASSUME ItemsTyped, NEW w \in Workers, NEW j \in ItemJobs, mjob' = [mjob EXCEPT ![w] = j],
           OfItems(j)
    PROVE  /\ mjob' \in [Workers -> ItemJobs] /\ mjob'[w] = j
           /\ \A v \in Workers \ {w} : mjob'[v] = mjob[v]
           /\ \A v \in Workers : OfItems(mjob'[v])
BY DEF ItemsTyped

LEMMA OfItemsStays == \A j : UNCHANGED linked => (OfItems(j)' <=> OfItems(j))
BY DEF OfItems

(* A request has read, and found what it was looking for.                  *)
LEMMA ItemBegins ==
    ASSUME ItemsTyped, NEW w \in Workers, NEW op \in {"assign", "remove", "link"},
           NEW i \in Items, NEW who \in Employees \cup Items \cup {None}, M!Begin(w, op, i, who),
           op = "assign" => who \in Employees,
           op = "link" => i \in M!Of("structure") /\ who \in M!Of("designation"),
           op = "assign" => i \in live,
           op = "remove" /\ M!CountsDeleted(i) => Unassigned(i)
    PROVE  /\ ItemsTyped'
           /\ ItemsAlone /\ ~M!Overlap' => ItemsAlone'
<1>1. PICK j : j = [op |-> op, item |-> i, who |-> who]
  OBVIOUS
<1>2. j \in ItemJobs /\ j.op = op /\ j.item = i /\ j.who = who
  BY <1>1 DEF ItemJobs
<1>3. OfItems(j)
  BY <1>2 DEF OfItems
<1>4. /\ mjob' = [mjob EXCEPT ![w] = j] /\ UNCHANGED <<live, assigned, linked>>
      /\ chosen < 4 /\ chosen' = chosen + 1
  BY <1>1 DEF M!Begin, M!Ask
<1>5. /\ mjob' \in [Workers -> ItemJobs] /\ mjob'[w] = j
      /\ \A v \in Workers \ {w} : mjob'[v] = mjob[v]
      /\ \A v \in Workers : OfItems(mjob'[v])
  BY <1>2, <1>3, <1>4, ItemJob
<1>6. ItemsTyped'
  BY <1>4, <1>5 DEF ItemsTyped
<1>7. ASSUME ItemsAlone, NEW v \in Workers PROVE AssignsLive(mjob[v])'
  <2>1. CASE v = w
    BY <1>2, <1>4, <1>5, <2>1 DEF AssignsLive, Unassigned
  <2>2. CASE v # w
    BY <1>4, <1>5, <1>7, <2>2 DEF ItemsAlone, AssignsLive, Unassigned
  <2> QED
    BY <2>1, <2>2
<1> QED
  BY <1>4, <1>6, <1>7 DEF ItemsAlone, Unassigned

LEMMA ItemReads ==
    ASSUME OrgAssumption, ItemsTyped, NEW w \in Workers,
           \/ \E e \in Employees, i \in Items : M!AssignRead(w, e, i)
           \/ \E d \in M!Of("designation"), s \in M!Of("structure") : M!LinkRead(w, d, s)
           \/ \E i \in Items : M!RemoveRead(w, i)
    PROVE  /\ ItemsTyped'
           /\ ItemsAlone /\ ~M!Overlap' => ItemsAlone'
<1>1. ASSUME NEW e \in Employees, NEW i \in Items, M!AssignRead(w, e, i)
      PROVE  /\ ItemsTyped'
             /\ ItemsAlone /\ ~M!Overlap' => ItemsAlone'
  <2>1. i \in live /\ M!Begin(w, "assign", i, e)
    BY <1>1 DEF M!AssignRead
  <2> QED
    BY <2>1, ItemBegins
<1>2. ASSUME NEW d \in M!Of("designation"), NEW s \in M!Of("structure"), M!LinkRead(w, d, s)
      PROVE  /\ ItemsTyped'
             /\ ItemsAlone /\ ~M!Overlap' => ItemsAlone'
  <2>1. d \in Items /\ s \in Items /\ M!Begin(w, "link", s, d)
    BY <1>2 DEF M!LinkRead, M!Of, Items
  <2> QED
    BY <2>1, ItemBegins
<1>3. ASSUME NEW i \in Items, M!RemoveRead(w, i)
      PROVE  /\ ItemsTyped'
             /\ ItemsAlone /\ ~M!Overlap' => ItemsAlone'
  <2>1. M!Begin(w, "remove", i, None) /\ (M!CountsDeleted(i) => Unassigned(i))
    BY <1>3 DEF M!RemoveRead, M!Counted, Unassigned
  <2> QED
    BY <2>1, ItemBegins
<1> QED
  BY <1>1, <1>2, <1>3

(* A request ends with a write.                                            *)
LEMMA ItemEnds ==
    ASSUME ItemsTyped, NEW w \in Workers, M!Done(w)
    PROVE  /\ mjob' \in [Workers -> ItemJobs] /\ \A v \in Workers : OfItems(mjob'[v])
           /\ \A v \in Workers \ {w} : mjob'[v] = mjob[v]
           /\ mjob'[w].op = "idle"
           /\ chosen' \in 0 .. 4
           /\ ~M!Overlap => ~M!Overlap'
<1>1. mjob' = [mjob EXCEPT ![w] = M!NoJob]
  BY DEF M!Done
<1>2. /\ mjob' \in [Workers -> ItemJobs] /\ \A v \in Workers : OfItems(mjob'[v])
      /\ \A v \in Workers \ {w} : mjob'[v] = mjob[v] /\ mjob'[w] = M!NoJob
  BY <1>1, ItemJob, ItemIdle
<1>3. ASSUME ~M!Overlap, NEW u \in Workers, NEW v \in Workers, u # v, mjob'[u] # M!NoJob,
             mjob'[u].item = mjob'[v].item
      PROVE  FALSE
  <2>1. u # w
    BY <1>1, <1>3 DEF ItemsTyped
  <2>2. CASE v = w
    <3>1. mjob[u].item = None /\ OfItems(mjob[u])
      BY <1>1, <1>3, <2>1, <2>2 DEF ItemsTyped, M!NoJob
    <3> QED
      BY <1>2, <1>3, <2>1, <3>1, OrgAssumption DEF OfItems, M!Of, Items, ItemsTyped, ItemJobs
  <2>3. CASE v # w
    BY <1>2, <1>3, <2>1, <2>3 DEF M!Overlap
  <2> QED
    BY <2>2, <2>3
<1> QED
  BY <1>1, <1>2, <1>3, ItemIdle DEF ItemsTyped, M!Overlap, M!Done

LEMMA ItemAssigns ==
    ASSUME ItemsTyped, NEW w \in Workers, M!AssignWrite(w)
    PROVE  /\ ItemsTyped'
           /\ ItemsAlone /\ ~M!Overlap' => ItemsAlone'
<1> DEFINE i == mjob[w].item
           e == mjob[w].who
<1>1. i \in Items /\ e \in Employees /\ mjob[w].op = "assign"
  BY DEF M!AssignWrite, ItemsTyped, OfItems
<1>2. assigned' = [assigned EXCEPT ![e][Kind[i]] = i] /\ M!Done(w) /\ UNCHANGED <<live, linked>>
  BY DEF M!AssignWrite
<1>3. Kind[i] \in M!Kinds /\ i \in M!Of(Kind[i])
  BY <1>1 DEF M!Kinds, M!Of, Items
<1> HIDE DEF i, e
<1>4. /\ assigned' \in [Employees -> [M!Kinds -> Items \cup {None}]]
      /\ \A x \in Employees, k \in M!Kinds :
            assigned'[x][k] = IF x = e /\ k = Kind[i] THEN i ELSE assigned[x][k]
  BY <1>1, <1>2, <1>3 DEF ItemsTyped
<1>5. /\ mjob' \in [Workers -> ItemJobs] /\ \A v \in Workers : OfItems(mjob'[v])
      /\ \A v \in Workers \ {w} : mjob'[v] = mjob[v]
      /\ mjob'[w].op = "idle" /\ chosen' \in 0 .. 4
  BY <1>2, ItemEnds
<1>6. ItemsTyped'
  BY <1>2, <1>3, <1>4, <1>5 DEF ItemsTyped
<1>7. \A x \in Items : Kind[x] \in M!Kinds
  BY DEF M!Kinds, Items
<1>8. ASSUME NEW x \in Items, x # i, Unassigned(x) PROVE Unassigned(x)'
  BY <1>4, <1>7, <1>8 DEF Unassigned
<1>9. ASSUME ItemsAlone PROVE i \in live /\ \A v \in Workers \ {w} : mjob[v].item # i
  BY <1>1, <1>9 DEF ItemsAlone, AssignsLive, M!Overlap, M!NoJob, i
<1>10. ASSUME ItemsAlone, NEW v \in Workers PROVE AssignsLive(mjob[v])'
  <2>1. CASE v = w
    BY <1>5, <2>1 DEF AssignsLive
  <2>2. CASE v # w
    <3>1. mjob'[v] = mjob[v] /\ mjob[v].item # i /\ OfItems(mjob[v]) /\ AssignsLive(mjob[v])
      BY <1>5, <1>9, <1>10, <2>2 DEF ItemsTyped, ItemsAlone
    <3> QED
      BY <1>2, <1>8, <3>1 DEF AssignsLive, OfItems, M!CountsDeleted
  <2> QED
    BY <2>1, <2>2
<1> QED
  BY <1>2, <1>6, <1>8, <1>9, <1>10 DEF ItemsAlone, M!CountsDeleted

LEMMA ItemRemoves ==
    ASSUME OrgAssumption, ItemsTyped, NEW w \in Workers, M!RemoveWrite(w)
    PROVE  /\ ItemsTyped'
           /\ ItemsAlone /\ ~M!Overlap' => ItemsAlone'
<1> DEFINE i == mjob[w].item
<1>1. i \in Items /\ mjob[w].op = "remove"
  BY DEF M!RemoveWrite, ItemsTyped, OfItems
<1>2. live' = live \ {i} /\ M!Done(w) /\ UNCHANGED <<assigned, linked>>
  BY DEF M!RemoveWrite
<1>5. /\ mjob' \in [Workers -> ItemJobs] /\ \A v \in Workers : OfItems(mjob'[v])
      /\ \A v \in Workers \ {w} : mjob'[v] = mjob[v]
      /\ mjob'[w].op = "idle" /\ chosen' \in 0 .. 4
  BY <1>2, ItemEnds
<1>6. ItemsTyped'
  BY <1>2, <1>5 DEF ItemsTyped
<1>8. \A x : Unassigned(x)' <=> Unassigned(x)
  BY <1>2 DEF Unassigned
<1>9. ASSUME ItemsAlone
      PROVE  (M!CountsDeleted(i) => Unassigned(i)) /\ \A v \in Workers \ {w} : mjob[v].item # i
  BY <1>1, <1>9 DEF ItemsAlone, AssignsLive, M!Overlap, M!NoJob
<1> HIDE DEF i
<1>10. ASSUME ItemsAlone, NEW v \in Workers PROVE AssignsLive(mjob[v])'
  <2>1. CASE v = w
    BY <1>5, <2>1 DEF AssignsLive
  <2>2. CASE v # w
    <3>1. mjob'[v] = mjob[v] /\ mjob[v].item # i /\ AssignsLive(mjob[v])
      BY <1>5, <1>9, <1>10, <2>2 DEF ItemsAlone
    <3> QED
      BY <1>2, <1>8, <3>1 DEF AssignsLive, M!CountsDeleted
  <2> QED
    BY <2>1, <2>2
<1> QED
  BY <1>2, <1>6, <1>8, <1>9, <1>10 DEF ItemsAlone, M!CountsDeleted

(* A step that neither assigns nor takes an item away.                     *)
LEMMA ItemRest ==
    ASSUME ItemsTyped, UNCHANGED assigned, \A i \in Items : i \in live => i \in live',
           live' \subseteq Items \cup Employees,
           linked' \in [M!Of("designation") -> M!Of("structure") \cup {None}],
           chosen' \in 0 .. 4,
           UNCHANGED mjob \/ \E w \in Workers : M!Done(w)
    PROVE  /\ ItemsTyped'
           /\ ItemsAlone /\ ~M!Overlap' => ItemsAlone'
<1>1. /\ mjob' \in [Workers -> ItemJobs] /\ \A v \in Workers : OfItems(mjob'[v])
      /\ \A v \in Workers : mjob'[v] = mjob[v] \/ mjob'[v].op = "idle"
  <2>1. CASE UNCHANGED mjob
    BY <2>1 DEF ItemsTyped
  <2>2. ASSUME NEW w \in Workers, M!Done(w)
        PROVE  /\ mjob' \in [Workers -> ItemJobs] /\ \A v \in Workers : OfItems(mjob'[v])
               /\ \A v \in Workers : mjob'[v] = mjob[v] \/ mjob'[v].op = "idle"
    BY <2>2, ItemEnds
  <2> QED
    BY <2>1, <2>2
<1>2. ItemsTyped'
  BY <1>1 DEF ItemsTyped
<1>3. ASSUME ItemsAlone, NEW v \in Workers PROVE AssignsLive(mjob[v])'
  <2>1. CASE mjob'[v] = mjob[v]
    BY <1>1, <1>3, <2>1 DEF AssignsLive, ItemsAlone, Unassigned, ItemsTyped, OfItems
  <2>2. CASE mjob'[v].op = "idle"
    BY <2>2 DEF AssignsLive
  <2> QED
    BY <1>1, <2>1, <2>2
<1>4. \A x : Unassigned(x)' <=> Unassigned(x)
  BY DEF Unassigned
<1> QED
  BY <1>2, <1>3, <1>4 DEF ItemsAlone, M!CountsDeleted

LEMMA ItemsKeep ==
    ASSUME ItemsTyped, M!Next
    PROVE  /\ ItemsTyped'
           /\ ItemsAlone /\ ~M!Overlap' => ItemsAlone'
<1> DEFINE Goal == /\ ItemsTyped'
                   /\ ItemsAlone /\ ~M!Overlap' => ItemsAlone'
<1> USE OrgAssumption
<1>1. ASSUME NEW w \in Workers,
             \/ \E e \in Employees, i \in Items : M!AssignRead(w, e, i)
             \/ \E d \in M!Of("designation"), s \in M!Of("structure") : M!LinkRead(w, d, s)
             \/ \E i \in Items : M!RemoveRead(w, i)
      PROVE  Goal
  BY <1>1, ItemReads
<1>2. ASSUME NEW w \in Workers, M!AssignWrite(w) PROVE Goal
  BY <1>2, ItemAssigns
<1>3. ASSUME NEW w \in Workers, M!RemoveWrite(w) PROVE Goal
  BY <1>3, ItemRemoves
<1>4. ASSUME NEW w \in Workers, M!LinkWrite(w) PROVE Goal
  <2>1. /\ linked' = [linked EXCEPT ![mjob[w].who] = mjob[w].item] /\ M!Done(w)
        /\ UNCHANGED <<live, assigned>> /\ mjob[w].op = "link"
    BY <1>4 DEF M!LinkWrite
  <2>2. mjob[w].item \in M!Of("structure")
    BY <2>1 DEF ItemsTyped, OfItems
  <2>3. linked' \in [M!Of("designation") -> M!Of("structure") \cup {None}]
    BY <2>1, <2>2 DEF ItemsTyped
  <2>4. chosen' \in 0 .. 4 /\ live' \subseteq Items \cup Employees
    BY <2>1 DEF ItemsTyped, M!Done
  <2> QED
    BY <2>1, <2>3, <2>4, ItemRest
<1>5. ASSUME NEW i \in Items, M!RestoreItem(i) PROVE Goal
  <2>1. UNCHANGED <<assigned, linked, mjob>> /\ live' = live \cup {i} /\ chosen' \in 0 .. 4
    BY <1>5 DEF M!RestoreItem, M!Ask, ItemsTyped
  <2> QED
    BY <2>1, ItemRest DEF ItemsTyped
<1>6. ASSUME NEW d \in M!Of("designation"), M!Unlink(d) PROVE Goal
  <2>1. UNCHANGED <<assigned, live, mjob>> /\ linked' = [linked EXCEPT ![d] = None] /\ chosen' \in 0 .. 4
    BY <1>6 DEF M!Unlink, M!Ask, ItemsTyped
  <2>2. linked' \in [M!Of("designation") -> M!Of("structure") \cup {None}]
    BY <2>1 DEF ItemsTyped
  <2> QED
    BY <2>1, <2>2, ItemRest DEF ItemsTyped
<1>7. ASSUME NEW e \in Employees, M!RemoveEmployee(e) \/ M!RestoreEmployee(e) PROVE Goal
  <2>1. /\ UNCHANGED <<assigned, linked, mjob>> /\ chosen' \in 0 .. 4
        /\ live' = live \ {e} \/ live' = live \cup {e}
    BY <1>7 DEF M!RemoveEmployee, M!RestoreEmployee, M!Ask, ItemsTyped
  <2>2. /\ \A i \in Items : i \in live => i \in live'
        /\ live' \subseteq Items \cup Employees
    BY <2>1 DEF ItemsTyped, Items
  <2> QED
    BY <2>1, <2>2, ItemRest DEF ItemsTyped
<1> HIDE DEF Goal
<1>8. M!Next => Goal
  BY <1>1, <1>2, <1>3, <1>4, <1>5, <1>6, <1>7, Zenon DEF M!Next, Items
<1> QED
  BY <1>8 DEF Goal

-----------------------------------------------------------------------------
(* LEAVE POLICIES *)

TypeKinds == Types \cup {"none"}

PolicyJobs == [at : {"idle", "items", "count", "delete"}, existing : [Ids -> TypeKinds], items : Seq(P!Item),
         keep : SUBSET Ids, drop : SUBSET Ids, asked : SUBSET Types, plain : BOOLEAN]

PolicyInv ==
    /\ row \in [Ids -> TypeKinds] /\ used \subseteq Ids
    /\ pjob \in [Workers -> PolicyJobs]
    /\ P!UsedStays

(* P!Rows that come to have a type get one that no other row has. *)
LEMMA Becoming ==
    ASSUME "none" \notin Types, used \subseteq Ids, row \in [Ids -> TypeKinds], P!UsedStays, NEW i \in Ids, NEW t \in Types,
           \A k \in Ids \ {i} : row[k] # t,
           row' = [row EXCEPT ![i] = t], used' = used
    PROVE  row' \in [Ids -> TypeKinds] /\ P!UsedStays'
<1>1. row' \in [Ids -> TypeKinds]
  BY DEF TypeKinds
<1>2. \A k \in Ids : row'[k] = IF k = i THEN t ELSE row[k]
  OBVIOUS
<1>3. \A k \in used' : row'[k] # "none"
  BY <1>2 DEF P!UsedStays
<1> QED
  BY <1>1, <1>2, <1>3 DEF P!UsedStays, P!Rows

LEMMA NoPolicyJob == P!NoJob \in PolicyJobs
BY DEF P!NoJob, P!NoRows, PolicyJobs, TypeKinds

LEMMA PolicyInit == P!Init => PolicyInv
BY NoPolicyJob DEF P!Init, PolicyInv, P!UsedStays, P!Rows, P!NoRows, TypeKinds

(* A step of an update that leaves the rows alone. *)
LEMMA PolicyMoves ==
    ASSUME PolicyInv, NEW w \in Workers, NEW j \in PolicyJobs, P!Goto(w, j), UNCHANGED <<row, used>>
    PROVE  PolicyInv'
BY DEF PolicyInv, P!Goto, P!UsedStays, P!Rows

LEMMA Updating ==
    ASSUME PolicyInv, NEW w \in Workers, NEW items \in P!Lists, P!Update(w, items)
    PROVE  PolicyInv'
<1>1. items \in Seq(P!Item)
  <2>1. PICK n \in 1 .. 2 : items \in [1 .. n -> P!Item]
    BY DEF P!Lists
  <2> QED
    BY <2>1, SeqDef
<1>2. \A k \in DOMAIN items : items[k].type \in Types
  BY DEF P!Lists, P!Item
<1> DEFINE j == [P!NoJob EXCEPT !.at = "items", !.existing = row, !.items = items,
                              !.asked = {items[k].type : k \in DOMAIN items},
                              !.plain = P!Plain(items)]
<1>3. P!Plain(items) \in BOOLEAN
  BY DEF P!Plain
<1>4. j \in PolicyJobs
  <2> DEFINE T == {items[k].type : k \in DOMAIN items}
  <2>1. T \in SUBSET Types /\ row \in [Ids -> TypeKinds]
    BY <1>2 DEF PolicyInv
  <2> HIDE DEF T
  <2>2. [P!NoJob EXCEPT !.at = "items", !.existing = row, !.items = items, !.asked = T,
                      !.plain = P!Plain(items)] \in PolicyJobs
    BY <1>1, <1>3, <2>1, NoPolicyJob DEF PolicyJobs
  <2> QED
    BY <2>2 DEF T
<1>5. P!Goto(w, j) /\ UNCHANGED <<row, used>>
  BY DEF P!Update
<1> HIDE DEF j
<1> QED
  BY <1>4, <1>5, PolicyMoves

LEMMA Reconciling ==
    ASSUME "none" \notin Types, PolicyInv, NEW w \in Workers, P!Reconcile(w)
    PROVE  PolicyInv'
<1> DEFINE j == pjob[w]
           item == Head(j.items)
<1>1. j \in PolicyJobs /\ j.items # <<>> /\ item \in P!Item /\ Tail(j.items) \in Seq(P!Item)
  <2>1. j \in PolicyJobs /\ j.items # <<>>
    BY DEF PolicyInv, P!Reconcile
  <2>2. j.items \in Seq(P!Item)
    BY <2>1 DEF PolicyJobs
  <2> QED
    BY <2>1, <2>2
<1>2. used' = used
  BY DEF P!Reconcile
<1>3. CASE UNCHANGED row /\ P!Done(w)
  BY <1>2, <1>3, NoPolicyJob, PolicyMoves DEF P!Done
<1>4. CASE \E i \in Ids : /\ ~ \E k \in Ids \ {i} : row[k] = item.type
                         /\ row' = [row EXCEPT ![i] = item.type]
                         /\ P!Goto(w, [j EXCEPT !.items = Tail(@), !.keep = @ \cup {i}])
  <2>1. PICK i \in Ids : /\ ~ \E k \in Ids \ {i} : row[k] = item.type
                        /\ row' = [row EXCEPT ![i] = item.type]
                        /\ P!Goto(w, [j EXCEPT !.items = Tail(@), !.keep = @ \cup {i}])
    BY <1>4
  <2>2. [j EXCEPT !.items = Tail(@), !.keep = @ \cup {i}] \in PolicyJobs
    BY <1>1 DEF PolicyJobs
  <2>3. item.type \in Types
    BY <1>1 DEF P!Item
  <2> HIDE DEF item
  <2>4. row' \in [Ids -> TypeKinds] /\ P!UsedStays'
    BY <1>2, <2>1, <2>3, Becoming DEF PolicyInv
  <2>5. pjob' \in [Workers -> PolicyJobs]
    BY <2>1, <2>2 DEF P!Goto, PolicyInv
  <2> QED
    BY <1>2, <2>4, <2>5 DEF PolicyInv
<1>5. \A i \in P!Match(j.existing, item) : i \in Ids
  BY DEF P!Match, P!Rows
<1> QED
  BY <1>3, <1>4, <1>5 DEF P!Reconcile, P!Fresh

LEMMA Deleting ==
    ASSUME PolicyInv, NEW w \in Workers, P!Delete(w)
    PROVE  PolicyInv'
<1> DEFINE j == pjob[w]
<1>1. j \in PolicyJobs /\ used' = used
  BY DEF PolicyInv, P!Delete
<1>2. CASE \E i \in j.keep : i \in used \/ row[i] = "none"
  BY <1>1, <1>2, NoPolicyJob, PolicyMoves DEF P!Delete, P!Done
<1>3. CASE ~ \E i \in j.keep : i \in used \/ row[i] = "none"
  <2>1. /\ row' = [i \in Ids |-> IF i \in j.keep THEN "none" ELSE row[i]]
        /\ P!Goto(w, [j EXCEPT !.at = "count"])
    BY <1>3 DEF P!Delete
  <2>2. [j EXCEPT !.at = "count"] \in PolicyJobs
    BY <1>1 DEF PolicyJobs
  <2>3. pjob' \in [Workers -> PolicyJobs]
    BY <2>1, <2>2 DEF P!Goto, PolicyInv
  <2>4. row' \in [Ids -> TypeKinds] /\ P!UsedStays'
    BY <1>1, <1>3, <2>1 DEF PolicyInv, P!UsedStays, P!Rows, TypeKinds
  <2> QED
    BY <1>1, <2>3, <2>4 DEF PolicyInv
<1> QED
  BY <1>2, <1>3

LEMMA PolicyStep == "none" \notin Types /\ PolicyInv /\ [P!Next]_policiesVars => PolicyInv'
<1> SUFFICES ASSUME "none" \notin Types, PolicyInv, [P!Next]_policiesVars PROVE PolicyInv'
  OBVIOUS
<1>1. CASE UNCHANGED policiesVars
  BY <1>1 DEF policiesVars, PolicyInv, P!UsedStays, P!Rows
<1>2. ASSUME NEW w \in Workers, NEW items \in P!Lists, P!Update(w, items) PROVE PolicyInv'
  BY <1>2, Updating
<1>3. ASSUME NEW w \in Workers, P!Reconcile(w) PROVE PolicyInv'
  BY <1>3, Reconciling
<1>4. ASSUME NEW w \in Workers, P!Kept(w) PROVE PolicyInv'
  <2>1. pjob[w] \in PolicyJobs
    BY DEF PolicyInv
  <2>2. [pjob[w] EXCEPT !.at = "count", !.drop = P!Rows(pjob[w].existing) \ pjob[w].keep] \in PolicyJobs
    BY <2>1 DEF PolicyJobs, P!Rows
  <2> QED
    BY <1>4, <2>2, PolicyMoves DEF P!Kept
<1>5. ASSUME NEW w \in Workers, NEW i \in Ids, P!Count(w, i) PROVE PolicyInv'
  <2>1. pjob[w] \in PolicyJobs
    BY DEF PolicyInv
  <2>2. [pjob[w] EXCEPT !.at = "delete", !.drop = @ \ {i}, !.keep = {i}] \in PolicyJobs
    BY <2>1 DEF PolicyJobs
  <2> QED
    BY <1>5, <2>2, NoPolicyJob, PolicyMoves DEF P!Count, P!Done
<1>6. ASSUME NEW w \in Workers, P!Delete(w) PROVE PolicyInv'
  BY <1>6, Deleting
<1>7. ASSUME NEW w \in Workers, P!Answer(w) \/ P!Fail(w) PROVE PolicyInv'
  BY <1>7, NoPolicyJob, PolicyMoves DEF P!Answer, P!Fail, P!Done
<1>8. ASSUME NEW i \in Ids, P!Use(i) PROVE PolicyInv'
  BY <1>8 DEF P!Use, PolicyInv, P!UsedStays, P!Rows
<1>9. ASSUME NEW i \in Ids, NEW t \in Types, P!Create(i, t) PROVE PolicyInv'
  <2>1. \A k \in Ids : row[k] = "none"
    BY <1>9 DEF P!Create, P!NoRows
  <2>2. row' \in [Ids -> TypeKinds] /\ P!UsedStays'
    BY <1>9, <2>1, Becoming DEF P!Create, PolicyInv
  <2> QED
    BY <1>9, <2>2 DEF P!Create, PolicyInv
<1> QED
  BY <1>1, <1>2, <1>3, <1>4, <1>5, <1>6, <1>7, <1>8, <1>9 DEF P!Next

-----------------------------------------------------------------------------
(* One update at a time.                                                   *)

TypesOf(items) == {items[k].type : k \in DOMAIN items}
Given(S) == {row[i] : i \in S}

(* An update that renames nothing keeps each row it read as it was, and    *)
(* has added to them what the items so far have asked for; then it drops   *)
(* whatever no item has kept.                                              *)
Serving(j) ==
    /\ j.at = "items" =>
          /\ \A i \in P!Rows(j.existing) : row[i] = j.existing[i]
          /\ P!Rows(row) = P!Rows(j.existing) \cup j.keep
          /\ Given(j.keep) = j.asked \ TypesOf(j.items) /\ TypesOf(j.items) \subseteq j.asked
          /\ \A k, l \in DOMAIN j.items : j.items[k].type = j.items[l].type => k = l
          /\ \A k \in DOMAIN j.items : \A i \in P!Match(j.existing, j.items[k]) :
                j.existing[i] = j.items[k].type
    /\ j.at = "count" => Given(P!Rows(row) \ j.drop) = j.asked
    /\ j.at = "delete" => Given(P!Rows(row) \ (j.drop \cup j.keep)) = j.asked

PolicyFits == updated \in Nat /\ \A w \in Workers : pjob[w] # P!NoJob => updated > 0
PolicyAlone == ~P!Overlap /\ \A w \in Workers : pjob[w].plain => Serving(pjob[w])

PolicyGoesOn ==
    /\ PolicyFits'
    /\ PolicyAlone /\ ~P!Overlap' => PolicyAlone' /\ P!AnsweredAsAsked

LEMMA IdlePolicy == P!NoJob.at = "idle" /\ P!NoJob.keep = {} /\ P!NoJob.drop = {}
BY DEF P!NoJob

LEMMA IdleServes == Serving(P!NoJob) /\ Serving(P!NoJob)'
BY IdlePolicy DEF Serving

LEMMA PolicyStarts == P!Init => PolicyFits /\ PolicyAlone
BY IdleServes DEF P!Init, PolicyFits, PolicyAlone, P!Overlap

(* The others are idle while this one is not.                              *)
LEMMA OnePolicy ==
    ASSUME PolicyInv, PolicyFits, NEW w \in Workers, NEW j, P!Goto(w, j), updated' \in Nat, updated' >= updated,
           j # P!NoJob => updated' > 0,
           PolicyAlone /\ pjob[w].plain /\ j.plain => Serving(j)',
           pjob[w].plain \/ pjob[w].plain = j.plain \/ j = P!NoJob,
           pjob[w] # P!NoJob \/ UNCHANGED row
    PROVE  PolicyFits' /\ (PolicyAlone /\ ~P!Overlap' => PolicyAlone')
<1>1. pjob'[w] = j /\ \A v \in Workers \ {w} : pjob'[v] = pjob[v]
  BY DEF PolicyInv, P!Goto
<1>2. PolicyFits'
  <2>1. ASSUME NEW v \in Workers, pjob'[v] # P!NoJob PROVE updated' > 0
    BY <1>1, <2>1 DEF PolicyFits
  <2> QED
    BY <2>1 DEF PolicyFits
<1>3. ASSUME PolicyAlone, ~P!Overlap', NEW v \in Workers, pjob'[v].plain
      PROVE  (Serving(pjob[v]))'
  <2>1. CASE v = w
    <3>1. CASE j = P!NoJob
      BY <1>1, <2>1, <3>1, IdleServes
    <3>2. CASE j # P!NoJob
      <4>1. Serving(j)'
        BY <1>1, <1>3, <2>1, <3>2
      <4> QED
        BY <1>1, <2>1, <4>1
    <3> QED
      BY <3>1, <3>2
  <2>2. CASE v # w /\ pjob[w] # P!NoJob
    <3>1. pjob'[v] = P!NoJob
      BY <1>1, <1>3, <2>2 DEF PolicyAlone, P!Overlap
    <3> QED
      BY <3>1, IdleServes
  <2>3. CASE v # w /\ UNCHANGED row
    <3>1. Serving(pjob[v]) /\ pjob'[v] = pjob[v]
      BY <1>1, <1>3, <2>3 DEF PolicyAlone
    <3> QED
      BY <2>3, <3>1 DEF Serving, Given
  <2> QED
    BY <2>1, <2>2, <2>3
<1> QED
  BY <1>2, <1>3 DEF PolicyAlone

LEMMA PolicyUpdates ==
    ASSUME "none" \notin Types, PolicyInv, PolicyFits, NEW w \in Workers, NEW items \in P!Lists, P!Update(w, items)
    PROVE  PolicyGoesOn
<1>1. PICK j : j = [P!NoJob EXCEPT !.at = "items", !.existing = row, !.items = items,
                              !.asked = TypesOf(items), !.plain = P!Plain(items)]
  OBVIOUS
<1>2. /\ j.at = "items" /\ j.existing = row /\ j.items = items /\ j.asked = TypesOf(items)
      /\ j.plain = P!Plain(items) /\ j.keep = {}
  BY <1>1 DEF P!NoJob
<1>3. /\ pjob[w] = P!NoJob /\ P!Goto(w, j) /\ updated' = updated + 1 /\ UNCHANGED <<row, used, answer>>
      /\ \A k, l \in DOMAIN items : items[k].type = items[l].type => k = l
  BY <1>1 DEF P!Update, TypesOf
<1>4. j.plain => Serving(j)
  <2>1. Given({}) = {} /\ TypesOf(items) \ TypesOf(items) = {}
    BY DEF Given
  <2> QED
    BY <1>2, <1>3, <2>1 DEF Serving, P!Plain
<1>5. Serving(j)' <=> Serving(j)
  BY <1>3 DEF Serving, Given
<1>6. P!NoJob.plain = TRUE
  BY DEF P!NoJob
<1>7. PolicyFits' /\ (PolicyAlone /\ ~P!Overlap' => PolicyAlone')
  BY <1>3, <1>4, <1>5, <1>6, OnePolicy DEF PolicyFits
<1> QED
  BY <1>3, <1>7 DEF PolicyGoesOn, P!AnsweredAsAsked

(* An update that ends, or fails.                                          *)
LEMMA PolicyEnds ==
    ASSUME PolicyInv, PolicyFits, NEW w \in Workers, P!Done(w), UNCHANGED <<row, updated>>
    PROVE  PolicyFits' /\ (PolicyAlone /\ ~P!Overlap' => PolicyAlone')
BY IdleServes, OnePolicy DEF P!Done, PolicyFits

LEMMA PolicyAnswers ==
    ASSUME PolicyInv, PolicyFits, NEW w \in Workers, P!Answer(w), UNCHANGED updated
    PROVE  PolicyGoesOn
<1>1. /\ pjob[w].at = "count" /\ pjob[w].drop = {} /\ P!Done(w) /\ UNCHANGED <<row, used>>
      /\ answer' = [asked |-> pjob[w].asked, plain |-> pjob[w].plain]
  BY DEF P!Answer
<1>2. ASSUME PolicyAlone, answer'.plain PROVE Given(P!Rows(row)) = answer'.asked
  <2>1. Serving(pjob[w])
    BY <1>1, <1>2 DEF PolicyAlone
  <2>2. P!Rows(row) \ pjob[w].drop = P!Rows(row)
    BY <1>1
  <2> QED
    BY <1>1, <2>1, <2>2 DEF Serving
<1>3. PolicyFits' /\ (PolicyAlone /\ ~P!Overlap' => PolicyAlone')
  BY <1>1, PolicyEnds
<1> QED
  BY <1>2, <1>3 DEF PolicyGoesOn, P!AnsweredAsAsked, Given

LEMMA PolicyReconciles ==
    ASSUME "none" \notin Types, PolicyInv, PolicyFits, NEW w \in Workers, P!Reconcile(w), UNCHANGED updated
    PROVE  PolicyGoesOn
<1>1. PICK j \in PolicyJobs : j = pjob[w]
  BY DEF PolicyInv
<1>2. PICK item : item = Head(j.items)
  OBVIOUS
<1>3. PICK M2 : M2 = P!Match(j.existing, item)
  OBVIOUS
<1>4. j.at = "items" /\ j.items # <<>> /\ UNCHANGED <<used, answer>> /\ pjob[w] # P!NoJob
  BY <1>1, IdlePolicy DEF P!Reconcile
<1>5. /\ item \in P!Item /\ j.items \in Seq(P!Item) /\ Tail(j.items) \in Seq(P!Item) /\ item = j.items[1]
      /\ DOMAIN j.items = 1 .. Len(j.items) /\ Len(j.items) \in Nat \ {0}
      /\ DOMAIN Tail(j.items) = 1 .. Len(j.items) - 1
      /\ \A k \in 1 .. Len(j.items) - 1 : Tail(j.items)[k] = j.items[k + 1]
  <2>1. j.items \in Seq(P!Item)
    BY <1>1 DEF PolicyJobs
  <2> QED
    BY <1>2, <1>4, <2>1
<1>6. item.type \in Types
  BY <1>5 DEF P!Item
<1>7. CASE UNCHANGED row /\ P!Done(w)
  BY <1>4, <1>7, PolicyEnds DEF PolicyGoesOn, P!AnsweredAsAsked
<1>8. CASE \E i \in Ids : /\ IF M2 = {} THEN i \in P!Fresh ELSE i \in M2
                          /\ row' = [row EXCEPT ![i] = item.type]
                          /\ P!Goto(w, [j EXCEPT !.items = Tail(@), !.keep = @ \cup {i}])
  <2>1. PICK i \in Ids : /\ IF M2 = {} THEN i \in P!Fresh ELSE i \in M2
                         /\ row' = [row EXCEPT ![i] = item.type]
                         /\ P!Goto(w, [j EXCEPT !.items = Tail(@), !.keep = @ \cup {i}])
    BY <1>8
  <2>2. PICK n : n = [j EXCEPT !.items = Tail(@), !.keep = @ \cup {i}]
    OBVIOUS
  <2>3. /\ n.at = "items" /\ n.items = Tail(j.items) /\ n.keep = j.keep \cup {i} /\ n.plain = j.plain
        /\ n.existing = j.existing /\ n.asked = j.asked /\ n.drop = j.drop
    BY <1>1, <1>4, <2>2 DEF PolicyJobs
  <2>4. ASSUME PolicyAlone, j.plain PROVE Serving(n)'
    <3>1. Serving(j)
      BY <1>1, <2>4 DEF PolicyAlone
    <3>2. row \in [Ids -> TypeKinds] /\ j.keep \subseteq Ids /\ j.existing \in [Ids -> TypeKinds]
      BY <1>1 DEF PolicyInv, PolicyJobs
    <3>3. PICK r : r = row'
      OBVIOUS
    <3>4. r[i] = item.type /\ \A k \in Ids \ {i} : r[k] = row[k]
      BY <2>1, <3>2, <3>3
    <3>5. \A k \in M2 : j.existing[k] = item.type /\ k \in P!Rows(j.existing)
      <4>1. \A k \in M2 : j.existing[k] = item.type
        BY <1>3, <1>4, <1>5, <3>1 DEF Serving
      <4>2. \A k \in M2 : k \in Ids
        BY <1>3 DEF P!Match, P!Rows
      <4> QED
        BY <1>6, <4>1, <4>2 DEF P!Rows
    <3>6. \A k \in P!Rows(j.existing) : r[k] = j.existing[k]
      <4>1. \A k \in P!Rows(j.existing) : k \in Ids /\ row[k] = j.existing[k] /\ row[k] # "none"
        BY <1>4, <3>1 DEF Serving, P!Rows
      <4>2. i \in P!Rows(j.existing) => j.existing[i] = item.type
        BY <2>1, <3>5, <4>1 DEF P!Fresh
      <4> QED
        BY <3>4, <4>1, <4>2
    <3>7. P!Rows(r) = P!Rows(row) \cup {i}
      BY <1>6, <3>4 DEF P!Rows
    <3>8. TypesOf(j.items) = TypesOf(Tail(j.items)) \cup {item.type} /\ item.type \notin TypesOf(Tail(j.items))
      <4>1. \A k \in DOMAIN Tail(j.items) : /\ k + 1 \in DOMAIN j.items /\ k + 1 # 1
                                            /\ Tail(j.items)[k] = j.items[k + 1]
        BY <1>5
      <4>2. \A k \in DOMAIN j.items : k = 1 \/ (k - 1 \in DOMAIN Tail(j.items) /\ Tail(j.items)[k - 1] = j.items[k])
        BY <1>5
      <4>3. 1 \in DOMAIN j.items
        BY <1>5
      <4>4. TypesOf(j.items) = TypesOf(Tail(j.items)) \cup {item.type}
        <5>1. ASSUME NEW x \in TypesOf(j.items) PROVE x \in TypesOf(Tail(j.items)) \cup {item.type}
          <6>1. PICK k \in DOMAIN j.items : x = j.items[k].type
            BY <5>1 DEF TypesOf
          <6>2. k = 1 \/ x \in TypesOf(Tail(j.items))
            BY <4>2, <6>1 DEF TypesOf
          <6> QED
            BY <1>5, <6>1, <6>2
        <5>2. ASSUME NEW x \in TypesOf(Tail(j.items)) PROVE x \in TypesOf(j.items)
          <6>1. PICK k \in DOMAIN Tail(j.items) : x = Tail(j.items)[k].type
            BY <5>2 DEF TypesOf
          <6> QED
            BY <4>1, <6>1 DEF TypesOf
        <5>3. item.type \in TypesOf(j.items)
          BY <1>5, <4>3 DEF TypesOf
        <5> QED
          BY <5>1, <5>2, <5>3
      <4>5. item.type \notin TypesOf(Tail(j.items))
        <5> SUFFICES ASSUME NEW k \in DOMAIN Tail(j.items), item.type = Tail(j.items)[k].type PROVE FALSE
          BY DEF TypesOf
        <5>1. k + 1 \in DOMAIN j.items /\ k + 1 # 1 /\ j.items[k + 1].type = j.items[1].type
          BY <1>5, <4>1
        <5> QED
          BY <1>4, <3>1, <4>3, <5>1 DEF Serving
      <4> QED
        BY <4>4, <4>5
    <3>9. {r[k] : k \in j.keep \cup {i}} = Given(j.keep) \cup {item.type}
      <4>1. i \in j.keep => row[i] = item.type
        <5>1. CASE M2 = {}
          BY <1>1, <2>1, <5>1 DEF P!Fresh
        <5>2. CASE i \in M2
          BY <1>4, <3>1, <3>5, <5>2 DEF Serving
        <5> QED
          BY <2>1, <5>1, <5>2
      <4>2. \A k \in j.keep : r[k] = row[k]
        BY <3>2, <3>4, <4>1
      <4> QED
        BY <3>4, <4>2 DEF Given
    <3>10. \A k, l \in DOMAIN n.items : n.items[k].type = n.items[l].type => k = l
      <4> SUFFICES ASSUME NEW k \in DOMAIN n.items, NEW l \in DOMAIN n.items, n.items[k].type = n.items[l].type PROVE k = l
        OBVIOUS
      <4>1. k \in Nat /\ l \in Nat /\ k + 1 \in DOMAIN j.items /\ l + 1 \in DOMAIN j.items
        BY <1>5, <2>3
      <4>2. j.items[k + 1].type = j.items[l + 1].type
        BY <1>5, <2>3
      <4>3. k + 1 = l + 1
        BY <1>4, <3>1, <4>1, <4>2 DEF Serving
      <4> QED
        BY <4>1, <4>3
    <3>11. \A k \in DOMAIN n.items : \A x \in P!Match(n.existing, n.items[k]) : n.existing[x] = n.items[k].type
      <4>1. \A k \in DOMAIN n.items : k + 1 \in DOMAIN j.items /\ n.items[k] = j.items[k + 1]
        BY <1>5, <2>3
      <4> QED
        BY <1>4, <2>3, <3>1, <4>1 DEF Serving
    <3>12. P!Rows(row) = P!Rows(j.existing) \cup j.keep
      BY <1>4, <3>1 DEF Serving
    <3>13. {r[k] : k \in n.keep} = n.asked \ TypesOf(n.items) /\ TypesOf(n.items) \subseteq n.asked
      <4>1. Given(j.keep) = j.asked \ TypesOf(j.items) /\ TypesOf(j.items) \subseteq j.asked
        BY <1>4, <3>1 DEF Serving
      <4> QED
        BY <2>3, <3>8, <3>9, <4>1
    <3> QED
      BY <2>3, <3>3, <3>6, <3>7, <3>10, <3>11, <3>12, <3>13 DEF Serving, Given
  <2>5. P!Goto(w, n)
    BY <2>1, <2>2
  <2>6. PolicyFits' /\ (PolicyAlone /\ ~P!Overlap' => PolicyAlone')
    BY <1>1, <1>4, <2>3, <2>4, <2>5, OnePolicy DEF PolicyFits
  <2> QED
    BY <1>4, <2>6 DEF PolicyGoesOn, P!AnsweredAsAsked
<1>9. \A i \in P!Match(j.existing, item) : i \in Ids
  BY DEF P!Match, P!Rows
<1>10. \A i \in P!Fresh : i \in Ids
  BY DEF P!Fresh
<1> QED
  BY <1>1, <1>2, <1>3, <1>7, <1>8, <1>9, <1>10 DEF P!Reconcile

LEMMA PolicyCounts ==
    ASSUME PolicyInv, PolicyFits, NEW w \in Workers, P!Kept(w) \/ \E i \in Ids : P!Count(w, i), UNCHANGED updated
    PROVE  PolicyGoesOn
<1>1. PICK j \in PolicyJobs : j = pjob[w]
  BY DEF PolicyInv
<1>2. j # P!NoJob /\ UNCHANGED <<row, used, answer>>
  BY <1>1, IdlePolicy DEF P!Kept, P!Count
<1>3. CASE P!Done(w)
  BY <1>2, <1>3, PolicyEnds DEF PolicyGoesOn, P!AnsweredAsAsked
<1>4. ASSUME NEW n, P!Goto(w, n), n.plain = j.plain, Serving(j) => Serving(n)
      PROVE  PolicyGoesOn
  <2>1. Serving(n)' <=> Serving(n)
    BY <1>2 DEF Serving, Given
  <2>2. PolicyAlone /\ j.plain => Serving(j)
    BY <1>1 DEF PolicyAlone
  <2>3. PolicyFits' /\ (PolicyAlone /\ ~P!Overlap' => PolicyAlone')
    BY <1>1, <1>2, <1>4, <2>1, <2>2, OnePolicy DEF PolicyFits
  <2> QED
    BY <1>2, <2>3 DEF PolicyGoesOn, P!AnsweredAsAsked
<1>5. CASE P!Kept(w)
  <2>1. PICK n : n = [j EXCEPT !.at = "count", !.drop = P!Rows(j.existing) \ j.keep]
    OBVIOUS
  <2>2. n.at = "count" /\ n.drop = P!Rows(j.existing) \ j.keep /\ n.asked = j.asked /\ n.plain = j.plain
    BY <2>1 DEF PolicyJobs
  <2>3. j.at = "items" /\ j.items = <<>> /\ P!Goto(w, n)
    BY <1>1, <1>5, <2>1 DEF P!Kept
  <2>4. ASSUME Serving(j) PROVE Serving(n)
    <3>1. TypesOf(j.items) = {}
      BY <2>3 DEF TypesOf
    <3>2. P!Rows(row) \ n.drop = j.keep
      BY <2>2, <2>3, <2>4 DEF Serving
    <3> QED
      BY <2>2, <2>3, <2>4, <3>1, <3>2 DEF Serving
  <2> QED
    BY <1>4, <2>2, <2>3, <2>4
<1>6. ASSUME NEW i \in Ids, P!Count(w, i), ~P!Done(w) PROVE PolicyGoesOn
  <2>1. PICK n : n = [j EXCEPT !.at = "delete", !.drop = @ \ {i}, !.keep = {i}]
    OBVIOUS
  <2>2. n.at = "delete" /\ n.drop = j.drop \ {i} /\ n.keep = {i} /\ n.asked = j.asked /\ n.plain = j.plain
    BY <2>1 DEF PolicyJobs
  <2>3. j.at = "count" /\ i \in j.drop /\ P!Goto(w, n)
    BY <1>1, <1>6, <2>1 DEF P!Count
  <2>4. n.drop \cup n.keep = j.drop
    BY <2>2, <2>3
  <2>5. Serving(j) => Serving(n)
    BY <2>2, <2>3, <2>4 DEF Serving
  <2> QED
    BY <1>4, <2>2, <2>3, <2>5
<1> QED
  BY <1>3, <1>5, <1>6

LEMMA PolicyDeletes ==
    ASSUME PolicyInv, PolicyFits, NEW w \in Workers, P!Delete(w), UNCHANGED updated
    PROVE  PolicyGoesOn
<1>1. PICK j \in PolicyJobs : j = pjob[w]
  BY DEF PolicyInv
<1>2. j # P!NoJob /\ j.at = "delete" /\ UNCHANGED <<used, answer>>
  BY <1>1, IdlePolicy DEF P!Delete
<1>3. CASE UNCHANGED row /\ P!Done(w)
  BY <1>2, <1>3, PolicyEnds DEF PolicyGoesOn, P!AnsweredAsAsked
<1>4. CASE /\ row' = [i \in Ids |-> IF i \in j.keep THEN "none" ELSE row[i]]
           /\ P!Goto(w, [j EXCEPT !.at = "count"])
  <2>1. PICK n : n = [j EXCEPT !.at = "count"]
    OBVIOUS
  <2>2. n.at = "count" /\ n.drop = j.drop /\ n.asked = j.asked /\ n.plain = j.plain
    BY <2>1 DEF PolicyJobs
  <2>3. ASSUME Serving(j) PROVE Serving(n)'
    <3>1. PICK r : r = row'
      OBVIOUS
    <3>2. \A i \in Ids : r[i] = IF i \in j.keep THEN "none" ELSE row[i]
      BY <1>4, <3>1
    <3>3. P!Rows(r) = P!Rows(row) \ j.keep
      BY <3>2 DEF P!Rows
    <3>4. P!Rows(r) \ n.drop = P!Rows(row) \ (j.drop \cup j.keep)
      BY <2>2, <3>3
    <3>5. {r[i] : i \in P!Rows(r) \ n.drop} = Given(P!Rows(row) \ (j.drop \cup j.keep))
      <4>1. \A i \in P!Rows(r) \ n.drop : r[i] = row[i]
        BY <3>2, <3>3 DEF P!Rows
      <4> QED
        BY <3>4, <4>1 DEF Given
    <3> QED
      BY <1>2, <2>2, <2>3, <3>1, <3>5 DEF Serving, Given
  <2>4. PolicyFits' /\ (PolicyAlone /\ ~P!Overlap' => PolicyAlone')
    <3>1. PolicyAlone /\ j.plain => Serving(n)'
      BY <1>1, <2>3 DEF PolicyAlone
    <3>2. P!Goto(w, n)
      BY <1>4, <2>1
    <3>3. updated \in Nat /\ updated' >= updated /\ updated > 0
      BY <1>1, <1>2 DEF PolicyFits
    <3> QED
      BY <1>1, <1>2, <2>2, <3>1, <3>2, <3>3, OnePolicy
  <2> QED
    BY <1>2, <2>4 DEF PolicyGoesOn, P!AnsweredAsAsked
<1> QED
  BY <1>1, <1>3, <1>4 DEF P!Delete

LEMMA PolicyRests ==
    ASSUME PolicyInv, PolicyFits, UNCHANGED <<pjob, answer, updated>>,
           UNCHANGED row \/ updated = 0
    PROVE  PolicyGoesOn
<1>1. PolicyFits'
  BY DEF PolicyFits
<1>2. ASSUME PolicyAlone PROVE PolicyAlone'
  <2>1. P!Overlap' <=> P!Overlap
    BY DEF P!Overlap
  <2>2. ASSUME NEW w \in Workers, pjob'[w].plain PROVE (Serving(pjob[w]))'
    <3>1. CASE UNCHANGED row
      BY <1>2, <2>2, <3>1 DEF PolicyAlone, Serving, Given
    <3>2. CASE updated = 0
      <4>1. pjob[w] = P!NoJob
        BY <3>2 DEF PolicyFits
      <4> QED
        BY <4>1, IdleServes
    <3> QED
      BY <3>1, <3>2
  <2> QED
    BY <1>2, <2>1, <2>2 DEF PolicyAlone
<1> QED
  BY <1>1, <1>2 DEF PolicyGoesOn, P!AnsweredAsAsked

LEMMA PoliciesKeep == ASSUME PolicyInv, PolicyFits, P!Next PROVE PolicyGoesOn
<1>0. "none" \notin Types
  BY OrgAssumption
<1>1. ASSUME NEW i \in Ids, P!Use(i) \/ \E t \in Types : P!Create(i, t) PROVE PolicyGoesOn
  BY <1>1, PolicyRests DEF P!Use, P!Create
<1>2. ASSUME NEW w \in Workers, P!Fail(w), UNCHANGED updated PROVE PolicyGoesOn
  BY <1>2, PolicyEnds DEF P!Fail, PolicyGoesOn, P!AnsweredAsAsked
<1> QED
  BY <1>0, <1>1, <1>2, PolicyUpdates, PolicyReconciles, PolicyCounts, PolicyDeletes, PolicyAnswers DEF P!Next

-----------------------------------------------------------------------------
(* ROLES *)

(* What a request works on was there when it read.                         *)
RolesTyped ==
    /\ R!TypeOK
    /\ \A w \in Workers : /\ rpc[w] = "create" => rjob[w].name \in Names
                          /\ rpc[w] \in {"update", "remove", "assign"} => rjob[w].id \in Ids
                          /\ rpc[w] = "assign" => rjob[w].user \in Holders
    /\ pass.names \subseteq DOMAIN R!Canonical
    /\ pass.name \in DOMAIN R!Canonical \cup {"NONE"}
    /\ pass.name = "NONE" => pass.id = NoId

(* A canonical role is there and has all that the release gives it.        *)
Refreshed(n) == \E r \in Ids : /\ role[r].name = n
                               /\ "all" \in role[r].perms \/ R!Canonical[n] \subseteq role[r].perms

(* While nothing else is under way, what a removal or the refresh has read *)
(* is so still.                                                            *)
RolesAlone ==
    /\ ~R!Overlap
    /\ \A w \in Workers : rpc[w] = "remove" => R!Having(rjob[w].id) = {}
    /\ pass # R!NoPass => R!Fresh # Ids /\ \A n \in DOMAIN R!Canonical \ pass.names : Refreshed(n)
    /\ pass.name # "NONE" =>
          /\ pass.name \in pass.names
          /\ IF pass.id = NoId THEN R!Named(pass.name) = {}
             ELSE role[pass.id].name = pass.name /\ role[pass.id].perms = pass.perms

RolesGoOn ==
    /\ RolesTyped'
    /\ RolesAlone /\ ~R!Overlap' => RolesAlone' /\ R!NothingIsTaken /\ R!RefreshCompletes

LEMMA CanonicalIsTyped ==
    ASSUME RolesTyped
    PROVE  /\ release \in {1, 2} /\ DOMAIN R!Canonical \subseteq Names
           /\ \A n \in DOMAIN R!Canonical : R!Canonical[n] \subseteq {"p", "q", "all"}
<1>1. release \in {1, 2}
  BY DEF RolesTyped, R!TypeOK, TwoReleases
<1>2. CASE release = 1
  <2>1. R!Canonical = [n \in {"admin"} |-> {"all"}]
    BY <1>2 DEF R!Canonical, TwoReleases
  <2> QED
    BY <1>2, <2>1, OrgAssumption
<1>3. CASE release = 2
  <2>1. R!Canonical = [n \in {"admin", "it"} |-> IF n = "admin" THEN {"all"} ELSE {"p"}]
    BY <1>3 DEF R!Canonical, TwoReleases
  <2> QED
    BY <1>3, <2>1, OrgAssumption
<1> QED
  BY <1>1, <1>2, <1>3

LEMMA RoleIdle ==
    /\ R!NoJob.id = NoId /\ R!NoJob.user = NoUser /\ R!NoJob.name = "NONE" /\ R!NoJob.perms = {}
    /\ R!NoPass.names = {} /\ R!NoPass.name = "NONE" /\ R!NoPass.id = NoId /\ R!NoPass.perms = {}
    /\ R!NoRole.name = "NONE" /\ R!NoRole.perms = {} /\ R!NoRole.system = FALSE
    /\ R!NoJob \in [id : Ids \cup {NoId}, user : Holders \cup {NoUser},
                    name : Names \cup {"NONE"}, perms : SUBSET {"p", "q", "all"}]
    /\ R!NoPass \in [names : SUBSET Names, name : Names \cup {"NONE"}, id : Ids \cup {NoId},
                     perms : SUBSET {"p", "q", "all"}]
    /\ R!NoRole \in R!Roles
BY DEF R!NoJob, R!NoPass, R!NoRole, R!Roles

LEMMA RoleStart == R!Init => RolesTyped /\ RolesAlone
<1> SUFFICES ASSUME R!Init PROVE RolesTyped /\ RolesAlone
  OBVIOUS
<1>1. R!TypeOK
  <2>1. release \in DOMAIN TwoReleases
    BY DEF R!Init, TwoReleases
  <2> QED
    BY <2>1, RoleIdle DEF R!Init, R!TypeOK
<1>2. RolesTyped
  BY <1>1, RoleIdle DEF R!Init, RolesTyped
<1>3. RolesAlone
  BY RoleIdle DEF R!Init, RolesAlone, R!Overlap
<1> QED
  BY <1>2, <1>3

(* Who loses no role and no permission of theirs may what they might.      *)
LEMMA NoneIsTaken ==
    ASSUME \A u \in Holders, r \in Ids : <<u, r>> \in has =>
              /\ <<u, r>> \in has'
              /\ role[r].perms \subseteq role'[r].perms \/ "all" \in role'[r].perms
    PROVE  R!NothingIsTaken
<1> SUFFICES ASSUME NEW u \in Holders, NEW p \in {"p", "q", "all"}, R!May(u, p) PROVE R!May(u, p)'
  BY DEF R!NothingIsTaken
<1>1. \A x : x \in R!Effective(u) <=> \E r \in Ids : <<u, r>> \in has /\ x \in role[r].perms
  BY DEF R!Effective
<1>2. \A x : x \in R!Effective(u)' <=> \E r \in Ids : <<u, r>> \in has' /\ x \in role'[r].perms
  BY DEF R!Effective
<1>3. PICK r \in Ids, x \in {"all", p} : <<u, r>> \in has /\ x \in role[r].perms
  BY <1>1 DEF R!May
<1>4. <<u, r>> \in has' /\ (x \in role'[r].perms \/ "all" \in role'[r].perms)
  BY <1>3
<1> QED
  BY <1>2, <1>3, <1>4 DEF R!May

LEMMA NoneIsDeleted ==
    ASSUME UNCHANGED pass, \A r \in Ids : R!Exists(r) => role'[r].name # "DELETED"
    PROVE  R!NothingIsTaken
BY DEF R!NothingIsTaken, R!Deleted

LEMMA NoPassEnds == UNCHANGED pass => R!RefreshCompletes
BY RoleIdle DEF R!RefreshCompletes, R!LastOne

(* A request that is not alone, or not without the refresh, meets it.      *)
LEMMA OneRequest ==
    ASSUME ~R!Overlap, NEW w \in Workers, rpc[w] # "idle"
    PROVE  pass = R!NoPass /\ \A v \in Workers \ {w} : rpc[v] = "idle"
BY DEF R!Overlap

LEMMA RefreshIsAlone ==
    ASSUME ~R!Overlap, pass # R!NoPass
    PROVE  \A v \in Workers : rpc[v] = "idle"
BY DEF R!Overlap

(* A request begins.                                                       *)
LEMMA RoleAsked ==
    ASSUME RolesTyped, NEW w \in Workers, NEW to \in {"create", "update", "remove", "assign"}, NEW j,
           R!Read(w, to, j),
           j \in [id : Ids \cup {NoId}, user : Holders \cup {NoUser},
                  name : Names \cup {"NONE"}, perms : SUBSET {"p", "q", "all"}],
           to = "create" => j.name \in Names,
           to \in {"update", "remove", "assign"} => j.id \in Ids,
           to = "assign" => j.user \in Holders,
           to = "remove" => R!Having(j.id) = {}
    PROVE  RolesGoOn
<1>1. /\ rpc' = [rpc EXCEPT ![w] = to] /\ rjob' = [rjob EXCEPT ![w] = j]
      /\ UNCHANGED <<release, role, has, pass>>
  BY DEF R!Read, R!Goto
<1>2. rpc \in [Workers -> {"idle", "create", "update", "remove", "assign"}] /\ DOMAIN rjob = Workers
  BY DEF RolesTyped, R!TypeOK
<1>3. rpc'[w] = to /\ rjob'[w] = j /\ \A v \in Workers \ {w} : rpc'[v] = rpc[v] /\ rjob'[v] = rjob[v]
  BY <1>1, <1>2
<1>4. R!TypeOK'
  BY <1>1, <1>2 DEF RolesTyped, R!TypeOK
<1>5. RolesTyped'
  BY <1>1, <1>3, <1>4 DEF RolesTyped, R!Canonical
<1>6. R!NothingIsTaken
  BY <1>1, NoneIsTaken
<1>7. R!RefreshCompletes
  BY <1>1, NoPassEnds
<1>8. ASSUME ~R!Overlap' PROVE RolesAlone'
  <2>1. pass = R!NoPass /\ \A v \in Workers \ {w} : rpc'[v] = "idle"
    BY <1>1, <1>3, <1>8 DEF R!Overlap
  <2>2. pass.name = "NONE" /\ pass' = R!NoPass
    BY <1>1, <2>1, RoleIdle
  <2>4. ASSUME NEW v \in Workers, rpc'[v] = "remove" PROVE R!Having(rjob[v].id)' = {}
    <3>1. v = w /\ rjob'[v] = j
      BY <1>3, <2>1, <2>4
    <3> QED
      BY <1>1, <1>3, <2>4, <3>1 DEF R!Having
  <2> QED
    BY <1>1, <1>8, <2>1, <2>2, <2>4 DEF RolesAlone
<1> QED
  BY <1>5, <1>6, <1>7, <1>8 DEF RolesGoOn

(* A request ends.                                                         *)
LEMMA RoleWritten ==
    ASSUME RolesTyped, NEW w \in Workers, rpc[w] # "idle", R!Finish(w), UNCHANGED <<release, pass>>,
           role' \in [Ids -> R!Roles], has' \subseteq Holders \X Ids,
           RolesAlone => R!NothingIsTaken
    PROVE  RolesGoOn
<1>1. rpc' = [rpc EXCEPT ![w] = "idle"] /\ rjob' = [rjob EXCEPT ![w] = R!NoJob]
  BY DEF R!Finish, R!Goto
<1>2. rpc \in [Workers -> {"idle", "create", "update", "remove", "assign"}] /\ DOMAIN rjob = Workers
  BY DEF RolesTyped, R!TypeOK
<1>3. rpc'[w] = "idle" /\ \A v \in Workers \ {w} : rpc'[v] = rpc[v] /\ rjob'[v] = rjob[v]
  BY <1>1, <1>2
<1>4. R!TypeOK'
  BY <1>1, <1>2, RoleIdle DEF RolesTyped, R!TypeOK
<1>5. RolesTyped'
  BY <1>3, <1>4 DEF RolesTyped, R!Canonical
<1>6. R!RefreshCompletes
  BY NoPassEnds
<1>7. ASSUME RolesAlone PROVE RolesAlone'
  <2>1. pass' = R!NoPass /\ \A v \in Workers : rpc'[v] = "idle"
    BY <1>3, <1>7, OneRequest DEF RolesAlone
  <2>2. pass'.name = "NONE"
    BY <2>1, RoleIdle
  <2>3. ~R!Overlap'
    BY <2>1 DEF R!Overlap
  <2> QED
    BY <2>1, <2>2, <2>3 DEF RolesAlone
<1> QED
  BY <1>5, <1>6, <1>7 DEF RolesGoOn

LEMMA RoleCreates == ASSUME RolesTyped, NEW w \in Workers, R!CreateWrite(w) PROVE RolesGoOn
<1>1. rpc[w] = "create" /\ R!Finish(w) /\ UNCHANGED <<release, has, pass>>
  BY DEF R!CreateWrite
<1>2. rjob[w].name \in Names /\ rjob[w].perms \subseteq {"p", "q", "all"}
  BY <1>1 DEF RolesTyped, R!TypeOK
<1> DEFINE new == [name |-> rjob[w].name, perms |-> rjob[w].perms, system |-> FALSE]
<1>3. new \in R!Roles /\ new.name # "DELETED"
  BY <1>2, OrgAssumption DEF R!Roles
<1>4. UNCHANGED role \/ \E r \in Ids : role' = [role EXCEPT ![r] = new]
  BY DEF R!CreateWrite, R!Insert, R!Fresh
<1>5. role \in [Ids -> R!Roles] /\ has \subseteq Holders \X Ids
  BY DEF RolesTyped, R!TypeOK
<1>6. role' \in [Ids -> R!Roles]
  BY <1>3, <1>4, <1>5
<1>7. \A r \in Ids : R!Exists(r) => role'[r].name # "DELETED"
  BY <1>3, <1>4, <1>5 DEF R!Exists, R!Deleted
<1> QED
  BY <1>1, <1>5, <1>6, <1>7, NoneIsDeleted, RoleWritten

LEMMA RoleUpdates == ASSUME RolesTyped, NEW w \in Workers, R!UpdateWrite(w) PROVE RolesGoOn
<1> DEFINE i == rjob[w].id
           n == IF rjob[w].name = "NONE" THEN role[i].name ELSE rjob[w].name
           Q == IF rjob[w].perms = {} THEN role[i].perms ELSE rjob[w].perms
<1>1. /\ rpc[w] = "update" /\ R!Finish(w) /\ UNCHANGED <<release, has, pass>>
      /\ role' = role \/ (R!Exists(i) /\ role' = [role EXCEPT ![i].name = n, ![i].perms = Q])
  BY DEF R!UpdateWrite
<1>2. /\ rjob[w].name \in Names \cup {"NONE"} /\ rjob[w].perms \subseteq {"p", "q", "all"}
      /\ role \in [Ids -> R!Roles] /\ has \subseteq Holders \X Ids /\ i \in Ids
  BY <1>1 DEF RolesTyped, R!TypeOK
<1>3. PICK o : o = role[i]
  OBVIOUS
<1>4. o \in R!Roles
  BY <1>2, <1>3
<1>5. PICK x : x = [o EXCEPT !.name = n, !.perms = Q]
  OBVIOUS
<1>6. n \in Names \cup {"NONE", "DELETED"} /\ Q \subseteq {"p", "q", "all"} /\ (R!Exists(i) => n # "DELETED")
  BY <1>2, <1>3, <1>4, OrgAssumption DEF R!Roles, R!Exists, R!Deleted
<1>7. x \in R!Roles /\ x.name = n
  BY <1>4, <1>5, <1>6 DEF R!Roles, R!Deleted
<1>8. role' = role \/ (R!Exists(i) /\ role' = [role EXCEPT ![i] = x])
  BY <1>1, <1>2, <1>3, <1>5
<1>9. role' \in [Ids -> R!Roles]
  BY <1>2, <1>7, <1>8
<1>10. \A r \in Ids : R!Exists(r) => role'[r].name # "DELETED"
  BY <1>2, <1>6, <1>7, <1>8 DEF R!Exists, R!Deleted
<1> QED
  BY <1>1, <1>2, <1>9, <1>10, NoneIsDeleted, RoleWritten

LEMMA RoleRemoves == ASSUME RolesTyped, NEW w \in Workers, R!RemoveWrite(w) PROVE RolesGoOn
<1> DEFINE i == rjob[w].id
<1>1. /\ rpc[w] = "remove" /\ R!Finish(w) /\ UNCHANGED <<release, pass>>
      /\ role' = [role EXCEPT ![i] = [R!NoRole EXCEPT !.name = "DELETED"]]
      /\ has' = {p \in has : p[2] # i}
  BY DEF R!RemoveWrite, R!Deleted
<1>2. role \in [Ids -> R!Roles] /\ has \subseteq Holders \X Ids /\ i \in Ids
  BY <1>1 DEF RolesTyped, R!TypeOK
<1>3. [R!NoRole EXCEPT !.name = "DELETED"] \in R!Roles
  BY DEF R!NoRole, R!Roles, R!Deleted
<1>4. role' \in [Ids -> R!Roles] /\ has' \subseteq Holders \X Ids
  BY <1>1, <1>2, <1>3
<1>5. ASSUME RolesAlone, NEW u \in Holders, NEW r \in Ids, <<u, r>> \in has
      PROVE  <<u, r>> \in has' /\ role'[r] = role[r]
  <2>1. r # i
    BY <1>1, <1>5 DEF RolesAlone, R!Having
  <2> QED
    BY <1>1, <1>2, <1>5, <2>1
<1>6. RolesAlone => R!NothingIsTaken
  BY <1>5, NoneIsTaken
<1> QED
  BY <1>1, <1>4, <1>6, RoleWritten

LEMMA RoleAssigns == ASSUME RolesTyped, NEW w \in Workers, R!AssignWrite(w) PROVE RolesGoOn
<1>1. rpc[w] = "assign" /\ R!Finish(w) /\ UNCHANGED <<release, role, pass>>
  BY DEF R!AssignWrite
<1>2. role \in [Ids -> R!Roles] /\ has \subseteq Holders \X Ids /\ rjob[w].id \in Ids /\ rjob[w].user \in Holders
  BY <1>1 DEF RolesTyped, R!TypeOK
<1>3. has' \subseteq Holders \X Ids /\ has \subseteq has'
  BY <1>2 DEF R!AssignWrite
<1>4. R!NothingIsTaken
  BY <1>1, <1>3, NoneIsTaken
<1> QED
  BY <1>1, <1>2, <1>3, <1>4, RoleWritten

-----------------------------------------------------------------------------
(* Registration and the refresh.                                           *)

LEMMA RoleTakenAway ==
    ASSUME RolesTyped, NEW u \in Holders, NEW r \in Ids, R!RemoveRole(u, r) PROVE RolesGoOn
<1>1. UNCHANGED <<release, role, rpc, rjob, pass>> /\ has' \subseteq has
  BY DEF R!RemoveRole
<1>2. RolesTyped'
  BY <1>1 DEF RolesTyped, R!TypeOK, R!Canonical
<1>3. R!NothingIsTaken
  BY <1>1, NoneIsDeleted DEF R!Exists, R!Deleted
<1>4. R!RefreshCompletes
  BY <1>1, NoPassEnds
<1>5. ASSUME RolesAlone PROVE RolesAlone'
  <2>1. \A x : R!Having(x)' \subseteq R!Having(x)
    BY <1>1 DEF R!Having
  <2>2. R!Fresh' = R!Fresh /\ R!Canonical' = R!Canonical /\ (R!Overlap' <=> R!Overlap)
    BY <1>1 DEF R!Fresh, R!Canonical, R!Overlap
  <2>3. \A n : (Refreshed(n)' <=> Refreshed(n)) /\ R!Named(n)' = R!Named(n)
    BY <1>1 DEF Refreshed, R!Canonical, R!Named
  <2> QED
    BY <1>1, <1>5, <2>1, <2>2, <2>3 DEF RolesAlone
<1> QED
  BY <1>2, <1>3, <1>4, <1>5 DEF RolesGoOn

LEMMA RolesSeeded == ASSUME RolesTyped, R!Register PROVE RolesGoOn
<1>1. R!Fresh = Ids /\ UNCHANGED <<release, has, rpc, rjob, pass>>
  BY DEF R!Register
<1>2. PICK id \in [DOMAIN R!Canonical -> Ids] :
        role' = [r \in Ids |->
                IF r \in R!Range(id)
                THEN LET n == CHOOSE m \in DOMAIN id : id[m] = r
                     IN [name |-> n, perms |-> R!Canonical[n], system |-> TRUE]
                ELSE R!NoRole]
  BY DEF R!Register
<1>3. ASSUME NEW r \in Ids, r \in R!Range(id)
      PROVE  role'[r] \in R!Roles
  <2>1. PICK n : n = CHOOSE m \in DOMAIN id : id[m] = r
    OBVIOUS
  <2>2. n \in DOMAIN R!Canonical
    BY <1>3, <2>1 DEF R!Range
  <2>3. role'[r] = [name |-> n, perms |-> R!Canonical[n], system |-> TRUE]
    BY <1>2, <1>3, <2>1
  <2> QED
    BY <2>2, <2>3, CanonicalIsTyped DEF R!Roles
<1>4. \A r \in Ids : role'[r] \in R!Roles
  BY <1>2, <1>3, RoleIdle
<1>5. R!TypeOK'
  BY <1>1, <1>2, <1>4 DEF RolesTyped, R!TypeOK
<1>6. RolesTyped'
  BY <1>1, <1>5 DEF RolesTyped, R!Canonical
<1>7. \A r \in Ids : ~R!Exists(r)
  BY <1>1, RoleIdle DEF R!Fresh, R!Exists
<1>8. R!NothingIsTaken /\ R!RefreshCompletes
  BY <1>1, <1>7, NoneIsDeleted, NoPassEnds
<1>9. ASSUME RolesAlone PROVE RolesAlone'
  <2>1. pass = R!NoPass /\ pass.name = "NONE"
    BY <1>1, <1>9, RoleIdle DEF RolesAlone
  <2>2. (R!Overlap' <=> R!Overlap) /\ \A x : R!Having(x)' = R!Having(x)
    BY <1>1 DEF R!Overlap, R!Having
  <2> QED
    BY <1>1, <1>9, <2>1, <2>2 DEF RolesAlone
<1> QED
  BY <1>6, <1>8, <1>9 DEF RolesGoOn

LEMMA RefreshBegins == ASSUME RolesTyped, R!Refresh PROVE RolesGoOn
<1>1. /\ pass = R!NoPass /\ R!Fresh # Ids /\ UNCHANGED <<release, role, has, rpc, rjob>>
      /\ pass' = [R!NoPass EXCEPT !.names = DOMAIN R!Canonical]
  BY DEF R!Refresh
<1>2. pass'.names = DOMAIN R!Canonical /\ pass'.name = "NONE" /\ pass'.id = NoId /\ pass'.perms = {}
  BY <1>1 DEF R!NoPass
<1>3. pass' \in [names : SUBSET Names, name : Names \cup {"NONE"}, id : Ids \cup {NoId},
                 perms : SUBSET {"p", "q", "all"}]
  BY <1>1, CanonicalIsTyped DEF R!NoPass
<1>4. RolesTyped'
  BY <1>1, <1>2, <1>3 DEF RolesTyped, R!TypeOK, R!Canonical
<1>5. R!NothingIsTaken
  BY <1>1, NoneIsTaken
<1>6. R!RefreshCompletes
  BY <1>1, RoleIdle DEF R!RefreshCompletes, R!LastOne
<1>7. ASSUME RolesAlone, ~R!Overlap' PROVE RolesAlone'
  <2>1. R!Fresh' = R!Fresh /\ R!Canonical' = R!Canonical /\ \A x : R!Having(x)' = R!Having(x)
    BY <1>1 DEF R!Fresh, R!Canonical, R!Having
  <2> QED
    BY <1>1, <1>2, <1>7, <2>1 DEF RolesAlone
<1> QED
  BY <1>4, <1>5, <1>6, <1>7 DEF RolesGoOn

LEMMA RefreshReads == ASSUME RolesTyped, NEW n \in Names, R!RefreshRead(n) PROVE RolesGoOn
<1>1. /\ n \in pass.names /\ pass.name = "NONE" /\ UNCHANGED <<release, role, has, rpc, rjob>>
      /\ \/ \E r \in R!Named(n) : pass' = [pass EXCEPT !.name = n, !.id = r, !.perms = role[r].perms]
         \/ R!Named(n) = {} /\ pass' = [pass EXCEPT !.name = n]
  BY DEF R!RefreshRead
<1>2. PICK t \in [names : SUBSET Names, name : Names \cup {"NONE"}, id : Ids \cup {NoId},
                 perms : SUBSET {"p", "q", "all"}] : t = pass
  BY DEF RolesTyped, R!TypeOK
<1>3. role \in [Ids -> R!Roles]
  BY DEF RolesTyped, R!TypeOK
<1>4. PICK t2 : t2 = pass'
  OBVIOUS
<1>5. /\ t2.names = t.names /\ t2.name = n
      /\ t2 \in [names : SUBSET Names, name : Names \cup {"NONE"}, id : Ids \cup {NoId},
                 perms : SUBSET {"p", "q", "all"}]
      /\ \/ t2.id \in R!Named(n) /\ t2.perms = role[t2.id].perms
         \/ R!Named(n) = {} /\ t2.id = t.id
  <2>1. CASE R!Named(n) = {} /\ t2 = [t EXCEPT !.name = n]
    BY <2>1, <1>2
  <2>2. ASSUME NEW r \in R!Named(n), t2 = [t EXCEPT !.name = n, !.id = r, !.perms = role[r].perms]
        PROVE  <1>5!:
    <3>1. r \in Ids /\ role[r].perms \subseteq {"p", "q", "all"}
      BY <1>3, <2>2 DEF R!Named, R!Roles
    <3> QED
      BY <1>2, <2>2, <3>1
  <2> QED
    BY <1>1, <1>2, <1>4, <2>1, <2>2
<1>6. t.names \subseteq DOMAIN R!Canonical
  BY <1>2 DEF RolesTyped
<1>a. R!TypeOK'
  BY <1>1, <1>4, <1>5 DEF RolesTyped, R!TypeOK
<1>b. n \in DOMAIN R!Canonical /\ n # "NONE" /\ UNCHANGED R!Canonical
  BY <1>1, <1>2, <1>6, OrgAssumption DEF R!Canonical
<1>7. RolesTyped'
  BY <1>1, <1>a, <1>b, <1>4, <1>5, <1>6 DEF RolesTyped
<1>8. R!NothingIsTaken
  BY <1>1, NoneIsTaken
<1>9. R!RefreshCompletes
  BY <1>1 DEF R!RefreshCompletes, R!LastOne
<1>10. ASSUME RolesAlone, ~R!Overlap' PROVE RolesAlone'
  <2>1. R!Fresh' = R!Fresh /\ R!Canonical' = R!Canonical /\ \A x : R!Having(x)' = R!Having(x)
    BY <1>1 DEF R!Fresh, R!Canonical, R!Having
  <2>2. \A m : (Refreshed(m)' <=> Refreshed(m)) /\ R!Named(m)' = R!Named(m)
    BY <1>1 DEF Refreshed, R!Canonical, R!Named
  <2>3. pass # R!NoPass
    BY <1>1, RoleIdle
  <2>4. t2.id # NoId => t2.id \in R!Named(n) /\ t2.perms = role[t2.id].perms
    BY <1>1, <1>2, <1>5 DEF RolesTyped
  <2>5. t2.id = NoId => R!Named(n) = {}
    BY <1>5, OrgAssumption DEF R!Named
  <2>6. t2.id # NoId => role[t2.id].name = n
    BY <2>4 DEF R!Named
  <2> QED
    BY <1>1, <1>2, <1>4, <1>5, <1>10, <2>1, <2>2, <2>3, <2>4, <2>5, <2>6 DEF RolesAlone
<1> QED
  BY <1>7, <1>8, <1>9, <1>10 DEF RolesGoOn
(* What a canonical role has after its turn.                               *)
LEMMA MergedHasAll ==
    ASSUME NEW Had, NEW Due
    PROVE  /\ Had \subseteq R!Merged(Had, Due) \/ "all" \in R!Merged(Had, Due)
           /\ Due \subseteq R!Merged(Had, Due) \/ "all" \in R!Merged(Had, Due)
           /\ R!Merged(Had, Due) \subseteq Had \cup Due
BY DEF R!Merged

LEMMA RefreshWrites == ASSUME RolesTyped, R!RefreshWrite PROVE RolesGoOn
<1> DEFINE n == pass.name
           new == R!Merged(pass.perms, R!Canonical[n])
           lost == IF pass.id = NoId THEN R!Named(n) # {} ELSE new # pass.perms /\ ~R!Exists(pass.id)
           fresh == [name |-> n, perms |-> R!Canonical[n], system |-> TRUE]
<1>1. /\ n # "NONE" /\ UNCHANGED <<release, has, rpc, rjob>>
      /\ pass.id = NoId => R!Insert(n, R!Canonical[n], TRUE)
      /\ pass.id # NoId => role' = IF lost \/ new = pass.perms THEN role ELSE [role EXCEPT ![pass.id].perms = new]
      /\ pass' = IF lost THEN R!NoPass ELSE [R!NoPass EXCEPT !.names = pass.names \ {n}]
  BY DEF R!RefreshWrite
<1>2. /\ pass.id \in Ids \cup {NoId} /\ pass.perms \subseteq {"p", "q", "all"} /\ n \in DOMAIN R!Canonical
      /\ pass.names \subseteq DOMAIN R!Canonical /\ role \in [Ids -> R!Roles]
  BY <1>1 DEF RolesTyped, R!TypeOK
<1>3. R!Canonical[n] \subseteq {"p", "q", "all"} /\ n \in Names /\ DOMAIN R!Canonical \subseteq Names
  BY <1>2, CanonicalIsTyped
<1>4. new \subseteq {"p", "q", "all"}
  BY <1>2, <1>3, MergedHasAll
<1>5. fresh \in R!Roles
  BY <1>3 DEF R!Roles
<1>6. ASSUME pass.id \in Ids
      PROVE  /\ [role[pass.id] EXCEPT !.perms = new] \in R!Roles
             /\ [role[pass.id] EXCEPT !.perms = new].perms = new
             /\ [role[pass.id] EXCEPT !.perms = new].name = role[pass.id].name
  BY <1>2, <1>4, <1>6 DEF R!Roles
<1>7. /\ pass.id = NoId => UNCHANGED role \/ \E r \in R!Fresh : role' = [role EXCEPT ![r] = fresh]
      /\ pass.id = NoId /\ R!Named(n) = {} => \E r \in R!Fresh : role' = [role EXCEPT ![r] = fresh]
  BY <1>1 DEF R!Insert
<1>8. role' \in [Ids -> R!Roles]
  <2>1. CASE pass.id = NoId
    BY <1>2, <1>5, <1>7, <2>1 DEF R!Fresh
  <2>2. CASE pass.id # NoId
    BY <1>1, <1>2, <1>6, <2>2
  <2> QED
    BY <2>1, <2>2
<1>9. /\ pass' \in [names : SUBSET Names, name : Names \cup {"NONE"}, id : Ids \cup {NoId},
                    perms : SUBSET {"p", "q", "all"}]
      /\ pass'.name = "NONE" /\ pass'.id = NoId
      /\ pass'.names = IF lost THEN {} ELSE pass.names \ {n}
  <2>1. [R!NoPass EXCEPT !.names = pass.names \ {n}] \in
          [names : SUBSET Names, name : Names \cup {"NONE"}, id : Ids \cup {NoId}, perms : SUBSET {"p", "q", "all"}]
    BY <1>2, <1>3, RoleIdle
  <2> QED
    BY <1>1, <2>1, RoleIdle DEF R!NoPass
<1>10. R!TypeOK'
  BY <1>1, <1>8, <1>9 DEF RolesTyped, R!TypeOK
<1>11. RolesTyped'
  BY <1>1, <1>2, <1>9, <1>10 DEF RolesTyped, R!Canonical
<1>12. ASSUME RolesAlone
       PROVE  RolesAlone' /\ R!NothingIsTaken /\ R!RefreshCompletes
  <2>1. /\ n \in pass.names /\ pass # R!NoPass
        /\ IF pass.id = NoId THEN R!Named(n) = {}
           ELSE role[pass.id].name = n /\ role[pass.id].perms = pass.perms
    BY <1>1, <1>12, RoleIdle DEF RolesAlone
  <2>2. ~lost
    BY <1>3, <2>1, OrgAssumption DEF R!Exists, R!Deleted
  <2>3. PICK r \in Ids : /\ \A i \in Ids \ {r} : role'[i] = role[i]
                         /\ role'[r].name = n
                         /\ R!Canonical[n] \subseteq role'[r].perms \/ "all" \in role'[r].perms
                         /\ role[r].perms \subseteq role'[r].perms \/ "all" \in role'[r].perms
                         /\ role[r].name \in {n, "NONE"}
    <3>1. CASE pass.id = NoId
      <4>1. PICK r \in R!Fresh : role' = [role EXCEPT ![r] = fresh]
        BY <1>7, <2>1, <3>1
      <4>2. r \in Ids /\ role[r].perms = {} /\ role[r].name = "NONE"
        BY <4>1, RoleIdle DEF R!Fresh
      <4>3. role'[r] = fresh /\ \A i \in Ids \ {r} : role'[i] = role[i]
        BY <1>2, <4>1, <4>2
      <4> QED
        BY <4>2, <4>3
    <3>2. CASE pass.id # NoId
      <4>1. pass.id \in Ids /\ role[pass.id].name = n /\ role[pass.id].perms = pass.perms
        BY <1>2, <2>1, <3>2
      <4>2. \A i \in Ids \ {pass.id} : role'[i] = role[i]
        BY <1>1, <1>2, <3>2
      <4>3. role'[pass.id].name = n /\ role'[pass.id].perms = new
        BY <1>1, <1>2, <1>6, <2>2, <3>2, <4>1
      <4> QED
        BY <4>1, <4>2, <4>3, MergedHasAll
    <3> QED
      BY <3>1, <3>2
  <2>4. R!NothingIsTaken
    BY <1>1, <2>3, NoneIsTaken
  <2>5. \A m \in DOMAIN R!Canonical \ pass.names : Refreshed(m)
    BY <1>12, <2>1 DEF RolesAlone
  <2>6. R!Canonical' = R!Canonical
    BY <1>1 DEF R!Canonical
  <2>7. ASSUME NEW m \in DOMAIN R!Canonical, m \notin pass.names \ {n}
        PROVE  \E i \in Ids : /\ role'[i].name = m
                              /\ "all" \in role'[i].perms \/ R!Canonical[m] \subseteq role'[i].perms
    <3>1. CASE m = n
      BY <2>3, <3>1
    <3>2. CASE m # n
      <4>1. PICK i \in Ids : role[i].name = m /\ ("all" \in role[i].perms \/ R!Canonical[m] \subseteq role[i].perms)
        BY <2>5, <2>7, <3>2 DEF Refreshed
      <4>2. i # r
        BY <1>3, <2>3, <2>7, <3>2, <4>1, OrgAssumption
      <4> QED
        BY <2>3, <4>1, <4>2
    <3> QED
      BY <3>1, <3>2
  <2>8. \A m \in DOMAIN R!Canonical : m \notin pass.names \ {n} => Refreshed(m)'
    BY <2>6, <2>7 DEF Refreshed
  <2>9. R!RefreshCompletes
    BY <2>7 DEF R!RefreshCompletes, R!LastOne
  <2>10. ~R!Overlap' /\ \A v \in Workers : rpc'[v] = "idle"
    <3>1. \A v \in Workers : rpc[v] = "idle"
      BY <1>12, <2>1, RefreshIsAlone DEF RolesAlone
    <3> QED
      BY <1>1, <3>1 DEF R!Overlap
  <2>11. R!Fresh' # Ids
    <3>1. r \notin R!Fresh'
      BY <1>3, <2>3, OrgAssumption, RoleIdle DEF R!Fresh
    <3> QED
      BY <3>1
  <2>12. pass'.names = pass.names \ {n} /\ pass'.name = "NONE"
    BY <1>9, <2>2
  <2>13. RolesAlone'
    BY <2>6, <2>8, <2>10, <2>11, <2>12 DEF RolesAlone
  <2> QED
    BY <2>4, <2>9, <2>13
<1> QED
  BY <1>11, <1>12 DEF RolesGoOn

LEMMA ReleaseDeployed == ASSUME RolesTyped, R!Deploy PROVE RolesGoOn
<1>1. /\ release < Len(TwoReleases) /\ release' = release + 1
      /\ rpc' = [w \in Workers |-> "idle"] /\ rjob' = [w \in Workers |-> R!NoJob]
      /\ pass' = R!NoPass /\ UNCHANGED <<role, has>>
  BY DEF R!Deploy
<1>2. release \in {1, 2} /\ Len(TwoReleases) = 2 /\ DOMAIN TwoReleases = {1, 2}
  BY CanonicalIsTyped DEF TwoReleases
<1>3. release' \in DOMAIN TwoReleases /\ release' # release
  BY <1>1, <1>2
<1>4. R!TypeOK'
  BY <1>1, <1>3, RoleIdle DEF RolesTyped, R!TypeOK
<1>5. pass'.names = {} /\ pass'.name = "NONE" /\ pass'.id = NoId
  BY <1>1, RoleIdle
<1>6. RolesTyped'
  BY <1>1, <1>4, <1>5 DEF RolesTyped
<1>7. RolesAlone'
  BY <1>1, <1>5 DEF RolesAlone, R!Overlap
<1>8. R!NothingIsTaken
  BY <1>1, NoneIsTaken
<1>9. R!RefreshCompletes
  BY <1>3 DEF R!RefreshCompletes
<1> QED
  BY <1>6, <1>7, <1>8, <1>9 DEF RolesGoOn

LEMMA RolesKeep == ASSUME RolesTyped, R!Next PROVE RolesGoOn
<1> DEFINE Jobs == [id : Ids \cup {NoId}, user : Holders \cup {NoUser},
                    name : Names \cup {"NONE"}, perms : SUBSET {"p", "q", "all"}]
<1>0. {"q"} \subseteq {"p", "q", "all"}
  OBVIOUS
<1>1. ASSUME NEW w \in Workers, NEW n \in Names, NEW Q \in {{"q"}}, R!CreateRead(w, n, Q) PROVE RolesGoOn
  <2>1. PICK j : j = [R!NoJob EXCEPT !.name = n, !.perms = Q]
    OBVIOUS
  <2>2. j \in Jobs /\ j.name = n
    BY <1>0, <2>1, RoleIdle DEF R!NoJob
  <2> QED
    BY <1>1, <2>1, <2>2, RoleAsked DEF R!CreateRead
<1>2. ASSUME NEW w \in Workers, NEW r \in Ids, R!RemoveRead(w, r) PROVE RolesGoOn
  <2>1. PICK j : j = [R!NoJob EXCEPT !.id = r]
    OBVIOUS
  <2>2. j \in Jobs /\ j.id = r
    BY <2>1, RoleIdle DEF R!NoJob
  <2> QED
    BY <1>2, <2>1, <2>2, RoleAsked DEF R!RemoveRead
<1>3. ASSUME NEW w \in Workers, NEW r \in Ids, NEW u \in Holders, R!AssignRead(w, u, r) PROVE RolesGoOn
  <2>1. PICK j : j = [R!NoJob EXCEPT !.id = r, !.user = u]
    OBVIOUS
  <2>2. j \in Jobs /\ j.id = r /\ j.user = u
    BY <2>1, RoleIdle DEF R!NoJob
  <2> QED
    BY <1>3, <2>1, <2>2, RoleAsked DEF R!AssignRead
<1>4. ASSUME NEW w \in Workers, NEW r \in Ids, NEW n \in Names \cup {"NONE"}, NEW Q \in {{"q"}} \cup {{}},
             R!UpdateRead(w, r, n, Q)
      PROVE  RolesGoOn
  <2>1. PICK j : j = [R!NoJob EXCEPT !.id = r, !.name = n, !.perms = Q]
    OBVIOUS
  <2>2. j \in Jobs /\ j.id = r
    BY <2>1, RoleIdle DEF R!NoJob
  <2> QED
    BY <1>4, <2>1, <2>2, RoleAsked DEF R!UpdateRead
<1> QED
  BY <1>1, <1>2, <1>3, <1>4, RoleCreates, RoleUpdates, RoleRemoves, RoleAssigns, RoleTakenAway,
     RolesSeeded, RefreshBegins, RefreshReads, RefreshWrites, ReleaseDeployed DEF R!Next

-----------------------------------------------------------------------------
(* ACCOUNTS *)

(* A request that is about to activate somebody comes from whom the guards *)
(* found active, and nobody ceases to be.                                  *)
AccessInv ==
    /\ AccessTypeOK
    /\ \A u \in Users : account[u] = NoAccount \/ account[u].status \in Statuses
    /\ \A r \in Requests : request[r].handler = PatchStatus =>
          request[r].by \in Users /\ account[request[r].by].status = "ACTIVE"

RequestRows == [by : Users \cup {Visitor, Operator}, gated : BOOLEAN,
                route : 0 .. Len(Table), handler : 0 .. Len(Table)]

LEMMA HandlerIsRoute == \A i \in DOMAIN Table : HandlerOf(i) \in DOMAIN Table
<1> SUFFICES ASSUME NEW i \in DOMAIN Table PROVE HandlerOf(i) \in DOMAIN Table
  OBVIOUS
<1>1. PICK S : S = {i} \cup {p[1] : p \in {q \in Hiding : q[2] = i}}
  OBVIOUS
<1>2. \A q \in Hiding : \E k \in DOMAIN Table : \E j \in 1 .. k - 1 : q = <<j, k>>
  BY DEF Hiding, EarlierMatches
<1>3. DOMAIN Table = 1 .. Len(Table) /\ Len(Table) \in Nat /\ i \in Nat
  BY ActivationIsGuarded
<1>4. S \subseteq DOMAIN Table /\ S \subseteq Nat /\ S # {}
  <2>1. ASSUME NEW q \in Hiding PROVE q[1] \in DOMAIN Table
    <3>1. PICK k \in DOMAIN Table : \E j \in 1 .. k - 1 : q = <<j, k>>
      BY <1>2
    <3>2. PICK j \in 1 .. k - 1 : q = <<j, k>>
      BY <3>1
    <3>3. k \in Nat /\ j \in Nat /\ j < k /\ j >= 1 /\ k <= Len(Table) /\ q[1] = j
      BY <1>3, <3>2
    <3> QED
      BY <1>3, <3>3
  <2> QED
    BY <1>1, <1>3, <2>1
<1>5. \E x \in S : \A y \in S : x <= y
  BY <1>4, LeastNumber
<1>6. Min(S) \in S
  BY <1>5 DEF Min
<1> QED
  BY <1>1, <1>4, <1>6 DEF HandlerOf

LEMMA IdleRequest ==
    /\ NoRequest \in RequestRows /\ NoRequest.handler # PatchStatus
    /\ NoAccount \in Accounts /\ NoAccount.status = "NONE"
<1>1. Len(Table) \in Nat /\ PatchStatus \in 1 .. Len(Table)
  BY ActivationIsGuarded DEF Writers
<1> QED
  BY <1>1 DEF NoRequest, RequestRows, NoAccount, Accounts

LEMMA AccessStart == AccessInit => AccessInv
<1> SUFFICES ASSUME AccessInit PROVE AccessInv
  OBVIOUS
<1>1. \A u \in Users : account[u] \in Accounts /\ (account[u] = NoAccount \/ account[u].status \in Statuses)
  BY IdleRequest DEF AccessInit, Accounts, Statuses
<1>2. account \in [Users -> Accounts] /\ request \in [Requests -> RequestRows]
  BY <1>1, IdleRequest DEF AccessInit
<1> QED
  BY <1>1, <1>2, IdleRequest DEF AccessInit, AccessInv, AccessTypeOK, RequestRows

(* Accounts that stay as they are, or whose activity stays.                *)
LEMMA AccessMoves ==
    ASSUME AccessInv, NEW r \in Requests, NEW q \in RequestRows,
           request' = [request EXCEPT ![r] = q],
           account' \in [Users -> Accounts],
           \A u \in Users : account'[u] = NoAccount \/ account'[u].status \in Statuses,
           \A u \in Users : account[u].status = "ACTIVE" => account'[u].status = "ACTIVE",
           q.handler = PatchStatus => q.by \in Users /\ account'[q.by].status = "ACTIVE"
    PROVE  AccessInv'
<1>1. request \in [Requests -> RequestRows]
  BY DEF AccessInv, AccessTypeOK, RequestRows
<1>2. request' \in [Requests -> RequestRows]
  BY <1>1
<1>3. ASSUME NEW s \in Requests, request'[s].handler = PatchStatus
      PROVE  request'[s].by \in Users /\ account'[request'[s].by].status = "ACTIVE"
  <2>1. CASE s = r
    BY <1>1, <1>3, <2>1
  <2>2. CASE s # r
    BY <1>1, <1>3, <2>2 DEF AccessInv
  <2> QED
    BY <2>1, <2>2
<1>4. AccessTypeOK'
  BY <1>2 DEF AccessTypeOK, RequestRows
<1> QED
  BY <1>3, <1>4 DEF AccessInv

AccessGoesOn == AccessInv' /\ OthersActivate

LEMMA RequestMoves ==
    ASSUME AccessInv, NEW r \in Requests,
           Answer(r) \/ \E c \in Users \cup {Visitor, Operator}, i \in Expected : Arrive(r, c, i)
    PROVE  AccessGoesOn
<1>1. UNCHANGED account /\ account \in [Users -> Accounts]
  BY DEF Answer, Arrive, AccessInv, AccessTypeOK
<1>2. OthersActivate
  BY <1>1 DEF OthersActivate, Existing
<1>3. CASE Answer(r)
  BY <1>1, <1>2, <1>3, IdleRequest, AccessMoves DEF Answer, AccessGoesOn, AccessInv
<1>4. ASSUME NEW c \in Users \cup {Visitor, Operator}, NEW i \in Expected, Arrive(r, c, i)
      PROVE  AccessGoesOn
  <2>1. i \in DOMAIN Table
    BY ActivationIsGuarded DEF Expected
  <2>2. HandlerOf(i) \in 0 .. Len(Table) /\ i \in 0 .. Len(Table)
    BY <2>1, HandlerIsRoute, ActivationIsGuarded
  <2>3. PICK q : q = [by |-> c, route |-> i, handler |-> HandlerOf(i), gated |-> Gated(c)]
    OBVIOUS
  <2>4. q \in RequestRows /\ q.by = c /\ q.handler = HandlerOf(i)
    <3>1. Gated(c) \in BOOLEAN
      BY DEF Gated
    <3> QED
      BY <2>2, <2>3, <3>1 DEF RequestRows
  <2>5. request' = [request EXCEPT ![r] = q] /\ Passes(c, Asked(i).path, Table[HandlerOf(i)].needs)
    BY <1>4, <2>3 DEF Arrive
  <2>6. ASSUME HandlerOf(i) = PatchStatus PROVE c \in Users /\ account[c].status = "ACTIVE"
    <3>1. Table[HandlerOf(i)].needs \notin {Public, Platform} /\ ~Exempt(Asked(i).path)
      BY <2>1, <2>6, ActivationIsGuarded
    <3>2. c \in Existing /\ ~Gated(c)
      BY <2>5, <3>1 DEF Passes
    <3> QED
      BY <3>2 DEF Existing, Gated, AccessInv, Statuses
  <2> QED
    BY <1>1, <1>2, <2>4, <2>5, <2>6, AccessMoves DEF AccessGoesOn, AccessInv
<1> QED
  BY <1>3, <1>4

(* A handler changes one account.                                          *)
LEMMA OneAccountChanges ==
    ASSUME AccessInv, NEW r \in Requests, NEW h, Handle(r, h), NEW u, NEW a, Set(u, a),
           u \in Users => /\ a \in Accounts /\ a.status \in Statuses
                          /\ account[u].status = "ACTIVE" => a.status = "ACTIVE"
    PROVE  /\ AccessInv'
           /\ \A v \in Users : account'[v] = IF v = u THEN a ELSE account[v]
           /\ request'[r] = NoRequest
<1>1. account \in [Users -> Accounts] /\ request \in [Requests -> RequestRows]
  BY DEF AccessInv, AccessTypeOK, RequestRows
<1>2. account' = [account EXCEPT ![u] = a] /\ request' = [request EXCEPT ![r] = NoRequest]
  BY DEF Set, Handle
<1>3. /\ account' \in [Users -> Accounts] /\ request'[r] = NoRequest
      /\ \A v \in Users : account'[v] = IF v = u THEN a ELSE account[v]
  BY <1>1, <1>2
<1>4. /\ \A v \in Users : account'[v] = NoAccount \/ account'[v].status \in Statuses
      /\ \A v \in Users : account[v].status = "ACTIVE" => account'[v].status = "ACTIVE"
  BY <1>3 DEF AccessInv
<1> QED
  BY <1>2, <1>3, <1>4, IdleRequest, AccessMoves

LEMMA HasAccount ==
    ASSUME AccessInv, NEW u \in Existing
    PROVE  u \in Users /\ account[u] \in Accounts /\ account[u].status \in Statuses
BY DEF Existing, AccessInv, AccessTypeOK

(* New accounts, and roles given and taken.                                *)
LEMMA AccountsMade ==
    ASSUME AccessInv, NEW r \in Requests, NEW u \in Users,
           \/ DoCreateEmployee(r, u)
           \/ \E s \in Statuses, X \in SUBSET Hired : DoApproveLink(r, u, s, X)
    PROVE  AccessGoesOn
<1>1. PICK a, h : a \in Accounts /\ u \notin Existing /\ Handle(r, h) /\ Set(u, a) /\ a.status \in Statuses
  <2>1. CASE DoCreateEmployee(r, u)
    <3>1. [must |-> TRUE, status |-> "PRE_BOARDING", roles |-> {}] \in Accounts
      BY DEF Accounts, Statuses
    <3> QED
      BY <2>1, <3>1 DEF DoCreateEmployee, Statuses
  <2>2. ASSUME NEW s \in Statuses, NEW X \in SUBSET Hired, DoApproveLink(r, u, s, X)
        PROVE  \E a, h : a \in Accounts /\ u \notin Existing /\ Handle(r, h) /\ Set(u, a) /\ a.status \in Statuses
    <3>1. [must |-> TRUE, status |-> s, roles |-> X] \in Accounts
      BY DEF Accounts
    <3> QED
      BY <2>2, <3>1 DEF DoApproveLink
  <2> QED
    BY <2>1, <2>2
<1>2. account[u] = NoAccount
  BY <1>1 DEF Existing
<1>3. AccessInv' /\ \A v \in Users : account'[v] = IF v = u THEN a ELSE account[v]
  BY <1>1, <1>2, IdleRequest, OneAccountChanges
<1>4. \A v \in Existing : account'[v] = account[v]
  BY <1>1, <1>3 DEF Existing
<1> QED
  BY <1>3, <1>4 DEF AccessGoesOn, OthersActivate

LEMMA RolesChange ==
    ASSUME AccessInv, NEW r \in Requests, NEW u \in Users, NEW n \in Hired,
           DoAssignRole(r, u, n) \/ DoRemoveRole(r, u, n)
    PROVE  AccessGoesOn
<1>1. u \in Existing /\ account[u] \in Accounts /\ account[u].status \in Statuses
  BY HasAccount DEF DoAssignRole, DoRemoveRole
<1>2. PICK a, h : /\ Handle(r, h) /\ Set(u, a) /\ a \in Accounts
                  /\ a.status = account[u].status /\ a.must = account[u].must
  <2>1. /\ [account[u] EXCEPT !.roles = @ \cup {n}] \in Accounts
        /\ [account[u] EXCEPT !.roles = @ \ {n}] \in Accounts
    BY <1>1 DEF Accounts
  <2>2. /\ [account[u] EXCEPT !.roles = @ \cup {n}].status = account[u].status
        /\ [account[u] EXCEPT !.roles = @ \cup {n}].must = account[u].must
        /\ [account[u] EXCEPT !.roles = @ \ {n}].status = account[u].status
        /\ [account[u] EXCEPT !.roles = @ \ {n}].must = account[u].must
    BY <1>1 DEF Accounts
  <2> QED
    BY <2>1, <2>2 DEF DoAssignRole, DoRemoveRole
<1>3. AccessInv' /\ \A v \in Users : account'[v] = IF v = u THEN a ELSE account[v]
  BY <1>1, <1>2, OneAccountChanges
<1>4. \A v \in Existing : account'[v].status = account[v].status /\ account'[v].must = account[v].must
  BY <1>2, <1>3 DEF Existing
<1>5. \A v \in Existing : account[v].status = "PRE_BOARDING" => account[v].status # "ACTIVE"
  OBVIOUS
<1>6. OthersActivate
  BY <1>4, <1>5 DEF OthersActivate
<1> QED
  BY <1>3, <1>6 DEF AccessGoesOn

(* A password that is changed lifts one gate, of one account.              *)
LEMMA PasswordsChange ==
    ASSUME AccessInv, NEW r \in Requests,
           DoChangePassword(r) \/ \E u \in Users : DoResetPassword(r, u)
    PROVE  AccessGoesOn
<1>1. PICK u, h : /\ Handle(r, h) /\ Set(u, [account[u] EXCEPT !.must = FALSE])
                  /\ \/ h = ChangePassword /\ u = request[r].by
                     \/ h = ResetPassword /\ u \in Existing
  BY DEF DoChangePassword, DoResetPassword
<1>2. PICK a : a = [account[u] EXCEPT !.must = FALSE]
  OBVIOUS
<1>3. ASSUME u \in Users
      PROVE  a \in Accounts /\ a.status = account[u].status
  <2>1. account[u] \in Accounts
    BY <1>3 DEF AccessInv, AccessTypeOK
  <2>2. PICK o \in Accounts : o = account[u]
    BY <2>1
  <2>3. a = [o EXCEPT !.must = FALSE]
    BY <1>2, <2>2
  <2>4. a \in Accounts /\ a.status = o.status
    BY <2>2, <2>3 DEF Accounts
  <2> QED
    BY <2>2, <2>4
<1>4. CASE u \in Users /\ account[u].status = "NONE"
  <2>1. account \in [Users -> Accounts] /\ account[u] = NoAccount
    BY <1>4 DEF AccessInv, AccessTypeOK, Statuses
  <2>2. a = account[u]
    <3>1. NoAccount \in Accounts /\ NoAccount.must = FALSE
      BY IdleRequest DEF NoAccount
    <3>2. PICK o \in Accounts : o = account[u] /\ o.must = FALSE
      BY <2>1, <3>1
    <3>3. [o EXCEPT !.must = FALSE] = o
      BY <3>2 DEF Accounts
    <3> QED
      BY <1>2, <3>2, <3>3
  <2>3. account' = account /\ request' = [request EXCEPT ![r] = NoRequest]
    BY <1>1, <1>2, <2>1, <2>2 DEF Set, Handle
  <2>4. AccessInv'
    BY <2>1, <2>3, IdleRequest, AccessMoves DEF AccessInv
  <2> QED
    BY <2>3, <2>4 DEF AccessGoesOn, OthersActivate, Existing
<1>5. CASE u \in Users => account[u].status \in Statuses
  <2>1. /\ AccessInv' /\ request'[r] = NoRequest
        /\ \A v \in Users : account'[v] = IF v = u THEN a ELSE account[v]
    <3>1. Handle(r, h) /\ Set(u, a)
      BY <1>1, <1>2
    <3>2. u \in Users => a \in Accounts /\ a.status \in Statuses /\ (account[u].status = "ACTIVE" => a.status = "ACTIVE")
      BY <1>3, <1>5
    <3> QED
      BY <3>1, <3>2, OneAccountChanges
  <2>2. ASSUME NEW v \in Existing
        PROVE  /\ account'[v].status = account[v].status
               /\ account[v].must /\ ~account'[v].must => LiftedBy(r, v)
    <3>1. CASE v # u
      BY <2>1, <3>1 DEF Existing
    <3>2. CASE v = u
      BY <1>1, <1>3, <2>1, <3>2 DEF Existing, LiftedBy, Handle
    <3> QED
      BY <3>1, <3>2
  <2> QED
    BY <2>1, <2>2 DEF AccessGoesOn, OthersActivate
<1> QED
  BY <1>4, <1>5 DEF AccessInv, AccessTypeOK, Accounts

LEMMA OneIsActivated ==
    ASSUME AccessInv, NEW r \in Requests, NEW u \in Users, DoPatchStatus(r, u)
    PROVE  AccessGoesOn
<1>1. /\ u \in Existing /\ Handle(r, PatchStatus) /\ account[u].status = "PRE_BOARDING"
      /\ Set(u, [account[u] EXCEPT !.status = "ACTIVE"])
  BY DEF DoPatchStatus
<1>2. PICK a : a = [account[u] EXCEPT !.status = "ACTIVE"]
  OBVIOUS
<1>3. account[u] \in Accounts
  BY <1>1, HasAccount
<1>4. a \in Accounts /\ a.status = "ACTIVE" /\ a.must = account[u].must
  BY <1>2, <1>3 DEF Accounts, Statuses
<1>5. /\ AccessInv' /\ request'[r] = NoRequest
      /\ \A v \in Users : account'[v] = IF v = u THEN a ELSE account[v]
  BY <1>1, <1>2, <1>4, OneAccountChanges DEF Statuses
<1>6. request[r].handler = PatchStatus /\ request[r].by # u
  BY <1>1 DEF Handle, AccessInv
<1>7. \A v \in Existing : /\ account'[v].must = account[v].must
                          /\ account'[v].status = account[v].status \/ v = u
  BY <1>4, <1>5 DEF Existing
<1>8. OthersActivate
  BY <1>5, <1>6, <1>7 DEF OthersActivate
<1> QED
  BY <1>5, <1>8 DEF AccessGoesOn

LEMMA AccessKeeps == ASSUME AccessInv, AccessNext PROVE AccessGoesOn
<1>1. PICK r \in Requests :
        \/ \E c \in Users \cup {Visitor, Operator}, i \in Expected : Arrive(r, c, i)
        \/ Answer(r)
        \/ DoChangePassword(r)
        \/ \E u \in Users :
              \/ DoResetPassword(r, u) \/ DoPatchStatus(r, u) \/ DoCreateEmployee(r, u)
              \/ \E s \in Statuses, X \in SUBSET Hired : DoApproveLink(r, u, s, X)
              \/ \E n \in Hired : DoAssignRole(r, u, n) \/ DoRemoveRole(r, u, n)
  BY DEF AccessNext
<1> QED
  BY <1>1, RequestMoves, AccountsMade, RolesChange, PasswordsChange, OneIsActivated

-----------------------------------------------------------------------------
(* THE SIX TOGETHER: a behaviour takes the steps of one of them only.      *)

BillsOnly ==
    /\ BillsTyped /\ PeriodsFit /\ died \in BOOLEAN
    /\ (side = "bills" /\ raced) \/ ~B!Contended
    /\ StatusesFit

DepartmentsOnly ==
    /\ DeptInv
    /\ (side = "departments" /\ (raced \/ died)) \/ TreeAlone

ItemsOnly ==
    /\ ItemsTyped
    /\ (side = "items" /\ raced) \/ ItemsAlone

LEMMA OthersStep ==
    /\ RolesStep => UNCHANGED <<billsVars, departmentsVars, itemsVars, policiesVars, died>> /\ side = "roles"
    /\ ItemsStep => UNCHANGED <<billsVars, departmentsVars, policiesVars, died>> /\ side = "items"
    /\ PoliciesStep => UNCHANGED <<billsVars, departmentsVars, itemsVars, died>> /\ side = "policies"
    /\ AccessStep => UNCHANGED <<billsVars, departmentsVars, itemsVars, policiesVars, raced, died>> /\ side = "access"
    /\ BillsStep => UNCHANGED <<departmentsVars, itemsVars, policiesVars>> /\ side = "bills"
    /\ DepartmentsStep => UNCHANGED <<billsVars, itemsVars, policiesVars>> /\ side = "departments"
BY DEF RolesStep, ItemsStep, PoliciesStep, AccessStep, BillsStep, DepartmentsStep

LEMMA BillsRest ==
    ASSUME BillsOnly, UNCHANGED <<billsVars, side>>, died' \in BOOLEAN, died => died',
           side # "bills" \/ UNCHANGED <<raced, died>>
    PROVE  BillsOnly' /\ B!PaidStaysPaid
<1>1. UNCHANGED <<day, active, sub, invoices, jobs, admin, billed, contested>>
  BY DEF billsVars
<1>2. (BillsTyped' <=> BillsTyped) /\ (B!Contended' <=> B!Contended) /\ (StatusesFit' <=> StatusesFit)
  BY <1>1 DEF BillsTyped, B!Exists, B!Contended, StatusesFit, SuspendFits, OrgFits, B!Busy, B!Asked,
     B!Meet
<1>3. PeriodsFit'
  <2>1. SameBills /\ SameDates
    BY <1>1, NoBillChanges, NoSubChanges
  <2>2. UNCHANGED jobs["renew"] /\ \A r \in jobs'["suspend"].todo : r \in jobs["suspend"].todo
    BY <1>1
  <2> QED
    BY <2>1, <2>2, OtherBills DEF BillsOnly
<1>4. B!PaidStaysPaid
  BY <1>1 DEF B!PaidStaysPaid
<1> QED
  BY <1>2, <1>3, <1>4 DEF BillsOnly

LEMMA BillsOnlyKeeps ==
    ASSUME BillsOnly, [MCNext]_<<vars, side, raced, died>>
    PROVE  BillsOnly' /\ (~raced' => B!PaidStaysPaid)
<1>1. CASE UNCHANGED <<vars, side, raced, died>>
  BY <1>1, BillsRest DEF BillsOnly, vars
<1>2. CASE BillsStep /\ UNCHANGED side
  <2>1. /\ side = "bills" /\ B!Next
        /\ raced' = (raced \/ B!Contended') /\ died' = (died \/ B!Crash)
    BY <1>2 DEF BillsStep
  <2>2. BillsTyped /\ PeriodsFit /\ died \in BOOLEAN
    BY DEF BillsOnly
  <2>3. BillsGoOn
    BY <2>1, <2>2, BillsKeep
  <2>4. died' \in BOOLEAN
    BY <2>1, <2>2
  <2>5. Meets
    BY <1>2 DEF BillsStep, Meets
  <2> QED
    BY <1>2, <2>1, <2>3, <2>4, <2>5 DEF BillsGoOn, BillsOnly
<1>3. CASE (RolesStep \/ ItemsStep \/ PoliciesStep \/ AccessStep) /\ UNCHANGED side
  BY <1>3, OthersStep, BillsRest DEF BillsOnly
<1>4. CASE DepartmentsStep /\ UNCHANGED side
  <2>1. UNCHANGED billsVars /\ side = "departments" /\ died' = (died \/ \E w \in Workers : D!Fail(w) \/ D!RestoreWrite(w))
    BY <1>4, OthersStep DEF DepartmentsStep
  <2> QED
    BY <1>4, <2>1, BillsRest DEF BillsOnly
<1> QED
  BY <1>1, <1>2, <1>3, <1>4 DEF MCNext

LEMMA DepartmentsRest ==
    ASSUME DepartmentsOnly, UNCHANGED <<departmentsVars, side>>, side # "departments" \/ UNCHANGED <<raced, died>>
    PROVE  DepartmentsOnly'
<1>1. UNCHANGED <<dept, djob, changed>>
  BY DEF departmentsVars
<1>2. Made' = Made /\ (D!Acyclic' <=> D!Acyclic) /\ (D!Overlap' <=> D!Overlap)
  BY <1>1 DEF Made, D!Acyclic, D!Overlap
<1>3. \A j : JobFits(j)' <=> JobFits(j)
  BY <1>1, <1>2 DEF JobFits, Passed, UpTo
<1>4. \A w \in Workers : JobFits(djob[w])' <=> JobFits(djob[w])
  BY <1>1, <1>3
<1>5. DeptInv'
  BY <1>1, <1>2, <1>4 DEF DepartmentsOnly, DeptInv, DeptTyped
<1>6. \A j : TreeFits(j)' <=> TreeFits(j)
  BY <1>1, SameRows
<1>7. \A w \in Workers : TreeFits(djob[w])' <=> TreeFits(djob[w])
  BY <1>1, <1>6
<1>8. TreeFits(D!NoJob)' <=> TreeFits(D!NoJob)
  BY <1>6
<1>9. TreeAlone' <=> TreeAlone
  BY <1>1, <1>2, <1>7, <1>8 DEF TreeAlone
<1> QED
  BY <1>5, <1>9 DEF DepartmentsOnly

LEMMA DepartmentsOnlyKeeps ==
    ASSUME DepartmentsOnly, [MCNext]_<<vars, side, raced, died>>
    PROVE  DepartmentsOnly'
<1>1. CASE UNCHANGED <<vars, side, raced, died>>
  BY <1>1, DepartmentsRest DEF vars
<1>2. CASE DepartmentsStep /\ UNCHANGED side
  <2>1. /\ side = "departments" /\ D!Next /\ ~D!MovesMeet
        /\ raced' = (raced \/ D!Overlap')
        /\ died' = (died \/ \E w \in Workers : D!Fail(w) \/ D!RestoreWrite(w))
    BY <1>2 DEF DepartmentsStep
  <2>2. DeptInv'
    BY <2>1, DeptKeeps DEF DepartmentsOnly
  <2>3. ~raced' /\ ~died' => TreeAlone'
    BY <2>1, TreeKeeps DEF DepartmentsOnly
  <2> QED
    BY <1>2, <2>1, <2>2, <2>3 DEF DepartmentsOnly
<1>3. CASE (BillsStep \/ RolesStep \/ ItemsStep \/ PoliciesStep \/ AccessStep) /\ UNCHANGED side
  BY <1>3, OthersStep, DepartmentsRest
<1> QED
  BY <1>1, <1>2, <1>3 DEF MCNext

LEMMA ItemsRest ==
    ASSUME ItemsOnly, UNCHANGED <<itemsVars, side>>, side # "items" \/ UNCHANGED raced
    PROVE  ItemsOnly'
<1>1. UNCHANGED <<live, assigned, linked, mjob, chosen>>
  BY DEF itemsVars
<1>2. (ItemsTyped' <=> ItemsTyped) /\ (ItemsAlone' <=> ItemsAlone)
  BY <1>1 DEF ItemsTyped, OfItems, ItemsAlone, Unassigned, AssignsLive, M!Overlap
<1> QED
  BY <1>2 DEF ItemsOnly

LEMMA ItemsOnlyKeeps ==
    ASSUME ItemsOnly, [MCNext]_<<vars, side, raced, died>>
    PROVE  ItemsOnly'
<1>1. CASE UNCHANGED <<vars, side, raced, died>>
  BY <1>1, ItemsRest DEF vars
<1>2. CASE ItemsStep /\ UNCHANGED side
  <2>1. side = "items" /\ M!Next /\ raced' = (raced \/ M!Overlap')
    BY <1>2 DEF ItemsStep
  <2> QED
    BY <1>2, <2>1, ItemsKeep DEF ItemsOnly
<1>3. CASE (BillsStep \/ RolesStep \/ DepartmentsStep \/ PoliciesStep \/ AccessStep) /\ UNCHANGED side
  BY <1>3, OthersStep, ItemsRest
<1> QED
  BY <1>1, <1>2, <1>3 DEF MCNext

LEMMA PoliciesOnlyKeep ==
    ASSUME PolicyInv, [MCNext]_<<vars, side, raced, died>>
    PROVE  PolicyInv'
<1>1. [P!Next]_policiesVars
  BY OthersStep DEF MCNext, PoliciesStep, vars, policiesVars
<1> QED
  BY <1>1, PolicyStep, OrgAssumption

AnswerTyped == answer.asked \subseteq Types /\ answer.plain \in BOOLEAN /\ updated \in 0 .. 2

RolesOnly ==
    /\ RolesTyped
    /\ (side = "roles" /\ raced) \/ RolesAlone

PoliciesOnly ==
    /\ PolicyInv /\ PolicyFits /\ AnswerTyped
    /\ (side = "policies" /\ raced) \/ PolicyAlone

LEMMA RolesRest ==
    ASSUME RolesOnly, UNCHANGED <<rolesVars, side>>, side # "roles" \/ UNCHANGED raced
    PROVE  RolesOnly' /\ R!NothingIsTaken /\ R!RefreshCompletes
<1>1. UNCHANGED <<release, role, has, rpc, rjob, pass>>
  BY DEF rolesVars
<1>2. RolesTyped'
  BY <1>1 DEF RolesOnly, RolesTyped, R!TypeOK, R!Canonical
<1>3. /\ R!Fresh' = R!Fresh /\ R!Canonical' = R!Canonical /\ (R!Overlap' <=> R!Overlap)
      /\ \A n : (Refreshed(n)' <=> Refreshed(n)) /\ R!Named(n)' = R!Named(n)
      /\ \A x : R!Having(x)' = R!Having(x)
  BY <1>1 DEF R!Fresh, R!Canonical, R!Overlap, Refreshed, R!Named, R!Having
<1>4. RolesAlone' <=> RolesAlone
  BY <1>1, <1>3 DEF RolesAlone
<1>5. R!NothingIsTaken /\ R!RefreshCompletes
  BY <1>1, NoneIsTaken, NoPassEnds
<1> QED
  BY <1>2, <1>4, <1>5 DEF RolesOnly

LEMMA RolesOnlyKeep ==
    ASSUME RolesOnly, [MCNext]_<<vars, side, raced, died>>
    PROVE  RolesOnly' /\ (~raced' => R!NothingIsTaken /\ R!RefreshCompletes)
<1>1. CASE UNCHANGED <<vars, side, raced, died>>
  BY <1>1, RolesRest DEF vars
<1>2. CASE RolesStep /\ UNCHANGED side
  <2>1. side = "roles" /\ R!Next /\ raced' = (raced \/ R!Overlap')
    BY <1>2 DEF RolesStep
  <2>2. RolesGoOn
    BY <2>1, RolesKeep DEF RolesOnly
  <2> QED
    BY <1>2, <2>1, <2>2 DEF RolesGoOn, RolesOnly
<1>3. CASE (BillsStep \/ DepartmentsStep \/ ItemsStep \/ PoliciesStep \/ AccessStep) /\ UNCHANGED side
  <2>1. UNCHANGED rolesVars /\ side # "roles"
    BY <1>3 DEF BillsStep, DepartmentsStep, ItemsStep, PoliciesStep, AccessStep
  <2> QED
    BY <1>3, <2>1, RolesRest
<1> QED
  BY <1>1, <1>2, <1>3 DEF MCNext

LEMMA AnswersStart == P!Init => AnswerTyped
BY DEF P!Init, AnswerTyped, P!NoAnswer

LEMMA AnswersTyped == ASSUME PolicyInv, AnswerTyped, P!Next PROVE AnswerTyped'
<1>1. updated' \in 0 .. 2
  <2>1. ASSUME NEW w \in Workers, NEW items \in P!Lists, P!Update(w, items) PROVE updated' \in 0 .. 2
    <3>1. updated < 2 /\ updated' = updated + 1
      BY <2>1 DEF P!Update
    <3> QED
      BY <3>1 DEF AnswerTyped
  <2>2. CASE UNCHANGED updated
    BY <2>2 DEF AnswerTyped
  <2> QED
    BY <2>1, <2>2 DEF P!Next, P!Use, P!Create
<1>2. CASE UNCHANGED answer
  BY <1>1, <1>2 DEF AnswerTyped
<1>3. ASSUME NEW w \in Workers, P!Answer(w) PROVE AnswerTyped'
  <2>1. pjob[w].asked \subseteq Types /\ pjob[w].plain \in BOOLEAN
    BY DEF PolicyInv, PolicyJobs
  <2> QED
    BY <1>1, <1>3, <2>1 DEF AnswerTyped, P!Answer
<1> QED
  BY <1>2, <1>3 DEF P!Next, P!Update, P!Reconcile, P!Kept, P!Delete, P!Fail, P!Count, P!Use, P!Create

LEMMA PoliciesRest ==
    ASSUME PoliciesOnly, UNCHANGED <<policiesVars, side>>, side # "policies" \/ UNCHANGED raced
    PROVE  PoliciesOnly' /\ P!AnsweredAsAsked
<1>1. UNCHANGED <<row, used, pjob, answer, updated>>
  BY DEF policiesVars
<1>2. PolicyInv'
  BY PolicyStep, OrgAssumption DEF PoliciesOnly
<1>3. PolicyFits' /\ (PolicyAlone => PolicyAlone' /\ P!AnsweredAsAsked) /\ AnswerTyped'
  <2>1. PolicyGoesOn
    BY <1>1, PolicyRests DEF PoliciesOnly
  <2>2. P!Overlap' <=> P!Overlap
    BY <1>1 DEF P!Overlap
  <2> QED
    BY <1>1, <2>1, <2>2 DEF PolicyGoesOn, PolicyAlone, PoliciesOnly, AnswerTyped
<1>4. P!AnsweredAsAsked
  BY <1>1 DEF P!AnsweredAsAsked
<1> QED
  BY <1>2, <1>3, <1>4 DEF PoliciesOnly

LEMMA PoliciesAsAsked ==
    ASSUME PoliciesOnly, [MCNext]_<<vars, side, raced, died>>
    PROVE  PoliciesOnly' /\ (~raced' => P!AnsweredAsAsked)
<1>1. CASE UNCHANGED <<vars, side, raced, died>>
  BY <1>1, PoliciesRest DEF vars
<1>2. CASE PoliciesStep /\ UNCHANGED side
  <2>1. side = "policies" /\ P!Next /\ raced' = (raced \/ P!Overlap')
    BY <1>2 DEF PoliciesStep
  <2>2. PolicyGoesOn /\ AnswerTyped' /\ PolicyInv'
    BY <2>1, PoliciesKeep, AnswersTyped, PolicyStep, OrgAssumption DEF PoliciesOnly
  <2> QED
    BY <1>2, <2>1, <2>2 DEF PolicyGoesOn, PoliciesOnly
<1>3. CASE (BillsStep \/ DepartmentsStep \/ ItemsStep \/ RolesStep \/ AccessStep) /\ UNCHANGED side
  <2>1. UNCHANGED policiesVars /\ side # "policies"
    BY <1>3 DEF BillsStep, DepartmentsStep, ItemsStep, RolesStep, AccessStep
  <2> QED
    BY <1>3, <2>1, PoliciesRest
<1> QED
  BY <1>1, <1>2, <1>3 DEF MCNext

LEMMA AccessAlways ==
    ASSUME AccessInv, [MCNext]_<<vars, side, raced, died>>
    PROVE  AccessInv' /\ OthersActivate
<1>1. CASE UNCHANGED accessVars
  <2>1. UNCHANGED <<account, request>>
    BY <1>1 DEF accessVars
  <2>2. AccessInv'
    BY <2>1 DEF AccessInv, AccessTypeOK
  <2>3. OthersActivate
    BY <2>1 DEF OthersActivate, Existing
  <2> QED
    BY <2>2, <2>3
<1>2. CASE AccessStep
  BY <1>2, AccessKeeps DEF AccessStep, AccessGoesOn
<1> QED
  BY <1>1, <1>2 DEF MCNext, vars, BillsStep, RolesStep, DepartmentsStep, ItemsStep, PoliciesStep

(* What holds of all six from the start.                                   *)
OrgInv ==
    BillsOnly /\ RolesOnly /\ DepartmentsOnly /\ ItemsOnly /\ PoliciesOnly /\ AccessInv

LEMMA OrgStarts == MCInit => OrgInv
BY BillStart, RoleStart, DeptStart, TreeStart, ItemStart, PolicyInit, PolicyStarts, AnswersStart, AccessStart
   DEF MCInit, OrgInv, BillsOnly, RolesOnly, DepartmentsOnly, ItemsOnly, PoliciesOnly

LEMMA OrgKeeps == OrgInv /\ [MCNext]_<<vars, side, raced, died>> => OrgInv'
BY BillsOnlyKeeps, RolesOnlyKeep, DepartmentsOnlyKeeps, ItemsOnlyKeeps, PoliciesAsAsked, AccessAlways
   DEF OrgInv


-----------------------------------------------------------------------------
(* RESULTS *)

(* The periods of an organization's invoices follow on, and one is billed  *)
(* twice only after a crash; and an organization is active unless its      *)
(* subscription is suspended, if no two of an administrator's requests and *)
(* the job have met on it and none of them has died on it half way: any    *)
(* number of organizations, days, administrators and crashes.              *)
THEOREM BillsFollowOn == MCSpec => []BillsAreInOrder
<1>1. MCInit => BillsOnly
  BY BillStart DEF MCInit, BillsOnly
<1>2. BillsOnly /\ [MCNext]_<<vars, side, raced, died>> => BillsOnly'
  BY BillsOnlyKeeps
<1>3. BillsOnly => BillsAreInOrder
  BY DEF BillsOnly, PeriodsFit, StatusesFit, OrgFits, BillsAreInOrder, B!StatusesAgree
<1> QED
  BY <1>1, <1>2, <1>3, PTL DEF MCSpec

(* Unless two moves meet, the departments are a tree, deleted ones         *)
(* included; and while requests come one at a time, none dies and nothing  *)
(* is restored, live departments have live parents and the level their     *)
(* place gives them, once the descent has ended.  What a live employee is  *)
(* assigned to is not removed, unless the two requests meet; and a leave   *)
(* type that balances refer to stays, and is there once, whatever meets:   *)
(* any number of departments, items, types and requests.                   *)
THEOREM StructureHolds == MCSpec => []StructureIsSound
<1> DEFINE Inv == DepartmentsOnly /\ ItemsOnly /\ PolicyInv
<1>1. MCInit => Inv
  BY DeptStart, TreeStart, ItemStart, PolicyInit DEF MCInit, DepartmentsOnly, ItemsOnly
<1>2. Inv /\ [MCNext]_<<vars, side, raced, died>> => Inv'
  BY DepartmentsOnlyKeeps, ItemsOnlyKeeps, PoliciesOnlyKeep
<1>3. TreeAlone => D!TreeIsSound
  <2> SUFFICES ASSUME TreeAlone, \A w \in Workers : djob[w] = D!NoJob, NEW d \in Ids, D!Live(d)
               PROVE  /\ dept[d].parent # Root => D!Live(dept[d].parent)
                      /\ LevelFits(d)
    BY DEF D!TreeIsSound, LevelFits
  <2>1. ParentsLive /\ LevelFits(d)
    BY DeptIdle DEF TreeAlone, TreeFits, ToDo
  <2> QED
    BY <2>1 DEF ParentsLive
<1>4. ItemsAlone => M!AssignedIsLive
  BY DEF ItemsAlone, M!AssignedIsLive, Unassigned, Items
<1>5. Inv => StructureIsSound
  BY <1>3, <1>4 DEF DepartmentsOnly, DeptInv, ItemsOnly, PolicyInv, StructureIsSound
<1> QED
  BY <1>1, <1>2, <1>5, PTL DEF MCSpec

(* What administrators' requests do, step by step, while no two meet on a  *)
(* row: a reminder makes no paid invoice overdue; the refresh and the      *)
(* removal of roles take no permission from anybody, and a refresh that    *)
(* ends has brought every canonical role what its release gives it; an     *)
(* update of a leave policy that renames no row ends with the types asked  *)
(* for.  And nobody activates their own account, nor is a password's gate  *)
(* lifted but by its owner or a link: any number of accounts and requests. *)
THEOREM StepsAreAsAsked == MCSpec => StepsDoAsTheySay
<1>1. OrgInv /\ [MCNext]_<<vars, side, raced, died>> =>
        [~raced' => /\ B!PaidStaysPaid /\ R!NothingIsTaken /\ R!RefreshCompletes
                    /\ P!AnsweredAsAsked /\ OthersActivate]_vars
  BY BillsOnlyKeeps, RolesOnlyKeep, PoliciesAsAsked, AccessAlways DEF OrgInv
<1> QED
  BY <1>1, OrgStarts, OrgKeeps, PTL DEF MCSpec, StepsDoAsTheySay

(* Everything stored about organizations, roles, departments, items,       *)
(* policies and accounts, and every request about them, is of its type.    *)
THEOREM OrgTypes == MCSpec => []TypesAreOK
<1>1. BillsTyped => B!TypeOK
  <2> SUFFICES ASSUME BillsTyped PROVE B!TypeOK
    OBVIOUS
  <2>1. /\ day \in Nat /\ active \in [Orgs -> BOOLEAN] /\ billed \in 0 .. MaxBilled
        /\ sub \in [Orgs -> Subs] /\ jobs \in [B!Jobs -> BillJobs]
        /\ admin \in [Workers -> Requested]
    BY DEF BillsTyped
  <2>2. \A i \in DOMAIN invoices : invoices[i] \in Bills
    BY DEF BillsTyped
  <2> QED
    BY <2>1, <2>2 DEF B!TypeOK, Subs, Bills, BillJobs, Cycles, Requested
<1>2. DeptTyped => D!TypeOK
  <2> SUFFICES ASSUME DeptTyped PROVE D!TypeOK
    OBVIOUS
  <2>1. changed \in 0 .. 2 /\ dept \in [Ids -> DeptRows]
    BY DEF DeptTyped
  <2>2. ASSUME NEW w \in Workers
        PROVE  LET j == djob[w]
               IN /\ j.at \in D!Steps /\ {j.id, j.spot} \subseteq D!Parents /\ j.level \in 0 .. 2
                  /\ {j.name, j.parent} \subseteq D!Fields
                  /\ \A i \in DOMAIN j.todo : j.todo[i][1] \in Ids /\ j.todo[i][2] \in 0 .. 3
    <3>1. djob[w] \in DeptJobs
      BY DEF DeptTyped
    <3>2. djob[w].todo \in Seq(Ids \X (0 .. 3))
      BY <3>1 DEF DeptJobs
    <3>3. \A i \in DOMAIN djob[w].todo : djob[w].todo[i] \in Ids \X (0 .. 3)
      BY <3>2
    <3> QED
      BY <3>1, <3>3 DEF DeptJobs
  <2> QED
    BY <2>1, <2>2 DEF D!TypeOK, DeptRows
<1>3. ItemsTyped => M!TypeOK
  BY DEF ItemsTyped, M!TypeOK, ItemJobs, Items
<1>4. PolicyInv /\ AnswerTyped => P!TypeOK
  <2> SUFFICES ASSUME PolicyInv, AnswerTyped PROVE P!TypeOK
    OBVIOUS
  <2>1. \A w \in Workers : pjob[w] \in PolicyJobs
    BY DEF PolicyInv
  <2> QED
    BY <2>1 DEF PolicyInv, AnswerTyped, P!TypeOK, PolicyJobs, TypeKinds
<1>5. OrgInv => TypesAreOK
  BY <1>1, <1>2, <1>3, <1>4
     DEF OrgInv, BillsOnly, RolesOnly, RolesTyped, DepartmentsOnly, DeptInv, ItemsOnly, PoliciesOnly,
         AccessInv, TypesAreOK
<1> QED
  BY <1>5, OrgStarts, OrgKeeps, PTL DEF MCSpec
=============================================================================
