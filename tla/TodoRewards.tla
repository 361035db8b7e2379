---------------------------- MODULE TodoRewards ----------------------------
(***************************************************************************)
(* Todos that earn an incentive.  The employee submits a quantity, a       *)
(* reviewer approves it, which writes the ledger row in the transaction    *)
(* that approves the todo, or rejects it.  Both check the status in one    *)
(* statement and write by id in a later one.                               *)
(***************************************************************************)
EXTENDS Integers

CONSTANTS
    Todos,
    Quantities,         \* values of quantity
    Rules, Rate,        \* the active incentive rules, and rule -> rate
    NoTodo, NoRule,
    Submitters,         \* concurrently served submissions
    Reviewers           \* concurrently served reviews

Null == -1
Workers == Submitters \cup Reviewers

ASSUME TodoAssumption ==
    /\ Quantities \subseteq Nat /\ Rate \in [Rules -> Nat]
    /\ NoTodo \notin Todos /\ NoRule \notin Rules
    /\ Submitters \cap Reviewers = {}

VARIABLES
    todo,       \* id -> TodoTask
    ledger,     \* id -> totalAmount of its IncentiveLedger row, or Null
    pc, job     \* worker -> its next statement, and what it has read

vars == <<todo, ledger, pc, job>>

NoRow == [status |-> "NONE", quantity |-> Null, rule |-> NoRule]
NoJob == [todo |-> NoTodo, quantity |-> Null, rule |-> NoRule]

TypeOK ==
    /\ todo \in [Todos -> [status : {"NONE", "PENDING", "SUBMITTED", "APPROVED", "REJECTED"},
                           quantity : Quantities \cup {Null}, rule : Rules \cup {NoRule}]]
    /\ ledger \in [Todos -> Nat \cup {Null}]
    /\ pc \in [Workers -> {"idle", "submit", "approve", "reject"}]
    /\ job \in [Workers -> [todo : Todos \cup {NoTodo}, quantity : Quantities \cup {Null},
                            rule : Rules \cup {NoRule}]]

Init ==
    /\ todo = [t \in Todos |-> NoRow]
    /\ ledger = [t \in Todos |-> Null]
    /\ pc = [w \in Workers |-> "idle"]
    /\ job = [w \in Workers |-> NoJob]

Step(w, to, j) == pc' = [pc EXCEPT ![w] = to] /\ job' = [job EXCEPT ![w] = j]
Finish(w) == Step(w, "idle", NoJob)

-----------------------------------------------------------------------------
Create(t, q, r) ==
    /\ todo[t].status = "NONE"
    /\ todo' = [todo EXCEPT ![t] = [status |-> "PENDING", quantity |-> q, rule |-> r]]
    /\ UNCHANGED <<ledger, pc, job>>

(* Fault: an approved todo may be submitted again. *)
SubmitAgain(w, t) ==
    /\ pc[w] = "idle"
    /\ todo[t].status \in {"PENDING", "REJECTED", "APPROVED"}
    /\ Step(w, "submit", [job[w] EXCEPT !.todo = t])
    /\ UNCHANGED <<todo, ledger>>

SubmitRead(w, t) ==
    /\ pc[w] = "idle"
    /\ todo[t].status \in {"PENDING", "REJECTED"}
    /\ Step(w, "submit", [job[w] EXCEPT !.todo = t])
    /\ UNCHANGED <<todo, ledger>>

SubmitWrite(w, q) ==
    /\ pc[w] = "submit"
    /\ todo' = [todo EXCEPT ![job[w].todo] = [@ EXCEPT !.status = "SUBMITTED", !.quantity = q]]
    /\ Finish(w)
    /\ UNCHANGED ledger

RejectRead(w, t) ==
    /\ pc[w] = "idle"
    /\ todo[t].status = "SUBMITTED"
    /\ Step(w, "reject", [job[w] EXCEPT !.todo = t])
    /\ UNCHANGED <<todo, ledger>>

RejectWrite(w) ==
    /\ pc[w] = "reject"
    /\ todo' = [todo EXCEPT ![job[w].todo] = [@ EXCEPT !.status = "REJECTED"]]
    /\ Finish(w)
    /\ UNCHANGED ledger

(* r: dto.incentiveRuleId, which the todo's own rule stands in for.  Rules *)
(* do not change here, so reading the todo and the rule is one step.       *)
ApproveRead(w, t, r) ==
    LET rule == IF r = NoRule THEN todo[t].rule ELSE r
    IN /\ pc[w] = "idle"
       /\ todo[t].status = "SUBMITTED"
       /\ todo[t].quantity # Null
       /\ rule # NoRule
       /\ Step(w, "approve", [todo |-> t, quantity |-> todo[t].quantity, rule |-> rule])
       /\ UNCHANGED <<todo, ledger>>

(* todoId is unique in the ledger: a second row fails, and the update of   *)
(* the todo in the same transaction with it.                               *)
ApproveWrite(w) ==
    LET t == job[w].todo
    IN /\ pc[w] = "approve"
       /\ IF ledger[t] = Null
          THEN /\ todo' = [todo EXCEPT ![t] = [@ EXCEPT !.status = "APPROVED", !.rule = job[w].rule]]
               /\ ledger' = [ledger EXCEPT ![t] = job[w].quantity * Rate[job[w].rule]]
          ELSE UNCHANGED <<todo, ledger>>
       /\ Finish(w)

(* A statement fails, or the process dies: the request ends where it is. *)
Abandon(w) ==
    /\ pc[w] # "idle"
    /\ Finish(w)
    /\ UNCHANGED <<todo, ledger>>

Next ==
    \/ \E t \in Todos, q \in Quantities \cup {Null}, r \in Rules \cup {NoRule} : Create(t, q, r)
    \/ \E w \in Submitters : \/ \E t \in Todos : SubmitRead(w, t)
                             \/ \E q \in Quantities : SubmitWrite(w, q)
    \/ \E w \in Reviewers : \/ \E t \in Todos : RejectRead(w, t)
                            \/ RejectWrite(w)
                            \/ \E t \in Todos, r \in Rules \cup {NoRule} : ApproveRead(w, t, r)
                            \/ ApproveWrite(w)
    \/ \E w \in Workers : Abandon(w)

Spec == Init /\ [][Next]_vars

-----------------------------------------------------------------------------
(* PROPERTIES *)

(* An approved todo has earned its quantity at the rate of its rule.       *)
ApprovedIsPaid ==
    \A t \in Todos : todo[t].status = "APPROVED" =>
        ledger[t] = todo[t].quantity * Rate[todo[t].rule]

(* Only an approved todo earns: none that is submitted, rejected or        *)
(* pending has a ledger row.                                               *)
OnlyApprovedEarns == \A t \in Todos : ledger[t] # Null => todo[t].status = "APPROVED"

(* Two submissions, or two reviews, are being served at the same time. *)
Racing == \E v, w \in Workers :
    v # w /\ pc[v] # "idle" /\ pc[w] # "idle" /\ (v \in Submitters <=> w \in Submitters)
=============================================================================
