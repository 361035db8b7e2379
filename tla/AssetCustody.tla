---------------------------- MODULE AssetCustody ----------------------------
(***************************************************************************)
(* Company assets, the log of their assignments, and the soft deletion of  *)
(* the employees who hold them.  assign and return each check the asset's  *)
(* status in one statement and write both tables in a later transaction    *)
(* that checks nothing.                                                    *)
(***************************************************************************)
EXTENDS Naturals, Sequences

CONSTANTS
    Assets, Employees,
    NewStatuses,        \* values of ReturnAssetDto.newStatus
    MaxAssignments,     \* bound on the length of the log
    Clerks              \* concurrently served asset requests

AssetStatus == {"AVAILABLE", "ASSIGNED", "UNDER_MAINTENANCE", "RETIRED",
                "RETURNED", "DAMAGED", "LOST"}

ASSUME CustodyAssumption ==
    /\ Assets # {} /\ Employees # {}
    /\ NewStatuses \subseteq AssetStatus /\ MaxAssignments \in Nat

VARIABLES
    asset,      \* asset -> Asset.status
    log,        \* the AssetAssignment rows, by assignedAt
    gone,       \* employees whose deletedAt is set
    left,       \* assets whose last write was a return to ASSIGNED  (history)
    removed,    \* employees who have ever been removed              (history)
    apc,        \* clerk -> the statement its request executes next
    ajob        \* clerk -> what its request has read

custody == <<asset, log, gone, left, removed, apc, ajob>>

Entry == [asset : Assets, emp : Employees, open : BOOLEAN]

CustodyTypeOK ==
    /\ asset \in [Assets -> AssetStatus]
    /\ log \in Seq(Entry)
    /\ gone \subseteq Employees /\ left \subseteq Assets /\ removed \subseteq Employees
    /\ apc \in [Clerks -> {"idle", "employee", "assign", "find", "return"}]
    /\ ajob \in [Clerks -> [asset : Assets, emp : Employees, status : AssetStatus, nth : Nat]]

NoJob == [asset |-> CHOOSE x \in Assets : TRUE, emp |-> CHOOSE e \in Employees : TRUE,
          status |-> "AVAILABLE", nth |-> 0]

CustodyInit ==
    /\ asset = [x \in Assets |-> "AVAILABLE"]
    /\ log = <<>>
    /\ gone = {} /\ left = {} /\ removed = {}
    /\ apc = [c \in Clerks |-> "idle"]
    /\ ajob = [c \in Clerks |-> NoJob]

(* A row is open while returnedAt is null; return() sets recoveredAtExit    *)
(* along with it, and nothing else writes either.                          *)
OpenOf(x) == {n \in DOMAIN log : log[n].asset = x /\ log[n].open}

(* countUnreturnedAssignmentsForEmployee, as a test against 0 *)
HoldsAssets(e) == \E n \in DOMAIN log : log[n].emp = e /\ log[n].open

Step(c, to, j) == apc' = [apc EXCEPT ![c] = to] /\ ajob' = [ajob EXCEPT ![c] = j]
Finish(c) == Step(c, "idle", NoJob)
Reads == UNCHANGED <<asset, log, gone, left, removed>>

-----------------------------------------------------------------------------
(* Fault: the status check is left out. *)
AssignUnchecked(c, x, e) ==
    /\ apc[c] = "idle"
    /\ Step(c, "employee", [ajob[c] EXCEPT !.asset = x, !.emp = e])
    /\ Reads

AssignRead(c, x, e) ==
    /\ apc[c] = "idle"
    /\ asset[x] = "AVAILABLE"
    /\ Step(c, "employee", [ajob[c] EXCEPT !.asset = x, !.emp = e])
    /\ Reads

(* The employee is there, or 404. *)
AssignFind(c) ==
    /\ apc[c] = "employee"
    /\ IF ajob[c].emp \in gone THEN Finish(c) ELSE Step(c, "assign", ajob[c])
    /\ Reads

(* Fault: an open row of the asset is rewritten instead of adding one. *)
AssignOverwrites(c) ==
    LET new == [asset |-> ajob[c].asset, emp |-> ajob[c].emp, open |-> TRUE]
        old == {n \in DOMAIN log : log[n].asset = new.asset}
    IN /\ apc[c] = "assign"
       /\ Len(log) < MaxAssignments
       /\ log' = IF old = {} THEN Append(log, new)
                 ELSE [log EXCEPT ![CHOOSE n \in old : TRUE] = new]
       /\ asset' = [asset EXCEPT ![ajob[c].asset] = "ASSIGNED"]
       /\ left' = left \ {ajob[c].asset}
       /\ Finish(c)
       /\ UNCHANGED <<gone, removed>>

AssignWrite(c) ==
    /\ apc[c] = "assign"
    /\ Len(log) < MaxAssignments
    /\ log' = Append(log, [asset |-> ajob[c].asset, emp |-> ajob[c].emp, open |-> TRUE])
    /\ asset' = [asset EXCEPT ![ajob[c].asset] = "ASSIGNED"]
    /\ left' = left \ {ajob[c].asset}
    /\ Finish(c)
    /\ UNCHANGED <<gone, removed>>

ReturnRead(c, x, s) ==
    /\ apc[c] = "idle"
    /\ asset[x] = "ASSIGNED"
    /\ Step(c, "find", [ajob[c] EXCEPT !.asset = x, !.status = s])
    /\ Reads

(* The latest open row of the asset, or 400. *)
ReturnFind(c) ==
    LET open == OpenOf(ajob[c].asset)
    IN /\ apc[c] = "find"
       /\ \/ /\ open # {}
             /\ \E n \in open : /\ \A k \in open : k <= n
                                /\ Step(c, "return", [ajob[c] EXCEPT !.nth = n])
          \/ open = {} /\ Finish(c)
       /\ Reads

(* Fault: the asset's status is left as it was. *)
ReturnKeepsStatus(c) ==
    /\ apc[c] = "return"
    /\ log' = [log EXCEPT ![ajob[c].nth] = [@ EXCEPT !.open = FALSE]]
    /\ Finish(c)
    /\ UNCHANGED <<asset, gone, left, removed>>

ReturnWrite(c) ==
    LET x == ajob[c].asset
    IN /\ apc[c] = "return"
       /\ log' = [log EXCEPT ![ajob[c].nth] = [@ EXCEPT !.open = FALSE]]
       /\ asset' = [asset EXCEPT ![x] = ajob[c].status]
       /\ left' = IF ajob[c].status = "ASSIGNED" THEN left \cup {x} ELSE left \ {x}
       /\ Finish(c)
       /\ UNCHANGED <<gone, removed>>

(* A statement fails, or the process dies: the request ends where it is. *)
Abandon(c) ==
    /\ apc[c] # "idle"
    /\ Finish(c)
    /\ Reads

(* EmployeesService.remove and restore: what an employee holds is not      *)
(* looked at, and the second of two equal requests finds nobody.           *)
Remove(e) ==
    /\ e \notin gone
    /\ gone' = gone \cup {e} /\ removed' = removed \cup {e}
    /\ UNCHANGED <<asset, log, left, apc, ajob>>

Restore(e) ==
    /\ e \in gone
    /\ gone' = gone \ {e}
    /\ UNCHANGED <<asset, log, left, removed, apc, ajob>>

Serve(c) ==
    \/ \E x \in Assets, e \in Employees : AssignRead(c, x, e)
    \/ AssignFind(c) \/ AssignWrite(c)
    \/ \E x \in Assets, s \in NewStatuses : ReturnRead(c, x, s)
    \/ ReturnFind(c)
    \/ ReturnWrite(c)
    \/ Abandon(c)

CustodyNext ==
    \/ \E c \in Clerks : Serve(c)
    \/ \E e \in Employees : Remove(e) \/ Restore(e)

CustodySpec == CustodyInit /\ [][CustodyNext]_custody

-----------------------------------------------------------------------------
(* PROPERTIES *)

(* An asset is ASSIGNED only while somebody holds it, whatever requests    *)
(* interleave, unless a return has asked for that status: then it can be   *)
(* neither assigned nor returned again.                                    *)
AssignedHasHolder ==
    \A x \in Assets \ left : asset[x] = "ASSIGNED" => OpenOf(x) # {}

(* The log is a history: a row keeps its asset and its holder for good, and *)
(* a returned row is never open again.                                     *)
HistoryIsKept ==
    [][\A n \in DOMAIN log :
          /\ n \in DOMAIN log'
          /\ log'[n].asset = log[n].asset /\ log'[n].emp = log[n].emp
          /\ log'[n].open => log[n].open]_custody

(* An asset has at most one holder, and what somebody holds can be         *)
(* returned: its asset is ASSIGNED.                                        *)
OneHolder ==
    \A n \in DOMAIN log : log[n].open =>
        /\ OpenOf(log[n].asset) = {n}
        /\ asset[log[n].asset] = "ASSIGNED"

(* Two asset requests about one asset are being served.                    *)
Clashing ==
    \E c, d \in Clerks : /\ c # d /\ apc[c] # "idle" /\ apc[d] # "idle"
                         /\ ajob[c].asset = ajob[d].asset
=============================================================================
