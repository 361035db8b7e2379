----------------------------- MODULE ExitProofs -----------------------------
(***************************************************************************)
(* What holds of assets in custody and of exits, for any number of assets, *)
(* employees, departments and concurrent exit, status and asset requests;  *)
(* what needs that no two requests about one asset, or no two about exits, *)
(* have overlapped says so.                                                *)
(***************************************************************************)
EXTENDS MCExit, TLAPS

-----------------------------------------------------------------------------
(* ASSETS *)

(* A request that is about to close a row found it as a row of its asset,  *)
(* and rows keep their asset: it cannot close the row of another one.      *)
ClosesOwnRow ==
    \A c \in Clerks : apc[c] = "return" =>
        ajob[c].nth \in DOMAIN log /\ log[ajob[c].nth].asset = ajob[c].asset

CustodyInv == CustodyTypeOK /\ ClosesOwnRow /\ AssignedHasHolder /\ gone \subseteq removed

ClerkPlaces == {"idle", "employee", "assign", "find", "return"}
Job == [asset : Assets, emp : Employees, status : AssetStatus, nth : Nat]

(* The cleared job record is a job record. *)
LEMMA NoJobIsJob == NoJob \in Job
BY CustodyAssumption DEF NoJob, Job, AssetStatus

(* A step of one clerk leaves every other clerk as it was. *)
LEMMA StepMoves ==
    ASSUME NEW c \in Clerks, NEW to, NEW j, CustodyTypeOK, Step(c, to, j)
    PROVE  /\ apc'[c] = to /\ ajob'[c] = j
           /\ \A d \in Clerks : d # c => apc'[d] = apc[d] /\ ajob'[d] = ajob[d]
BY DEF CustodyTypeOK, Step

(* A step keeps the clerks' state typed. *)
LEMMA StepTypes ==
    ASSUME NEW c \in Clerks, NEW to \in ClerkPlaces,
           NEW j \in Job, CustodyTypeOK, Step(c, to, j)
    PROVE  /\ apc' \in [Clerks -> ClerkPlaces]
           /\ ajob' \in [Clerks -> Job]
BY DEF CustodyTypeOK, Step, Job, ClerkPlaces

(* In the initial state nothing is assigned and nobody has read anything.  *)
LEMMA CustodyStarts == CustodyInit => CustodyInv
<1> SUFFICES ASSUME CustodyInit PROVE CustodyInv
  OBVIOUS
<1>1. CustodyTypeOK
  BY NoJobIsJob DEF CustodyInit, CustodyTypeOK, AssetStatus, Job, Entry
<1> QED
  BY <1>1 DEF CustodyInit, CustodyInv, AssignedHasHolder, ClosesOwnRow

(* What closing a row does to the log. *)
LEMMA Closing ==
    ASSUME NEW l \in Seq(Entry), NEW k \in DOMAIN l, NEW m,
           m = [l EXCEPT ![k] = [@ EXCEPT !.open = FALSE]]
    PROVE  /\ m \in Seq(Entry) /\ DOMAIN m = DOMAIN l
           /\ \A n \in DOMAIN l : /\ m[n].asset = l[n].asset /\ m[n].emp = l[n].emp
                                  /\ m[n].open => l[n].open
                                  /\ n # k => m[n] = l[n]
<1>1. DOMAIN l = 1..Len(l) /\ Len(l) \in Nat /\ \A n \in 1..Len(l) : l[n] \in Entry
  OBVIOUS
<1>2. [l[k] EXCEPT !.open = FALSE] \in Entry
  BY <1>1 DEF Entry
<1>3. m \in Seq(Entry) /\ DOMAIN m = DOMAIN l
  BY <1>1, <1>2
<1>4. m[k] = [l[k] EXCEPT !.open = FALSE] /\ \A n \in DOMAIN l : n # k => m[n] = l[n]
  OBVIOUS
<1>5. m[k].asset = l[k].asset /\ m[k].emp = l[k].emp /\ m[k].open = FALSE
  BY <1>1, <1>4 DEF Entry
<1> QED
  BY <1>3, <1>4, <1>5

-----------------------------------------------------------------------------
(* A request that writes neither table keeps the invariant when its own    *)
(* next statement is covered. *)
LEMMA ReadKeeps ==
    ASSUME CustodyInv, NEW c \in Clerks, NEW to \in ClerkPlaces,
           NEW j \in Job, Step(c, to, j), Reads,
           to = "return" => j.nth \in DOMAIN log /\ log[j.nth].asset = j.asset
    PROVE  CustodyInv'
<1>1. CustodyTypeOK'
  BY StepTypes DEF CustodyInv, CustodyTypeOK, Job, Reads, ClerkPlaces
<1>2. AssignedHasHolder' /\ (gone \subseteq removed)'
  BY DEF CustodyInv, AssignedHasHolder, OpenOf, Reads
<1>3. ClosesOwnRow'
  BY StepMoves DEF CustodyInv, ClosesOwnRow, Reads
<1> QED
  BY <1>1, <1>2, <1>3 DEF CustodyInv

(* assign's transaction adds a row that is open. *)
LEMMA AssignKeeps ==
    ASSUME CustodyInv, NEW c \in Clerks, AssignWrite(c)
    PROVE  CustodyInv'
<1> DEFINE x == ajob[c].asset
           new == [asset |-> x, emp |-> ajob[c].emp, open |-> TRUE]
<1>1. ajob[c] \in Job /\ new \in Entry /\ log \in Seq(Entry) /\ x \in Assets
  BY DEF CustodyInv, CustodyTypeOK, Job, Entry
<1>2. /\ log' = Append(log, new) /\ asset' = [asset EXCEPT ![x] = "ASSIGNED"]
      /\ left' = left \ {x} /\ UNCHANGED <<gone, removed>>
  BY DEF AssignWrite
<1>3. /\ log' \in Seq(Entry) /\ DOMAIN log' = 1..(Len(log) + 1) /\ DOMAIN log = 1..Len(log)
      /\ log'[Len(log) + 1] = new /\ Len(log) \in Nat
      /\ \A n \in 1..Len(log) : log'[n] = log[n]
  BY <1>1, <1>2
<1>4. Step(c, "idle", NoJob)
  BY DEF AssignWrite, Finish
<1>5. CustodyTypeOK'
  BY <1>1, <1>2, <1>3, <1>4, StepTypes, NoJobIsJob
     DEF CustodyInv, CustodyTypeOK, Job, AssetStatus, ClerkPlaces
<1>6. AssignedHasHolder'
  <2> SUFFICES ASSUME NEW y \in Assets, y \notin left', asset'[y] = "ASSIGNED"
               PROVE  \E n \in DOMAIN log' : log'[n].asset = y /\ log'[n].open
    BY DEF AssignedHasHolder, OpenOf
  <2>1. CASE y = x
    BY <2>1, <1>3
  <2>2. CASE y # x
    <3>1. asset[y] = "ASSIGNED" /\ y \notin left
      BY <2>2, <1>2 DEF CustodyInv, CustodyTypeOK
    <3>2. PICK n \in DOMAIN log : log[n].asset = y /\ log[n].open
      BY <3>1 DEF CustodyInv, AssignedHasHolder, OpenOf
    <3> QED
      BY <3>2, <1>3
  <2> QED
    BY <2>1, <2>2
<1>7. ClosesOwnRow'
  BY <1>3, <1>4, StepMoves DEF CustodyInv, ClosesOwnRow
<1> QED
  BY <1>2, <1>5, <1>6, <1>7 DEF CustodyInv

(* return's transaction closes a row of the asset that it releases. *)
LEMMA ReturnKeeps ==
    ASSUME CustodyInv, NEW c \in Clerks, ReturnWrite(c)
    PROVE  CustodyInv'
<1> DEFINE x == ajob[c].asset
           k == ajob[c].nth
<1>1. /\ ajob[c] \in Job /\ log \in Seq(Entry) /\ x \in Assets
      /\ k \in DOMAIN log /\ log[k].asset = x
      /\ ajob[c].status \in AssetStatus
  BY DEF CustodyInv, CustodyTypeOK, Job, ReturnWrite, ClosesOwnRow
<1>2. /\ log' = [log EXCEPT ![k] = [@ EXCEPT !.open = FALSE]]
      /\ asset' = [asset EXCEPT ![x] = ajob[c].status]
      /\ left' = IF ajob[c].status = "ASSIGNED" THEN left \cup {x} ELSE left \ {x}
      /\ UNCHANGED <<gone, removed>>
  BY DEF ReturnWrite
<1>3. /\ log' \in Seq(Entry) /\ DOMAIN log' = DOMAIN log
      /\ \A n \in DOMAIN log : log'[n].asset = log[n].asset
      /\ \A n \in DOMAIN log : n # k => log'[n] = log[n]
  BY <1>1, <1>2, Closing
<1>4. Step(c, "idle", NoJob)
  BY DEF ReturnWrite, Finish
<1>5. CustodyTypeOK'
  BY <1>1, <1>2, <1>3, <1>4, StepTypes, NoJobIsJob
     DEF CustodyInv, CustodyTypeOK, Job, ClerkPlaces
<1>6. AssignedHasHolder'
  <2> SUFFICES ASSUME NEW y \in Assets, y \notin left', asset'[y] = "ASSIGNED"
               PROVE  \E n \in DOMAIN log' : log'[n].asset = y /\ log'[n].open
    BY DEF AssignedHasHolder, OpenOf
  <2>1. y # x /\ asset[y] = "ASSIGNED" /\ y \notin left
    BY <1>1, <1>2 DEF CustodyInv, CustodyTypeOK
  <2>2. PICK n \in DOMAIN log : log[n].asset = y /\ log[n].open
    BY <2>1 DEF CustodyInv, AssignedHasHolder, OpenOf
  <2>3. n # k
    BY <2>1, <2>2, <1>1
  <2> QED
    BY <2>2, <2>3, <1>3
<1>7. ClosesOwnRow'
  BY <1>3, <1>4, StepMoves DEF CustodyInv, ClosesOwnRow
<1> QED
  BY <1>2, <1>5, <1>6, <1>7 DEF CustodyInv

(* The invariant is inductive. *)
LEMMA CustodySteps == CustodyInv /\ [CustodyNext]_custody => CustodyInv'
<1> SUFFICES ASSUME CustodyInv, [CustodyNext]_custody PROVE CustodyInv'
  OBVIOUS
<1>1. CASE UNCHANGED custody
  BY <1>1 DEF custody, CustodyInv, CustodyTypeOK, AssignedHasHolder, OpenOf, ClosesOwnRow
<1>2. ASSUME NEW c \in Clerks, Serve(c) PROVE CustodyInv'
  <2>0. ajob[c] \in Job /\ NoJob \in Job
    BY NoJobIsJob DEF CustodyInv, CustodyTypeOK, Job
  <2>1. ASSUME NEW x \in Assets, NEW e \in Employees, AssignRead(c, x, e) PROVE CustodyInv'
    BY <2>0, <2>1, ReadKeeps DEF AssignRead, Job, ClerkPlaces
  <2>7. CASE AssignFind(c)
    BY <2>0, <2>7, ReadKeeps DEF AssignFind, Finish, ClerkPlaces
  <2>2. CASE AssignWrite(c)
    BY <2>2, AssignKeeps
  <2>3. ASSUME NEW x \in Assets, NEW s \in NewStatuses, ReturnRead(c, x, s) PROVE CustodyInv'
    <3>1. s \in AssetStatus
      BY CustodyAssumption
    <3> QED
      BY <2>0, <2>3, <3>1, ReadKeeps DEF ReturnRead, Job, ClerkPlaces
  <2>4. CASE ReturnFind(c)
    <3>1. log \in Seq(Entry)
      BY DEF CustodyInv, CustodyTypeOK
    <3>2. ASSUME NEW n \in OpenOf(ajob[c].asset), Step(c, "return", [ajob[c] EXCEPT !.nth = n])
          PROVE  CustodyInv'
      <4>1. n \in DOMAIN log /\ n \in Nat /\ log[n].asset = ajob[c].asset
        BY <3>1 DEF OpenOf
      <4>2. [ajob[c] EXCEPT !.nth = n] \in Job
        BY <2>0, <4>1 DEF Job
      <4> QED
        BY <2>0, <2>4, <3>1, <3>2, <4>1, <4>2, ReadKeeps DEF ReturnFind, Job, ClerkPlaces
    <3>3. CASE Finish(c)
      BY <2>0, <2>4, <3>3, ReadKeeps DEF ReturnFind, Finish, ClerkPlaces
    <3> QED
      BY <2>4, <3>2, <3>3 DEF ReturnFind
  <2>5. CASE ReturnWrite(c)
    BY <2>5, ReturnKeeps
  <2>6. CASE Abandon(c)
    BY <2>0, <2>6, ReadKeeps DEF Abandon, Finish, ClerkPlaces
  <2> QED
    BY <1>2, <2>1, <2>2, <2>3, <2>4, <2>5, <2>6, <2>7 DEF Serve
<1>3. ASSUME NEW e \in Employees, Remove(e) \/ Restore(e) PROVE CustodyInv'
  BY <1>3 DEF Remove, Restore, CustodyInv, CustodyTypeOK, AssignedHasHolder, OpenOf, ClosesOwnRow
<1> QED
  BY <1>1, <1>2, <1>3 DEF CustodyNext

LEMMA AlwaysCustody == CustodySpec => []CustodyInv
BY CustodyStarts, CustodySteps, PTL DEF CustodySpec

(* An asset is ASSIGNED only while somebody holds it, or where a return    *)
(* has asked for just that, however many requests interleave.              *)
THEOREM AssignedAssetsHaveHolders == CustodySpec => []AssignedHasHolder
<1>1. CustodyInv => AssignedHasHolder
  BY DEF CustodyInv
<1> QED
  BY <1>1, AlwaysCustody, PTL

(* No request rewrites an assignment or reopens a returned one.            *)
THEOREM AssignmentsAreHistory == CustodySpec => HistoryIsKept
<1> DEFINE Kept == \A n \in DOMAIN log :
                      /\ n \in DOMAIN log'
                      /\ log'[n].asset = log[n].asset /\ log'[n].emp = log[n].emp
                      /\ log'[n].open => log[n].open
<1>1. CustodyInv /\ [CustodyNext]_custody => [Kept]_custody
  <2> SUFFICES ASSUME CustodyInv, NEW c \in Clerks, Serve(c) PROVE Kept
    BY DEF CustodyNext, Remove, Restore
  <2>1. CASE AssignWrite(c)
    <3>1. /\ log \in Seq(Entry)
          /\ log' = Append(log, [asset |-> ajob[c].asset, emp |-> ajob[c].emp, open |-> TRUE])
      BY <2>1 DEF AssignWrite, CustodyInv, CustodyTypeOK
    <3> QED
      BY <3>1
  <2>2. CASE ReturnWrite(c)
    <3>1. log \in Seq(Entry) /\ ajob[c].nth \in DOMAIN log
      BY <2>2 DEF ReturnWrite, CustodyInv, CustodyTypeOK, ClosesOwnRow
    <3>2. log' = [log EXCEPT ![ajob[c].nth] = [@ EXCEPT !.open = FALSE]]
      BY <2>2 DEF ReturnWrite
    <3> QED
      BY <3>1, <3>2, Closing
  <2>3. CASE log' = log
    BY <2>3
  <2> QED
    BY <2>1, <2>2, <2>3 DEF Serve, AssignRead, AssignFind, ReturnRead, ReturnFind, Abandon, Reads
<1> QED
  BY <1>1, AlwaysCustody, PTL DEF CustodySpec, HistoryIsKept

-----------------------------------------------------------------------------
(* NO TWO REQUESTS ABOUT ONE ASSET *)

(* What a request has checked still holds when it writes. *)
Fresh(c) ==
    /\ apc[c] \in {"employee", "assign"} => asset[ajob[c].asset] = "AVAILABLE"
    /\ apc[c] = "return" => log[ajob[c].nth].open

ClerksAreFresh == \A c \in Clerks : Fresh(c)

HolderInv == CustodyInv /\ (~clashed => ~Clashing /\ OneHolder /\ ClerksAreFresh)

LEMMA HolderSteps ==
    ASSUME CustodyInv, OneHolder, ClerksAreFresh, ~Clashing, [CustodyNext]_custody
    PROVE  OneHolder' /\ ClerksAreFresh'
<1>0. CustodyTypeOK /\ OneHolder /\ ClerksAreFresh /\ ClosesOwnRow /\ NoJob \in Job
  BY NoJobIsJob DEF CustodyInv
<1>1. CASE UNCHANGED <<asset, log, apc, ajob>>
  BY <1>0, <1>1 DEF OneHolder, OpenOf, ClerksAreFresh, Fresh
<1>2. ASSUME NEW c \in Clerks, Serve(c) PROVE OneHolder' /\ ClerksAreFresh'
  <2>0. /\ ajob[c] \in Job
        /\ \A d \in Clerks : d # c => apc'[d] = apc[d] /\ ajob'[d] = ajob[d]
    BY <1>0, <1>2, StepMoves
       DEF CustodyTypeOK, Job, Serve, AssignRead, AssignFind, AssignWrite, ReturnRead, ReturnFind,
           ReturnWrite, Abandon, Finish
  <2>1. CASE Reads
    <3>1. OneHolder'
      BY <1>0, <2>1 DEF OneHolder, OpenOf, Reads
    <3>2. ASSUME NEW d \in Clerks, d # c PROVE Fresh(d)'
      BY <1>0, <2>0, <2>1, <3>2 DEF ClerksAreFresh, Fresh, Reads
    <3>3. Fresh(c)'
      <4>1. ASSUME NEW x \in Assets, NEW e \in Employees, AssignRead(c, x, e) PROVE Fresh(c)'
        <5>1. asset[x] = "AVAILABLE" /\ UNCHANGED asset
          BY <4>1 DEF AssignRead, Reads
        <5>2. apc'[c] = "employee" /\ ajob'[c].asset = x
          BY <1>0, <2>0, <4>1 DEF AssignRead, Step, CustodyTypeOK, Job
        <5> QED
          BY <5>1, <5>2 DEF Fresh
      <4>2. ASSUME NEW n \in OpenOf(ajob[c].asset), Step(c, "return", [ajob[c] EXCEPT !.nth = n])
            PROVE  Fresh(c)'
        <5>1. log[n].open
          BY DEF OpenOf
        <5>2. apc'[c] = "return" /\ ajob'[c].nth = n
          BY <1>0, <2>0, <4>2, StepMoves DEF Job
        <5> QED
          BY <2>1, <5>1, <5>2 DEF Fresh, Reads
      <4>3. ASSUME NEW to \in {"idle", "find"}, NEW j, Step(c, to, j) PROVE Fresh(c)'
        BY <1>0, <4>3, StepMoves DEF Fresh
      <4>4. CASE apc[c] = "employee" /\ Step(c, "assign", ajob[c])
        BY <1>0, <2>1, <4>4, StepMoves DEF Fresh, ClerksAreFresh, Reads
      <4> QED
        BY <1>2, <4>1, <4>2, <4>3, <4>4
           DEF Serve, AssignRead, AssignFind, AssignWrite, ReturnRead, ReturnFind, ReturnWrite,
               Abandon, Finish
    <3> QED
      BY <3>1, <3>2, <3>3 DEF ClerksAreFresh
  <2>2. CASE AssignWrite(c)
    <3> DEFINE x == ajob[c].asset
               new == [asset |-> x, emp |-> ajob[c].emp, open |-> TRUE]
    <3>1. /\ log \in Seq(Entry) /\ x \in Assets /\ new \in Entry /\ asset[x] = "AVAILABLE"
          /\ log' = Append(log, new)
          /\ asset'[x] = "ASSIGNED" /\ \A y \in Assets : y # x => asset'[y] = asset[y]
          /\ apc'[c] = "idle" /\ apc[c] = "assign"
      BY <1>0, <2>2 DEF AssignWrite, Finish, Step, CustodyTypeOK, ClerksAreFresh, Fresh, Entry
    <3>2. /\ DOMAIN log' = 1..(Len(log) + 1) /\ DOMAIN log = 1..Len(log) /\ Len(log) \in Nat
          /\ log'[Len(log) + 1] = new /\ \A n \in 1..Len(log) : log'[n] = log[n]
          /\ \A n \in 1..Len(log) : log[n] \in Entry
      BY <3>1
    <3>3. \A n \in DOMAIN log : log[n].asset = x => ~log[n].open
      BY <1>0, <3>1 DEF OneHolder
    <3>4. OneHolder'
      <4> SUFFICES ASSUME NEW n \in DOMAIN log', log'[n].open
                   PROVE  /\ \A k \in DOMAIN log' : log'[k].asset = log'[n].asset /\ log'[k].open => k = n
                          /\ asset'[log'[n].asset] = "ASSIGNED"
        BY DEF OneHolder, OpenOf
      <4>1. CASE n = Len(log) + 1
        BY <3>1, <3>2, <3>3, <4>1
      <4>2. CASE n \in DOMAIN log
        <5>1. log[n].asset # x /\ log[n].asset \in Assets
          BY <3>2, <3>3, <4>2 DEF Entry
        <5>2. \A k \in DOMAIN log : log[k].asset = log[n].asset /\ log[k].open => k = n
          BY <1>0, <3>2, <4>2 DEF OneHolder, OpenOf
        <5> QED
          BY <1>0, <3>1, <3>2, <4>2, <5>1, <5>2 DEF OneHolder
      <4> QED
        BY <3>2, <4>1, <4>2
    <3>5. ASSUME NEW d \in Clerks, d # c, apc[d] # "idle" PROVE Fresh(d)'
      <4>1. ajob[d].asset # x /\ ajob[d].asset \in Assets /\ Fresh(d)
        BY <1>0, <3>1, <3>5 DEF Clashing, ClerksAreFresh, CustodyTypeOK
      <4>2. apc[d] = "return" => ajob[d].nth \in 1..Len(log)
        BY <1>0, <3>2 DEF ClosesOwnRow
      <4> QED
        BY <2>0, <3>1, <3>2, <3>5, <4>1, <4>2 DEF Fresh
    <3> QED
      BY <2>0, <3>1, <3>4, <3>5 DEF ClerksAreFresh, Fresh
  <2>3. CASE ReturnWrite(c)
    <3> DEFINE x == ajob[c].asset
               k == ajob[c].nth
    <3>1. /\ log \in Seq(Entry) /\ x \in Assets
          /\ k \in DOMAIN log /\ log[k].asset = x /\ log[k].open
          /\ log' = [log EXCEPT ![k] = [@ EXCEPT !.open = FALSE]]
          /\ \A y \in Assets : y # x => asset'[y] = asset[y]
          /\ apc'[c] = "idle" /\ apc[c] = "return"
      BY <1>0, <2>3
         DEF ReturnWrite, Finish, Step, CustodyTypeOK, ClerksAreFresh, Fresh, ClosesOwnRow
    <3>2. /\ DOMAIN log' = DOMAIN log
          /\ \A n \in DOMAIN log : log'[n].asset = log[n].asset /\ (n # k => log'[n] = log[n])
      BY <3>1, Closing
    <3>3. \A n \in DOMAIN log : log[n] \in Entry
      BY <3>1
    <3>4. ~log'[k].open
      BY <3>1, <3>3 DEF Entry
    <3>5. OneHolder'
      <4> SUFFICES ASSUME NEW n \in DOMAIN log, log'[n].open
                   PROVE  /\ \A i \in DOMAIN log : log'[i].asset = log'[n].asset /\ log'[i].open => i = n
                          /\ asset'[log'[n].asset] = "ASSIGNED"
        BY <3>2 DEF OneHolder, OpenOf
      <4>1. n # k /\ log[n].open /\ log'[n] = log[n] /\ log[n].asset \in Assets
        BY <3>2, <3>3, <3>4 DEF Entry
      <4>2. OpenOf(log[n].asset) = {n} /\ asset[log[n].asset] = "ASSIGNED"
        BY <1>0, <4>1 DEF OneHolder
      <4>3. log[n].asset # x
        BY <3>1, <4>1, <4>2 DEF OpenOf
      <4> QED
        BY <3>1, <3>2, <3>4, <4>1, <4>2, <4>3 DEF OpenOf
    <3>6. ASSUME NEW d \in Clerks, d # c, apc[d] # "idle" PROVE Fresh(d)'
      <4>1. ajob[d].asset # x /\ ajob[d].asset \in Assets /\ Fresh(d)
        BY <1>0, <3>1, <3>6 DEF Clashing, ClerksAreFresh, CustodyTypeOK
      <4>2. apc[d] = "return" => ajob[d].nth \in DOMAIN log /\ ajob[d].nth # k
        BY <1>0, <3>1, <4>1 DEF ClosesOwnRow
      <4> QED
        BY <2>0, <3>1, <3>2, <3>6, <4>1, <4>2 DEF Fresh
    <3> QED
      BY <2>0, <3>1, <3>5, <3>6 DEF ClerksAreFresh, Fresh
  <2> QED
    BY <1>2, <2>1, <2>2, <2>3 DEF Serve, AssignRead, AssignFind, ReturnRead, ReturnFind, Abandon
<1> QED
  BY <1>1, <1>2 DEF CustodyNext, custody, Remove, Restore

-----------------------------------------------------------------------------
(* EXITS *)

XJob == [emp : Employees, list : Checklist, status : ExitStatus,
         advance : BOOLEAN, to : EmployeeStatus, reason : BOOLEAN]
Places == {"idle", "count", "write", "settle", "patchRead", "patchWrite", "revoke"}
Record == [status : ExitStatus, list : Checklist, noc : BOOLEAN, reason : BOOLEAN]

ExitTypeOK ==
    /\ exit \in [Employees -> Record]
    /\ emp \in [Employees -> EmployeeStatus]
    /\ member \in [Employees -> BOOLEAN] /\ back \subseteq Employees
    /\ xpc \in [Officers -> Places]
    /\ xjob \in [Officers -> XJob]

-----------------------------------------------------------------------------
(* TYPES *)

LEMMA BlankIsList == Blank \in Checklist
BY DEF Blank, Checklist

LEMMA IdleIsJob == Idle \in XJob
BY BlankIsList, CustodyAssumption DEF Idle, XJob, ExitStatus, EmployeeStatus

(* A step of one officer leaves every other as it was, and the state typed. *)
LEMMA GotoTypes ==
    ASSUME ExitTypeOK, NEW w \in Officers, NEW to \in Places, Goto(w, to)
    PROVE  /\ xpc' \in [Officers -> Places] /\ xpc'[w] = to
           /\ \A v \in Officers : v # w => xpc'[v] = xpc[v]
BY DEF ExitTypeOK, Goto

LEMMA NoteTypes ==
    ASSUME ExitTypeOK, NEW w \in Officers, NEW j \in XJob, Note(w, j)
    PROVE  /\ xjob' \in [Officers -> XJob] /\ xjob'[w] = j
           /\ \A v \in Officers : v # w => xjob'[v] = xjob[v]
BY DEF ExitTypeOK, Note

(* updateClearance's merge of a request into a checklist is a checklist. *)
LEMMA MergedIsList ==
    ASSUME NEW old \in Checklist, NEW dto \in Changes
    PROVE  Merged(old, dto) \in Checklist
<1>1. \A d \in Departments :
         (IF dto.dept[d] = "keep" THEN old.dept[d] ELSE dto.dept[d]) \in {"unlisted", "open", "cleared"}
  BY DEF Changes, Checklist
<1> QED
  BY <1>1 DEF Merged, Checklist, Changes

LEMMA NextStatusIsStatus ==
    ASSUME NEW j \in XJob PROVE NextStatus(j) \in ExitStatus
BY DEF NextStatus, XJob, ExitStatus

LEMMA ExitStarts == Init => ExitTypeOK
BY BlankIsList, IdleIsJob
   DEF Init, ExitTypeOK, NoRecord, Record, ExitStatus, EmployeeStatus, Places

LEMMA HandleTypes ==
    ASSUME ExitTypeOK, NEW w \in Officers, Handle(w)
    PROVE  ExitTypeOK'
<1>0. xjob[w] \in XJob /\ Idle \in XJob /\ exit \in [Employees -> Record]
  BY IdleIsJob DEF ExitTypeOK
<1>1. ASSUME NEW e \in Employees, NEW dto \in Dtos, UpdateRead(w, e, dto) PROVE ExitTypeOK'
  <2>1. dto \in Changes /\ exit[e].list \in Checklist /\ exit[e].status \in ExitStatus
        /\ dto.advance \in BOOLEAN
    BY <1>0, ExitAssumption DEF Record, Changes
  <2>2. [xjob[w] EXCEPT !.emp = e, !.list = Merged(exit[e].list, dto),
                        !.status = exit[e].status, !.advance = dto.advance] \in XJob
    BY <1>0, <2>1, MergedIsList DEF XJob
  <2> QED
    BY <1>1, <2>2, GotoTypes, NoteTypes DEF UpdateRead, ExitTypeOK, Places
<1>2. CASE UpdateCount(w)
  <2>1. xjob[w].list \in Checklist
    BY <1>0 DEF XJob
  <2>2. HoldsAssets(xjob[w].emp) \in BOOLEAN
    BY DEF HoldsAssets
  <2>3. [xjob[w] EXCEPT !.list.handover = ~HoldsAssets(xjob[w].emp)] \in XJob
    BY <1>0, <2>1, <2>2 DEF XJob, Checklist
  <2> QED
    BY <1>2, <2>3, GotoTypes, NoteTypes DEF UpdateCount, ExitTypeOK, Places
<1>3. CASE UpdateWrite(w)
  <2>1. NextStatus(xjob[w]) \in ExitStatus /\ xjob[w].list \in Checklist
        /\ xjob[w].emp \in Employees
    BY <1>0, NextStatusIsStatus DEF XJob
  <2>2. exit' \in [Employees -> Record]
    BY <1>0, <1>3, <2>1 DEF UpdateWrite, Record
  <2> QED
    BY <1>0, <1>3, <2>2, GotoTypes, NoteTypes DEF UpdateWrite, Done, ExitTypeOK, Places
<1>4. ASSUME NEW e \in Employees, SettleRead(w, e) PROVE ExitTypeOK'
  <2>1. [xjob[w] EXCEPT !.emp = e, !.to = "EXITED", !.reason = exit[e].reason] \in XJob
    BY <1>0 DEF XJob, Record, EmployeeStatus
  <2> QED
    BY <1>4, <2>1, GotoTypes, NoteTypes DEF SettleRead, ExitTypeOK, Places
<1>5. CASE SettleWrite(w)
  <2>1. exit' \in [Employees -> Record]
    BY <1>0, <1>5 DEF SettleWrite, Record, XJob, ExitStatus
  <2> QED
    BY <1>5, <2>1, GotoTypes DEF SettleWrite, ExitTypeOK, Places
<1>6. ASSUME NEW e \in Employees, NEW to \in Patches, NEW given \in BOOLEAN,
             PatchEmployee(w, e, to, given)
      PROVE  ExitTypeOK'
  <2>1. [xjob[w] EXCEPT !.emp = e, !.to = to, !.reason = given] \in XJob
    BY <1>0, PatchAssumption DEF XJob
  <2> QED
    BY <1>6, <2>1, GotoTypes, NoteTypes DEF PatchEmployee, ExitTypeOK, Places
<1>7. CASE PatchRead(w)
  BY <1>0, <1>7, GotoTypes, NoteTypes DEF PatchRead, Done, ExitTypeOK, Places
<1>8. CASE PatchWrite(w)
  <2>1. emp' \in [Employees -> EmployeeStatus]
    BY <1>0, <1>8 DEF PatchWrite, XJob, ExitTypeOK
  <2> QED
    BY <1>0, <1>8, <2>1, GotoTypes, NoteTypes DEF PatchWrite, Done, ExitTypeOK, Places
<1>9. CASE Revoke(w)
  BY <1>0, <1>9, GotoTypes, NoteTypes DEF Revoke, Done, ExitTypeOK, Places
<1>10. CASE Crash(w)
  BY <1>0, <1>10, GotoTypes, NoteTypes DEF Crash, Done, ExitTypeOK, Places
<1> QED
  BY <1>1, <1>2, <1>3, <1>4, <1>5, <1>6, <1>7, <1>8, <1>9, <1>10 DEF Handle

(* Asset requests and exits share no table but by the count.               *)
LEMMA ExitKeepsCustody == Spec => CustodySpec
<1>1. Init => CustodyInit
  BY DEF Init
<1>2. [Next]_vars => [CustodyNext]_custody
  BY DEF Next, vars, custody, Create, Handle, UpdateRead, UpdateCount, UpdateWrite, SettleRead,
         SettleWrite, PatchEmployee, PatchRead, PatchWrite, Revoke, Readmit, Crash
<1> QED
  BY <1>1, <1>2, PTL DEF Spec, CustodySpec

-----------------------------------------------------------------------------
(* WHAT HOLDS HOWEVER REQUESTS MEET *)

(* A record that is being cleared or settled exists, and what updateClearance *)
(* may write back as CLEARED, or settle is about to make SETTLED, has its NOC. *)
NocFollows ==
    /\ \A e \in Employees : exit[e].status \in {"CLEARED", "SETTLED"} => exit[e].noc
    /\ \A w \in Officers :
          /\ xpc[w] \in {"count", "write"} =>
                /\ exit[xjob[w].emp].status # "NONE"
                /\ xjob[w].status \notin {"NONE", "SETTLED"}
                /\ xjob[w].status = "CLEARED" => exit[xjob[w].emp].noc
          /\ xpc[w] = "settle" =>
                exit[xjob[w].emp].status # "NONE" /\ exit[xjob[w].emp].noc

(* A record, once it exists, does not vanish, and a NOC is not taken back. *)
Grows == \A e \in Employees :
            exit[e].status # "NONE" => exit'[e].status # "NONE" /\ (exit[e].noc => exit'[e].noc)

LEMMA NocStarts == Init => NocFollows
BY DEF Init, NocFollows, NoRecord

(* The officers that took no step keep what NocFollows says of them. *)
LEMMA OthersKeepNoc ==
    ASSUME ExitTypeOK, NocFollows, Grows, NEW v \in Officers, xpc'[v] = xpc[v], xjob'[v] = xjob[v]
    PROVE  /\ xpc'[v] \in {"count", "write"} =>
                 /\ exit'[xjob'[v].emp].status # "NONE"
                 /\ xjob'[v].status \notin {"NONE", "SETTLED"}
                 /\ xjob'[v].status = "CLEARED" => exit'[xjob'[v].emp].noc
           /\ xpc'[v] = "settle" =>
                 exit'[xjob'[v].emp].status # "NONE" /\ exit'[xjob'[v].emp].noc
<1>1. xjob[v].emp \in Employees
  BY DEF ExitTypeOK, XJob
<1> QED
  BY <1>1 DEF NocFollows, Grows

(* A step of one officer that writes no record, and goes where what        *)
(* NocFollows says of the new place is known. *)
LEMMA ReadKeepsNoc ==
    ASSUME ExitTypeOK, NocFollows, UNCHANGED exit, NEW w \in Officers,
           \A v \in Officers : v # w => xpc'[v] = xpc[v] /\ xjob'[v] = xjob[v],
           \/ xpc'[w] \in {"idle", "patchRead", "patchWrite", "revoke"}
           \/ /\ xpc'[w] \in {"count", "write"}
              /\ exit[xjob'[w].emp].status # "NONE"
              /\ xjob'[w].status \notin {"NONE", "SETTLED"}
              /\ xjob'[w].status = "CLEARED" => exit[xjob'[w].emp].noc
           \/ xpc'[w] = "settle" /\ exit[xjob'[w].emp].status # "NONE" /\ exit[xjob'[w].emp].noc
    PROVE  NocFollows'
<1>1. Grows
  BY DEF Grows
<1>2. \A v \in Officers : v # w =>
           /\ xpc'[v] \in {"count", "write"} =>
                 /\ exit'[xjob'[v].emp].status # "NONE"
                 /\ xjob'[v].status \notin {"NONE", "SETTLED"}
                 /\ xjob'[v].status = "CLEARED" => exit'[xjob'[v].emp].noc
           /\ xpc'[v] = "settle" =>
                 exit'[xjob'[v].emp].status # "NONE" /\ exit'[xjob'[v].emp].noc
  BY <1>1, OthersKeepNoc
<1> QED
  BY <1>2 DEF NocFollows

LEMMA HandleKeepsNoc ==
    ASSUME ExitTypeOK, NocFollows, NEW w \in Officers, Handle(w)
    PROVE  NocFollows'
<1>0. xjob[w] \in XJob /\ Idle \in XJob /\ exit \in [Employees -> Record]
  BY IdleIsJob DEF ExitTypeOK
<1>1. ASSUME NEW e \in Employees, NEW dto \in Dtos, UpdateRead(w, e, dto) PROVE NocFollows'
  <2>1. /\ xpc'[w] = "count" /\ xjob'[w].emp = e /\ xjob'[w].status = exit[e].status
        /\ \A v \in Officers : v # w => xpc'[v] = xpc[v] /\ xjob'[v] = xjob[v]
    BY <1>0, <1>1 DEF UpdateRead, Goto, Note, ExitTypeOK, XJob
  <2> QED
    BY <1>1, <2>1, ReadKeepsNoc DEF UpdateRead, NocFollows
<1>2. CASE UpdateCount(w)
  <2>1. /\ xpc[w] = "count" /\ xpc'[w] = "write" /\ xjob'[w].emp = xjob[w].emp
        /\ xjob'[w].status = xjob[w].status
        /\ \A v \in Officers : v # w => xpc'[v] = xpc[v] /\ xjob'[v] = xjob[v]
    BY <1>0, <1>2 DEF UpdateCount, Goto, Note, ExitTypeOK, XJob
  <2> QED
    BY <1>2, <2>1, ReadKeepsNoc DEF UpdateCount, NocFollows
<1>3. CASE UpdateWrite(w)
  <2> DEFINE e == xjob[w].emp
  <2>1. /\ e \in Employees /\ exit'[e].status = NextStatus(xjob[w])
        /\ exit'[e].noc = (exit[e].noc \/ NextStatus(xjob[w]) = "CLEARED")
        /\ \A f \in Employees : f # e => exit'[f] = exit[f]
        /\ xpc'[w] = "idle"
        /\ \A v \in Officers : v # w => xpc'[v] = xpc[v] /\ xjob'[v] = xjob[v]
    BY <1>0, <1>3 DEF UpdateWrite, Done, Goto, Note, ExitTypeOK, XJob, Record
  <2>2. /\ NextStatus(xjob[w]) \notin {"NONE", "SETTLED"}
        /\ NextStatus(xjob[w]) = "CLEARED" => exit'[e].noc
    BY <1>3, <2>1 DEF UpdateWrite, NocFollows, NextStatus
  <2>3. Grows
    BY <2>1, <2>2 DEF Grows
  <2> QED
    BY <2>1, <2>2, <2>3, OthersKeepNoc DEF NocFollows
<1>4. ASSUME NEW e \in Employees, SettleRead(w, e) PROVE NocFollows'
  <2>1. /\ xpc'[w] = "settle" /\ xjob'[w].emp = e
        /\ \A v \in Officers : v # w => xpc'[v] = xpc[v] /\ xjob'[v] = xjob[v]
    BY <1>0, <1>4 DEF SettleRead, Goto, Note, ExitTypeOK, XJob
  <2> QED
    BY <1>4, <2>1, ReadKeepsNoc DEF SettleRead, NocFollows
<1>5. CASE SettleWrite(w)
  <2> DEFINE e == xjob[w].emp
  <2>1. /\ e \in Employees /\ exit'[e].status = "SETTLED" /\ exit'[e].noc = exit[e].noc
        /\ \A f \in Employees : f # e => exit'[f] = exit[f]
        /\ xpc[w] = "settle" /\ xpc'[w] = "patchRead"
        /\ \A v \in Officers : v # w => xpc'[v] = xpc[v] /\ xjob'[v] = xjob[v]
    BY <1>0, <1>5 DEF SettleWrite, Goto, Note, ExitTypeOK, XJob, Record
  <2>2. Grows
    BY <2>1 DEF Grows
  <2> QED
    BY <2>1, <2>2, OthersKeepNoc DEF NocFollows
<1>6. ASSUME NEW e \in Employees, NEW to \in Patches, NEW given \in BOOLEAN,
             PatchEmployee(w, e, to, given)
      PROVE  NocFollows'
  BY <1>6, ReadKeepsNoc DEF PatchEmployee, Goto, Note, ExitTypeOK
<1>7. CASE PatchRead(w)
  BY <1>7, ReadKeepsNoc DEF PatchRead, Done, Goto, Note, ExitTypeOK
<1>8. CASE PatchWrite(w)
  BY <1>8, ReadKeepsNoc DEF PatchWrite, Done, Goto, Note, ExitTypeOK
<1>9. CASE Revoke(w)
  BY <1>9, ReadKeepsNoc DEF Revoke, Done, Goto, Note, ExitTypeOK
<1>10. CASE Crash(w)
  BY <1>10, ReadKeepsNoc DEF Crash, Done, Goto, Note, ExitTypeOK
<1> QED
  BY <1>1, <1>2, <1>3, <1>4, <1>5, <1>6, <1>7, <1>8, <1>9, <1>10 DEF Handle

(* create makes a record where none was. *)
LEMMA CreateKeepsNoc ==
    ASSUME ExitTypeOK, NocFollows, NEW e \in Employees, NEW r \in Reasons, Create(e, r)
    PROVE  ExitTypeOK' /\ NocFollows'
<1>1. /\ exit[e].status = "NONE" /\ exit'[e].status = "INITIATED"
      /\ exit' \in [Employees -> Record] /\ \A f \in Employees : f # e => exit'[f] = exit[f]
  BY BlankIsList, ExitAssumption DEF Create, ExitTypeOK, Record, ExitStatus
<1>2. ExitTypeOK'
  BY <1>1 DEF ExitTypeOK, Create
<1>3. Grows
  BY <1>1 DEF Grows
<1>4. \A v \in Officers : xpc'[v] = xpc[v] /\ xjob'[v] = xjob[v]
  BY DEF Create
<1> QED
  BY <1>1, <1>2, <1>3, <1>4, OthersKeepNoc DEF NocFollows

-----------------------------------------------------------------------------
(* WHAT HOLDS AS LONG AS NO TWO REQUESTS OVERLAP *)

(* settle passes on the reason of the record. *)
ReasonIsOfRecord ==
    \A w \in Officers : xpc[w] = "settle" =>
        xjob[w].to = "EXITED" /\ xjob[w].reason = exit[xjob[w].emp].reason

(* The status a request has read is still the record's. *)
ReadIsFresh ==
    \A w \in Officers : xpc[w] \in {"count", "write"} =>
        exit[xjob[w].emp].status = xjob[w].status /\ xjob[w].status # "SETTLED"

(* The step patchStatus has checked is still allowed. *)
PatchIsAllowed ==
    \A w \in Officers : xpc[w] = "patchWrite" => xjob[w].to \in Allowed(emp[xjob[w].emp])

(* Between SETTLED and EXITED, and between EXITED and the revocation, there *)
(* is a request that will write the second. *)
WillExit(e) == \E w \in Officers : /\ xjob[w].emp = e /\ xjob[w].to = "EXITED" /\ xjob[w].reason
                                   /\ xpc[w] \in {"patchRead", "patchWrite"}
WillRevoke(e) == \E w \in Officers : xpc[w] = "revoke" /\ xjob[w].emp = e

Stays(e) == exit[e].reason /\ e \notin removed

SettlementGoesOn ==
    \A e \in Employees :
        /\ exit[e].status = "SETTLED" /\ Stays(e) => emp[e] = "EXITED" \/ WillExit(e)
        /\ emp[e] = "EXITED" /\ e \notin back => ~member[e] \/ WillRevoke(e)

Alone == ~Racing /\ ReadIsFresh /\ PatchIsAllowed

ExitGoesOn ==
    /\ ~raced => Alone
    /\ ReasonIsOfRecord
    /\ ~raced /\ ~died => SettlementGoesOn

ExitInv == ExitTypeOK /\ NocFollows /\ ExitGoesOn /\ gone \subseteq removed

LEMMA ExitInvStarts == WatchedInit => ExitInv
<1> SUFFICES ASSUME WatchedInit PROVE ExitInv
  OBVIOUS
<1>1. ExitTypeOK /\ NocFollows
  BY ExitStarts, NocStarts DEF WatchedInit
<1>2. ReasonIsOfRecord /\ Alone /\ SettlementGoesOn /\ gone \subseteq removed
  BY DEF WatchedInit, Init, CustodyInit, ReasonIsOfRecord, Alone, Racing, ReadIsFresh, PatchIsAllowed,
         SettlementGoesOn, NoRecord
<1> QED
  BY <1>1, <1>2 DEF ExitInv, ExitGoesOn

(* What a step of an officer leaves alone. *)
LEMMA HandleFrame ==
    ASSUME ExitTypeOK, NEW w \in Officers, Handle(w)
    PROVE  /\ xpc[w] = "idle" => xpc'[w] # "idle"
           /\ \A v \in Officers : v # w => xpc'[v] = xpc[v] /\ xjob'[v] = xjob[v]
BY DEF ExitTypeOK, Handle, UpdateRead, UpdateCount, UpdateWrite, SettleRead, SettleWrite,
       PatchEmployee, PatchRead, PatchWrite, Revoke, Crash, Done, Goto, Note

(* If no two requests overlap, before or after a step, all others rest.    *)
LEMMA OthersRest ==
    ASSUME ExitTypeOK, NEW w \in Officers, Handle(w), ~Racing, ~Racing'
    PROVE  \A v \in Officers : v # w => xpc[v] = "idle" /\ xpc'[v] = "idle"
BY HandleFrame DEF Racing

LEMMA OthersKeepReasons ==
    ASSUME ExitTypeOK, ReasonIsOfRecord, NEW w \in Officers, Handle(w),
           \A e \in Employees : exit'[e].reason = exit[e].reason,
           xpc'[w] = "settle" =>
               xjob'[w].to = "EXITED" /\ xjob'[w].reason = exit[xjob'[w].emp].reason
    PROVE  ReasonIsOfRecord'
<1>1. \A v \in Officers : v # w => xpc'[v] = xpc[v] /\ xjob'[v] = xjob[v]
  BY HandleFrame
<1>2. \A v \in Officers : xjob[v].emp \in Employees
  BY DEF ExitTypeOK, XJob
<1>3. xjob'[w].emp \in Employees
  BY HandleTypes DEF ExitTypeOK, XJob
<1> QED
  BY <1>1, <1>2, <1>3 DEF ReasonIsOfRecord

LEMMA OthersKeepAlone ==
    ASSUME ExitTypeOK, Alone, NEW w \in Officers, Handle(w), ~Racing',
           xpc'[w] \in {"count", "write"} =>
               exit'[xjob'[w].emp].status = xjob'[w].status /\ xjob'[w].status # "SETTLED",
           xpc'[w] = "patchWrite" => xjob'[w].to \in Allowed(emp'[xjob'[w].emp])
    PROVE  Alone'
BY OthersRest DEF Alone, ReadIsFresh, PatchIsAllowed

(* If a step leaves alone whatever settles or exits an employee and the    *)
(* request that is on its way to the next of the two. *)
LEMMA OthersKeepSettlement ==
    ASSUME ExitTypeOK, Alone, SettlementGoesOn, NEW w \in Officers, Handle(w), ~Racing',
           UNCHANGED <<emp, member, back, removed>>,
           \A e \in Employees : exit'[e].reason = exit[e].reason,
           \A e \in Employees : exit'[e].status = "SETTLED" => exit[e].status = "SETTLED",
           xpc[w] \notin {"patchRead", "patchWrite", "revoke"}
    PROVE  SettlementGoesOn'
BY OthersRest DEF Alone, SettlementGoesOn, Stays, WillExit, WillRevoke

LEMMA HandleKeepsExit ==
    ASSUME ExitInv, NEW w \in Officers, Handle(w),
           raced' = (raced \/ Racing'), died' = (died \/ Died)
    PROVE  ExitGoesOn'
<1>0. /\ xjob[w] \in XJob /\ exit \in [Employees -> Record] /\ xjob[w].emp \in Employees
      /\ ExitTypeOK /\ ReasonIsOfRecord /\ gone \subseteq removed
      /\ UNCHANGED <<gone, removed>>
      /\ ~raced' => ~Racing' /\ Alone
      /\ ~raced' /\ ~died' => SettlementGoesOn /\ ~Died
  BY DEF ExitInv, ExitGoesOn, ExitTypeOK, XJob, Handle, UpdateRead, UpdateCount, UpdateWrite, SettleRead,
         SettleWrite, PatchEmployee, PatchRead, PatchWrite, Revoke, Crash, custody
<1>1. ASSUME NEW e \in Employees, NEW dto \in Dtos, UpdateRead(w, e, dto)
      PROVE  ExitGoesOn'
  <2>1. /\ xpc[w] = "idle" /\ xpc'[w] = "count" /\ xjob'[w].emp = e
        /\ xjob'[w].status = exit[e].status /\ exit[e].status # "SETTLED"
    BY <1>0, <1>1 DEF UpdateRead, Goto, Note, ExitTypeOK, XJob
  <2> QED
    BY <1>0, <1>1, <2>1, OthersKeepReasons, OthersKeepAlone, OthersKeepSettlement
       DEF UpdateRead, ReasonIsOfRecord, ExitGoesOn
<1>2. CASE UpdateCount(w)
  <2>1. /\ xpc[w] = "count" /\ xpc'[w] = "write" /\ xjob'[w].emp = xjob[w].emp
        /\ xjob'[w].status = xjob[w].status
    BY <1>0, <1>2 DEF UpdateCount, Goto, Note, ExitTypeOK, XJob
  <2>2. ~raced' => exit[xjob[w].emp].status = xjob[w].status /\ xjob[w].status # "SETTLED"
    BY <1>0, <2>1 DEF Alone, ReadIsFresh
  <2> QED
    BY <1>0, <1>2, <2>1, <2>2, OthersKeepReasons, OthersKeepAlone, OthersKeepSettlement
       DEF UpdateCount, ReasonIsOfRecord, ExitGoesOn
<1>3. CASE UpdateWrite(w)
  <2> DEFINE e == xjob[w].emp
  <2>1. /\ e \in Employees /\ exit'[e].status = NextStatus(xjob[w]) /\ exit'[e].reason = exit[e].reason
        /\ \A f \in Employees : f # e => exit'[f] = exit[f]
        /\ xpc[w] = "write" /\ xpc'[w] = "idle"
    BY <1>0, <1>3 DEF UpdateWrite, Done, Goto, ExitTypeOK, Record
  <2>2. exit'[e].status # "SETTLED"
    BY <1>0, <2>1 DEF ExitInv, NocFollows, NextStatus
  <2> QED
    BY <1>0, <1>3, <2>1, <2>2, OthersKeepReasons, OthersKeepAlone, OthersKeepSettlement
       DEF UpdateWrite, ReasonIsOfRecord, ExitGoesOn
<1>4. ASSUME NEW e \in Employees, SettleRead(w, e)
      PROVE  ExitGoesOn'
  <2>1. /\ xpc[w] = "idle" /\ xpc'[w] = "settle"
        /\ xjob'[w].to = "EXITED" /\ xjob'[w].reason = exit[e].reason /\ xjob'[w].emp = e
    BY <1>0, <1>4 DEF SettleRead, Goto, Note, ExitTypeOK, XJob
  <2> QED
    BY <1>0, <1>4, <2>1, OthersKeepReasons, OthersKeepAlone, OthersKeepSettlement
       DEF SettleRead, ReasonIsOfRecord, ExitGoesOn
<1>5. CASE SettleWrite(w)
  <2> DEFINE e == xjob[w].emp
  <2>1. /\ exit'[e].status = "SETTLED" /\ exit'[e].reason = exit[e].reason
        /\ \A f \in Employees : f # e => exit'[f] = exit[f]
        /\ xpc[w] = "settle" /\ xpc'[w] = "patchRead"
        /\ UNCHANGED <<emp, member, back, xjob>>
    BY <1>0, <1>5 DEF SettleWrite, Goto, ExitTypeOK, Record
  <2>2. xjob[w].to = "EXITED" /\ xjob[w].reason = exit[e].reason
    BY <1>0, <2>1 DEF ReasonIsOfRecord
  <2>3. ~raced' /\ ~died' => SettlementGoesOn'
    <3> SUFFICES ASSUME ~raced', ~died', NEW f \in Employees
                 PROVE  /\ exit'[f].status = "SETTLED" /\ Stays(f)' => emp[f] = "EXITED" \/ WillExit(f)'
                        /\ emp[f] = "EXITED" /\ f \notin back => ~member[f] \/ WillRevoke(f)'
      BY <2>1 DEF SettlementGoesOn
    <3>0. Stays(f)' <=> Stays(f)
      BY <1>0, <2>1 DEF Stays
    <3>1. exit[e].reason => WillExit(e)'
      BY <2>1, <2>2 DEF WillExit
    <3>2. WillExit(f) => WillExit(f)'
      BY <2>1, HandleFrame, <1>0 DEF WillExit
    <3>3. WillRevoke(f) => WillRevoke(f)'
      BY <2>1, HandleFrame, <1>0 DEF WillRevoke
    <3> QED
      BY <1>0, <2>1, <3>0, <3>1, <3>2, <3>3 DEF SettlementGoesOn, Stays
  <2> QED
    BY <1>0, <1>5, <2>1, <2>3, OthersKeepReasons, OthersKeepAlone DEF ReasonIsOfRecord, ExitGoesOn
<1>6. ASSUME NEW e \in Employees, NEW to \in Patches, NEW given \in BOOLEAN,
             PatchEmployee(w, e, to, given)
      PROVE  ExitGoesOn'
  <2>1. xpc[w] = "idle" /\ xpc'[w] = "patchRead"
    BY <1>0, <1>6 DEF PatchEmployee, Goto, ExitTypeOK
  <2> QED
    BY <1>0, <1>6, <2>1, OthersKeepReasons, OthersKeepAlone, OthersKeepSettlement
       DEF PatchEmployee, ReasonIsOfRecord, ExitGoesOn
<1>7. CASE PatchRead(w)
  <2> DEFINE e == xjob[w].emp
             ok == /\ e \notin gone /\ xjob[w].to \in Allowed(emp[e])
                   /\ <<emp[e], xjob[w].to>> \in NeedsReason => xjob[w].reason
  <2>1. /\ xpc[w] = "patchRead" /\ UNCHANGED <<exit, emp, member, back, removed>>
        /\ ok => xpc'[w] = "patchWrite" /\ xjob' = xjob
        /\ ~ok => xpc'[w] = "idle"
    BY <1>0, <1>7 DEF PatchRead, Done, Goto, ExitTypeOK
  <2>2. ~raced' /\ ~died' => SettlementGoesOn'
    <3> SUFFICES ASSUME ~raced', ~died', NEW f \in Employees
                 PROVE  /\ exit[f].status = "SETTLED" /\ Stays(f) => emp[f] = "EXITED" \/ WillExit(f)'
                        /\ emp[f] = "EXITED" /\ f \notin back => ~member[f]
      BY <2>1 DEF SettlementGoesOn, Stays
    <3>1. \A v \in Officers : v # w => xpc[v] = "idle"
      BY <1>0, OthersRest DEF Alone
    <3>2. emp[f] = "EXITED" /\ f \notin back => ~member[f]
      BY <1>0, <2>1, <3>1 DEF SettlementGoesOn, WillRevoke
    <3>3. CASE exit[f].status = "SETTLED" /\ Stays(f) /\ emp[f] # "EXITED"
      <4>1. e = f /\ xjob[w].to = "EXITED" /\ xjob[w].reason
        BY <1>0, <3>1, <3>3 DEF SettlementGoesOn, WillExit
      <4>2. ok
        BY <1>0, <3>3, <4>1 DEF Allowed, ExitTypeOK, EmployeeStatus, Stays
      <4> QED
        BY <2>1, <4>1, <4>2, <3>2 DEF WillExit
    <3> QED
      BY <3>2, <3>3
  <2> QED
    BY <1>0, <1>7, <2>1, <2>2, OthersKeepReasons, OthersKeepAlone DEF ReasonIsOfRecord, ExitGoesOn
<1>8. CASE PatchWrite(w)
  <2> DEFINE e == xjob[w].emp
  <2>1. /\ xpc[w] = "patchWrite" /\ UNCHANGED <<exit, member, back, removed>>
        /\ emp'[e] = xjob[w].to /\ \A f \in Employees : f # e => emp'[f] = emp[f]
        /\ xjob[w].to = "EXITED" => xpc'[w] = "revoke" /\ xjob' = xjob
        /\ xpc'[w] \in {"revoke", "idle"}
    BY <1>0, <1>8 DEF PatchWrite, Done, Goto, ExitTypeOK
  <2>2. ~raced' /\ ~died' => SettlementGoesOn'
    <3> SUFFICES ASSUME ~raced', ~died', NEW f \in Employees
                 PROVE  /\ exit[f].status = "SETTLED" /\ Stays(f) => emp'[f] = "EXITED"
                        /\ emp'[f] = "EXITED" /\ f \notin back => ~member[f] \/ WillRevoke(f)'
      BY <2>1 DEF SettlementGoesOn, Stays
    <3>1. \A v \in Officers : v # w => xpc[v] = "idle"
      BY <1>0, OthersRest DEF Alone
    <3>2. emp[e] # "EXITED"
      BY <1>0, <2>1 DEF Alone, PatchIsAllowed, Allowed
    <3>3. CASE f = e
      <4>1. exit[f].status = "SETTLED" /\ Stays(f) => xjob[w].to = "EXITED"
        BY <1>0, <3>1, <3>2, <3>3 DEF SettlementGoesOn, WillExit
      <4> QED
        BY <2>1, <3>3, <4>1 DEF WillRevoke
    <3>4. CASE f # e
      <4>1. ~WillExit(f) /\ ~WillRevoke(f)
        BY <2>1, <3>1, <3>4 DEF WillExit, WillRevoke
      <4> QED
        BY <1>0, <2>1, <3>4, <4>1 DEF SettlementGoesOn
    <3> QED
      BY <3>3, <3>4
  <2> QED
    BY <1>0, <1>8, <2>1, <2>2, OthersKeepReasons, OthersKeepAlone DEF ReasonIsOfRecord, ExitGoesOn
<1>9. CASE Revoke(w)
  <2> DEFINE e == xjob[w].emp
  <2>1. /\ xpc[w] = "revoke" /\ UNCHANGED <<exit, emp, removed>> /\ xpc'[w] = "idle"
        /\ back' = back \ {e}
        /\ member'[e] = FALSE /\ \A f \in Employees : f # e => member'[f] = member[f]
    BY <1>0, <1>9 DEF Revoke, Done, Goto, ExitTypeOK
  <2>2. ~raced' /\ ~died' => SettlementGoesOn'
    <3> SUFFICES ASSUME ~raced', ~died', NEW f \in Employees
                 PROVE  /\ exit[f].status = "SETTLED" /\ Stays(f) => emp[f] = "EXITED"
                        /\ emp[f] = "EXITED" /\ f \notin back' => ~member'[f]
      BY <2>1 DEF SettlementGoesOn, Stays
    <3>1. \A v \in Officers : v # w => xpc[v] = "idle"
      BY <1>0, OthersRest DEF Alone
    <3> QED
      BY <1>0, <2>1, <3>1 DEF SettlementGoesOn, WillExit, WillRevoke
  <2> QED
    BY <1>0, <1>9, <2>1, <2>2, OthersKeepReasons, OthersKeepAlone DEF ReasonIsOfRecord, ExitGoesOn
<1>10. CASE Crash(w) /\ ~UpdateWrite(w) /\ ~PatchRead(w) /\ ~Revoke(w)
  <2>1. Died /\ xpc'[w] = "idle" /\ UNCHANGED <<exit, emp>>
    BY <1>0, <1>10 DEF Died, Crash, Done, Goto, ExitTypeOK
  <2> QED
    BY <1>0, <1>10, <2>1, OthersKeepReasons, OthersKeepAlone DEF ReasonIsOfRecord, ExitGoesOn
<1> QED
  BY <1>1, <1>2, <1>3, <1>4, <1>5, <1>6, <1>7, <1>8, <1>9, <1>10 DEF Handle

LEMMA ExitInvSteps == ExitInv /\ [WatchedNext]_watched => ExitInv'
<1> SUFFICES ASSUME ExitInv, [WatchedNext]_watched PROVE ExitInv'
  OBVIOUS
<1>0. ExitTypeOK /\ NocFollows /\ gone \subseteq removed
  BY DEF ExitInv
<1>1. CASE UNCHANGED <<exits, gone, removed, raced, died>>
  BY <1>1 DEF exits, ExitInv, ExitGoesOn, ExitTypeOK, NocFollows, ReasonIsOfRecord, Alone, Racing, ReadIsFresh,
              PatchIsAllowed, SettlementGoesOn, Stays, WillExit, WillRevoke
<1>2. ASSUME NEW e \in Employees, NEW r \in Reasons, Create(e, r),
             raced' = (raced \/ Racing'), died' = (died \/ Died)
      PROVE  ExitInv'
  <2>1. /\ exit[e].status = "NONE" /\ exit'[e].status = "INITIATED" /\ exit'[e].reason = r
        /\ \A f \in Employees : f # e => exit'[f] = exit[f]
        /\ UNCHANGED <<emp, member, back, xpc, xjob, gone, removed>>
    BY <1>0, <1>2 DEF Create, ExitTypeOK, custody
  <2>2. ReasonIsOfRecord'
    <3>1. \A w \in Officers : xpc[w] = "settle" => xjob[w].emp # e /\ xjob[w].emp \in Employees
      BY <1>0, <2>1 DEF NocFollows, ExitTypeOK, XJob
    <3> QED
      BY <2>1, <3>1 DEF ExitInv, ExitGoesOn, ReasonIsOfRecord
  <2>3. Alone => Alone'
    BY <1>0, <2>1 DEF Alone, Racing, ReadIsFresh, PatchIsAllowed, NocFollows, ExitTypeOK, XJob
  <2>4. SettlementGoesOn => SettlementGoesOn'
    BY <2>1 DEF SettlementGoesOn, Stays, WillExit, WillRevoke
  <2> QED
    BY <1>0, <1>2, <2>1, <2>2, <2>3, <2>4, CreateKeepsNoc DEF ExitInv, ExitGoesOn
<1>3. ASSUME NEW w \in Officers, Handle(w), raced' = (raced \/ Racing'), died' = (died \/ Died)
      PROVE  ExitInv'
  <2>1. UNCHANGED <<gone, removed>>
    BY <1>3 DEF Handle, UpdateRead, UpdateCount, UpdateWrite, SettleRead, SettleWrite, PatchEmployee,
                PatchRead, PatchWrite, Revoke, Crash, custody
  <2> QED
    BY <1>0, <1>3, <2>1, HandleTypes, HandleKeepsNoc, HandleKeepsExit DEF ExitInv
<1>4. ASSUME UNCHANGED <<exit, emp, xpc, xjob>>, raced' = (raced \/ Racing'), died' = (died \/ Died),
             removed \subseteq removed', (gone \subseteq removed)', back \subseteq back',
             back' \subseteq Employees, member' \in [Employees -> BOOLEAN],
             \A e \in Employees \ back' : member'[e] = member[e]
      PROVE  ExitInv'
  <2>1. (~raced' => ~raced) /\ (~died' => ~died)
    BY <1>4
  <2>2. ExitTypeOK' /\ NocFollows' /\ ReasonIsOfRecord' /\ (Alone => Alone')
    BY <1>0, <1>4 DEF ExitInv, ExitGoesOn, ExitTypeOK, NocFollows, ReasonIsOfRecord, Alone, Racing, ReadIsFresh,
                      PatchIsAllowed
  <2>3. SettlementGoesOn => SettlementGoesOn'
    BY <1>4 DEF SettlementGoesOn, Stays, WillExit, WillRevoke
  <2> QED
    BY <1>4, <2>1, <2>2, <2>3 DEF ExitInv, ExitGoesOn
<1>5. ASSUME NEW e \in Employees, Readmit(e), raced' = (raced \/ Racing'), died' = (died \/ Died)
      PROVE  ExitInv'
  <2>1. /\ member' \in [Employees -> BOOLEAN]
        /\ \A f \in Employees \ back' : member'[f] = member[f]
    BY <1>0, <1>5 DEF Readmit, ExitTypeOK
  <2>2. back \subseteq back' /\ back' \subseteq Employees
    BY <1>0, <1>5 DEF Readmit, ExitTypeOK
  <2> QED
    BY <1>0, <1>4, <1>5, <2>1, <2>2 DEF Readmit, custody
<1>6. ASSUME CustodyNext, UNCHANGED exits, raced' = (raced \/ Racing'), died' = (died \/ Died)
      PROVE  ExitInv'
  <2>1. removed \subseteq removed' /\ (gone \subseteq removed)'
    BY <1>0, <1>6 DEF CustodyNext, Remove, Restore, Serve, AssignRead, AssignFind, AssignWrite, ReturnRead,
                      ReturnFind, ReturnWrite, Abandon, Reads
  <2> QED
    BY <1>0, <1>4, <1>6, <2>1 DEF exits, ExitTypeOK
<1> QED
  BY <1>1, <1>2, <1>3, <1>5, <1>6 DEF WatchedNext, Next, watched, vars, custody

LEMMA AlwaysExit == WatchedSpec => []ExitInv
<1>1. WatchedInit => ExitInv
  BY ExitInvStarts
<1> QED
  BY <1>1, ExitInvSteps, PTL DEF WatchedSpec

(* Neither the exit's types nor its NOC need that reasons are given.       *)
NocInv == ExitTypeOK /\ NocFollows

LEMMA AlwaysNoc == Spec => []NocInv
<1>1. Init => NocInv
  BY ExitStarts, NocStarts DEF NocInv
<1>2. NocInv /\ [Next]_vars => NocInv'
  <2> SUFFICES ASSUME NocInv, [Next]_vars PROVE NocInv'
    OBVIOUS
  <2>1. CASE UNCHANGED exits
    BY <2>1 DEF exits, NocInv, ExitTypeOK, NocFollows
  <2>2. ASSUME NEW e \in Employees, NEW r \in Reasons, Create(e, r) PROVE NocInv'
    BY <2>2, CreateKeepsNoc DEF NocInv
  <2>3. ASSUME NEW w \in Officers, Handle(w) PROVE NocInv'
    BY <2>3, HandleTypes, HandleKeepsNoc DEF NocInv
  <2>4. ASSUME NEW e \in Employees, Readmit(e) PROVE NocInv'
    BY <2>4 DEF Readmit, NocInv, ExitTypeOK, NocFollows
  <2> QED
    BY <2>1, <2>2, <2>3, <2>4 DEF Next, vars
<1> QED
  BY <1>1, <1>2, PTL DEF Spec

(* Every row and every request of exits and of assets keeps its type: what *)
(* updateClearance writes back is a checklist, patchStatus's a status.     *)
THEOREM ExitTypes == Spec => []TypeOK
<1>1. NocInv /\ CustodyInv => TypeOK
  BY DEF NocInv, ExitTypeOK, CustodyInv, TypeOK, XJob, Record, Places
<1> QED
  BY <1>1, AlwaysNoc, ExitKeepsCustody, AlwaysCustody, PTL

(* Every settled exit has had its NOC; and as long as no two requests      *)
(* overlap and none dies, a settled exit whose requests have ended has     *)
(* deactivated the employee, if the exit has a reason and the employee has *)
(* not been removed, and revoked the chat memberships, until the employee  *)
(* is admitted to a room again.                                            *)
THEOREM SettlementsAreWhole == WatchedSpec => []SettlementIsWhole
<1>1. ExitInv => SettlementIsWhole
  <2> SUFFICES ASSUME ExitInv PROVE SettlementIsWhole
    OBVIOUS
  <2>1. SettledHasNoc
    BY DEF ExitInv, NocFollows, SettledHasNoc
  <2>2. SettlementGoesOn => SettledIsExited /\ ExitedIsRevoked
    BY DEF SettlementGoesOn, Stays, WillExit, WillRevoke, SettledIsExited, ExitedIsRevoked, AtRest
  <2> QED
    BY <2>1, <2>2 DEF ExitInv, ExitGoesOn, SettlementIsWhole
<1> QED
  BY <1>1, AlwaysExit, PTL

(* As long as no two requests about one asset have overlapped, an asset    *)
(* has at most one holder, and whoever holds it can return it: whatever    *)
(* requests about other assets, exits and removals meet.                   *)
THEOREM OneHolderAtATime == WatchedSpec => []OneHolderUnraced
<1>1. WatchedInit => HolderInv
  <2>1. WatchedInit => CustodyInit /\ OneHolder /\ ClerksAreFresh /\ ~Clashing
    BY DEF WatchedInit, Init, CustodyInit, OneHolder, ClerksAreFresh, Fresh, Clashing
  <2> QED
    BY <2>1, CustodyStarts DEF HolderInv
<1>2. HolderInv /\ [WatchedNext]_watched => HolderInv'
  <2> SUFFICES ASSUME HolderInv, [WatchedNext]_watched PROVE HolderInv'
    OBVIOUS
  <2>1. [CustodyNext]_custody
    BY DEF watched, WatchedNext, Next, vars, custody, Create, Handle, UpdateRead, UpdateCount,
           UpdateWrite, SettleRead, SettleWrite, PatchEmployee, PatchRead, PatchWrite, Revoke, Readmit, Crash
  <2>2. ~clashed' => ~clashed /\ ~Clashing'
    BY DEF HolderInv, WatchedNext, watched, vars, custody, Clashing
  <2> QED
    BY <2>1, <2>2, CustodySteps, HolderSteps DEF HolderInv
<1>3. HolderInv => OneHolderUnraced
  BY DEF HolderInv, OneHolderUnraced
<1> QED
  BY <1>1, <1>2, <1>3, PTL DEF WatchedSpec

(* As long as no two requests overlap, no step takes a record out of SETTLED. *)
THEOREM SettledIsFinal == WatchedSpec => SettledIsFinalUnraced
<1>1. ExitInv /\ [WatchedNext]_watched => [~raced' => SettledStays]_vars
  <2> SUFFICES ASSUME ExitInv, WatchedNext, ~raced' PROVE SettledStays
    BY DEF watched, vars
  <2>0. ExitTypeOK /\ ReadIsFresh
    BY DEF WatchedNext, ExitInv, ExitGoesOn, Alone
  <2>1. ASSUME NEW e \in Employees, NEW r \in Reasons, Create(e, r) PROVE SettledStays
    BY <2>0, <2>1 DEF Create, SettledStays, ExitTypeOK
  <2>2. ASSUME NEW w \in Officers, UpdateWrite(w) PROVE SettledStays
    <3>1. exit[xjob[w].emp].status # "SETTLED"
      BY <2>0, <2>2 DEF UpdateWrite, ReadIsFresh
    <3> QED
      BY <2>0, <2>2, <3>1 DEF UpdateWrite, SettledStays, ExitTypeOK
  <2>3. ASSUME NEW w \in Officers, SettleWrite(w) PROVE SettledStays
    BY <2>0, <2>3 DEF SettleWrite, SettledStays, ExitTypeOK, Record
  <2>4. CASE UNCHANGED exit
    BY <2>4 DEF SettledStays
  <2> QED
    BY <2>1, <2>2, <2>3, <2>4 DEF WatchedNext, Next, exits, Readmit, Handle, UpdateRead, UpdateCount, SettleRead,
                                  PatchEmployee, PatchRead, PatchWrite, Revoke, Crash
<1> QED
  BY <1>1, AlwaysExit, PTL DEF WatchedSpec, SettledIsFinalUnraced
=============================================================================
