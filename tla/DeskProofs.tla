----------------------------- MODULE DeskProofs -----------------------------
(***************************************************************************)
(* The everyday services, for any number of users, requests, files, rooms, *)
(* notices and employees, and of requests served at a time, which may fail *)
(* wherever they are.  Each part has the invariant of its side of MCDesk;  *)
(* the last one puts them together.                                        *)
(***************************************************************************)
EXTENDS MCDesk, Sequences, SumTheorems

-----------------------------------------------------------------------------
(* SERVICE REQUESTS.  The calls in flight are what matters: a stale one    *)
(* may reopen a request, but none that could settle one by its status      *)
(* alone was begun on a request for special leave that had none.           *)

RequestRows == [status : Q!Statuses \cup {"NONE"}, special : BOOLEAN, employee : Q!Someone,
         assignedTo : Q!Someone, resolvedAt : BOOLEAN, closedAt : BOOLEAN]
RequestCalls == [op : {"idle", "assign", "resolve", "grant", "status"}, id : Requests \cup {Nobody},
          status : Q!Statuses \cup {"NONE"}, user : Q!Someone]

(* TypeOK, for any number of desks. *)
RequestTyped ==
    /\ request \in [Requests -> RequestRows]
    /\ leaves \in [Requests -> Nat]
    /\ call \in [Workers -> RequestCalls]

(* What a call has checked still holds of its request when it writes. *)
StillChecked(c) ==
    c # Q!NoCall =>
        /\ c.op # "idle" /\ c.id \in Requests /\ request[c.id].status # "NONE"
        /\ c.op = "resolve" => ~request[c.id].special
        /\ c.op = "assign" => c.status \in {"ASSIGNED", "IN_PROGRESS"}
        /\ c.op = "status" => c.status \in {"IN_PROGRESS", "CLOSED"}
        /\ c.op = "status" /\ c.status = "CLOSED" /\ request[c.id].special => leaves[c.id] >= 1

Checked == \A d \in Workers : StillChecked(call[d])

DeskInv == RequestTyped /\ Checked /\ Q!ResolvedIsGranted

(* The first state. *)
LEMMA DeskInit == Q!Init => DeskInv
BY DEF Q!Init, DeskInv, RequestTyped, Checked, StillChecked, Q!ResolvedIsGranted, Q!NoRow, Q!NoCall, RequestRows,
       RequestCalls, Q!Statuses, Q!Someone

(* A call that is begun changes no row; it has to have checked what it says. *)
LEMMA Beginning ==
    ASSUME DeskInv, NEW d \in Workers, NEW c \in RequestCalls, StillChecked(c),
           call' = [call EXCEPT ![d] = c], UNCHANGED <<request, leaves>>
    PROVE  DeskInv'
<1>1. RequestTyped'
  BY DEF DeskInv, RequestTyped
<1>2. Checked'
  BY DEF DeskInv, RequestTyped, Checked, StillChecked
<1>3. Q!ResolvedIsGranted'
  BY DEF DeskInv, Q!ResolvedIsGranted
<1> QED BY <1>1, <1>2, <1>3 DEF DeskInv

(* A call that writes a row that keeps what others have checked. *)
LEMMA Writing ==
    ASSUME DeskInv, NEW d \in Workers, NEW row \in RequestRows, NEW q \in Requests,
           request' = [request EXCEPT ![q] = row],
           call' = [call EXCEPT ![d] = Q!NoCall],
           leaves' \in [Requests -> Nat], \A p \in Requests : leaves'[p] >= leaves[p],
           row.special = request[q].special, row.status # "NONE",
           row.special /\ row.status \in {"RESOLVED", "CLOSED"} => leaves'[q] >= 1
    PROVE  DeskInv'
<1>1. Q!NoCall \in RequestCalls
  BY DEF Q!NoCall, RequestCalls, Q!Statuses, Q!Someone
<1>2. RequestTyped'
  BY <1>1 DEF DeskInv, RequestTyped
<1>3. Checked'
    <2> SUFFICES ASSUME NEW e \in Workers, call'[e] # Q!NoCall
                 PROVE  StillChecked(call[e])'
      BY DEF Checked, StillChecked
    <2>1. call'[e] = call[e] /\ StillChecked(call[e])
      BY DEF DeskInv, RequestTyped, Checked
    <2>2. call[e].id \in Requests /\ leaves[call[e].id] \in Nat /\ leaves'[call[e].id] \in Nat
      BY <2>1 DEF StillChecked, DeskInv, RequestTyped
    <2>3. request'[call[e].id].special = request[call[e].id].special
      BY <2>2 DEF DeskInv, RequestTyped
    <2>4. request'[call[e].id].status # "NONE"
      BY <2>1, <2>2 DEF DeskInv, RequestTyped, StillChecked
    <2> QED BY <2>1, <2>2, <2>3, <2>4 DEF StillChecked
<1>4. Q!ResolvedIsGranted'
  <2> SUFFICES ASSUME NEW p \in Requests, request'[p].special,
                      request'[p].status \in {"RESOLVED", "CLOSED"}
               PROVE  leaves'[p] >= 1
      BY DEF Q!ResolvedIsGranted
  <2>1. CASE p = q
      BY <2>1 DEF DeskInv, RequestTyped
  <2>2. CASE p # q
    <3>1. request'[p] = request[p] /\ leaves[p] \in Nat /\ leaves'[p] \in Nat
        BY <2>2 DEF DeskInv, RequestTyped
    <3>2. leaves[p] >= 1
        BY <3>1 DEF DeskInv, Q!ResolvedIsGranted
    <3> QED BY <3>1, <3>2
  <2> QED BY <2>1, <2>2
<1> QED BY <1>2, <1>3, <1>4 DEF DeskInv

(* A request is raised: it is open. *)
LEMMA Raising ==
    ASSUME DeskInv, NEW q \in Requests, NEW special \in BOOLEAN, NEW e \in Q!Someone,
           Q!Create(q, special, e)
    PROVE  DeskInv'
<1> DEFINE row == [Q!NoRow EXCEPT !.status = "OPEN", !.special = special, !.employee = e]
<1>1. row \in RequestRows /\ row.status = "OPEN"
  BY DEF RequestRows, Q!NoRow, Q!Statuses, Q!Someone
<1> HIDE DEF row
<1>2. request' = [request EXCEPT ![q] = row] /\ UNCHANGED <<leaves, call>>
  BY DEF Q!Create, row
<1>3. RequestTyped'
  BY <1>1, <1>2 DEF DeskInv, RequestTyped
<1>4. Checked'
  <2> SUFFICES ASSUME NEW d \in Workers, call[d] # Q!NoCall
               PROVE  StillChecked(call[d])'
    BY <1>2 DEF Checked, StillChecked
  <2>1. StillChecked(call[d]) /\ call[d].id # q
    BY DEF DeskInv, Checked, StillChecked, Q!Create
  <2>2. request'[call[d].id] = request[call[d].id]
    BY <1>2, <2>1 DEF DeskInv, RequestTyped, StillChecked
  <2> QED
    BY <1>2, <2>1, <2>2 DEF StillChecked
<1>5. Q!ResolvedIsGranted'
  BY <1>1, <1>2 DEF DeskInv, RequestTyped, Q!ResolvedIsGranted
<1> QED
  BY <1>3, <1>4, <1>5 DEF DeskInv

(* The checks before a call is begun. *)
LEMMA Reading ==
    ASSUME DeskInv, NEW d \in Workers, NEW q \in Requests, NEW u \in Q!Someone,
           Q!AssignRead(d, q, u) \/ Q!ResolveRead(d, q, u) \/ Q!GrantRead(d, q, u) \/ Q!StatusRead(d, q)
    PROVE  DeskInv'
<1>1. request[q] \in RequestRows
  BY DEF DeskInv, RequestTyped
<1>2. CASE Q!AssignRead(d, q, u)
  <2> DEFINE c == [op |-> "assign", id |-> q, user |-> u,
                   status |-> IF request[q].status = "OPEN" THEN "ASSIGNED" ELSE request[q].status]
  <2>1. c \in RequestCalls /\ StillChecked(c)
    BY <1>1, <1>2 DEF Q!AssignRead, RequestCalls, Q!Statuses, StillChecked
  <2> QED
    BY <1>2, <2>1, Beginning DEF Q!AssignRead, Q!Begin
<1>3. CASE Q!ResolveRead(d, q, u)
  <2> DEFINE c == [op |-> "resolve", id |-> q, status |-> "RESOLVED", user |-> u]
  <2>1. c \in RequestCalls /\ StillChecked(c)
    BY <1>1, <1>3 DEF Q!ResolveRead, RequestCalls, Q!Statuses, StillChecked
  <2> QED
    BY <1>3, <2>1, Beginning DEF Q!ResolveRead, Q!Begin
<1>4. CASE Q!GrantRead(d, q, u)
  <2> DEFINE c == [op |-> "grant", id |-> q, status |-> "RESOLVED", user |-> u]
  <2>1. c \in RequestCalls /\ StillChecked(c)
    BY <1>1, <1>4 DEF Q!GrantRead, RequestCalls, Q!Statuses, StillChecked
  <2> QED
    BY <1>4, <2>1, Beginning DEF Q!GrantRead, Q!Begin
<1>5. CASE Q!StatusRead(d, q)
  <2>1. PICK from \in Q!Statuses, to \in Q!Statuses :
            /\ <<from, to>> \in {<<"ASSIGNED", "IN_PROGRESS">>, <<"RESOLVED", "CLOSED">>}
            /\ request[q].status = from
            /\ Q!Begin(d, "status", q, to, Nobody)
    BY <1>5 DEF Q!StatusRead
  <2> DEFINE c == [op |-> "status", id |-> q, status |-> to, user |-> Nobody]
  <2>2. c \in RequestCalls /\ StillChecked(c)
    BY <1>1, <2>1 DEF RequestCalls, Q!Statuses, Q!Someone, StillChecked, DeskInv, Q!ResolvedIsGranted
  <2> QED
    BY <2>1, <2>2, Beginning DEF Q!Begin
<1> QED
  BY <1>2, <1>3, <1>4, <1>5

(* The writes. *)
LEMMA Ending ==
    ASSUME DeskInv, NEW d \in Workers,
           Q!AssignWrite(d) \/ Q!ResolveWrite(d) \/ Q!GrantWrite(d) \/ Q!StatusWrite(d)
    PROVE  DeskInv'
<1> DEFINE c == call[d]
           q == c.id
<1>1. c \in RequestCalls /\ StillChecked(c) /\ c # Q!NoCall
  BY DEF DeskInv, RequestTyped, Checked, Q!AssignWrite, Q!ResolveWrite, Q!GrantWrite, Q!StatusWrite, Q!Write, Q!NoCall
<1>2. q \in Requests /\ request[q] \in RequestRows /\ leaves[q] \in Nat
  BY <1>1 DEF StillChecked, DeskInv, RequestTyped
<1>3. leaves \in [Requests -> Nat] /\ \A p \in Requests : leaves[p] >= leaves[p]
  BY DEF DeskInv, RequestTyped
<1> HIDE DEF c
<1>4. CASE Q!AssignWrite(d)
  <2> DEFINE row == [request[q] EXCEPT !.status = c.status, !.assignedTo = c.user]
  <2>1. row \in RequestRows /\ row.special = request[q].special
        /\ row.status \in {"ASSIGNED", "IN_PROGRESS"}
    BY <1>1, <1>2, <1>4 DEF Q!AssignWrite, Q!Write, StillChecked, RequestRows, RequestCalls, c
  <2>2. /\ request' = [request EXCEPT ![q] = row] /\ call' = [call EXCEPT ![d] = Q!NoCall]
        /\ leaves' = leaves
    BY <1>4 DEF Q!AssignWrite, Q!Write, c
  <2> HIDE DEF row, q
  <2> QED
    BY <1>2, <1>3, <2>1, <2>2, Writing
<1>5. CASE Q!ResolveWrite(d)
  <2> DEFINE row == [request[q] EXCEPT !.status = "RESOLVED", !.resolvedAt = TRUE]
  <2>1. row \in RequestRows /\ row.special = request[q].special /\ ~row.special
        /\ row.status = "RESOLVED"
    BY <1>1, <1>2, <1>5 DEF Q!ResolveWrite, Q!Write, StillChecked, RequestRows, Q!Statuses, c
  <2>2. /\ request' = [request EXCEPT ![q] = row] /\ call' = [call EXCEPT ![d] = Q!NoCall]
        /\ leaves' = leaves
    BY <1>5 DEF Q!ResolveWrite, Q!Write, c
  <2> HIDE DEF row, q
  <2> QED
    BY <1>2, <1>3, <2>1, <2>2, Writing
<1>6. CASE Q!GrantWrite(d)
  <2> DEFINE row == [request[q] EXCEPT !.status = "RESOLVED", !.resolvedAt = TRUE]
  <2>1. row \in RequestRows /\ row.special = request[q].special /\ row.status = "RESOLVED"
    BY <1>2 DEF RequestRows, Q!Statuses
  <2>2. /\ request' = [request EXCEPT ![q] = row] /\ call' = [call EXCEPT ![d] = Q!NoCall]
        /\ leaves' = [leaves EXCEPT ![q] = @ + 1]
    BY <1>6 DEF Q!GrantWrite, Q!Write, c
  <2>3. /\ leaves' \in [Requests -> Nat] /\ leaves'[q] >= 1
        /\ \A p \in Requests : leaves'[p] >= leaves[p]
    BY <1>2, <2>2 DEF DeskInv, RequestTyped
  <2> HIDE DEF row, q
  <2> QED
    BY <1>2, <2>1, <2>2, <2>3, Writing
<1>7. CASE Q!StatusWrite(d)
  <2> DEFINE row == [request[q] EXCEPT !.status = c.status, !.closedAt = @ \/ c.status = "CLOSED"]
  <2>1. row \in RequestRows /\ row.special = request[q].special
        /\ row.status = c.status
    BY <1>1, <1>2 DEF RequestRows, RequestCalls
  <2>2. c.op = "status" /\ c.status \in {"IN_PROGRESS", "CLOSED"}
    BY <1>1, <1>7 DEF Q!StatusWrite, Q!Write, StillChecked, c
  <2>3. row.special /\ row.status \in {"RESOLVED", "CLOSED"} => leaves[q] >= 1
    BY <1>1, <2>1, <2>2 DEF StillChecked
  <2>4. /\ request' = [request EXCEPT ![q] = row] /\ call' = [call EXCEPT ![d] = Q!NoCall]
        /\ leaves' = leaves
    BY <1>7 DEF Q!StatusWrite, Q!Write, c
  <2> HIDE DEF row, q
  <2> QED
    BY <1>2, <1>3, <2>1, <2>2, <2>3, <2>4, Writing
<1> QED
  BY <1>4, <1>5, <1>6, <1>7

LEMMA DeskStep == ASSUME DeskInv, Q!Next PROVE DeskInv'
<1>2. ASSUME NEW q \in Requests, NEW special \in BOOLEAN, NEW e \in Q!Someone,
             Q!Create(q, special, e)
      PROVE  DeskInv'
  BY <1>2, Raising
<1>3. ASSUME NEW d \in Workers, NEW q \in Requests, NEW u \in Q!Someone,
             Q!AssignRead(d, q, u) \/ Q!ResolveRead(d, q, u) \/ Q!GrantRead(d, q, u)
             \/ Q!StatusRead(d, q)
      PROVE  DeskInv'
  BY <1>3, Reading
<1>4. ASSUME NEW d \in Workers,
             Q!AssignWrite(d) \/ Q!ResolveWrite(d) \/ Q!GrantWrite(d) \/ Q!StatusWrite(d)
      PROVE  DeskInv'
  BY <1>4, Ending
<1>5. ASSUME NEW d \in Workers, Q!Fail(d)
      PROVE  DeskInv'
  <2>1. Q!NoCall \in RequestCalls /\ StillChecked(Q!NoCall)
    BY DEF Q!NoCall, RequestCalls, Q!Statuses, Q!Someone, StillChecked
  <2> QED
    BY <1>5, <2>1, Beginning DEF Q!Fail
<1>6. \A p \in People : p \in Q!Someone
  BY DEF Q!Someone
<1>7. Nobody \in Q!Someone
  BY DEF Q!Someone
<1> QED
  BY <1>2, <1>3, <1>4, <1>5, <1>6, <1>7 DEF Q!Next

(* One call at a time: what it has read of its request is still so.        *)
Unsettled == {"OPEN", "ASSIGNED", "IN_PROGRESS"}
StillSo(c) ==
    c # Q!NoCall =>
        /\ c.op = "assign" => request[c.id].status \in Unsettled
        /\ c.op = "resolve" => request[c.id].status \in {"ASSIGNED", "IN_PROGRESS"}
        /\ c.op = "grant" => request[c.id].status \in Unsettled
        /\ c.op = "status" => <<request[c.id].status, c.status>> \in
                                 {<<"ASSIGNED", "IN_PROGRESS">>, <<"RESOLVED", "CLOSED">>}

RequestsSo == \A d \in Workers : StillSo(call[d])
RequestsAlone == ~Q!Overlap /\ RequestsSo /\ Q!ResolvedStaysResolved

RequestInv == DeskInv /\ (~raced => RequestsAlone)

(* The row of a request agrees with the leaves granted for it.             *)
Settled(r, n) ==
    /\ n <= 1
    /\ n = 1 => r.status \in {"RESOLVED", "CLOSED"}
    /\ r.resolvedAt <=> r.status \in {"RESOLVED", "CLOSED"}
    /\ r.closedAt <=> r.status = "CLOSED"

LEMMA RequestsStart == Q!Init => DeskInv /\ RequestsAlone
BY DeskInit
DEF Q!Init, RequestsAlone, RequestsSo, StillSo, Q!Overlap, Q!NoCall, Q!NoRow, Q!ResolvedStaysResolved

(* A call that is begun, or dropped, changes no row.                       *)
LEMMA RequestBegins ==
    ASSUME RequestInv, NEW d \in Workers, NEW c \in RequestCalls, StillSo(c),
           call' = [call EXCEPT ![d] = c], UNCHANGED <<request, leaves>>,
           raced' = (raced \/ Q!Overlap'), ~raced'
    PROVE  RequestsAlone'
<1>1. RequestsAlone /\ ~Q!Overlap'
  BY DEF RequestInv
<1>2. call \in [Workers -> RequestCalls]
  BY DEF RequestInv, DeskInv, RequestTyped
<1>3. \A e \in Workers : StillSo(call'[e])
  BY <1>1, <1>2 DEF RequestsAlone, RequestsSo
<1>4. RequestsSo'
  BY <1>3 DEF RequestsSo, StillSo
<1> QED
  BY <1>1, <1>4 DEF RequestsAlone, Q!ResolvedStaysResolved

(* A call writes its row; no other call is about this request.             *)
LEMMA RequestWrites ==
    ASSUME RequestInv, NEW d \in Workers, call[d] # Q!NoCall, NEW row \in RequestRows,
           request' = [request EXCEPT ![call[d].id] = row],
           call' = [call EXCEPT ![d] = Q!NoCall],
           leaves' \in [Requests -> Nat],
           \A p \in Requests : p # call[d].id => leaves'[p] = leaves[p],
           Settled(row, leaves'[call[d].id]),
           raced' = (raced \/ Q!Overlap'), ~raced'
    PROVE  RequestsAlone'
<1> DEFINE q == call[d].id
<1>1. RequestsAlone /\ ~Q!Overlap'
  BY DEF RequestInv
<1>2. /\ call \in [Workers -> RequestCalls] /\ q \in Requests
      /\ request \in [Requests -> RequestRows]
  BY DEF RequestInv, DeskInv, RequestTyped, Checked, StillChecked
<1>3. ASSUME NEW e \in Workers, e # d, call[e] # Q!NoCall PROVE call[e].id # q /\ call[e].id \in Requests
  BY <1>1, <1>3 DEF RequestsAlone, Q!Overlap, RequestInv, DeskInv, Checked, StillChecked
<1> HIDE DEF q
<1>4. request'[q] = row /\ \A p \in Requests : p # q => request'[p] = request[p]
  BY <1>2 DEF q
<1>5. \A e \in Workers : e # d => call'[e] = call[e] /\ StillSo(call[e])
  BY <1>1, <1>2 DEF RequestsAlone, RequestsSo
<1>6. call'[d] = Q!NoCall
  BY <1>2
<1>7. RequestsSo'
  BY <1>3, <1>4, <1>5, <1>6 DEF RequestsSo, StillSo
<1>8. ASSUME NEW p \in Requests PROVE Settled(request'[p], leaves'[p])
  <2>1. CASE p = q
    BY <1>4, <2>1 DEF q
  <2>2. CASE p # q
    BY <1>1, <1>4, <2>2 DEF RequestsAlone, Q!ResolvedStaysResolved, Settled, q
  <2> QED
    BY <2>1, <2>2
<1>9. Q!ResolvedStaysResolved'
  BY <1>8 DEF Q!ResolvedStaysResolved, Settled
<1> QED
  BY <1>1, <1>7, <1>9 DEF RequestsAlone

(* The first statements: each call goes by the status it reads.            *)
LEMMA ReadsAreSo ==
    ASSUME RequestInv, NEW d \in Workers, NEW q \in Requests, NEW u \in Q!Someone,
           Q!AssignRead(d, q, u) \/ Q!ResolveRead(d, q, u) \/ Q!GrantRead(d, q, u)
           \/ Q!StatusRead(d, q),
           raced' = (raced \/ Q!Overlap'), ~raced'
    PROVE  RequestsAlone'
<1>1. PICK op \in {"assign", "resolve", "grant", "status"}, st \in Q!Statuses, v \in Q!Someone :
          /\ Q!Begin(d, op, q, st, v)
          /\ op = "assign" => request[q].status \in Unsettled
          /\ op = "resolve" => request[q].status \in {"ASSIGNED", "IN_PROGRESS"}
          /\ op = "grant" => request[q].status \in Unsettled
          /\ op = "status" => <<request[q].status, st>> \in
                                 {<<"ASSIGNED", "IN_PROGRESS">>, <<"RESOLVED", "CLOSED">>}
  <2>1. CASE Q!AssignRead(d, q, u)
    BY <2>1 DEF Q!AssignRead, Q!Statuses, Unsettled
  <2>2. CASE Q!ResolveRead(d, q, u)
    BY <2>2 DEF Q!ResolveRead, Q!Statuses
  <2>3. CASE Q!GrantRead(d, q, u)
    BY <2>3 DEF Q!GrantRead, Q!Statuses, Unsettled
  <2>4. CASE Q!StatusRead(d, q)
    <3>1. Nobody \in Q!Someone
      BY DEF Q!Someone
    <3> QED
      BY <2>4, <3>1 DEF Q!StatusRead
  <2> QED
    BY <2>1, <2>2, <2>3, <2>4
<1> DEFINE c == [op |-> op, id |-> q, status |-> st, user |-> v]
<1>2. call' = [call EXCEPT ![d] = c] /\ UNCHANGED <<request, leaves>>
  BY <1>1 DEF Q!Begin
<1>3. /\ c \in RequestCalls
      /\ c.op = op /\ c.id = q /\ c.status = st
  BY <1>1 DEF RequestCalls
<1> HIDE DEF c
<1>4. StillSo(c)
  BY <1>1, <1>3 DEF StillSo
<1> QED
  BY <1>2, <1>3, <1>4, RequestBegins

LEMMA WritesAreSo ==
    ASSUME RequestInv, NEW d \in Workers,
           Q!AssignWrite(d) \/ Q!ResolveWrite(d) \/ Q!GrantWrite(d) \/ Q!StatusWrite(d),
           raced' = (raced \/ Q!Overlap'), ~raced'
    PROVE  RequestsAlone'
<1> DEFINE c == call[d]
           q == c.id
<1>1. c # Q!NoCall /\ call' = [call EXCEPT ![d] = Q!NoCall]
  BY DEF Q!AssignWrite, Q!ResolveWrite, Q!GrantWrite, Q!StatusWrite, Q!Write, Q!NoCall
<1>2. /\ q \in Requests /\ request[q] \in RequestRows /\ leaves \in [Requests -> Nat]
      /\ c \in RequestCalls /\ StillChecked(c) /\ StillSo(c)
      /\ Settled(request[q], leaves[q]) /\ leaves[q] \in Nat
  BY <1>1
  DEF RequestInv, DeskInv, RequestTyped, Checked, StillChecked, RequestsAlone, RequestsSo,
      Q!ResolvedStaysResolved, Settled
<1> HIDE DEF c, q
<1>3. CASE Q!AssignWrite(d)
  <2> DEFINE row == [request[q] EXCEPT !.status = c.status, !.assignedTo = c.user]
  <2>1. /\ c.op = "assign" /\ request' = [request EXCEPT ![q] = row] /\ leaves' = leaves
    BY <1>3 DEF Q!AssignWrite, Q!Write, c, q
  <2>2. /\ row \in RequestRows /\ row.status = c.status
        /\ row.resolvedAt = request[q].resolvedAt /\ row.closedAt = request[q].closedAt
    BY <1>2 DEF RequestRows, RequestCalls
  <2> HIDE DEF row
  <2>3. Settled(row, leaves[q])
    BY <1>1, <1>2, <2>1, <2>2 DEF Settled, StillSo, StillChecked, Unsettled, q
  <2> QED
    BY <1>1, <1>2, <2>1, <2>2, <2>3, RequestWrites DEF c, q
<1>4. CASE Q!ResolveWrite(d)
  <2> DEFINE row == [request[q] EXCEPT !.status = "RESOLVED", !.resolvedAt = TRUE]
  <2>1. /\ c.op = "resolve" /\ request' = [request EXCEPT ![q] = row] /\ leaves' = leaves
    BY <1>4 DEF Q!ResolveWrite, Q!Write, c, q
  <2>2. /\ row \in RequestRows /\ row.status = "RESOLVED"
        /\ row.resolvedAt = TRUE /\ row.closedAt = request[q].closedAt
    BY <1>2 DEF RequestRows, Q!Statuses
  <2> HIDE DEF row
  <2>3. Settled(row, leaves[q])
    BY <1>1, <1>2, <2>1, <2>2 DEF Settled, StillSo, q
  <2> QED
    BY <1>1, <1>2, <2>1, <2>2, <2>3, RequestWrites DEF c, q
<1>5. CASE Q!GrantWrite(d)
  <2> DEFINE row == [request[q] EXCEPT !.status = "RESOLVED", !.resolvedAt = TRUE]
  <2>1. /\ c.op = "grant" /\ request' = [request EXCEPT ![q] = row]
        /\ leaves' = [leaves EXCEPT ![q] = leaves[q] + 1]
    BY <1>5 DEF Q!GrantWrite, Q!Write, c, q
  <2>2. /\ row \in RequestRows /\ row.status = "RESOLVED"
        /\ row.resolvedAt = TRUE /\ row.closedAt = request[q].closedAt
    BY <1>2 DEF RequestRows, Q!Statuses
  <2>3. /\ leaves' \in [Requests -> Nat] /\ leaves'[q] = leaves[q] + 1
        /\ \A p \in Requests : p # q => leaves'[p] = leaves[p]
    BY <1>2, <2>1
  <2> HIDE DEF row
  <2>4. Settled(row, leaves'[q])
    BY <1>1, <1>2, <2>1, <2>2, <2>3 DEF Settled, StillSo, Unsettled, q
  <2> QED
    BY <1>1, <2>1, <2>2, <2>3, <2>4, RequestWrites DEF c, q
<1>6. CASE Q!StatusWrite(d)
  <2> DEFINE row == [request[q] EXCEPT !.status = c.status, !.closedAt = @ \/ c.status = "CLOSED"]
  <2>1. /\ c.op = "status" /\ request' = [request EXCEPT ![q] = row] /\ leaves' = leaves
    BY <1>6 DEF Q!StatusWrite, Q!Write, c, q
  <2>2. /\ row \in RequestRows /\ row.status = c.status
        /\ row.resolvedAt = request[q].resolvedAt
        /\ row.closedAt = (request[q].closedAt \/ c.status = "CLOSED")
    BY <1>2 DEF RequestRows, RequestCalls
  <2> HIDE DEF row
  <2>3. Settled(row, leaves[q])
    BY <1>1, <1>2, <2>1, <2>2 DEF Settled, StillSo, q
  <2> QED
    BY <1>1, <1>2, <2>1, <2>2, <2>3, RequestWrites DEF c, q
<1> QED
  BY <1>3, <1>4, <1>5, <1>6

LEMMA RequestsKeep ==
    ASSUME RequestInv, Q!Next, raced' = (raced \/ Q!Overlap')
    PROVE  RequestInv'
<1>1. DeskInv'
  BY DeskStep DEF RequestInv
<1> SUFFICES ASSUME ~raced' PROVE RequestsAlone'
  BY <1>1 DEF RequestInv
<1>2. ASSUME NEW q \in Requests, NEW special \in BOOLEAN, NEW e \in Q!Someone,
             Q!Create(q, special, e)
      PROVE  RequestsAlone'
  <2> DEFINE row == [Q!NoRow EXCEPT !.status = "OPEN", !.special = special, !.employee = e]
  <2>1. /\ row.status = "OPEN" /\ ~row.resolvedAt /\ ~row.closedAt
    BY DEF Q!NoRow
  <2> HIDE DEF row
  <2>2. /\ request[q].status = "NONE" /\ request' = [request EXCEPT ![q] = row]
        /\ UNCHANGED <<leaves, call>> /\ RequestsAlone /\ ~Q!Overlap'
    BY <1>2 DEF Q!Create, RequestInv, row
  <2>3. request'[q] = row /\ \A p \in Requests : p # q => request'[p] = request[p]
    BY <2>2 DEF RequestInv, DeskInv, RequestTyped
  <2>4. ASSUME NEW d \in Workers, call[d] # Q!NoCall
        PROVE  call[d].id \in Requests /\ call[d].id # q /\ StillSo(call[d])
    BY <2>2, <2>4 DEF RequestInv, DeskInv, Checked, StillChecked, RequestsAlone, RequestsSo
  <2>5. RequestsSo'
    BY <2>2, <2>3, <2>4 DEF RequestsSo, StillSo
  <2>6. leaves[q] \in Nat /\ Settled(request[q], leaves[q])
    BY <2>2
    DEF RequestInv, DeskInv, RequestTyped, RequestsAlone, Q!ResolvedStaysResolved, Settled
  <2>7. Q!ResolvedStaysResolved'
    BY <2>1, <2>2, <2>3, <2>6 DEF RequestsAlone, Q!ResolvedStaysResolved, Settled
  <2> QED
    BY <2>2, <2>5, <2>7 DEF RequestsAlone
<1>3. ASSUME NEW d \in Workers, Q!Fail(d) PROVE RequestsAlone'
  <2>1. Q!NoCall \in RequestCalls /\ StillSo(Q!NoCall)
    BY DEF Q!NoCall, RequestCalls, Q!Statuses, Q!Someone, StillSo
  <2> QED
    BY <1>3, <2>1, RequestBegins DEF Q!Fail
<1>4. (\A p \in People : p \in Q!Someone) /\ Nobody \in Q!Someone
  BY DEF Q!Someone
<1> QED
  BY <1>2, <1>3, <1>4, ReadsAreSo, WritesAreSo DEF Q!Next

-----------------------------------------------------------------------------
(* FILES.  A file has an id of its own, so whatever an upload deletes      *)
(* (what it read as the key at its start, or other photos) is never what   *)
(* another one has stored since.                                           *)

FileRows == [disk : BOOLEAN, row : BOOLEAN, kind : U!Kinds \cup {"none", "gone"}]
FileJobs == [at : {"idle", "disk", "row", "save", "prior", "remove"}, kind : U!Kinds \cup {"none"},
         asset : Ids \cup {NoAsset}, documents : SUBSET Ids, key : Ids \cup {NoAsset}]

FilesTyped ==
    /\ file \in [Ids -> FileRows]
    /\ notice \in [exists : BOOLEAN, key : Ids \cup {NoAsset}]
    /\ documents \subseteq Ids
    /\ purge \subseteq Ids
    /\ ujob \in [Workers -> FileJobs]

(* Ids that a request has read, or that something has deleted, have been   *)
(* given to a file.                                                        *)
KnownIsUsed ==
    /\ \A a \in purge : file[a] # U!NoFile
    /\ \A w \in Workers : \A a \in U!Key(ujob[w].key) : file[a] # U!NoFile

(* The id of an upload under way is nobody else's: no other upload has it, *)
(* no request has read it as the key of the notice, and if it is not a     *)
(* photo it is not to be deleted.                                          *)
Uploading(w) == ujob[w].at \in {"disk", "row", "save"}
IsNew(w) ==
    /\ ujob[w].asset \in Ids /\ ujob[w].kind \in U!Kinds
    /\ \A v \in Workers : v # w => ujob[v].asset # ujob[w].asset
    /\ \A v \in Workers : ujob[v].key # ujob[w].asset
    /\ notice.key # ujob[w].asset
    /\ ujob[w].at = "disk" => file[ujob[w].asset] = U!NoFile
    /\ ujob[w].at = "row" => ~file[ujob[w].asset].row
    /\ ujob[w].at = "save" /\ ujob[w].kind # "photo" =>
          file[ujob[w].asset] = [disk |-> TRUE, row |-> TRUE, kind |-> ujob[w].kind]
    /\ ujob[w].kind # "photo" \/ ujob[w].at # "save" => ujob[w].asset \notin purge
UploadIsNew == \A w \in Workers : Uploading(w) => IsNew(w)

(* The attachment of the notice is not taken for a photo. *)
KeyIsNotice ==
    \A a \in U!Key(notice.key) :
        file[a] = [disk |-> TRUE, row |-> TRUE, kind |-> "notice"] /\ a \notin purge

UploadInv == FilesTyped /\ KnownIsUsed /\ UploadIsNew /\ KeyIsNotice

(* At first there are no files. *)
LEMMA UploadInit == NoAsset \notin Ids /\ U!Init => UploadInv
BY DEF U!Init, UploadInv, FilesTyped, FileRows, FileJobs, U!Kinds, KnownIsUsed, Uploading, UploadIsNew, IsNew,
       KeyIsNotice, U!NoFile, U!NoJob, U!Key

(* A new upload gets an id that nothing has yet. *)
LEMMA UploadReadKeeps ==
    ASSUME NoAsset \notin Ids, UploadInv,
           NEW w \in Workers, NEW k \in U!Kinds, NEW a \in Ids, U!UploadRead(w, k, a)
    PROVE  UploadInv'
<1> DEFINE j == [at |-> "disk", kind |-> k, asset |-> a, documents |-> documents,
                 key |-> notice.key]
<1>1. /\ ujob' = [ujob EXCEPT ![w] = j]
      /\ UNCHANGED <<file, notice, documents, purge>>
      /\ file[a] = U!NoFile /\ \A v \in Workers : ujob[v].asset # a
  BY DEF U!UploadRead, U!Columns
<1>2. j \in FileJobs
  BY DEF UploadInv, FilesTyped, FileJobs
<1>3. FilesTyped'
  BY <1>1, <1>2 DEF UploadInv, FilesTyped
<1>4. notice.key # a /\ a \notin purge /\ \A v \in Workers : ujob[v].key # a
  <2>1. file[a].kind = "none"
    BY <1>1 DEF U!NoFile
  <2>2. \A b \in U!Key(notice.key) : file[b].kind = "notice"
    BY DEF UploadInv, KeyIsNotice
  <2> QED
    BY <1>1, <2>1, <2>2 DEF UploadInv, FilesTyped, KnownIsUsed, U!Key
<1>5. KnownIsUsed'
  BY <1>1 DEF UploadInv, FilesTyped, KnownIsUsed, KeyIsNotice, U!Key, U!NoFile
<1>6. UploadIsNew'
  <2> SUFFICES ASSUME NEW v \in Workers, Uploading(v)' PROVE IsNew(v)'
    BY DEF UploadIsNew
  <2> QED
    BY <1>1, <1>4 DEF UploadInv, FilesTyped, UploadIsNew, IsNew, Uploading
<1>7. KeyIsNotice'
  BY <1>1 DEF UploadInv, KeyIsNotice
<1> QED
  BY <1>3, <1>5, <1>6, <1>7 DEF UploadInv

(* FilesService.upload, first its bytes ... *)
LEMMA WriteDiskKeeps ==
    ASSUME NoAsset \notin Ids, UploadInv, NEW w \in Workers, U!WriteDisk(w)
    PROVE  UploadInv'
<1> DEFINE a == ujob[w].asset
<1>1. a \in Ids /\ file[a] = U!NoFile /\ ujob[w] \in FileJobs
  BY DEF UploadInv, FilesTyped, UploadIsNew, IsNew, Uploading, U!WriteDisk
<1>2. /\ file' \in [Ids -> FileRows] /\ ~file'[a].row
      /\ \A b \in Ids \ {a} : file'[b] = file[b]
  <2>1. file' = [file EXCEPT ![a] = [file[a] EXCEPT !.disk = TRUE]]
    BY <1>1 DEF U!WriteDisk
  <2>2. file[a] \in FileRows /\ ~file[a].row
    BY <1>1 DEF UploadInv, FilesTyped, U!NoFile
  <2>3. [file[a] EXCEPT !.disk = TRUE] \in FileRows /\ ~[file[a] EXCEPT !.disk = TRUE].row
    BY <2>2 DEF FileRows
  <2> QED
    BY <1>1, <2>1, <2>3 DEF UploadInv, FilesTyped
<1> HIDE DEF a
<1>3. FilesTyped'
  BY <1>1, <1>2 DEF U!WriteDisk, UploadInv, FilesTyped, FileRows, FileJobs, U!Kinds, U!Goto, U!Columns
<1>4. KnownIsUsed'
  BY <1>1, <1>2 DEF U!WriteDisk, UploadInv, FilesTyped, FileJobs, KnownIsUsed, KeyIsNotice, U!NoFile, U!Key,
         U!Goto, U!Columns
<1>5. UploadIsNew'
  BY <1>1, <1>2 DEF U!WriteDisk, UploadInv, FilesTyped, FileJobs, UploadIsNew, IsNew, Uploading,
         KnownIsUsed, U!Key, U!Goto, U!Columns
<1>6. KeyIsNotice'
  BY <1>1, <1>2 DEF U!WriteDisk, UploadInv, FilesTyped, FileRows, FileJobs, KeyIsNotice, UploadIsNew, IsNew,
         Uploading, U!NoFile, U!Key, U!Goto, U!Columns
<1> QED
  BY <1>3, <1>4, <1>5, <1>6 DEF UploadInv

(* ... then its row. *)
LEMMA CreateRowKeeps ==
    ASSUME NoAsset \notin Ids, UploadInv, NEW w \in Workers, U!CreateRow(w)
    PROVE  UploadInv'
<1> DEFINE a == ujob[w].asset
<1>1. a \in Ids /\ ~file[a].row /\ ujob[w] \in FileJobs /\ ujob[w].at = "row" /\ IsNew(w)
  BY DEF UploadInv, FilesTyped, UploadIsNew, IsNew, Uploading, U!CreateRow
<1>2. \A b \in Ids : file'[b] = IF b = a THEN [disk |-> TRUE, row |-> TRUE, kind |-> ujob[w].kind] ELSE file[b]
  BY <1>1 DEF UploadInv, FilesTyped, U!NoFile, U!CreateRow
<1>9. /\ ujob' = [ujob EXCEPT ![w].at = "save"] /\ UNCHANGED <<notice, purge>>
      /\ ujob[w].asset = a
  BY DEF U!CreateRow, U!Goto, U!Columns
<1> HIDE DEF a
<1>3. FilesTyped'
  BY <1>1, <1>2 DEF U!CreateRow, UploadInv, FilesTyped, FileRows, FileJobs, U!Kinds, U!Goto, U!Columns
<1>4. KnownIsUsed'
  BY <1>1, <1>2 DEF U!CreateRow, UploadInv, FilesTyped, FileJobs, KnownIsUsed, KeyIsNotice, U!NoFile, U!Key,
         U!Goto, U!Columns
<1>5. UploadIsNew'
  <2> SUFFICES ASSUME NEW v \in Workers, Uploading(v)' PROVE IsNew(v)'
    BY DEF UploadIsNew
  <2>1. \A u \in Workers : ujob'[u].asset = ujob[u].asset /\ ujob'[u].key = ujob[u].key /\ ujob'[u].kind = ujob[u].kind
    BY <1>1, <1>9 DEF UploadInv, FilesTyped, FileJobs
  <2>2. CASE v = w
    <3>1. ujob'[w].at = "save" /\ ujob'[w].asset = a
      BY <1>1, <1>9 DEF UploadInv, FilesTyped, FileJobs
    <3>2. file'[a] = [disk |-> TRUE, row |-> TRUE, kind |-> ujob'[w].kind]
      BY <1>1, <1>2, <2>1
    <3> QED
      BY <1>1, <1>9, <2>1, <2>2, <3>1, <3>2 DEF IsNew
  <2>3. CASE v # w
    <3>1. ujob'[v] = ujob[v] /\ IsNew(v)
      BY <1>9, <2>3 DEF UploadInv, FilesTyped, UploadIsNew, Uploading
    <3>2. ujob[v].asset # a
      BY <1>1, <1>9, <2>3 DEF IsNew
    <3>3. file'[ujob[v].asset] = file[ujob[v].asset]
      BY <1>2, <3>1, <3>2 DEF IsNew
    <3>4. notice' = notice /\ purge' = purge
      BY <1>9
    <3>5. \A u \in Workers : (u # v => ujob'[u].asset # ujob'[v].asset) /\ ujob'[u].key # ujob'[v].asset
      BY <2>1, <3>1 DEF IsNew
    <3> QED
      BY <3>1, <3>3, <3>4, <3>5 DEF IsNew
  <2> QED
    BY <2>2, <2>3
<1>6. KeyIsNotice'
  BY <1>1, <1>2 DEF U!CreateRow, UploadInv, FilesTyped, FileJobs, KeyIsNotice, UploadIsNew, IsNew,
         Uploading, U!NoFile, U!Key, U!Goto, U!Columns
<1> QED
  BY <1>3, <1>4, <1>5, <1>6 DEF UploadInv

(* An upload whose row is refused leaves the id as it was, unused. *)
LEMMA RefuseRowKeeps ==
    ASSUME NoAsset \notin Ids, UploadInv, NEW w \in Workers, U!RefuseRow(w)
    PROVE  UploadInv'
<1> DEFINE a == ujob[w].asset
<1>1. a \in Ids /\ ~file[a].row /\ ujob[w] \in FileJobs
  BY DEF UploadInv, FilesTyped, UploadIsNew, IsNew, Uploading, U!RefuseRow
<1>2. \A b \in Ids : file'[b] = IF b = a THEN U!NoFile ELSE file[b]
  BY <1>1 DEF UploadInv, FilesTyped, U!NoFile, U!RefuseRow
<1>9. a \notin purge /\ \A v \in Workers : ujob[v].key # a
  BY DEF UploadInv, UploadIsNew, IsNew, Uploading, U!RefuseRow
<1> HIDE DEF a
<1>3. FilesTyped'
  BY <1>1, <1>2 DEF U!RefuseRow, UploadInv, FilesTyped, FileRows, FileJobs, U!Kinds, U!Done, U!Columns, U!NoJob,
         U!NoFile
<1>4. KnownIsUsed'
  <2>1. UNCHANGED purge /\ \A v \in Workers : U!Key(ujob'[v].key) \subseteq U!Key(ujob[v].key)
    BY <1>1 DEF U!RefuseRow, U!Done, U!NoJob, U!Key, UploadInv, FilesTyped
  <2>2. \A v \in Workers : a \notin U!Key(ujob[v].key)
    BY <1>9 DEF U!Key
  <2>3. \A v \in Workers : U!Key(ujob[v].key) \subseteq Ids
    BY DEF UploadInv, FilesTyped, FileJobs, U!Key
  <2> QED
    BY <1>2, <1>9, <2>1, <2>2, <2>3 DEF UploadInv, FilesTyped, KnownIsUsed
<1>5. UploadIsNew'
  BY <1>1, <1>2 DEF U!RefuseRow, UploadInv, FilesTyped, FileJobs, UploadIsNew, IsNew, Uploading,
         KnownIsUsed, U!Key, U!Done, U!Columns, U!NoJob, U!NoFile
<1>6. KeyIsNotice'
  BY <1>1, <1>2 DEF U!RefuseRow, UploadInv, FilesTyped, FileJobs, KeyIsNotice, UploadIsNew, IsNew,
         Uploading, U!NoFile, U!Key, U!Done, U!Columns, U!NoJob
<1> QED
  BY <1>3, <1>4, <1>5, <1>6 DEF UploadInv

(* The columns are set to an id that has a row. *)
LEMMA SavePhotoKeeps ==
    ASSUME NoAsset \notin Ids, UploadInv, NEW w \in Workers, U!SavePhoto(w)
    PROVE  UploadInv'
<1>1. FilesTyped'
  BY DEF U!SavePhoto, UploadInv, FilesTyped, FileRows, FileJobs, U!Kinds, U!Goto
<1>2. KnownIsUsed'
  BY DEF U!SavePhoto, UploadInv, FilesTyped, FileJobs, KnownIsUsed, KeyIsNotice, U!NoFile, U!Key, U!Goto
<1>3. UploadIsNew'
  BY DEF U!SavePhoto, UploadInv, FilesTyped, FileJobs, UploadIsNew, IsNew, Uploading, KnownIsUsed, U!Key,
         U!Goto
<1>4. KeyIsNotice'
  BY DEF U!SavePhoto, UploadInv, FilesTyped, FileJobs, KeyIsNotice, UploadIsNew, IsNew, Uploading, U!NoFile,
         U!Key, U!Goto
<1> QED
  BY <1>1, <1>2, <1>3, <1>4 DEF UploadInv

LEMMA SetPhotoKeeps ==
    ASSUME NoAsset \notin Ids, UploadInv, NEW url \in Ids \cup {NoAsset}, U!SetPhoto(url)
    PROVE  UploadInv'
<1>1. UNCHANGED <<file, notice, documents, purge, ujob>>
  BY DEF U!SetPhoto
<1> QED
  BY <1>1
  DEF UploadInv, FilesTyped, KnownIsUsed, UploadIsNew, IsNew, Uploading, KeyIsNotice

LEMMA SaveDocumentKeeps ==
    ASSUME NoAsset \notin Ids, UploadInv, NEW w \in Workers, U!SaveDocument(w)
    PROVE  UploadInv'
<1>1. FilesTyped'
  BY DEF U!SaveDocument, UploadInv, FilesTyped, FileRows, FileJobs, U!Kinds, UploadIsNew, IsNew, Uploading, U!Done,
         U!NoJob
<1>2. KnownIsUsed'
  BY DEF U!SaveDocument, UploadInv, FilesTyped, FileJobs, KnownIsUsed, KeyIsNotice, U!NoFile, U!Key, U!Done,
         U!NoJob
<1>3. UploadIsNew'
  BY DEF U!SaveDocument, UploadInv, FilesTyped, FileJobs, UploadIsNew, IsNew, Uploading, KnownIsUsed, U!Key,
         U!Done, U!NoJob
<1>4. KeyIsNotice'
  BY DEF U!SaveDocument, UploadInv, FilesTyped, FileJobs, KeyIsNotice, UploadIsNew, IsNew, Uploading,
         U!NoFile, U!Key, U!Done, U!NoJob
<1> QED
  BY <1>1, <1>2, <1>3, <1>4 DEF UploadInv

LEMMA SaveAttachmentKeeps ==
    ASSUME NoAsset \notin Ids, UploadInv, NEW w \in Workers, U!SaveAttachment(w)
    PROVE  UploadInv'
<1>1. FilesTyped'
  BY DEF U!SaveAttachment, UploadInv, FilesTyped, FileRows, FileJobs, U!Kinds, U!Done, U!NoJob, U!Key
<1>2. KnownIsUsed'
  BY DEF U!SaveAttachment, UploadInv, FilesTyped, FileJobs, KnownIsUsed, KeyIsNotice, U!NoFile, U!Key, U!Done,
         U!NoJob
<1>3. UploadIsNew'
  BY DEF U!SaveAttachment, UploadInv, FilesTyped, FileJobs, UploadIsNew, IsNew, Uploading, KnownIsUsed,
         U!Key, U!Done, U!NoJob
<1>4. KeyIsNotice'
  BY DEF U!SaveAttachment, UploadInv, FilesTyped, FileJobs, KeyIsNotice, UploadIsNew, IsNew, Uploading,
         U!NoFile, U!Key, U!Done, U!NoJob
<1> QED
  BY <1>1, <1>2, <1>3, <1>4 DEF UploadInv

(* Only photos are deleted for a photo; the attachment is a notice's. *)
LEMMA PurgePriorKeeps ==
    ASSUME NoAsset \notin Ids, UploadInv, NEW w \in Workers, U!PurgePrior(w)
    PROVE  UploadInv'
<1>1. FilesTyped'
  BY DEF U!PurgePrior, UploadInv, FilesTyped, FileRows, FileJobs, U!Kinds, U!Done, U!Columns, U!NoJob
<1>2. KnownIsUsed'
  BY DEF U!PurgePrior, UploadInv, FilesTyped, FileJobs, KnownIsUsed, KeyIsNotice, U!NoFile, U!Key, U!Done,
         U!Columns, U!NoJob
<1>3. UploadIsNew'
  BY DEF U!PurgePrior, UploadInv, FilesTyped, FileRows, FileJobs, U!Kinds, UploadIsNew, IsNew, Uploading, U!NoFile,
         U!Done, U!NoJob, U!Columns
<1>4. KeyIsNotice'
  BY DEF U!PurgePrior, UploadInv, FilesTyped, FileJobs, KeyIsNotice, UploadIsNew, IsNew, Uploading,
         U!NoFile, U!Key, U!Done, U!Columns, U!NoJob
<1> QED
  BY <1>1, <1>2, <1>3, <1>4 DEF UploadInv

(* What a removal deletes was read when the notice had it. *)
LEMMA RemoveReadKeeps ==
    ASSUME NoAsset \notin Ids, UploadInv, NEW w \in Workers, U!RemoveRead(w)
    PROVE  UploadInv'
<1>1. FilesTyped'
  BY DEF U!RemoveRead, UploadInv, FilesTyped, FileRows, FileJobs, U!Kinds, U!Columns, U!NoJob
<1>2. KnownIsUsed'
  BY DEF U!RemoveRead, UploadInv, FilesTyped, FileJobs, KnownIsUsed, KeyIsNotice, U!NoFile, U!Key, U!Columns,
         U!NoJob
<1>3. UploadIsNew'
  BY DEF U!RemoveRead, UploadInv, FilesTyped, FileJobs, UploadIsNew, IsNew, Uploading, KnownIsUsed, U!Key,
         U!Columns, U!NoJob
<1>4. KeyIsNotice'
  BY DEF U!RemoveRead, UploadInv, FilesTyped, FileJobs, KeyIsNotice, UploadIsNew, IsNew, Uploading,
         U!NoFile, U!Key, U!Columns, U!NoJob
<1> QED
  BY <1>1, <1>2, <1>3, <1>4 DEF UploadInv

LEMMA RemoveWriteKeeps ==
    ASSUME NoAsset \notin Ids, UploadInv, NEW w \in Workers, U!RemoveWrite(w)
    PROVE  UploadInv'
<1>1. FilesTyped'
  BY DEF U!RemoveWrite, UploadInv, FilesTyped, FileRows, FileJobs, U!Kinds, U!Done, U!NoJob, U!Key
<1>2. KnownIsUsed'
  BY DEF U!RemoveWrite, UploadInv, FilesTyped, FileJobs, KnownIsUsed, KeyIsNotice, U!NoFile, U!Key, U!Done, U!NoJob
<1>3. UploadIsNew'
  BY DEF U!RemoveWrite, UploadInv, FilesTyped, FileJobs, UploadIsNew, IsNew, Uploading, KnownIsUsed, U!Key,
         U!Done, U!NoJob
<1>4. KeyIsNotice'
  BY DEF U!RemoveWrite, UploadInv, FilesTyped, FileJobs, KeyIsNotice, UploadIsNew, IsNew, Uploading,
         U!NoFile, U!Key, U!Done, U!NoJob
<1> QED
  BY <1>1, <1>2, <1>3, <1>4 DEF UploadInv

(* A failed request forgets what it had read. *)
LEMMA FailKeeps ==
    ASSUME NoAsset \notin Ids, UploadInv, NEW w \in Workers, U!Fail(w)
    PROVE  UploadInv'
<1>1. FilesTyped'
  BY DEF U!Fail, UploadInv, FilesTyped, FileRows, FileJobs, U!Kinds, U!Done, U!Columns, U!NoJob
<1>2. KnownIsUsed'
  BY DEF U!Fail, UploadInv, FilesTyped, FileJobs, KnownIsUsed, KeyIsNotice, U!NoFile, U!Key, U!Done, U!Columns,
         U!NoJob
<1>3. UploadIsNew'
  BY DEF U!Fail, UploadInv, FilesTyped, FileJobs, UploadIsNew, IsNew, Uploading, KnownIsUsed, U!Key, U!Done,
         U!Columns, U!NoJob
<1>4. KeyIsNotice'
  BY DEF U!Fail, UploadInv, FilesTyped, FileJobs, KeyIsNotice, UploadIsNew, IsNew, Uploading, U!NoFile, U!Key,
         U!Done, U!Columns, U!NoJob
<1> QED
  BY <1>1, <1>2, <1>3, <1>4 DEF UploadInv

(* What is deleted is not the attachment, nor that of an upload under way. *)
LEMMA UnlinkKeeps ==
    ASSUME NoAsset \notin Ids, UploadInv, NEW a \in Ids, U!Unlink(a)
    PROVE  UploadInv'
<1>1. a \in purge /\ file[a] \in FileRows
  BY DEF UploadInv, FilesTyped, U!Unlink
<1>2. /\ file' \in [Ids -> FileRows] /\ file'[a] # U!NoFile
      /\ \A b \in Ids \ {a} : file'[b] = file[b]
  <2>1. file' = [file EXCEPT ![a] = [file[a] EXCEPT !.disk = FALSE]]
    BY DEF U!Unlink
  <2>2. /\ [file[a] EXCEPT !.disk = FALSE] \in FileRows
        /\ [file[a] EXCEPT !.disk = FALSE] # U!NoFile
    BY <1>1 DEF FileRows, U!NoFile, U!Unlink
  <2> QED
    BY <1>1, <2>1, <2>2 DEF UploadInv, FilesTyped
<1>3. FilesTyped'
  BY <1>1, <1>2 DEF U!Unlink, UploadInv, FilesTyped, FileRows, FileJobs, U!Kinds, U!Columns
<1>4. KnownIsUsed'
  BY <1>1, <1>2 DEF U!Unlink, UploadInv, FilesTyped, FileJobs, KnownIsUsed, KeyIsNotice, U!NoFile, U!Key,
         U!Columns
<1>5. UploadIsNew'
  BY <1>1, <1>2 DEF U!Unlink, UploadInv, FilesTyped, FileJobs, UploadIsNew, IsNew, Uploading, KnownIsUsed,
         U!Key, U!Columns
<1>6. KeyIsNotice'
  BY <1>1, <1>2 DEF U!Unlink, UploadInv, FilesTyped, FileJobs, KeyIsNotice, UploadIsNew, IsNew, Uploading,
         U!NoFile, U!Key, U!Columns
<1> QED
  BY <1>3, <1>4, <1>5, <1>6 DEF UploadInv

LEMMA DeleteRowKeeps ==
    ASSUME NoAsset \notin Ids, UploadInv, NEW a \in Ids, U!DeleteRow(a)
    PROVE  UploadInv'
<1>1. a \in purge /\ file[a] \in FileRows
  BY DEF UploadInv, FilesTyped, U!DeleteRow
<1>2. /\ file' \in [Ids -> FileRows] /\ file'[a] # U!NoFile
      /\ \A b \in Ids \ {a} : file'[b] = file[b]
  <2>1. file' = [file EXCEPT ![a] = [[file[a] EXCEPT !.row = FALSE] EXCEPT !.kind = "gone"]]
    BY DEF U!DeleteRow
  <2>2. /\ [[file[a] EXCEPT !.row = FALSE] EXCEPT !.kind = "gone"] \in FileRows
        /\ [[file[a] EXCEPT !.row = FALSE] EXCEPT !.kind = "gone"] # U!NoFile
    BY <1>1 DEF FileRows, U!NoFile, U!DeleteRow
  <2> QED
    BY <1>1, <2>1, <2>2 DEF UploadInv, FilesTyped
<1>3. FilesTyped'
  BY <1>1, <1>2 DEF U!DeleteRow, UploadInv, FilesTyped, FileRows, FileJobs, U!Kinds, U!Columns
<1>4. KnownIsUsed'
  BY <1>1, <1>2 DEF U!DeleteRow, UploadInv, FilesTyped, FileJobs, KnownIsUsed, KeyIsNotice, U!NoFile, U!Key,
         U!Columns
<1>5. UploadIsNew'
  BY <1>1, <1>2 DEF U!DeleteRow, UploadInv, FilesTyped, FileJobs, UploadIsNew, IsNew, Uploading,
         KnownIsUsed, U!Key, U!Columns
<1>6. KeyIsNotice'
  BY <1>1, <1>2 DEF U!DeleteRow, UploadInv, FilesTyped, FileJobs, KeyIsNotice, UploadIsNew, IsNew,
         Uploading, U!NoFile, U!Key, U!Columns
<1> QED
  BY <1>3, <1>4, <1>5, <1>6 DEF UploadInv

(* A crash forgets every deletion. *)
LEMMA DieKeeps ==
    ASSUME NoAsset \notin Ids, UploadInv, U!Die
    PROVE  UploadInv'
<1>1. FilesTyped'
  BY DEF U!Die, UploadInv, FilesTyped, FileRows, FileJobs, U!Kinds, U!Columns, U!NoJob
<1>2. KnownIsUsed'
  BY DEF U!Die, UploadInv, FilesTyped, FileJobs, KnownIsUsed, KeyIsNotice, U!NoFile, U!Key, U!Columns, U!NoJob
<1>3. UploadIsNew'
  BY DEF U!Die, UploadInv, FilesTyped, FileJobs, UploadIsNew, IsNew, Uploading, KnownIsUsed, U!Key, U!Columns,
         U!NoJob
<1>4. KeyIsNotice'
  BY DEF U!Die, UploadInv, FilesTyped, FileJobs, KeyIsNotice, UploadIsNew, IsNew, Uploading, U!NoFile, U!Key,
         U!Columns, U!NoJob
<1> QED
  BY <1>1, <1>2, <1>3, <1>4 DEF UploadInv

(* Every step keeps the invariant. *)
LEMMA UploadStep == ASSUME NoAsset \notin Ids, UploadInv, U!Next PROVE UploadInv'
<1>2. ASSUME NEW w \in Workers, NEW k \in U!Kinds, NEW a \in Ids, U!UploadRead(w, k, a)
      PROVE  UploadInv'
  BY <1>2, UploadReadKeeps
<1>3. ASSUME NEW w \in Workers, U!WriteDisk(w) \/ U!CreateRow(w) \/ U!RefuseRow(w)
      PROVE  UploadInv'
  BY <1>3, WriteDiskKeeps, CreateRowKeeps, RefuseRowKeeps
<1>4. ASSUME NEW w \in Workers,
             U!SavePhoto(w) \/ U!SaveDocument(w) \/ U!SaveAttachment(w) \/ U!PurgePrior(w)
      PROVE  UploadInv'
  BY <1>4, SavePhotoKeeps, SaveDocumentKeeps, SaveAttachmentKeeps, PurgePriorKeeps
<1>5. ASSUME NEW w \in Workers, U!RemoveRead(w) \/ U!RemoveWrite(w) \/ U!Fail(w)
      PROVE  UploadInv'
  BY <1>5, RemoveReadKeeps, RemoveWriteKeeps, FailKeeps
<1>6. ASSUME NEW a \in Ids, U!Unlink(a) \/ U!DeleteRow(a) PROVE UploadInv'
  BY <1>6, UnlinkKeeps, DeleteRowKeeps
<1>7. CASE U!Die
  BY <1>7, DieKeeps
<1>8. ASSUME NEW url \in Ids \cup {NoAsset}, U!SetPhoto(url) PROVE UploadInv'
  BY <1>8, SetPhotoKeeps
<1> QED
  BY <1>2, <1>3, <1>4, <1>5, <1>6, <1>7, <1>8 DEF U!Next

(* What a request has read as the key, or had deleted, is no document.     *)
KeysAreNotices ==
    /\ \A w \in Workers : \A a \in U!Key(ujob[w].key) : file[a].kind \in {"notice", "gone"}
    /\ \A a \in purge : file[a].kind \in {"photo", "notice", "gone"}

(* One upload of a kind at a time, and no upload of an attachment beside a *)
(* removal of the notice: what a request has read is still so, and what is *)
(* in use is stored, but for a photo given by hand.                        *)
Now(w) ==
    /\ ujob[w].kind = "document" => ujob[w].documents = documents
    /\ ujob[w].kind = "notice" => notice.exists
    /\ (ujob[w].kind = "notice" \/ (ujob[w].at = "remove" /\ notice.exists)) =>
           ujob[w].key = notice.key
    /\ ujob[w].at = "prior" => ujob[w].kind = "photo" /\ (byHand \/ photo = ujob[w].asset)
    /\ ujob[w].at = "save" /\ ujob[w].kind = "photo" =>
           /\ file[ujob[w].asset] = [disk |-> TRUE, row |-> TRUE, kind |-> "photo"]
           /\ ujob[w].asset \notin purge
    /\ Uploading(w) => (byHand \/ ujob[w].asset # photo) /\ ujob[w].asset \notin documents

InPlace(a, kind) == file[a] = [disk |-> TRUE, row |-> TRUE, kind |-> kind] /\ a \notin purge

FilesAlone ==
    /\ ~U!Overlap(U!Kinds) /\ \A w \in Workers : Now(w)
    /\ ~byHand => \A a \in U!Key(photo) : InPlace(a, "photo")
    /\ \A a \in documents : InPlace(a, "document")
    /\ answered \subseteq documents
    /\ ~notice.exists => notice.key = NoAsset

(* Every file is in use, being uploaded, or going to be deleted, or a photo *)
(* behind an address given by hand.                                        *)
Accounted(a) ==
    \/ a \in {notice.key} \cup documents \cup purge
    \/ ~byHand /\ a = photo
    \/ byHand /\ file[a].row /\ file[a].kind = "photo"
    \/ \E w \in Workers : Uploading(w) /\ ujob[w].asset = a
    \/ (\E w \in Workers : ujob[w].at = "prior") /\ file[a].row /\ file[a].kind = "photo"

FilesWhole == \A a \in Ids : file[a].disk \/ file[a].row => Accounted(a)

FilesTypes == FilesTyped /\ photo \in Ids \cup {NoAsset} /\ byHand \in BOOLEAN /\ answered \subseteq Ids
FilesInv ==
    /\ UploadInv /\ FilesTypes /\ KeysAreNotices
    /\ ~raced => FilesAlone
    /\ ~raced /\ ~died => FilesWhole

-----------------------------------------------------------------------------
LEMMA FilesStart == NoAsset \notin Ids /\ U!Init => FilesInv /\ FilesAlone /\ FilesWhole
<1> SUFFICES ASSUME NoAsset \notin Ids, U!Init PROVE FilesInv /\ FilesAlone /\ FilesWhole
  OBVIOUS
<1>1. \A w \in Workers : ujob[w] = U!NoJob
  BY DEF U!Init
<1>2. \A a \in Ids : file[a] = U!NoFile
  BY DEF U!Init
<1>3. UploadInv /\ FilesTypes
  BY UploadInit DEF U!Init, UploadInv, FilesTypes
<1>4. KeysAreNotices
  BY <1>1 DEF U!Init, KeysAreNotices, U!Key, U!NoJob
<1>5. FilesAlone
  BY <1>1
  DEF U!Init, FilesAlone, U!Overlap, Now, InPlace, Uploading, U!NoJob, U!Key, U!Kinds
<1>6. FilesWhole
  BY <1>2 DEF FilesWhole, U!NoFile
<1> QED
  BY <1>3, <1>4, <1>5, <1>6 DEF FilesInv

(* What each row and each request looks like.                              *)
LEMMA AtFiles ==
    ASSUME FilesInv, NEW w \in Workers
    PROVE  /\ file \in [Ids -> FileRows] /\ ujob \in [Workers -> FileJobs]
           /\ ujob[w] \in FileJobs /\ purge \subseteq Ids /\ documents \subseteq Ids
           /\ notice \in [exists : BOOLEAN, key : Ids \cup {NoAsset}]
           /\ notice.key \in Ids \cup {NoAsset} /\ photo \in Ids \cup {NoAsset}
           /\ ujob[w].key \in Ids \cup {NoAsset} /\ ujob[w].documents \subseteq Ids
           /\ Uploading(w) => IsNew(w)
BY DEF FilesInv, FilesTypes, UploadInv, FilesTyped, FileJobs, UploadIsNew

(* The types, and what keys and deletions are of, whatever interleaves.    *)
LEMMA FilesTypesKeep ==
    ASSUME NoAsset \notin Ids, FilesInv, U!Next, UploadInv'
    PROVE  FilesTypes'
<1>1. FilesTyped'
  BY DEF UploadInv
<1>2. (photo \in Ids \cup {NoAsset} /\ byHand \in BOOLEAN /\ answered \subseteq Ids)'
  <2>1. ASSUME NEW w \in Workers, U!SavePhoto(w) PROVE photo' \in Ids /\ byHand' = FALSE /\ answered' = answered
    <3>1. Uploading(w) /\ photo' = ujob[w].asset /\ byHand' = FALSE /\ answered' = answered
      BY <2>1 DEF U!SavePhoto, Uploading
    <3> QED
      BY <3>1, AtFiles DEF IsNew
  <2>2. ASSUME NEW w \in Workers, U!SaveDocument(w) PROVE UNCHANGED <<photo, byHand>> /\ answered' \subseteq Ids
    <3>1. Uploading(w) /\ UNCHANGED <<photo, byHand>> /\ answered' = answered \cup {ujob[w].asset}
      BY <2>2 DEF U!SaveDocument, Uploading
    <3> QED
      BY <3>1, AtFiles DEF IsNew, FilesInv, FilesTypes
  <2>3. ASSUME NEW url \in Ids \cup {NoAsset}, U!SetPhoto(url)
        PROVE  photo' \in Ids \cup {NoAsset} /\ byHand' = TRUE /\ answered' = answered
    BY <2>3 DEF U!SetPhoto
  <2>4. \/ UNCHANGED <<photo, byHand, answered>>
        \/ \E url \in Ids \cup {NoAsset} : U!SetPhoto(url)
        \/ \E w \in Workers : U!SavePhoto(w) \/ U!SaveDocument(w)
    BY DEF U!Next, U!UploadRead, U!WriteDisk, U!CreateRow, U!RefuseRow, U!SaveAttachment,
           U!PurgePrior, U!RemoveRead, U!RemoveWrite, U!Fail, U!Unlink, U!DeleteRow, U!Die, U!Columns
  <2> QED
    BY <2>1, <2>2, <2>3, <2>4 DEF FilesInv, FilesTypes
<1> QED
  BY <1>1, <1>2 DEF FilesTypes

-----------------------------------------------------------------------------
(* What a step does to what it may disturb: the keys read, what requests   *)
(* alone may count on, and that no file is left over.                      *)
FilesKept ==
    /\ KeysAreNotices'
    /\ FilesAlone /\ ~U!Overlap(U!Kinds)' => FilesAlone'
    /\ FilesAlone /\ FilesWhole /\ ~U!Overlap(U!Kinds)' => FilesWhole'

(* An upload begins: it reads the list and the key.                        *)
LEMMA UploadReads ==
    ASSUME NoAsset \notin Ids, FilesInv, NEW w \in Workers, NEW k \in U!Kinds, NEW a \in Ids,
           U!UploadRead(w, k, a)
    PROVE  FilesKept
<1>1. /\ \A v \in Workers \ {w} : ujob'[v] = ujob[v]
      /\ ujob'[w].at = "disk" /\ ujob'[w].kind = k /\ ujob'[w].asset = a
      /\ ujob'[w].documents = documents /\ ujob'[w].key = notice.key
      /\ ujob[w].at = "idle"
  BY AtFiles DEF U!UploadRead, U!NoJob
<1>2. /\ UNCHANGED <<file, photo, byHand, documents, notice, purge, answered>>
      /\ file[a] = U!NoFile /\ (k = "notice" => notice.exists)
  BY DEF U!UploadRead, U!Columns
<1>3. KeysAreNotices'
  BY <1>1, <1>2 DEF FilesInv, UploadInv, KeyIsNotice, KeysAreNotices, U!Key
<1>4. ASSUME FilesAlone, ~U!Overlap(U!Kinds)' PROVE FilesAlone'
  <2>1. (byHand \/ ujob'[w].asset # photo) /\ ujob'[w].asset \notin documents
    BY <1>1, <1>2, <1>4 DEF FilesAlone, InPlace, U!Key, U!NoFile
  <2>2. Now(w)'
    BY <1>1, <1>2, <2>1 DEF Now, Uploading
  <2>3. \A v \in Workers : Now(v)'
    BY <1>1, <1>2, <1>4, <2>2 DEF FilesAlone, Now, Uploading
  <2> QED
    BY <1>2, <1>4, <2>3 DEF FilesAlone, InPlace
<1>5. ASSUME FilesWhole PROVE FilesWhole'
  BY <1>1, <1>2, <1>5 DEF FilesWhole, Accounted, Uploading
<1> QED
  BY <1>3, <1>4, <1>5 DEF FilesKept

(* The bytes of a file, its row, or neither.                               *)
LEMMA UploadWrites ==
    ASSUME NoAsset \notin Ids, FilesInv, NEW w \in Workers,
           U!WriteDisk(w) \/ U!CreateRow(w)
    PROVE  FilesKept
<1> DEFINE a == ujob[w].asset
           f == file'[a]
<1>1. Uploading(w) /\ IsNew(w) /\ a \in Ids
  BY AtFiles DEF U!WriteDisk, U!CreateRow, Uploading, IsNew
<1>2. /\ UNCHANGED <<photo, byHand, documents, notice, purge, answered>>
      /\ \A b \in Ids \ {a} : file'[b] = file[b]
      /\ \A v \in Workers \ {w} : ujob'[v] = ujob[v]
  BY AtFiles, <1>1 DEF U!WriteDisk, U!CreateRow, U!Goto, U!Columns
<1>3. /\ ujob'[w].kind = ujob[w].kind /\ ujob'[w].asset = a
      /\ ujob'[w].documents = ujob[w].documents /\ ujob'[w].key = ujob[w].key
      /\ ujob'[w].at \in {"row", "save"}
  BY AtFiles, <1>1 DEF U!WriteDisk, U!CreateRow, U!Goto, FileJobs
<1>4. ujob'[w].at = "save" => file'[a] = [disk |-> TRUE, row |-> TRUE, kind |-> ujob[w].kind]
  BY AtFiles, <1>1 DEF U!WriteDisk, U!CreateRow, U!Goto, FileJobs
<1>5. \A v \in Workers : ujob[v].key # a
  BY <1>1 DEF IsNew
<1>6. a \notin purge
  BY <1>1, AtFiles DEF IsNew, U!WriteDisk, U!CreateRow
<1> HIDE DEF a, f
<1>7. KeysAreNotices'
  <2>1. \A v \in Workers : ujob'[v].key = ujob[v].key
    BY <1>2, <1>3
  <2> QED
    BY <2>1, <1>2, <1>5, <1>6, AtFiles DEF FilesInv, KeysAreNotices, U!Key
<1>8. ASSUME FilesAlone, ~U!Overlap(U!Kinds)' PROVE FilesAlone'
  <2>1. Now(w)
    BY <1>8 DEF FilesAlone
  <2>2. Now(w)'
    BY <1>1, <1>2, <1>3, <1>4, <1>6, <2>1 DEF Now, Uploading, a
  <2>3. \A v \in Workers \ {w} : Now(v)'
    <3>1. \A v \in Workers \ {w} : Uploading(v) => ujob[v].asset # a /\ ujob[v].asset \in Ids
      BY <1>1, AtFiles DEF IsNew, a
    <3> QED
      BY <1>2, <1>8, <3>1 DEF FilesAlone, Now, Uploading
  <2>4. (byHand \/ a # photo) /\ a \notin documents
    BY <1>1, <2>1 DEF Now, a
  <2> QED
    BY <1>2, <1>8, <2>2, <2>3, <2>4, AtFiles DEF FilesAlone, InPlace, U!Key
<1>9. ASSUME FilesWhole PROVE FilesWhole'
  <2> SUFFICES ASSUME NEW b \in Ids, (file[b].disk \/ file[b].row)' PROVE Accounted(b)'
    BY DEF FilesWhole
  <2>1. CASE b = a
    BY <2>1, <1>3 DEF Accounted, Uploading
  <2>2. CASE b # a
    <3>1. Accounted(b)
      BY <2>2, <1>2, <1>9 DEF FilesWhole
    <3>2. \A v \in Workers : Uploading(v) /\ ujob[v].asset = b => Uploading(v)' /\ ujob'[v].asset = b
      BY <1>2, <1>3, <2>2 DEF Uploading, a
    <3>3. \A v \in Workers : ujob[v].at = "prior" => ujob'[v].at = "prior"
      BY <1>1, <1>2 DEF Uploading
    <3> QED
      BY <1>2, <2>2, <3>1, <3>2, <3>3 DEF Accounted
  <2> QED
    BY <2>1, <2>2
<1> QED
  BY <1>7, <1>8, <1>9 DEF FilesKept

LEMMA UploadIsRefused ==
    ASSUME NoAsset \notin Ids, FilesInv, NEW w \in Workers, U!RefuseRow(w)
    PROVE  FilesKept
<1> DEFINE a == ujob[w].asset
<1>1. Uploading(w) /\ IsNew(w) /\ a \in Ids
  BY AtFiles DEF U!RefuseRow, Uploading, IsNew
<1>2. /\ UNCHANGED <<photo, byHand, documents, notice, purge, answered>>
      /\ \A b \in Ids \ {a} : file'[b] = file[b]
      /\ file'[a] = U!NoFile
      /\ \A v \in Workers \ {w} : ujob'[v] = ujob[v]
      /\ ujob'[w] = U!NoJob
  BY AtFiles, <1>1 DEF U!RefuseRow, U!Done, U!Columns
<1>5. a \notin purge /\ \A v \in Workers : ujob[v].key # a
  BY <1>1 DEF IsNew, U!RefuseRow
<1> HIDE DEF a
<1>7. KeysAreNotices'
  <2>1. \A v \in Workers : ujob'[v].key = ujob[v].key \/ ujob'[v].key = NoAsset
    BY <1>2 DEF U!NoJob
  <2> QED
    BY <2>1, <1>2, <1>5, AtFiles DEF FilesInv, KeysAreNotices, U!Key
<1>8. ASSUME FilesAlone PROVE FilesAlone'
  <2>2. Now(w)' /\ ~Uploading(w)'
    BY <1>2 DEF Now, Uploading, U!NoJob
  <2>3. \A v \in Workers \ {w} : Now(v)'
    <3>1. \A v \in Workers \ {w} : Uploading(v) => ujob[v].asset # a /\ ujob[v].asset \in Ids
      BY <1>1, AtFiles DEF IsNew, a
    <3> QED
      BY <1>2, <1>8, <3>1 DEF FilesAlone, Now, Uploading
  <2>4. (byHand \/ a # photo) /\ a \notin documents
    BY <1>1, <1>8 DEF FilesAlone, Now, a
  <2>5. ~U!Overlap(U!Kinds)'
    BY <1>2, <1>8 DEF FilesAlone, U!Overlap, U!NoJob, U!Kinds
  <2> QED
    BY <1>2, <1>8, <2>2, <2>3, <2>4, <2>5, AtFiles DEF FilesAlone, InPlace, U!Key
<1>9. ASSUME FilesWhole PROVE FilesWhole'
  <2> SUFFICES ASSUME NEW b \in Ids, (file[b].disk \/ file[b].row)' PROVE Accounted(b)'
    BY DEF FilesWhole
  <2>2. b # a
    BY <1>2 DEF U!NoFile
  <2>3. Accounted(b)
    BY <2>2, <1>2, <1>9 DEF FilesWhole
  <2>4. \A v \in Workers : Uploading(v) /\ ujob[v].asset = b => Uploading(v)' /\ ujob'[v].asset = b
    BY <1>2, <2>2 DEF Uploading, a
  <2>5. \A v \in Workers : ujob[v].at = "prior" => ujob'[v].at = "prior"
    BY <1>1, <1>2 DEF Uploading
  <2> QED
    BY <1>2, <2>2, <2>3, <2>4, <2>5 DEF Accounted
<1> QED
  BY <1>7, <1>8, <1>9 DEF FilesKept

(* The photo it replaces is still found by its row.                        *)
LEMMA PhotoIsSaved ==
    ASSUME NoAsset \notin Ids, FilesInv, NEW w \in Workers, U!SavePhoto(w)
    PROVE  FilesKept
<1> DEFINE a == ujob[w].asset
<1>1. Uploading(w) /\ IsNew(w) /\ a \in Ids /\ ujob[w].kind = "photo" /\ ujob[w].at = "save"
  BY AtFiles DEF U!SavePhoto, Uploading, IsNew
<1>2. /\ UNCHANGED <<file, documents, notice, purge, answered>> /\ photo' = a /\ byHand' = FALSE
      /\ \A v \in Workers \ {w} : ujob'[v] = ujob[v]
  BY AtFiles, <1>1 DEF U!SavePhoto, U!Goto
<1>3. /\ ujob'[w].kind = "photo" /\ ujob'[w].asset = a /\ ujob'[w].key = ujob[w].key
      /\ ujob'[w].at = "prior"
  BY AtFiles, <1>1 DEF U!SavePhoto, U!Goto, FileJobs
<1> HIDE DEF a
<1>7. KeysAreNotices'
  <2>1. \A v \in Workers : ujob'[v].key = ujob[v].key
    BY <1>2, <1>3
  <2> QED
    BY <2>1, <1>2 DEF FilesInv, KeysAreNotices, U!Key
<1>8. ASSUME FilesAlone PROVE FilesAlone'
  <2>1. Now(w)
    BY <1>8 DEF FilesAlone
  <2>2. Now(w)'
    BY <1>2, <1>3 DEF Now, Uploading
  <2>3. \A v \in Workers \ {w} : Now(v)'
    <3> SUFFICES ASSUME NEW v \in Workers \ {w} PROVE Now(v)'
      OBVIOUS
    <3>1. ujob[v].kind # "photo"
      BY <1>1, <1>8 DEF FilesAlone, U!Overlap, U!Kinds
    <3>2. Uploading(v) => ujob[v].asset # a
      BY <1>1, AtFiles DEF IsNew, a
    <3> QED
      BY <1>2, <1>8, <3>1, <3>2 DEF FilesAlone, Now, Uploading
  <2>4. file[a] = [disk |-> TRUE, row |-> TRUE, kind |-> "photo"] /\ a \notin purge
    BY <1>1, <2>1 DEF Now, a
  <2>5. ~U!Overlap(U!Kinds)'
    <3>1. \A v \in Workers : ujob'[v].kind = ujob[v].kind /\ (ujob'[v].at = "remove" <=> ujob[v].at = "remove")
      BY <1>1, <1>2, <1>3
    <3> QED
      BY <3>1, <1>8 DEF FilesAlone, U!Overlap
  <2> QED
    BY <1>2, <1>8, <2>2, <2>3, <2>4, <2>5 DEF FilesAlone, InPlace, U!Key
<1>9. ASSUME FilesAlone, FilesWhole PROVE FilesWhole'
  <2> SUFFICES ASSUME NEW b \in Ids, (file[b].disk \/ file[b].row)' PROVE Accounted(b)'
    BY DEF FilesWhole
  <2>3. Accounted(b)
    BY <1>2, <1>9 DEF FilesWhole
  <2>4. CASE b = photo /\ ~byHand
    <3>1. file'[b].row /\ file'[b].kind = "photo"
      BY <1>2, <1>9, <2>4, AtFiles DEF FilesAlone, InPlace, U!Key
    <3> QED
      BY <3>1, <1>3 DEF Accounted
  <2>5. CASE b = a
    BY <2>5, <1>2 DEF Accounted
  <2>6. CASE (byHand \/ b # photo) /\ b # a
    BY <1>1, <1>2, <1>3, <2>3, <2>6 DEF Accounted, Uploading, a
  <2> QED
    BY <2>4, <2>5, <2>6
<1> QED
  BY <1>7, <1>8, <1>9 DEF FilesKept

(* The list saved is the one there is, with one more.                      *)
LEMMA DocumentIsSaved ==
    ASSUME NoAsset \notin Ids, FilesInv, NEW w \in Workers, U!SaveDocument(w)
    PROVE  FilesKept
<1> DEFINE a == ujob[w].asset
<1>1. Uploading(w) /\ IsNew(w) /\ a \in Ids /\ ujob[w].kind = "document" /\ ujob[w].at = "save"
  BY AtFiles DEF U!SaveDocument, Uploading, IsNew
<1>2. /\ UNCHANGED <<file, photo, byHand, notice, purge>> /\ documents' = ujob[w].documents \cup {a}
      /\ answered' = answered \cup {a}
      /\ \A v \in Workers \ {w} : ujob'[v] = ujob[v]
      /\ ujob'[w] = U!NoJob
  BY AtFiles, <1>1 DEF U!SaveDocument, U!Done
<1> HIDE DEF a
<1>7. KeysAreNotices'
  <2>1. \A v \in Workers : ujob'[v].key = ujob[v].key \/ ujob'[v].key = NoAsset
    BY <1>2 DEF U!NoJob
  <2> QED
    BY <2>1, <1>2 DEF FilesInv, KeysAreNotices, U!Key
<1>8. ASSUME FilesAlone PROVE FilesAlone' /\ documents' = documents \cup {a}
  <2>1. ujob[w].documents = documents
    BY <1>1, <1>8 DEF FilesAlone, Now
  <2>2. Now(w)' /\ ~Uploading(w)'
    BY <1>2 DEF Now, Uploading, U!NoJob
  <2>3. \A v \in Workers \ {w} : Now(v)'
    <3> SUFFICES ASSUME NEW v \in Workers \ {w} PROVE Now(v)'
      OBVIOUS
    <3>1. ujob[v].kind # "document"
      BY <1>1, <1>8 DEF FilesAlone, U!Overlap, U!Kinds
    <3>2. Uploading(v) => ujob[v].asset # a
      BY <1>1, AtFiles DEF IsNew, a
    <3> QED
      BY <1>2, <1>8, <2>1, <3>1, <3>2 DEF FilesAlone, Now, Uploading
  <2>4. file[a] = [disk |-> TRUE, row |-> TRUE, kind |-> "document"] /\ a \notin purge
    BY <1>1 DEF IsNew, a
  <2>5. ~U!Overlap(U!Kinds)'
    BY <1>2, <1>8 DEF FilesAlone, U!Overlap, U!NoJob, U!Kinds
  <2> QED
    BY <1>2, <1>8, <2>1, <2>2, <2>3, <2>4, <2>5 DEF FilesAlone, InPlace, U!Key
<1>9. ASSUME FilesAlone, FilesWhole PROVE FilesWhole'
  <2> SUFFICES ASSUME NEW b \in Ids, (file[b].disk \/ file[b].row)' PROVE Accounted(b)'
    BY DEF FilesWhole
  <2>3. Accounted(b)
    BY <1>2, <1>9 DEF FilesWhole
  <2> QED
    BY <1>1, <1>2, <1>8, <1>9, <2>3 DEF Accounted, Uploading, a
<1> QED
  BY <1>7, <1>8, <1>9 DEF FilesKept

(* The attachment it replaces is deleted.                                  *)
LEMMA AttachmentIsSaved ==
    ASSUME NoAsset \notin Ids, FilesInv, NEW w \in Workers, U!SaveAttachment(w), UploadInv'
    PROVE  FilesKept
<1> DEFINE a == ujob[w].asset
           k == ujob[w].key
<1>1. /\ Uploading(w) /\ IsNew(w) /\ a \in Ids /\ ujob[w].kind = "notice" /\ ujob[w].at = "save"
      /\ k \in Ids \cup {NoAsset}
  BY AtFiles DEF U!SaveAttachment, Uploading, IsNew
<1>2. /\ UNCHANGED <<file, photo, byHand, documents, answered>>
      /\ \A v \in Workers \ {w} : ujob'[v] = ujob[v]
      /\ ujob'[w] = U!NoJob
      /\ purge' = purge \/ (purge' = purge \cup U!Key(k))
  BY AtFiles, <1>1 DEF U!SaveAttachment, U!Done
<1>3. notice.exists => notice'.exists /\ notice'.key = a /\ purge' = purge \cup U!Key(k)
  BY AtFiles DEF U!SaveAttachment
<1>4. \A b \in U!Key(k) : file[b].kind \in {"notice", "gone"}
  BY DEF FilesInv, KeysAreNotices
<1> HIDE DEF a, k
<1>7. KeysAreNotices'
  <2>1. \A v \in Workers : ujob'[v].key = ujob[v].key \/ ujob'[v].key = NoAsset
    BY <1>2 DEF U!NoJob
  <2> QED
    BY <2>1, <1>2, <1>4 DEF FilesInv, KeysAreNotices, U!Key
<1>5. ASSUME FilesAlone PROVE notice.exists /\ k = notice.key
  BY <1>1, <1>5 DEF FilesAlone, Now, k
<1>8. ASSUME FilesAlone PROVE FilesAlone'
  <2>2. Now(w)' /\ ~Uploading(w)'
    BY <1>2 DEF Now, Uploading, U!NoJob
  <2>3. \A v \in Workers \ {w} : Now(v)'
    <3> SUFFICES ASSUME NEW v \in Workers \ {w} PROVE Now(v)'
      OBVIOUS
    <3>1. ujob[v].kind # "notice" /\ ujob[v].at # "remove"
      BY <1>1, <1>8 DEF FilesAlone, U!Overlap, U!Kinds
    <3>2. Now(v)
      BY <1>8 DEF FilesAlone
    <3>3. ujob[v].at = "save" /\ ujob[v].kind = "photo" => ujob[v].asset \notin U!Key(k)
      BY <3>2, <1>4 DEF Now
    <3> QED
      BY <1>2, <3>1, <3>2, <3>3 DEF Now, Uploading
  <2>5. ~U!Overlap(U!Kinds)'
    BY <1>2, <1>8 DEF FilesAlone, U!Overlap, U!NoJob, U!Kinds
  <2>6. \A b \in (IF byHand THEN {} ELSE U!Key(photo)) \cup documents : b \notin U!Key(k)
    BY <1>4, <1>8 DEF FilesAlone, InPlace
  <2> QED
    BY <1>2, <1>3, <1>5, <1>8, <2>2, <2>3, <2>5, <2>6 DEF FilesAlone, InPlace, U!Key
<1>9. ASSUME FilesAlone, FilesWhole PROVE FilesWhole'
  <2> SUFFICES ASSUME NEW b \in Ids, (file[b].disk \/ file[b].row)' PROVE Accounted(b)'
    BY DEF FilesWhole
  <2>3. Accounted(b)
    BY <1>2, <1>9 DEF FilesWhole
  <2>4. b = notice.key => b \in purge'
    BY <1>3, <1>5, <1>9 DEF U!Key
  <2>5. b = a => b = notice'.key
    BY <1>3, <1>5, <1>9
  <2>6. purge \subseteq purge'
    BY <1>2
  <2> QED
    BY <1>1, <1>2, <2>3, <2>4, <2>5, <2>6 DEF Accounted, Uploading, a
<1> QED
  BY <1>7, <1>8, <1>9 DEF FilesKept

(* Every photo but the one saved is deleted.                               *)
LEMMA PriorIsPurged ==
    ASSUME NoAsset \notin Ids, FilesInv, NEW w \in Workers, U!PurgePrior(w)
    PROVE  FilesKept
<1> DEFINE a == ujob[w].asset
           old == {b \in Ids \ {a} : file[b].row /\ file[b].kind = "photo"}
<1>1. /\ UNCHANGED <<file, photo, byHand, documents, notice, answered>>
      /\ purge' = purge \cup old
      /\ \A v \in Workers \ {w} : ujob'[v] = ujob[v]
      /\ ujob'[w] = U!NoJob /\ ujob[w].at = "prior"
  BY AtFiles DEF U!PurgePrior, U!Done, U!Columns
<1>2. \A b \in old : file[b].kind = "photo" /\ b # a
  OBVIOUS
<1>3. \A b \in Ids : file[b].row /\ file[b].kind = "photo" => b = a \/ b \in old
  OBVIOUS
<1> HIDE DEF old
<1>7. KeysAreNotices'
  <2>1. \A v \in Workers : ujob'[v].key = ujob[v].key \/ ujob'[v].key = NoAsset
    BY <1>1 DEF U!NoJob
  <2> QED
    BY <2>1, <1>1, <1>2 DEF FilesInv, KeysAreNotices, U!Key
<1>4. ASSUME FilesAlone PROVE ujob[w].kind = "photo" /\ (byHand \/ photo = a)
  BY <1>1, <1>4 DEF FilesAlone, Now
<1> HIDE DEF a
<1>8. ASSUME FilesAlone PROVE FilesAlone'
  <2>2. Now(w)' /\ ~Uploading(w)'
    BY <1>1 DEF Now, Uploading, U!NoJob
  <2>3. \A v \in Workers \ {w} : Now(v)'
    <3> SUFFICES ASSUME NEW v \in Workers \ {w} PROVE Now(v)'
      OBVIOUS
    <3>1. ujob[v].kind # "photo"
      BY <1>4, <1>8 DEF FilesAlone, U!Overlap, U!Kinds
    <3>2. Now(v)
      BY <1>8 DEF FilesAlone
    <3> QED
      BY <1>1, <3>1, <3>2 DEF Now, Uploading
  <2>5. ~U!Overlap(U!Kinds)'
    BY <1>1, <1>8 DEF FilesAlone, U!Overlap, U!NoJob, U!Kinds
  <2>6. \A b \in (IF byHand THEN {} ELSE U!Key(photo)) \cup documents : b \notin old
    BY <1>2, <1>4, <1>8 DEF FilesAlone, InPlace, U!Key
  <2> QED
    BY <1>1, <1>8, <2>2, <2>3, <2>5, <2>6 DEF FilesAlone, InPlace, U!Key
<1>9. ASSUME FilesAlone, FilesWhole PROVE FilesWhole'
  <2> SUFFICES ASSUME NEW b \in Ids, (file[b].disk \/ file[b].row)' PROVE Accounted(b)'
    BY DEF FilesWhole
  <2>3. Accounted(b)
    BY <1>1, <1>9 DEF FilesWhole
  <2>4. file[b].row /\ file[b].kind = "photo" => byHand \/ b \in {photo} \cup purge'
    BY <1>1, <1>3, <1>4, <1>9
  <2>5. \A v \in Workers : Uploading(v) => v # w
    BY <1>1 DEF Uploading
  <2> QED
    BY <1>1, <2>3, <2>4, <2>5 DEF Accounted, Uploading
<1> QED
  BY <1>7, <1>8, <1>9 DEF FilesKept

(* The notice is removed, and its attachment deleted.                      *)
LEMMA NoticeIsRead ==
    ASSUME NoAsset \notin Ids, FilesInv, NEW w \in Workers, U!RemoveRead(w)
    PROVE  FilesKept
<1>1. /\ UNCHANGED <<file, photo, byHand, documents, notice, purge, answered>>
      /\ \A v \in Workers \ {w} : ujob'[v] = ujob[v]
      /\ ujob'[w].at = "remove" /\ ujob'[w].kind = "none" /\ ujob'[w].key = notice.key
      /\ ujob[w].at = "idle"
  BY AtFiles DEF U!RemoveRead, U!Columns, U!NoJob
<1>7. KeysAreNotices'
  BY <1>1 DEF FilesInv, UploadInv, KeyIsNotice, KeysAreNotices, U!Key
<1>8. ASSUME FilesAlone, ~U!Overlap(U!Kinds)' PROVE FilesAlone'
  <2>2. Now(w)'
    BY <1>1 DEF Now, Uploading
  <2>3. \A v \in Workers : Now(v)'
    BY <1>1, <1>8, <2>2 DEF FilesAlone, Now, Uploading
  <2> QED
    BY <1>1, <1>8, <2>3 DEF FilesAlone, InPlace
<1>9. ASSUME FilesWhole PROVE FilesWhole'
  BY <1>1, <1>9 DEF FilesWhole, Accounted, Uploading
<1> QED
  BY <1>7, <1>8, <1>9 DEF FilesKept

LEMMA NoticeIsRemoved ==
    ASSUME NoAsset \notin Ids, FilesInv, NEW w \in Workers, U!RemoveWrite(w)
    PROVE  FilesKept
<1> DEFINE k == ujob[w].key
<1>1. /\ UNCHANGED <<file, photo, byHand, documents, answered>>
      /\ notice'.exists = FALSE /\ notice'.key = NoAsset
      /\ purge' = purge \/ purge' = purge \cup U!Key(k)
      /\ notice.exists => purge' = purge \cup U!Key(k)
      /\ \A v \in Workers \ {w} : ujob'[v] = ujob[v]
      /\ ujob'[w] = U!NoJob /\ ujob[w].at = "remove"
  BY AtFiles DEF U!RemoveWrite, U!Done
<1>4. \A b \in U!Key(k) : file[b].kind \in {"notice", "gone"}
  BY DEF FilesInv, KeysAreNotices
<1>5. ASSUME FilesAlone PROVE k = notice.key \/ (~notice.exists /\ notice.key = NoAsset)
  BY <1>1, <1>5 DEF FilesAlone, Now
<1> HIDE DEF k
<1>7. KeysAreNotices'
  <2>1. \A v \in Workers : ujob'[v].key = ujob[v].key \/ ujob'[v].key = NoAsset
    BY <1>1 DEF U!NoJob
  <2> QED
    BY <2>1, <1>1, <1>4 DEF FilesInv, KeysAreNotices, U!Key
<1>8. ASSUME FilesAlone PROVE FilesAlone'
  <2>2. Now(w)' /\ ~Uploading(w)'
    BY <1>1 DEF Now, Uploading, U!NoJob
  <2>3. \A v \in Workers \ {w} : Now(v)'
    <3> SUFFICES ASSUME NEW v \in Workers \ {w} PROVE Now(v)'
      OBVIOUS
    <3>1. ujob[v].kind # "notice"
      BY <1>1, <1>8 DEF FilesAlone, U!Overlap, U!Kinds
    <3>2. Now(v)
      BY <1>8 DEF FilesAlone
    <3>3. ujob[v].at = "save" /\ ujob[v].kind = "photo" => ujob[v].asset \notin U!Key(k)
      BY <3>2, <1>4 DEF Now
    <3> QED
      BY <1>1, <3>1, <3>2, <3>3 DEF Now, Uploading
  <2>5. ~U!Overlap(U!Kinds)'
    BY <1>1, <1>8 DEF FilesAlone, U!Overlap, U!NoJob, U!Kinds
  <2>6. \A b \in (IF byHand THEN {} ELSE U!Key(photo)) \cup documents : b \notin U!Key(k)
    BY <1>4, <1>8 DEF FilesAlone, InPlace
  <2> QED
    BY <1>1, <1>8, <2>2, <2>3, <2>5, <2>6 DEF FilesAlone, InPlace, U!Key
<1>9. ASSUME FilesAlone, FilesWhole PROVE FilesWhole'
  <2> SUFFICES ASSUME NEW b \in Ids, (file[b].disk \/ file[b].row)' PROVE Accounted(b)'
    BY DEF FilesWhole
  <2>3. Accounted(b)
    BY <1>1, <1>9 DEF FilesWhole
  <2>4. b = notice.key => b \in purge'
    BY <1>1, <1>5, <1>9 DEF U!Key, FilesAlone
  <2>6. purge \subseteq purge' /\ \A v \in Workers : Uploading(v) \/ ujob[v].at = "prior" => v # w
    BY <1>1 DEF Uploading
  <2> QED
    BY <1>1, <2>3, <2>4, <2>6 DEF Accounted, Uploading
<1> QED
  BY <1>7, <1>8, <1>9 DEF FilesKept

(* An address given by hand replaces what was there; the file stays.       *)
LEMMA PhotoIsGiven ==
    ASSUME NoAsset \notin Ids, FilesInv, NEW url \in Ids \cup {NoAsset}, U!SetPhoto(url)
    PROVE  FilesKept
<1>1. UNCHANGED <<file, documents, notice, purge, answered, ujob>> /\ byHand' = TRUE
  BY DEF U!SetPhoto
<1>2. KeysAreNotices'
  BY <1>1 DEF FilesInv, KeysAreNotices
<1>3. ASSUME FilesAlone PROVE FilesAlone'
  <2>1. \A v \in Workers : Now(v)'
    BY <1>1, <1>3 DEF FilesAlone, Now, Uploading
  <2> QED
    BY <1>1, <1>3, <2>1 DEF FilesAlone, InPlace, U!Overlap
<1>4. ASSUME FilesAlone, FilesWhole PROVE FilesWhole'
  <2> SUFFICES ASSUME NEW b \in Ids, (file[b].disk \/ file[b].row)' PROVE Accounted(b)'
    BY DEF FilesWhole
  <2>1. Accounted(b)
    BY <1>1, <1>4 DEF FilesWhole
  <2>2. ~byHand /\ b = photo => file[b].row /\ file[b].kind = "photo"
    BY <1>4 DEF FilesAlone, InPlace, U!Key
  <2> QED
    BY <1>1, <2>1, <2>2 DEF Accounted, Uploading
<1> QED
  BY <1>2, <1>3, <1>4 DEF FilesKept

(* A deletion: of the bytes, then of the row.                              *)
LEMMA FileIsUnlinked ==
    ASSUME NoAsset \notin Ids, FilesInv, NEW a \in Ids, U!Unlink(a) \/ U!DeleteRow(a)
    PROVE  /\ KeysAreNotices' /\ (FilesAlone => FilesAlone')
           /\ FilesWhole /\ (file[a].disk => ~U!DeleteRow(a)) => FilesWhole'
<1>0. /\ file \in [Ids -> FileRows] /\ purge \subseteq Ids
      /\ documents \subseteq Ids /\ photo \in Ids \cup {NoAsset}
  BY DEF FilesInv, FilesTypes, FilesTyped
<1>1. /\ UNCHANGED <<photo, byHand, documents, notice, answered, ujob>>
      /\ \A b \in Ids \ {a} : file'[b] = file[b]
      /\ a \in purge /\ purge \ {a} \subseteq purge' /\ purge' \subseteq purge
  BY <1>0 DEF U!Unlink, U!DeleteRow, U!Columns
<1>2. /\ file'[a].kind \in {file[a].kind, "gone"}
      /\ a \in purge' \/ (U!DeleteRow(a) /\ ~file'[a].row /\ file'[a].disk = file[a].disk)
  <2>1. CASE U!Unlink(a)
    <3>1. file' = [file EXCEPT ![a] = [file[a] EXCEPT !.disk = FALSE]] /\ a \in purge'
      BY <2>1, <1>0 DEF U!Unlink
    <3> QED
      BY <3>1, <1>0 DEF FileRows
  <2>2. CASE U!DeleteRow(a)
    <3>1. file' = [file EXCEPT ![a] = [[file[a] EXCEPT !.row = FALSE] EXCEPT !.kind = "gone"]]
      BY <2>2 DEF U!DeleteRow
    <3> QED
      BY <3>1, <2>2, <1>0 DEF FileRows
  <2> QED
    BY <2>1, <2>2
<1>7. KeysAreNotices'
  BY <1>0, <1>1, <1>2 DEF FilesInv, FilesTypes, FilesTyped, FileJobs, KeysAreNotices, U!Key
<1>8. ASSUME FilesAlone PROVE FilesAlone'
  <2>1. \A b \in (IF byHand THEN {} ELSE U!Key(photo)) \cup documents : b # a
    BY <1>1, <1>8 DEF FilesAlone, InPlace
  <2>2. ~U!Overlap(U!Kinds)'
    BY <1>1, <1>8 DEF FilesAlone, U!Overlap
  <2>3. \A v \in Workers : Now(v)'
    <3> SUFFICES ASSUME NEW v \in Workers PROVE Now(v)'
      OBVIOUS
    <3>1. ujob[v].at = "save" /\ ujob[v].kind = "photo" => ujob[v].asset # a /\ ujob[v].asset \in Ids
      BY <1>1, <1>8, AtFiles DEF FilesAlone, Now, Uploading, IsNew
    <3> QED
      BY <1>1, <1>8, <3>1 DEF FilesAlone, Now, Uploading
  <2> QED
    BY <1>1, <1>8, <2>1, <2>2, <2>3, <1>0 DEF FilesAlone, InPlace, U!Key
<1>9. ASSUME FilesWhole, file[a].disk => ~U!DeleteRow(a) PROVE FilesWhole'
  <2> SUFFICES ASSUME NEW b \in Ids, (file[b].disk \/ file[b].row)' PROVE Accounted(b)'
    BY DEF FilesWhole
  <2>1. CASE b = a
    BY <1>2, <1>9, <2>1 DEF Accounted
  <2>2. CASE b # a
    BY <1>1, <1>9, <2>2 DEF Accounted, Uploading, FilesWhole
  <2> QED
    BY <2>1, <2>2
<1> QED
  BY <1>7, <1>8, <1>9

(* A request that fails, or all that die, forget what they were to do.     *)
LEMMA RequestsDie ==
    ASSUME NoAsset \notin Ids, FilesInv, U!Die \/ \E w \in Workers : U!Fail(w)
    PROVE  KeysAreNotices' /\ (FilesAlone => FilesAlone')
<1>1. /\ UNCHANGED <<file, photo, byHand, documents, notice, answered>> /\ purge' \subseteq purge
      /\ \A v \in Workers : ujob'[v] = ujob[v] \/ ujob'[v] = U!NoJob
  BY AtFiles DEF U!Die, U!Fail, U!Done, U!Columns
<1>7. KeysAreNotices'
  <2>1. \A v \in Workers : ujob'[v].key = ujob[v].key \/ ujob'[v].key = NoAsset
    BY <1>1 DEF U!NoJob
  <2> QED
    BY <2>1, <1>1 DEF FilesInv, KeysAreNotices, U!Key
<1>8. ASSUME FilesAlone PROVE FilesAlone'
  <2>2. \A v \in Workers : Now(v)'
    <3> SUFFICES ASSUME NEW v \in Workers PROVE Now(v)'
      OBVIOUS
    <3>1. CASE ujob'[v] = U!NoJob
      BY <3>1 DEF Now, Uploading, U!NoJob
    <3>2. CASE ujob'[v] = ujob[v]
      BY <3>2, <1>1, <1>8 DEF FilesAlone, Now, Uploading
    <3> QED
      BY <3>1, <3>2, <1>1
  <2>3. ~U!Overlap(U!Kinds)'
    BY <1>1, <1>8 DEF FilesAlone, U!Overlap, U!NoJob, U!Kinds
  <2> QED
    BY <1>1, <1>8, <2>2, <2>3 DEF FilesAlone, InPlace
<1> QED
  BY <1>7, <1>8

LEMMA FilesKeep ==
    ASSUME NoAsset \notin Ids, FilesInv, U!Next,
           raced' = (raced \/ U!Overlap(U!Kinds)'),
           died' = (died \/ U!Die \/ (\E w \in Workers : U!Fail(w))
                         \/ \E a \in Ids : file[a].disk /\ U!DeleteRow(a))
    PROVE  FilesInv'
<1>1. UploadInv'
  BY UploadStep DEF FilesInv
<1>2. FilesTypes'
  BY <1>1, FilesTypesKeep
<1>3. CASE FilesKept
  BY <1>1, <1>2, <1>3 DEF FilesInv, FilesKept
<1>4. ASSUME NEW a \in Ids, U!Unlink(a) \/ U!DeleteRow(a) PROVE FilesInv'
  <2>1. died' \/ (~died /\ (file[a].disk => ~U!DeleteRow(a)))
    OBVIOUS
  <2> QED
    BY <1>1, <1>2, <1>4, <2>1, FileIsUnlinked DEF FilesInv
<1>5. CASE U!Die \/ \E w \in Workers : U!Fail(w)
  <2>1. died'
    BY <1>5
  <2> QED
    BY <1>1, <1>2, <1>5, <2>1, RequestsDie DEF FilesInv
<1>6. ASSUME NEW w \in Workers,
             \/ \E k \in U!Kinds, a \in Ids : U!UploadRead(w, k, a)
             \/ U!WriteDisk(w) \/ U!CreateRow(w) \/ U!RefuseRow(w)
             \/ U!SavePhoto(w) \/ U!SaveDocument(w) \/ U!SaveAttachment(w) \/ U!PurgePrior(w)
             \/ U!RemoveRead(w) \/ U!RemoveWrite(w)
      PROVE  FilesKept
  BY <1>1, <1>6, UploadReads, UploadWrites, UploadIsRefused, PhotoIsSaved, DocumentIsSaved,
     AttachmentIsSaved, PriorIsPurged, NoticeIsRead, NoticeIsRemoved
<1>7. ASSUME NEW url \in Ids \cup {NoAsset}, U!SetPhoto(url) PROVE FilesKept
  BY <1>7, PhotoIsGiven
<1> QED
  BY <1>3, <1>4, <1>5, <1>6, <1>7 DEF U!Next

(* What the runs check of files follows.                                   *)
LEMMA FilesInvAccounts == ASSUME NoAsset \notin Ids, FilesInv PROVE FilesAreAccounted
<1>1. U!AttachmentIsStored
  BY DEF FilesInv, UploadInv, KeyIsNotice, U!AttachmentIsStored, U!Stored
<1>2. ~raced => U!InUseIsStored /\ U!AnsweredIsListed
  BY DEF FilesInv, FilesAlone, InPlace, U!InUseIsStored, U!AnsweredIsListed, U!Stored
<1>3. ~raced /\ ~died => U!NothingIsLeft
  BY DEF FilesInv, FilesWhole, Accounted, Uploading, U!NothingIsLeft, U!NoJob
<1> QED
  BY <1>1, <1>2, <1>3 DEF FilesAreAccounted

-----------------------------------------------------------------------------
(* MEMOS.  A flag is raised by a count taken after the memo was inserted,  *)
(* and no memo is ever closed.                                             *)

MemoJobs == [at : {"idle", "insert", "count", "flag", "notify"},
             employee : Staff \cup {NoOne}, flagged : BOOLEAN]
MemosTyped ==
    /\ memos \in [Staff -> Nat] /\ notices \in [Staff -> Nat] /\ flagged \subseteq Staff
    /\ djob \in [Workers -> MemoJobs]
    /\ \A w \in Workers : IF djob[w].at = "idle" THEN djob[w].employee = NoOne
                                                 ELSE djob[w].employee \in Staff
MemosEarned ==
    /\ D!FlagIsEarned
    /\ \A w \in Workers : djob[w].at \in {"flag", "notify"} => memos[djob[w].employee] >= Threshold

(* One request of an employee at a time: what it has read is still so.     *)
Told(e) == notices[e] = IF e \in flagged THEN 1 ELSE 0
ReviewOf(e) == (e \in flagged <=> memos[e] >= Threshold) /\ Told(e)
MemoReads(j, e) ==
    /\ j.at \in {"insert", "count"} => (j.flagged <=> e \in flagged) /\ Told(e)
    /\ j.at = "insert" => ReviewOf(e)
    /\ j.at = "flag" => e \notin flagged /\ notices[e] = 0
    /\ j.at = "notify" => e \in flagged /\ notices[e] = 0
MemoSo(w) == MemoReads(djob[w], djob[w].employee)
MemosAlone == ~D!Overlap /\ (\A w \in Workers : MemoSo(w)) /\ D!ReviewIsDue

MemoInv == MemosTyped /\ MemosEarned /\ (~raced /\ ~died => MemosAlone)

LEMMA MemosStart == D!Init => MemosTyped /\ MemosEarned /\ MemosAlone
<1> SUFFICES ASSUME D!Init PROVE MemosTyped /\ MemosEarned /\ MemosAlone
  OBVIOUS
<1>1. \A w \in Workers : djob[w] = D!NoJob
  BY DEF D!Init
<1>2. MemosTyped
  BY DEF D!Init, MemosTyped, MemoJobs, D!NoJob
<1>3. MemosEarned
  BY <1>1 DEF D!Init, MemosEarned, D!FlagIsEarned, D!NoJob
<1>4. D!ReviewIsDue
  BY DeskAssumption DEF D!Init, D!ReviewIsDue
<1>5. ~D!Overlap
  BY <1>1, DeskAssumption DEF D!Overlap, D!Serving, D!NoJob
<1>6. \A w \in Workers : djob[w].at = "idle"
  <2>1. D!NoJob.at = "idle"
    BY DEF D!NoJob
  <2> QED
    BY <1>1, <2>1
<1>7. \A w \in Workers : MemoSo(w)
  BY <1>6 DEF MemoSo, MemoReads
<1> QED
  BY <1>2, <1>3, <1>4, <1>5, <1>7 DEF MemosAlone

(* A step of a request touches the memos of its employee only: what it     *)
(* writes is all there is to prove.                                        *)
LEMMA MemoStep ==
    ASSUME MemosTyped, MemosEarned, NEW w \in Workers, NEW e \in Staff,
           djob' \in [Workers -> MemoJobs],
           \A v \in Workers \ {w} : djob'[v] = djob[v],
           djob[w].at # "idle" => djob[w].employee = e,
           djob'[w].at # "idle" => djob'[w].employee = e,
           djob'[w].at = "idle" => djob'[w].employee = NoOne /\ djob[w].at # "idle",
           memos' \in [Staff -> Nat], notices' \in [Staff -> Nat], flagged' \subseteq Staff,
           \A s \in Staff \ {e} :
              memos'[s] = memos[s] /\ notices'[s] = notices[s] /\ (s \in flagged' <=> s \in flagged),
           memos'[e] >= memos[e],
           e \in flagged' \/ notices'[e] > 0 \/ djob'[w].at \in {"flag", "notify"} => memos'[e] >= Threshold
    PROVE  /\ MemosTyped' /\ MemosEarned'
           /\ MemosAlone /\ ~D!Overlap' /\ MemoSo(w)' /\ (djob'[w].at = "idle" => ReviewOf(e)')
              => MemosAlone'
<1>1. MemosTyped'
  BY DEF MemosTyped
<1>2. MemosEarned'
  <2>1. D!FlagIsEarned'
    BY DEF MemosTyped, MemosEarned, D!FlagIsEarned
  <2>2. ASSUME NEW v \in Workers, djob'[v].at \in {"flag", "notify"}
        PROVE  memos'[djob'[v].employee] >= Threshold
    <3>1. CASE v = w
      BY <2>2, <3>1
    <3>2. CASE v # w
      <4>1. djob[v].employee \in Staff /\ memos[djob[v].employee] >= Threshold /\ djob'[v] = djob[v]
        BY <2>2, <3>2 DEF MemosTyped, MemosEarned
      <4> QED
        BY DeskAssumption, <4>1 DEF MemosTyped
    <3> QED
      BY <3>1, <3>2
  <2> QED
    BY <2>1, <2>2 DEF MemosEarned
<1>3. ASSUME MemosAlone, ~D!Overlap', MemoSo(w)', djob'[w].at = "idle" => ReviewOf(e)'
      PROVE  MemosAlone'
  <2>1. ASSUME NEW v \in Workers \ {w}, djob[v].at # "idle" PROVE djob[v].employee \in Staff \ {e}
    <3>1. djob[v].employee \in Staff /\ djob'[v].employee = djob[v].employee
      BY <2>1 DEF MemosTyped
    <3>2. djob[w].employee = e \/ djob'[w].employee = e
      OBVIOUS
    <3> QED
      BY <1>3, <3>1, <3>2 DEF MemosAlone, D!Overlap, D!Serving
  <2>2. ASSUME NEW v \in Workers \ {w} PROVE MemoSo(v)'
    <3>1. CASE djob[v].at = "idle"
      BY <3>1 DEF MemoSo, MemoReads
    <3>2. CASE djob[v].at # "idle"
      <4>1. djob[v].employee \in Staff \ {e} /\ djob'[v] = djob[v] /\ MemoSo(v)
        BY <3>2, <2>1, <1>3 DEF MemosAlone
      <4> QED
        BY <4>1 DEF MemoSo, MemoReads, ReviewOf, Told
    <3> QED
      BY <3>1, <3>2
  <2>3. ASSUME NEW s \in Staff, D!Serving(s)' = {} PROVE ReviewOf(s)'
    <3>1. CASE s = e
      BY <1>3, <2>3, <3>1 DEF D!Serving
    <3>2. CASE s # e
      <4>1. D!Serving(s) = {}
        BY <2>3, <3>2, DeskAssumption DEF D!Serving, MemosTyped
      <4> QED
        BY <4>1, <1>3, <3>2 DEF MemosAlone, D!ReviewIsDue, ReviewOf, Told
    <3> QED
      BY <3>1, <3>2
  <2> QED
    BY <1>3, <2>2, <2>3 DEF MemosAlone, D!ReviewIsDue, ReviewOf, Told
<1> QED
  BY <1>1, <1>2, <1>3

(* Each statement of a request of the employee e.                          *)
LEMMA MemoServed ==
    ASSUME MemoInv, raced' = (raced \/ D!Overlap'), died' = (died \/ \E w \in Workers : D!Fail(w)),
           NEW w \in Workers, NEW e \in Staff, djob[w].at # "idle", e = djob[w].employee,
           D!Insert(w) \/ D!Count(w) \/ D!Flag(w) \/ D!Notify(w)
    PROVE  MemoInv'
<1>2. /\ djob \in [Workers -> MemoJobs] /\ djob[w] \in MemoJobs
      /\ memos \in [Staff -> Nat] /\ notices \in [Staff -> Nat] /\ flagged \subseteq Staff
      /\ djob[w].at # "idle" => djob[w].employee \in Staff
      /\ D!NoJob \in MemoJobs /\ D!NoJob.at = "idle" /\ D!NoJob.employee = NoOne
  <2>1. D!NoJob.at = "idle" /\ D!NoJob.employee = NoOne /\ D!NoJob \in MemoJobs
    BY DEF D!NoJob, MemoJobs
  <2> QED
    BY <2>1 DEF MemoInv, MemosTyped
<1>3. MemosTyped /\ MemosEarned
  BY DEF MemoInv
<1>5. ASSUME djob[w].at # "idle",
             \/ /\ djob'[w] \in MemoJobs /\ djob'[w].at \in {"count", "flag", "notify"}
                /\ djob'[w].employee = e /\ (djob'[w].flagged <=> djob[w].flagged)
             \/ djob'[w] = D!NoJob,
             \A v \in Workers \ {w} : djob'[v] = djob[v],
             djob' \in [Workers -> MemoJobs],
             memos' \in [Staff -> Nat], notices' \in [Staff -> Nat], flagged' \subseteq Staff,
             \A s \in Staff \ {e} :
                memos'[s] = memos[s] /\ notices'[s] = notices[s] /\ (s \in flagged' <=> s \in flagged),
             memos'[e] >= memos[e],
             e \in flagged' \/ notices'[e] > 0 \/ djob'[w].at \in {"flag", "notify"} => memos'[e] >= Threshold,
             MemosAlone /\ ~raced' /\ ~died' /\ ~D!Overlap' =>
                MemoSo(w)' /\ (djob'[w].at = "idle" => ReviewOf(e)')
      PROVE  MemoInv'
  <2>1. e \in Staff
    BY <1>2, <1>5
  <2>2. MemosTyped' /\ MemosEarned'
        /\ (MemosAlone /\ ~D!Overlap' /\ MemoSo(w)' /\ (djob'[w].at = "idle" => ReviewOf(e)')
            => MemosAlone')
    BY <1>2, <1>3, <1>5, <2>1, MemoStep
  <2> QED
    BY <1>5, <2>2 DEF MemoInv
<1>6. CASE D!Insert(w)
  <2>1. /\ djob' = [djob EXCEPT ![w].at = "count"] /\ UNCHANGED <<flagged, notices>>
        /\ memos' = [memos EXCEPT ![e] = @ + 1] /\ djob[w].at = "insert" /\ e \in Staff
    BY <1>2, <1>6 DEF D!Insert, D!Goto
  <2>2. /\ djob'[w] \in MemoJobs /\ djob'[w].at = "count" /\ djob'[w].employee = e
        /\ djob'[w].flagged = djob[w].flagged
        /\ djob' \in [Workers -> MemoJobs] /\ \A v \in Workers \ {w} : djob'[v] = djob[v]
    BY <1>2, <2>1 DEF MemoJobs
  <2>3. /\ memos' \in [Staff -> Nat] /\ memos'[e] = memos[e] + 1
        /\ \A s \in Staff \ {e} : memos'[s] = memos[s]
    BY <1>2, <2>1
  <2>4. MemosAlone => MemoSo(w)'
    BY <2>1, <2>2 DEF MemosAlone, MemoSo, MemoReads, Told
  <2>5. e \in flagged' \/ notices'[e] > 0 => memos'[e] >= Threshold
    BY DeskAssumption, <1>2, <1>3, <2>1, <2>3 DEF MemosEarned, D!FlagIsEarned
  <2>6. memos'[e] >= memos[e]
    BY <1>2, <2>1, <2>3
  <2> QED
    BY <1>2, <1>5, <2>1, <2>2, <2>3, <2>4, <2>5, <2>6
<1>7. CASE D!Count(w) /\ memos[e] >= Threshold /\ ~djob[w].flagged
  <2>1. /\ djob' = [djob EXCEPT ![w].at = "flag"] /\ UNCHANGED <<flagged, notices, memos>>
        /\ djob[w].at = "count" /\ e \in Staff
    BY <1>2, <1>7 DEF D!Count, D!Goto
  <2>2. /\ djob'[w] \in MemoJobs /\ djob'[w].at = "flag" /\ djob'[w].employee = e
        /\ djob'[w].flagged = djob[w].flagged
        /\ djob' \in [Workers -> MemoJobs] /\ \A v \in Workers \ {w} : djob'[v] = djob[v]
    BY <1>2, <2>1 DEF MemoJobs
  <2>4. MemosAlone => MemoSo(w)'
    BY <1>7, <2>1, <2>2 DEF MemosAlone, MemoSo, MemoReads, Told
  <2> QED
    BY <1>2, <1>5, <1>7, <2>1, <2>2, <2>4
<1>8. CASE D!Count(w) /\ ~(memos[e] >= Threshold /\ ~djob[w].flagged)
  <2>1. /\ djob' = [djob EXCEPT ![w] = D!NoJob] /\ UNCHANGED <<flagged, notices, memos>>
        /\ djob[w].at = "count" /\ e \in Staff
    BY <1>2, <1>8 DEF D!Count, D!Done
  <2>2. /\ djob'[w] = D!NoJob
        /\ djob' \in [Workers -> MemoJobs] /\ \A v \in Workers \ {w} : djob'[v] = djob[v]
    BY <1>2, <2>1
  <2>3. MemosAlone => MemoSo(w)'
    BY <1>2, <2>2 DEF MemoSo, MemoReads
  <2>4. MemosAlone => ReviewOf(e)'
    <3>1. ASSUME MemosAlone PROVE (djob[w].flagged <=> e \in flagged) /\ Told(e)
      BY <2>1, <3>1 DEF MemosAlone, MemoSo, MemoReads
    <3>2. e \in flagged => memos[e] >= Threshold
      BY <1>3, <2>1 DEF MemosEarned, D!FlagIsEarned
    <3> QED
      BY <1>8, <2>1, <3>1, <3>2 DEF ReviewOf, Told
  <2>5. e \in flagged' \/ notices'[e] > 0 => memos'[e] >= Threshold
    BY <1>3, <2>1 DEF MemosEarned, D!FlagIsEarned
  <2>6. memos'[e] >= memos[e]
    BY <1>2, <2>1
  <2>7. djob'[w].at = "idle"
    BY <1>2, <2>2
  <2> QED
    BY <1>2, <1>5, <2>1, <2>2, <2>3, <2>4, <2>5, <2>6, <2>7
<1>9. CASE D!Flag(w)
  <2>1. /\ djob' = [djob EXCEPT ![w].at = "notify"] /\ UNCHANGED <<memos, notices>>
        /\ djob[w].at = "flag" /\ e \in Staff /\ flagged' = flagged \cup {e}
    BY <1>2, <1>9 DEF D!Flag, D!Goto
  <2>2. /\ djob'[w] \in MemoJobs /\ djob'[w].at = "notify" /\ djob'[w].employee = e
        /\ djob'[w].flagged = djob[w].flagged
        /\ djob' \in [Workers -> MemoJobs] /\ \A v \in Workers \ {w} : djob'[v] = djob[v]
    BY <1>2, <2>1 DEF MemoJobs
  <2>4. MemosAlone => MemoSo(w)'
    BY <2>1, <2>2 DEF MemosAlone, MemoSo, MemoReads, Told
  <2>5. memos[e] >= Threshold
    BY <1>3, <2>1 DEF MemosEarned
  <2> QED
    BY <1>2, <1>5, <2>1, <2>2, <2>4, <2>5
<1>10. CASE D!Notify(w)
  <2>1. /\ djob' = [djob EXCEPT ![w] = D!NoJob] /\ UNCHANGED <<flagged, memos>>
        /\ notices' = [notices EXCEPT ![e] = IF notices[e] < 2 THEN notices[e] + 1 ELSE notices[e]]
        /\ djob[w].at = "notify" /\ e \in Staff
    BY <1>2, <1>10 DEF D!Notify, D!Done
  <2>2. /\ djob'[w] = D!NoJob /\ djob'[w].at = "idle"
        /\ djob' \in [Workers -> MemoJobs] /\ \A v \in Workers \ {w} : djob'[v] = djob[v]
    BY <1>2, <2>1
  <2>3. /\ notices' \in [Staff -> Nat] /\ (notices[e] = 0 => notices'[e] = 1)
        /\ \A s \in Staff \ {e} : notices'[s] = notices[s]
    BY <1>2, <2>1
  <2>4. MemosAlone => MemoSo(w)'
    BY <2>2 DEF MemoSo, MemoReads
  <2>5. memos[e] >= Threshold
    BY <1>3, <2>1 DEF MemosEarned
  <2>6. MemosAlone => ReviewOf(e)'
    <3>1. ASSUME MemosAlone PROVE e \in flagged /\ notices[e] = 0
      BY <2>1, <3>1 DEF MemosAlone, MemoSo, MemoReads
    <3> QED
      BY <2>1, <2>3, <2>5, <3>1 DEF ReviewOf, Told
  <2>7. memos'[e] >= memos[e]
    BY <1>2, <2>1
  <2> QED
    BY <1>2, <1>5, <2>1, <2>2, <2>3, <2>4, <2>5, <2>6, <2>7
<1> QED
  BY <1>6, <1>7, <1>8, <1>9, <1>10

LEMMA MemosKeep ==
    ASSUME MemoInv, D!Next, raced' = (raced \/ D!Overlap'),
           died' = (died \/ \E w \in Workers : D!Fail(w))
    PROVE  MemoInv'
<1>1. PICK w \in Workers :
         \/ \E e \in Staff : D!Read(w, e)
         \/ D!Insert(w) \/ D!Count(w) \/ D!Flag(w) \/ D!Notify(w) \/ D!Fail(w)
  BY DEF D!Next
<1>2. /\ djob \in [Workers -> MemoJobs] /\ djob[w] \in MemoJobs
      /\ memos \in [Staff -> Nat] /\ notices \in [Staff -> Nat] /\ flagged \subseteq Staff
      /\ djob[w].at # "idle" => djob[w].employee \in Staff
      /\ D!NoJob \in MemoJobs /\ D!NoJob.at = "idle" /\ D!NoJob.employee = NoOne
  <2>1. D!NoJob.at = "idle" /\ D!NoJob.employee = NoOne /\ D!NoJob \in MemoJobs
    BY DEF D!NoJob, MemoJobs
  <2> QED
    BY <2>1 DEF MemoInv, MemosTyped
<1>3. MemosTyped /\ MemosEarned
  BY DEF MemoInv
<1>4. ASSUME NEW e \in Staff, D!Read(w, e) PROVE MemoInv'
  <2> DEFINE j == [at |-> "insert", employee |-> e, flagged |-> e \in flagged]
  <2>1. /\ djob' = [djob EXCEPT ![w] = j] /\ UNCHANGED <<memos, flagged, notices>>
        /\ djob[w].at = "idle"
    BY <1>2, <1>4 DEF D!Read
  <2>4. j.at = "insert" /\ j.employee = e /\ (j.flagged <=> e \in flagged)
    OBVIOUS
  <2>5. j \in MemoJobs
    BY DEF MemoJobs
  <2> HIDE DEF j
  <2>6. djob'[w] = j /\ djob' \in [Workers -> MemoJobs]
    BY <1>2, <2>1, <2>5
  <2>2. ASSUME MemosAlone, ~D!Overlap' PROVE MemoSo(w)'
    <3>1. D!Serving(e) = {}
      BY <2>1, <2>2, <2>4, <2>6, <1>2, <1>3, DeskAssumption DEF D!Serving, D!Overlap, MemosTyped
    <3>2. ReviewOf(e)
      BY <3>1, <2>2 DEF MemosAlone, D!ReviewIsDue, ReviewOf, Told
    <3> QED
      BY <2>1, <2>4, <2>6, <3>2 DEF MemoSo, MemoReads, ReviewOf, Told
  <2>3. MemosTyped' /\ MemosEarned' /\ (MemosAlone /\ ~D!Overlap' /\ MemoSo(w)' => MemosAlone')
    BY <1>2, <1>3, <2>1, <2>4, <2>6, MemoStep DEF MemosEarned, D!FlagIsEarned
  <2> QED
    BY <2>2, <2>3 DEF MemoInv
<1>11. CASE D!Fail(w)
  <2>1. /\ djob' = [djob EXCEPT ![w] = D!NoJob] /\ UNCHANGED <<flagged, notices, memos>> /\ died'
    BY <1>11 DEF D!Fail, D!Done
  <2>2. djob'[w] = D!NoJob /\ djob' \in [Workers -> MemoJobs]
        /\ \A v \in Workers \ {w} : djob'[v] = djob[v]
    BY <1>2, <2>1
  <2>3. MemosTyped'
    BY <1>2, <1>3, <2>1, <2>2 DEF MemosTyped
  <2>4. MemosEarned'
    BY <1>2, <1>3, <2>1, <2>2 DEF MemosEarned, D!FlagIsEarned
  <2> QED
    BY <2>1, <2>3, <2>4 DEF MemoInv
<1>12. djob[w].at = "idle" => D!Fail(w) \/ \E e \in Staff : D!Read(w, e)
  BY <1>1 DEF D!Insert, D!Count, D!Flag, D!Notify
<1> QED
  BY <1>1, <1>2, <1>4, <1>11, <1>12, MemoServed

-----------------------------------------------------------------------------
(* THE ORG CHART.  The chain above an employee and the tree below a        *)
(* manager are each computed level by level; both find the manager on      *)
(* level n exactly when a path of n managers leads there for the first     *)
(* time, and such a path meets nobody twice.                               *)

ChartTyped == manager \in [Ids -> Ids \cup {NoOne}] /\ gone \subseteq Ids

(* The chain, a manager longer.                                            *)
Longer(e, above, n) ==
    LET top == IF above = <<>> THEN e ELSE above[Len(above)]
        next == manager[top]
    IN IF /\ Len(above) = n - 1 /\ A!Live(next) /\ next # e
          /\ \A i \in DOMAIN above : above[i] # next
       THEN Append(above, next) ELSE above
IsChain(c, e, h) == c = [n \in 0 .. h |-> IF n = 0 THEN <<>> ELSE Longer(e, c[n - 1], n)]
ChainOf(e, h) == CHOOSE c : IsChain(c, e, h)

(* Its managers are live and different, each the one of the one before.    *)
GoodChain(e, s) ==
    /\ s \in Seq(Ids)
    /\ \A i \in 1 .. Len(s) :
          /\ A!Live(s[i]) /\ s[i] # e /\ s[i] = manager[IF i = 1 THEN e ELSE s[i - 1]]
          /\ \A j \in 1 .. i - 1 : s[j] # s[i]

LEMMA ChainUnfolds == ASSUME NEW e PROVE A!ReportingChain(e) = ChainOf(e, MaxHops)[MaxHops]
BY DEF A!ReportingChain, ChainOf, IsChain, Longer

LEMMA LongerIsGood ==
    ASSUME ChartTyped, NEW e \in Ids, NEW above, GoodChain(e, above), NEW n \in Nat \ {0},
           Len(above) <= n - 1
    PROVE  /\ GoodChain(e, Longer(e, above, n)) /\ Len(Longer(e, above, n)) <= n
           /\ Len(above) <= Len(Longer(e, above, n))
           /\ \A i \in 1 .. Len(above) : Longer(e, above, n)[i] = above[i]
<1> DEFINE top == IF above = <<>> THEN e ELSE above[Len(above)]
           next == manager[top]
<1>1. above \in Seq(Ids) /\ Len(above) \in Nat
  BY DEF GoodChain
<1>2. CASE /\ Len(above) = n - 1 /\ A!Live(next) /\ next # e
           /\ \A i \in DOMAIN above : above[i] # next
  <2>1. Longer(e, above, n) = Append(above, next)
    BY <1>2 DEF Longer
  <2> DEFINE s == Append(above, next)
  <2>2. next \in Ids
    BY <1>2 DEF A!Live
  <2>3. /\ s \in Seq(Ids) /\ Len(s) = Len(above) + 1 /\ s[Len(above) + 1] = next
        /\ \A i \in 1 .. Len(above) : s[i] = above[i]
    BY <1>1, <2>2
  <2>4. above = <<>> <=> Len(above) = 0
    BY <1>1
  <2>5. next = manager[IF Len(s) = 1 THEN e ELSE above[Len(s) - 1]]
    BY <1>1, <2>3, <2>4
  <2>6. DOMAIN above = 1 .. Len(above)
    BY <1>1
  <2> HIDE DEF s, next
  <2>7. ASSUME NEW i \in 1 .. Len(s)
        PROVE  /\ A!Live(s[i]) /\ s[i] # e /\ s[i] = manager[IF i = 1 THEN e ELSE s[i - 1]]
               /\ \A j \in 1 .. i - 1 : s[j] # s[i]
    <3>1. CASE i = Len(s)
      <4>1. s[i] = next
        BY <2>3, <3>1
      <4>2. i # 1 => s[i - 1] = above[Len(s) - 1]
        BY <1>1, <2>3, <3>1
      <4>3. \A j \in 1 .. i - 1 : s[j] # s[i]
        BY <1>1, <1>2, <2>3, <2>6, <3>1, <4>1
      <4> QED
        BY <1>2, <2>5, <3>1, <4>1, <4>2, <4>3
    <3>2. CASE i # Len(s)
      <4>1. i \in 1 .. Len(above)
        BY <1>1, <2>3, <3>2
      <4>2. s[i] = above[i] /\ (i # 1 => s[i - 1] = above[i - 1])
            /\ \A j \in 1 .. i - 1 : s[j] = above[j]
        BY <1>1, <2>3, <4>1
      <4> QED
        BY <4>1, <4>2 DEF GoodChain
    <3> QED
      BY <3>1, <3>2
  <2>8. GoodChain(e, s)
    BY <2>3, <2>7 DEF GoodChain
  <2> QED
    BY <1>1, <1>2, <2>1, <2>3, <2>8 DEF s
<1>3. CASE ~(/\ Len(above) = n - 1 /\ A!Live(next) /\ next # e
             /\ \A i \in DOMAIN above : above[i] # next)
  <2>1. Longer(e, above, n) = above
    BY <1>3 DEF Longer
  <2> QED
    BY <1>1, <2>1
<1> QED
  BY <1>2, <1>3

LEMMA ChainIsGood ==
    ASSUME ChartTyped, NEW e \in Ids, NEW h \in Nat, NEW c, IsChain(c, e, h)
    PROVE  \A n \in 0 .. h : GoodChain(e, c[n]) /\ Len(c[n]) <= n
<1> DEFINE G == {n \in 0 .. h : GoodChain(e, c[n]) /\ Len(c[n]) <= n}
<1>1. c[0] = <<>> /\ \A n \in 1 .. h : c[n] = Longer(e, c[n - 1], n)
  <2> DEFINE f == [n \in 0 .. h |-> IF n = 0 THEN <<>> ELSE Longer(e, c[n - 1], n)]
  <2>1. f[0] = <<>> /\ \A n \in 1 .. h : f[n] = Longer(e, c[n - 1], n)
    OBVIOUS
  <2>2. c = f
    BY DEF IsChain
  <2> HIDE DEF f
  <2> QED
    BY <2>1, <2>2
<1>2. 0 \in G
  <2>1. GoodChain(e, <<>>) /\ Len(<<>>) = 0
    BY DEF GoodChain
  <2> QED
    BY <1>1, <2>1
<1>3. ASSUME NEW n \in 1 .. h, n - 1 \in G PROVE n \in G
  <2>1. GoodChain(e, c[n - 1]) /\ Len(c[n - 1]) <= n - 1
    BY <1>3
  <2> QED
    BY <1>1, <2>1, LongerIsGood
<1> HIDE DEF G
<1>4. \A n \in 0 .. h : n \in G
  BY <1>2, <1>3, CountUp
<1> QED
  BY <1>4 DEF G

(* There is such a chain.                                                  *)
LEMMA ChainExists ==
    ASSUME ChartTyped, NEW e \in Ids, NEW h \in Nat
    PROVE  IsChain(ChainOf(e, h), e, h)
<1> DEFINE F == [q \in Nat \X Seq(Ids) |->
                    IF Longer(e, q[2], q[1]) \in Seq(Ids) THEN Longer(e, q[2], q[1]) ELSE <<>>]
<1>1. F \in [Nat \X Seq(Ids) -> Seq(Ids)] /\ <<>> \in Seq(Ids)
  OBVIOUS
<1>2. PICK c \in [0 .. h -> Seq(Ids)] : Steps(c, F, <<>>, h)
  <2> HIDE DEF F
  <2> QED
    BY <1>1, StepsExist
<1>3. ASSUME NEW s \in Seq(Ids), NEW n \in Nat PROVE Longer(e, s, n) \in Seq(Ids)
  BY DEF Longer, A!Live
<1>4. ASSUME NEW n \in 0 .. h, n # 0 PROVE F[<<n, c[n - 1]>>] = Longer(e, c[n - 1], n)
  <2>1. c[n - 1] \in Seq(Ids) /\ n \in Nat
    BY <1>2, <1>4
  <2> QED
    BY <1>3, <2>1
<1> HIDE DEF F
<1>5. IsChain(c, e, h)
  <2>1. \A n \in 0 .. h : c[n] = IF n = 0 THEN <<>> ELSE Longer(e, c[n - 1], n)
    BY <1>2, <1>4 DEF Steps
  <2>2. c = [n \in 0 .. h |-> c[n]]
    BY <1>2
  <2> QED
    BY <2>1, <2>2 DEF IsChain
<1> QED
  BY <1>5 DEF ChainOf

-----------------------------------------------------------------------------
(* The people found below root, a level deeper.                            *)
Below(seen, n) == {e \in Ids \ gone : /\ <<manager[e], n - 1>> \in seen
                                      /\ \A k \in 0 .. n - 1 : <<e, k>> \notin seen}
Deeper(seen, n) == seen \cup {<<e, n>> : e \in Below(seen, n)}
IsTree(g, root, d) == g = [n \in 0 .. d |-> IF n = 0 THEN {<<root, 0>>} ELSE Deeper(g[n - 1], n)]
TreeOf(root, d) == CHOOSE g : IsTree(g, root, d)

LEMMA TreeUnfolds ==
    ASSUME NEW m PROVE A!Subordinates(m) = TreeOf(m, Depth)[Depth] \ {<<m, 0>>}
BY DEF A!Subordinates, TreeOf, IsTree, Deeper, Below

LEMMA InDeeper ==
    ASSUME NEW seen, NEW n, NEW x, NEW k
    PROVE  <<x, k>> \in Deeper(seen, n) <=>
              <<x, k>> \in seen \/ (k = n /\ x \in Below(seen, n))
<1>1. ASSUME <<x, k>> \in {<<e, n>> : e \in Below(seen, n)} PROVE k = n /\ x \in Below(seen, n)
  <2>1. PICK e \in Below(seen, n) : <<x, k>> = <<e, n>>
    BY <1>1
  <2> QED
    BY <2>1
<1>2. ASSUME k = n, x \in Below(seen, n) PROVE <<x, k>> \in {<<e, n>> : e \in Below(seen, n)}
  BY <1>2
<1> QED
  BY <1>1, <1>2 DEF Deeper

LEMMA TreeExists ==
    ASSUME NEW root \in Ids, NEW d \in Nat
    PROVE  IsTree(TreeOf(root, d), root, d)
<1> DEFINE X == SUBSET (Ids \X Nat)
           F == [q \in Nat \X X |-> Deeper(q[2], q[1])]
<1>1. ASSUME NEW s \in X, NEW n \in Nat PROVE Deeper(s, n) \in X
  <2>1. Below(s, n) \subseteq Ids
    BY DEF Below
  <2>2. {<<e, n>> : e \in Below(s, n)} \subseteq Ids \X Nat
    BY <2>1
  <2> QED
    BY <2>2 DEF Deeper
<1>2. F \in [Nat \X X -> X] /\ {<<root, 0>>} \in X
  BY <1>1
<1>3. \A s \in X, n \in Nat : F[<<n, s>>] = Deeper(s, n)
  OBVIOUS
<1> HIDE DEF F, X
<1>4. PICK g \in [0 .. d -> X] : Steps(g, F, {<<root, 0>>}, d)
  BY <1>2, StepsExist
<1>5. IsTree(g, root, d)
  <2>1. \A n \in 0 .. d : n # 0 => n - 1 \in 0 .. d /\ n \in Nat
    OBVIOUS
  <2>2. \A n \in 0 .. d : g[n] = IF n = 0 THEN {<<root, 0>>} ELSE Deeper(g[n - 1], n)
    BY <1>3, <1>4, <2>1 DEF Steps
  <2>3. g = [n \in 0 .. d |-> g[n]]
    BY <1>4
  <2> QED
    BY <2>2, <2>3 DEF IsTree
<1> QED
  BY <1>5 DEF TreeOf

(* Who is on a level is settled when the level is reached: those whose     *)
(* manager is on the one above and who are on none above.                  *)
LEMMA TreeLevels ==
    ASSUME NEW root \in Ids, NEW d \in Nat, NEW g, IsTree(g, root, d)
    PROVE  /\ \A e \in Ids : <<e, 0>> \in g[d] <=> e = root
           /\ \A n \in 1 .. d : \A e \in Ids : <<e, n>> \in g[d] <=>
                 /\ e \notin gone /\ <<manager[e], n - 1>> \in g[d]
                 /\ \A k \in 0 .. n - 1 : <<e, k>> \notin g[d]
<1>1. g[0] = {<<root, 0>>} /\ \A n \in 1 .. d : g[n] = Deeper(g[n - 1], n)
  <2> DEFINE f == [n \in 0 .. d |-> IF n = 0 THEN {<<root, 0>>} ELSE Deeper(g[n - 1], n)]
  <2>1. f[0] = {<<root, 0>>} /\ \A n \in 1 .. d : f[n] = Deeper(g[n - 1], n)
    OBVIOUS
  <2>2. g = f
    BY DEF IsTree
  <2> HIDE DEF f
  <2> QED
    BY <2>1, <2>2
<1> DEFINE Fixed(n) == \A k \in 0 .. n : \A x : <<x, k>> \in g[n] <=> <<x, k>> \in g[k]
           High(n) == \A k \in Nat : \A x : <<x, k>> \in g[n] => k <= n
           G == {n \in 0 .. d : Fixed(n) /\ High(n)}
<1>2. 0 \in G
  <2>1. \A k, x : <<x, k>> \in g[0] <=> x = root /\ k = 0
    BY <1>1
  <2>2. Fixed(0) /\ High(0)
    BY <2>1
  <2> QED
    BY <2>2
<1>3. ASSUME NEW n \in 1 .. d, n - 1 \in G PROVE n \in G
  <2>1. Fixed(n - 1) /\ High(n - 1)
    BY <1>3
  <2>2. \A k \in Nat : \A x : <<x, k>> \in g[n] <=>
           \/ <<x, k>> \in g[n - 1]
           \/ k = n /\ x \in Below(g[n - 1], n)
    BY <1>1, InDeeper
  <2>3. Fixed(n)
    <3> SUFFICES ASSUME NEW k \in 0 .. n, NEW x PROVE <<x, k>> \in g[n] <=> <<x, k>> \in g[k]
      OBVIOUS
    <3>1. CASE k # n
      <4>1. k \in 0 .. n - 1 /\ k \in Nat
        BY <3>1
      <4> QED
        BY <2>1, <2>2, <3>1, <4>1
    <3> QED
      BY <3>1
  <2>4. High(n)
    <3> SUFFICES ASSUME NEW k \in Nat, NEW x, <<x, k>> \in g[n] PROVE k <= n
      OBVIOUS
    <3>1. k <= n - 1 \/ k = n
      BY <2>1, <2>2
    <3> QED
      BY <3>1
  <2> QED
    BY <2>3, <2>4
<1> HIDE DEF G
<1>4. \A n \in 0 .. d : n \in G
  BY <1>2, <1>3, CountUp
<1>5. \A n \in 0 .. d : Fixed(n) /\ High(n)
  BY <1>4 DEF G
<1>6. \A n \in 0 .. d : \A k \in 0 .. n : \A x : <<x, k>> \in g[d] <=> <<x, k>> \in g[n]
  <2>1. \A n \in 0 .. d : \A k \in 0 .. n : k \in 0 .. d
    OBVIOUS
  <2>2. Fixed(d) /\ \A n \in 0 .. d : Fixed(n)
    BY <1>5
  <2> QED
    BY <2>1, <2>2
<1> HIDE DEF Fixed, High
<1>7. \A e \in Ids : <<e, 0>> \in g[d] <=> e = root
  BY <1>1, <1>6
<1>8. ASSUME NEW n \in 1 .. d, NEW e \in Ids
      PROVE  <<e, n>> \in g[d] <=>
                /\ e \notin gone /\ <<manager[e], n - 1>> \in g[d]
                /\ \A k \in 0 .. n - 1 : <<e, k>> \notin g[d]
  <2>1. <<e, n>> \notin g[n - 1]
    <3>1. High(n - 1) /\ n \in Nat /\ ~(n <= n - 1)
      BY <1>5
    <3> QED
      BY <3>1 DEF High
  <2>2. <<e, n>> \in g[n] <=>
           /\ e \notin gone /\ <<manager[e], n - 1>> \in g[n - 1]
           /\ \A k \in 0 .. n - 1 : <<e, k>> \notin g[n - 1]
    <3>1. g[n] = Deeper(g[n - 1], n)
      BY <1>1
    <3>2. <<e, n>> \in g[n] <=> e \in Below(g[n - 1], n)
      BY <2>1, <3>1, InDeeper
    <3> QED
      BY <3>2 DEF Below
  <2>3. \A k \in 0 .. n - 1 : \A x : <<x, k>> \in g[d] <=> <<x, k>> \in g[n - 1]
    <3>1. n - 1 \in 0 .. d
      OBVIOUS
    <3> QED
      BY <1>6, <3>1
  <2>4. <<e, n>> \in g[d] <=> <<e, n>> \in g[n]
    BY <1>6
  <2> QED
    BY <2>2, <2>3, <2>4
<1> QED
  BY <1>7, <1>8

-----------------------------------------------------------------------------
(* Only employees are found.                                               *)
LEMMA TreeInIds ==
    ASSUME NEW root \in Ids, NEW d \in Nat, NEW g, IsTree(g, root, d), NEW x, NEW k \in 0 .. d,
           <<x, k>> \in g[d]
    PROVE  x \in Ids
<1> DEFINE f == [n \in 0 .. d |-> IF n = 0 THEN {<<root, 0>>} ELSE Deeper(g[n - 1], n)]
           G == {n \in 0 .. d : \A y, l : <<y, l>> \in g[n] => y \in Ids}
<1>1. f[0] = {<<root, 0>>} /\ \A n \in 1 .. d : f[n] = Deeper(g[n - 1], n)
  OBVIOUS
<1>2. g = f
  BY DEF IsTree
<1> HIDE DEF f
<1>3. 0 \in G
  BY <1>1, <1>2
<1>4. ASSUME NEW n \in 1 .. d, n - 1 \in G PROVE n \in G
  <2>1. \A y, l : <<y, l>> \in g[n] <=> <<y, l>> \in g[n - 1] \/ (l = n /\ y \in Below(g[n - 1], n))
    <3> SUFFICES ASSUME NEW y, NEW l
                 PROVE  <<y, l>> \in g[n] <=>
                           <<y, l>> \in g[n - 1] \/ (l = n /\ y \in Below(g[n - 1], n))
      OBVIOUS
    <3>1. g[n] = Deeper(g[n - 1], n)
      BY <1>1, <1>2
    <3> QED
      BY <3>1, InDeeper
  <2>2. Below(g[n - 1], n) \subseteq Ids
    BY DEF Below
  <2> QED
    BY <1>4, <2>1, <2>2
<1> HIDE DEF G
<1>5. \A n \in 0 .. d : n \in G
  BY <1>3, <1>4, CountUp
<1>6. d \in G
  BY <1>5
<1> QED
  BY <1>6 DEF G

(* The path of n managers from e to m that is there for the first time.    *)
Path(p, e, n, m) ==
    /\ p \in [0 .. n -> Ids] /\ p[0] = e /\ p[n] = m
    /\ \A i \in 0 .. n - 1 : p[i + 1] = manager[p[i]] /\ p[i] \notin gone /\ p[i] # m
Reaches(e, n, m) == \E p \in [0 .. n -> Ids] : Path(p, e, n, m)

(* There is one way up.                                                    *)
LEMMA OneWayUp ==
    ASSUME NEW e, NEW m, NEW n \in Nat, NEW k \in Nat, k <= n, NEW p, NEW q,
           Path(p, e, n, m), Path(q, e, k, m)
    PROVE  k = n
<1> DEFINE G == {i \in 0 .. k : p[i] = q[i]}
<1>1. 0 \in G
  BY DEF Path
<1>2. ASSUME NEW i \in 1 .. k, i - 1 \in G PROVE i \in G
  <2>1. i - 1 \in 0 .. n - 1 /\ i - 1 \in 0 .. k - 1 /\ (i - 1) + 1 = i
    OBVIOUS
  <2>2. p[i] = manager[p[i - 1]] /\ q[i] = manager[q[i - 1]]
    BY <2>1 DEF Path
  <2> QED
    BY <1>2, <2>2
<1> HIDE DEF G
<1>3. k \in G
  BY <1>1, <1>2, CountUp
<1>4. p[k] = m
  BY <1>3 DEF G, Path
<1> QED
  BY <1>4 DEF Path

(* It meets nobody twice: what followed the first time would follow the    *)
(* second, and end in m before the end.                                    *)
LEMMA NobodyTwice ==
    ASSUME NEW e, NEW m, NEW n \in Nat, NEW p, Path(p, e, n, m),
           NEW j \in 0 .. n, NEW i \in 0 .. j - 1
    PROVE  p[i] # p[j]
<1> SUFFICES ASSUME p[i] = p[j] PROVE FALSE
  OBVIOUS
<1> DEFINE h == n - j
           G == {t \in 0 .. h : p[i + t] = p[j + t]}
<1>1. 0 \in G /\ h \in Nat
  OBVIOUS
<1>2. ASSUME NEW t \in 1 .. h, t - 1 \in G PROVE t \in G
  <2>1. /\ i + (t - 1) \in 0 .. n - 1 /\ j + (t - 1) \in 0 .. n - 1
        /\ (i + (t - 1)) + 1 = i + t /\ (j + (t - 1)) + 1 = j + t
    OBVIOUS
  <2>2. p[i + t] = manager[p[i + (t - 1)]] /\ p[j + t] = manager[p[j + (t - 1)]]
    BY <2>1 DEF Path
  <2> QED
    BY <1>2, <2>2
<1> HIDE DEF G
<1>3. h \in G
  <2> HIDE DEF h
  <2>1. \A t \in 0 .. h : t \in G
    BY <1>1, <1>2, CountUp
  <2> QED
    BY <1>1, <2>1
<1>4. p[i + h] = p[n]
  <2>1. j + h = n
    OBVIOUS
  <2> QED
    BY <1>3, <2>1 DEF G
<1>5. i + h \in 0 .. n - 1
  OBVIOUS
<1> QED
  BY <1>4, <1>5 DEF Path

(* A path begins with a step to the manager.                               *)
LEMMA PathBegins ==
    ASSUME ChartTyped, NEW e \in Ids, NEW m \in Ids, NEW n \in Nat \ {0}
    PROVE  Reaches(e, n, m) <=>
              /\ e \notin gone /\ e # m /\ manager[e] \in Ids /\ Reaches(manager[e], n - 1, m)
<1>1. ASSUME Reaches(e, n, m)
      PROVE  e \notin gone /\ e # m /\ manager[e] \in Ids /\ Reaches(manager[e], n - 1, m)
  <2>1. PICK p \in [0 .. n -> Ids] : Path(p, e, n, m)
    BY <1>1 DEF Reaches
  <2> DEFINE q == [i \in 0 .. n - 1 |-> p[i + 1]]
  <2>2. /\ e \notin gone /\ e # m /\ p[1] = manager[e] /\ p[1] \in Ids
    <3>1. 0 \in 0 .. n - 1 /\ 1 \in 0 .. n /\ 0 + 1 = 1
      OBVIOUS
    <3> QED
      BY <2>1, <3>1 DEF Path
  <2>3. q \in [0 .. n - 1 -> Ids] /\ q[0] = p[1] /\ q[n - 1] = p[n]
    BY <2>1
  <2>4. ASSUME NEW i \in 0 .. (n - 1) - 1
        PROVE  q[i + 1] = manager[q[i]] /\ q[i] \notin gone /\ q[i] # m
    <3>1. i + 1 \in 0 .. n - 1 /\ i \in 0 .. n - 1
      OBVIOUS
    <3>2. q[i + 1] = p[(i + 1) + 1] /\ q[i] = p[i + 1]
      BY <3>1
    <3> QED
      BY <2>1, <3>1, <3>2 DEF Path
  <2> HIDE DEF q
  <2>5. Path(q, manager[e], n - 1, m)
    BY <2>1, <2>2, <2>3, <2>4 DEF Path
  <2> QED
    BY <2>2, <2>3, <2>5 DEF Reaches
<1>2. ASSUME e \notin gone, e # m, manager[e] \in Ids, Reaches(manager[e], n - 1, m)
      PROVE  Reaches(e, n, m)
  <2>1. PICK q \in [0 .. n - 1 -> Ids] : Path(q, manager[e], n - 1, m)
    BY <1>2 DEF Reaches
  <2> DEFINE p == [i \in 0 .. n |-> IF i = 0 THEN e ELSE q[i - 1]]
  <2>2. p \in [0 .. n -> Ids] /\ p[0] = e /\ p[n] = q[n - 1]
        /\ \A i \in 1 .. n : p[i] = q[i - 1]
    BY <2>1
  <2> HIDE DEF p
  <2>4. ASSUME NEW i \in 0 .. n - 1
        PROVE  p[i + 1] = manager[p[i]] /\ p[i] \notin gone /\ p[i] # m
    <3>1. p[i + 1] = q[i]
      <4>1. i + 1 \in 1 .. n /\ (i + 1) - 1 = i
        OBVIOUS
      <4> QED
        BY <2>2, <4>1
    <3>2. CASE i = 0
      BY <1>2, <2>1, <2>2, <3>1, <3>2 DEF Path
    <3>3. CASE i # 0
      <4>1. i - 1 \in 0 .. (n - 1) - 1 /\ (i - 1) + 1 = i /\ p[i] = q[i - 1]
        BY <2>2, <3>3
      <4> QED
        BY <2>1, <3>1, <4>1 DEF Path
    <3> QED
      BY <3>2, <3>3
  <2>5. Path(p, e, n, m)
    BY <2>1, <2>2, <2>4 DEF Path
  <2> QED
    BY <2>2, <2>5 DEF Reaches
<1> QED
  BY <1>1, <1>2

(* The tree below m has e on level n exactly when e reaches m in n.        *)
LEMMA TreeReaches ==
    ASSUME ChartTyped, NoOne \notin Ids, NEW m \in Ids \ gone, NEW d \in Nat, NEW g, IsTree(g, m, d)
    PROVE  \A n \in 0 .. d : \A e \in Ids : <<e, n>> \in g[d] <=> Reaches(e, n, m)
<1> DEFINE Right(k) == \A e \in Ids : <<e, k>> \in g[d] <=> Reaches(e, k, m)
           G == {n \in 0 .. d : \A k \in 0 .. n : Right(k)}
<1>1. Right(0)
  <2> SUFFICES ASSUME NEW e \in Ids PROVE <<e, 0>> \in g[d] <=> Reaches(e, 0, m)
    OBVIOUS
  <2>1. <<e, 0>> \in g[d] <=> e = m
    BY TreeLevels
  <2>2. ASSUME e = m PROVE Reaches(e, 0, m)
    <3> DEFINE p == [i \in 0 .. 0 |-> e]
    <3>1. p \in [0 .. 0 -> Ids] /\ Path(p, e, 0, m)
      BY <2>2 DEF Path
    <3> QED
      BY <3>1 DEF Reaches
  <2>3. Reaches(e, 0, m) => e = m
    BY DEF Reaches, Path
  <2> QED
    BY <2>1, <2>2, <2>3
<1>2. ASSUME NEW n \in 1 .. d, n - 1 \in G PROVE n \in G
  <2>1. \A k \in 0 .. n - 1 : Right(k)
    BY <1>2
  <2>2. ASSUME NEW e \in Ids PROVE <<e, n>> \in g[d] <=> Reaches(e, n, m)
    <3>1. <<e, n>> \in g[d] <=>
             /\ e \notin gone /\ <<manager[e], n - 1>> \in g[d]
             /\ \A k \in 0 .. n - 1 : <<e, k>> \notin g[d]
      BY TreeLevels
    <3>2. <<manager[e], n - 1>> \in g[d] => manager[e] \in Ids
      <4>1. n - 1 \in 0 .. d
        OBVIOUS
      <4> QED
        BY <4>1, TreeInIds
    <3>3. manager[e] \in Ids =>
             (<<manager[e], n - 1>> \in g[d] <=> Reaches(manager[e], n - 1, m))
      BY <2>1
    <3>4. \A k \in 0 .. n - 1 : <<e, k>> \in g[d] <=> Reaches(e, k, m)
      BY <2>1
    <3>5. ASSUME Reaches(e, n, m), NEW k \in 0 .. n - 1 PROVE ~Reaches(e, k, m)
      <4>1. k \in Nat /\ n \in Nat /\ k <= n /\ k # n
        OBVIOUS
      <4> QED
        BY <3>5, <4>1, OneWayUp DEF Reaches
    <3>6. ~Reaches(e, 0, m) => e # m
      BY <1>1, TreeLevels
    <3>7. 0 \in 0 .. n - 1 /\ n \in Nat \ {0}
      OBVIOUS
    <3>8. Reaches(e, n, m) <=>
             /\ e \notin gone /\ e # m /\ manager[e] \in Ids /\ Reaches(manager[e], n - 1, m)
      BY <3>7, PathBegins
    <3>9. CASE Reaches(e, n, m)
      BY <3>1, <3>3, <3>4, <3>5, <3>8, <3>9
    <3>10. CASE <<e, n>> \in g[d]
      BY <3>1, <3>2, <3>3, <3>4, <3>6, <3>7, <3>8, <3>10
    <3> QED
      BY <3>9, <3>10
  <2> QED
    BY <2>1, <2>2
<1> HIDE DEF G
<1>3. \A n \in 0 .. d : n \in G
  <2>1. 0 \in G
    BY <1>1 DEF G
  <2> QED
    BY <1>2, <2>1, CountUp
<1>4. \A n \in 0 .. d : n \in 0 .. n
  OBVIOUS
<1> QED
  BY <1>3, <1>4 DEF G

-----------------------------------------------------------------------------
(* Once it has stopped, a chain is as it was; before, it has a manager a   *)
(* level.                                                                  *)
LEMMA ChainPrefix ==
    ASSUME ChartTyped, NEW e \in Ids, NEW h \in Nat, NEW c, IsChain(c, e, h), NEW n \in 0 .. h
    PROVE  /\ Len(c[n]) <= Len(c[h]) /\ \A i \in 1 .. Len(c[n]) : c[h][i] = c[n][i]
<1> DEFINE Prefix(k) == Len(c[n]) <= Len(c[k]) /\ \A i \in 1 .. Len(c[n]) : c[k][i] = c[n][i]
           G == {t \in 0 .. h - n : Prefix(n + t)}
<1>0. \A k \in 1 .. h : c[k] = Longer(e, c[k - 1], k)
  <2> DEFINE f == [k \in 0 .. h |-> IF k = 0 THEN <<>> ELSE Longer(e, c[k - 1], k)]
  <2>1. \A k \in 1 .. h : f[k] = Longer(e, c[k - 1], k)
    OBVIOUS
  <2>2. c = f
    BY DEF IsChain
  <2> HIDE DEF f
  <2> QED
    BY <2>1, <2>2
<1>1. \A k \in 0 .. h : GoodChain(e, c[k]) /\ Len(c[k]) <= k /\ Len(c[k]) \in Nat
  BY ChainIsGood DEF GoodChain
<1>2. 0 \in G
  BY <1>1
<1>3. ASSUME NEW t \in 1 .. h - n, t - 1 \in G PROVE t \in G
  <2>1. PICK k \in 1 .. h : k = n + t /\ k - 1 = n + (t - 1) /\ k \in Nat \ {0} /\ k - 1 \in 0 .. h
    OBVIOUS
  <2>2. Prefix(k - 1)
    BY <1>3, <2>1
  <2>3. GoodChain(e, c[k - 1]) /\ Len(c[k - 1]) <= k - 1
    BY <1>1, <2>1
  <2>4. /\ Len(c[k - 1]) <= Len(c[k]) /\ \A i \in 1 .. Len(c[k - 1]) : c[k][i] = c[k - 1][i]
    BY <1>0, <2>1, <2>3, LongerIsGood
  <2>5. Len(c[n]) \in Nat /\ Len(c[k]) \in Nat /\ Len(c[k - 1]) \in Nat
    BY <1>1, <2>1
  <2>6. Prefix(k)
    BY <2>2, <2>4, <2>5
  <2> QED
    BY <2>1, <2>6
<1> HIDE DEF G
<1>4. h - n \in G
  <2>1. h - n \in Nat
    OBVIOUS
  <2> QED
    BY <1>2, <1>3, <2>1, CountUp
<1>5. Prefix(n + (h - n)) /\ n + (h - n) = h
  BY <1>4 DEF G
<1> QED
  BY <1>5

(* The n-th of the chain above e is m exactly when e reaches m in n.       *)
LEMMA ChainReaches ==
    ASSUME ChartTyped, NEW e \in Ids \ gone, NEW m \in Ids \ gone, NEW h \in Nat, NEW c,
           IsChain(c, e, h), NEW n \in 1 .. h
    PROVE  (n <= Len(c[h]) /\ c[h][n] = m) <=> Reaches(e, n, m)
<1>1. \A k \in 0 .. h : GoodChain(e, c[k]) /\ Len(c[k]) <= k /\ Len(c[k]) \in Nat
  BY ChainIsGood DEF GoodChain
<1>2. ASSUME n <= Len(c[h]), c[h][n] = m PROVE Reaches(e, n, m)
  <2> DEFINE s == c[h]
             p == [i \in 0 .. n |-> IF i = 0 THEN e ELSE s[i]]
  <2>1. GoodChain(e, s) /\ Len(s) \in Nat
    BY <1>1
  <2>2. n <= Len(s) /\ s[n] = m
    BY <1>2
  <2> HIDE DEF s
  <2>3. \A i \in 1 .. n : i \in 1 .. Len(s) /\ s[i] \in Ids
    BY <2>1, <2>2 DEF GoodChain, A!Live
  <2>4. p \in [0 .. n -> Ids] /\ p[0] = e /\ p[n] = m /\ \A i \in 1 .. n : p[i] = s[i]
    BY <2>2, <2>3
  <2> HIDE DEF p
  <2>5. ASSUME NEW i \in 0 .. n - 1
        PROVE  p[i + 1] = manager[p[i]] /\ p[i] \notin gone /\ p[i] # m
    <3>1. i + 1 \in 1 .. n /\ p[i + 1] = s[i + 1] /\ n \in 1 .. n
      BY <2>4
    <3>2. s[i + 1] = manager[IF i + 1 = 1 THEN e ELSE s[(i + 1) - 1]]
      BY <2>1, <2>3, <3>1 DEF GoodChain
    <3>3. CASE i = 0
      <4>1. s[n] # e
        BY <2>1, <2>3, <3>1 DEF GoodChain
      <4> QED
        BY <2>2, <2>4, <3>1, <3>2, <3>3, <4>1
    <3>4. CASE i # 0
      <4>1. i \in 1 .. n /\ i \in 1 .. n - 1 /\ (i + 1) - 1 = i /\ p[i] = s[i]
        BY <2>4, <3>4
      <4>2. A!Live(s[i]) /\ s[i] # s[n]
        BY <2>1, <2>3, <3>1, <4>1 DEF GoodChain
      <4> QED
        BY <2>2, <3>1, <3>2, <3>4, <4>1, <4>2 DEF A!Live
    <3> QED
      BY <3>3, <3>4
  <2>6. Path(p, e, n, m)
    BY <2>4, <2>5 DEF Path
  <2> QED
    BY <2>4, <2>6 DEF Reaches
<1>3. ASSUME Reaches(e, n, m) PROVE n <= Len(c[h]) /\ c[h][n] = m
  <2>1. PICK p \in [0 .. n -> Ids] : Path(p, e, n, m)
    BY <1>3 DEF Reaches
  <2> DEFINE Along(k) == Len(c[k]) = k /\ \A i \in 1 .. k : c[k][i] = p[i]
             G == {k \in 0 .. n : Along(k)}
  <2>2. c[0] = <<>> /\ \A k \in 1 .. h : c[k] = Longer(e, c[k - 1], k)
    <3> DEFINE f == [k \in 0 .. h |-> IF k = 0 THEN <<>> ELSE Longer(e, c[k - 1], k)]
    <3>1. f[0] = <<>> /\ \A k \in 1 .. h : f[k] = Longer(e, c[k - 1], k)
      OBVIOUS
    <3>2. c = f
      BY DEF IsChain
    <3> HIDE DEF f
    <3> QED
      BY <3>1, <3>2
  <2>3. 0 \in G
    <3>1. Len(<<>>) = 0 /\ 0 \in 0 .. n
      OBVIOUS
    <3>2. Len(c[0]) = 0
      BY <2>2, <3>1
    <3> QED
      BY <3>1, <3>2
  <2>4. ASSUME NEW k \in 1 .. n, k - 1 \in G PROVE k \in G
    <3> DEFINE s == c[k - 1]
    <3>1. Along(k - 1)
      BY <2>4
    <3>2. k - 1 \in 0 .. h /\ k \in 1 .. h /\ k - 1 \in 0 .. n - 1 /\ k \in 0 .. n /\ (k - 1) + 1 = k
      OBVIOUS
    <3>3. s \in Seq(Ids) /\ Len(s) = k - 1 /\ \A i \in 1 .. k - 1 : s[i] = p[i]
      BY <1>1, <3>1, <3>2 DEF GoodChain
    <3>4. c[k] = Longer(e, s, k)
      BY <2>2, <3>2
    <3> HIDE DEF s
    <3>5. (IF s = <<>> THEN e ELSE s[Len(s)]) = p[k - 1]
      <4>1. CASE k = 1
        <5>1. s = <<>>
          BY <3>3, <4>1
        <5> QED
          BY <2>1, <4>1, <5>1 DEF Path
      <4>2. CASE k # 1
        <5>1. s # <<>> /\ k - 1 \in 1 .. k - 1
          BY <3>3, <4>2
        <5> QED
          BY <3>3, <5>1
      <4> QED
        BY <4>1, <4>2
    <3>6. manager[p[k - 1]] = p[k] /\ p[k] \in Ids
      BY <2>1, <3>2 DEF Path
    <3>7. A!Live(p[k])
      <4>1. CASE k = n
        BY <2>1, <4>1 DEF Path, A!Live
      <4>2. CASE k # n
        <5>1. k \in 0 .. n - 1
          BY <4>2
        <5> QED
          BY <2>1, <3>6, <5>1 DEF Path, A!Live
      <4> QED
        BY <4>1, <4>2
    <3>8. \A i \in 0 .. k - 1 : p[i] # p[k]
      BY <2>1, <3>2, NobodyTwice
    <3>9. p[k] # e /\ \A i \in DOMAIN s : s[i] # p[k]
      <4>1. 0 \in 0 .. k - 1 /\ \A i \in 1 .. k - 1 : i \in 0 .. k - 1
        OBVIOUS
      <4>2. DOMAIN s = 1 .. k - 1
        BY <3>3
      <4> QED
        BY <2>1, <3>3, <3>8, <4>1, <4>2 DEF Path
    <3>10. c[k] = Append(s, p[k])
      BY <3>3, <3>4, <3>5, <3>6, <3>7, <3>9 DEF Longer
    <3>11. Along(k)
      <4>1. /\ Len(Append(s, p[k])) = k /\ Append(s, p[k])[k] = p[k]
            /\ \A i \in 1 .. k - 1 : Append(s, p[k])[i] = s[i]
        BY <3>3, <3>6
      <4>2. \A i \in 1 .. k : i = k \/ i \in 1 .. k - 1
        OBVIOUS
      <4> QED
        BY <3>3, <3>10, <4>1, <4>2
    <3> QED
      BY <3>2, <3>11
  <2> HIDE DEF G
  <2>5. n \in G
    <3>1. n \in Nat /\ n \in 0 .. n
      OBVIOUS
    <3>2. \A k \in 1 .. n : k - 1 \in G => k \in G
      BY <2>4
    <3>3. \A k \in 0 .. n : k \in G
      BY <2>3, <3>1, <3>2, CountUp, Zenon
    <3> QED
      BY <3>1, <3>3
  <2>6. Along(n)
    BY <2>5 DEF G
  <2>7. n \in 0 .. h /\ n \in 1 .. n
    OBVIOUS
  <2>8. n <= Len(c[h]) /\ c[h][n] = p[n]
    BY <2>6, <2>7, ChainPrefix
  <2> QED
    BY <2>1, <2>8 DEF Path
<1> QED
  BY <1>2, <1>3

(* So the two agree, for trees that are not walked further than chains.    *)
LEMMA ChartsOfTheTypeAgree == ASSUME ChartTyped PROVE A!ChartsAgree
<1> SUFFICES ASSUME NEW m \in Ids \ gone, NEW e \in Ids \ gone, NEW n \in 1 .. Depth
             PROVE  <<e, n>> \in A!Subordinates(m) <=>
                       n <= Len(A!ReportingChain(e)) /\ A!ReportingChain(e)[n] = m
  BY DEF A!ChartsAgree
<1>1. n \in 0 .. Depth /\ n \in 1 .. MaxHops /\ n # 0
  BY DeskAssumption
<1>2. <<e, n>> \in A!Subordinates(m) <=> <<e, n>> \in TreeOf(m, Depth)[Depth]
  <2>1. <<e, n>> # <<m, 0>>
    BY <1>1
  <2> QED
    BY <2>1, TreeUnfolds
<1>3. <<e, n>> \in TreeOf(m, Depth)[Depth] <=> Reaches(e, n, m)
  <2>1. IsTree(TreeOf(m, Depth), m, Depth)
    BY DeskAssumption, TreeExists
  <2> QED
    BY <1>1, <2>1, DeskAssumption, TreeReaches
<1>4. (n <= Len(A!ReportingChain(e)) /\ A!ReportingChain(e)[n] = m) <=> Reaches(e, n, m)
  <2>1. IsChain(ChainOf(e, MaxHops), e, MaxHops)
    BY DeskAssumption, ChainExists
  <2> QED
    BY <1>1, <2>1, DeskAssumption, ChainUnfolds, ChainReaches
<1> QED
  BY <1>2, <1>3, <1>4

LEMMA ChartStart == A!Init => ChartTyped
BY DEF A!Init, ChartTyped

LEMMA ChartKeeps == ASSUME ChartTyped, A!Next PROVE ChartTyped'
<1>1. ASSUME NEW e \in Ids, NEW m \in Ids, A!SetManager(e, m) PROVE ChartTyped'
  BY <1>1 DEF A!SetManager, ChartTyped
<1>2. ASSUME NEW e \in Ids, A!Remove(e) \/ A!Restore(e) PROVE ChartTyped'
  BY <1>2 DEF A!Remove, A!Restore, ChartTyped
<1>3. CASE UNCHANGED <<manager, gone>>
  BY <1>3 DEF ChartTyped
<1> QED
  BY <1>1, <1>2, <1>3 DEF A!Next, A!CreateCycle, A!CycleRead, A!CycleWrite, A!SubmitRead,
     A!RateeRead, A!Walk, A!Save

-----------------------------------------------------------------------------
(* CHAT.  A membership is revoked but never undone, and a room keeps its   *)
(* type, so what was checked of a room stays true while a message travels. *)

ChatRows == [type : C!Types \cup {"NONE"}, member : [Members -> {"no", "active", "revoked"}]]
ChatJobs == [op : {"idle", "direct", "department", "send", "store", "publish", "join", "revoke"},
             by : Members \cup {NoOne}, room : Rooms \cup {NoRoom}, who : SUBSET Members,
             message : Messages \cup {NoMessage}]

RoomsFine ==
    /\ room \in [Rooms -> ChatRows]
    /\ \A r \in Rooms : room[r].type = "NONE" => \A e \in Members : room[r].member[e] = "no"

Been(r, e) == r \in Rooms /\ e \in Members /\ room[r].member[e] # "no"
JobFine(j) ==
    /\ j.op \in {"send", "store", "publish", "join"} => Been(j.room, j.by)
    /\ IF j.op \in {"send", "store", "publish"} THEN j.message \in Messages
                                               ELSE j.message = NoMessage
    /\ j.op \in {"send", "store"} => posted[j.message] = C!NotPosted
    /\ j.op = "publish" => posted[j.message] = [room |-> j.room, by |-> j.by]
    /\ j.op \in {"direct", "department", "revoke"} => j.by \in Members
    /\ j.op = "direct" /\ j.room # NoRoom => room[j.room].type = "DIRECT"
    /\ j.op = "department" /\ j.room # NoRoom => room[j.room].type = "DEPARTMENT"
JobsFine ==
    /\ cjob \in [Workers -> ChatJobs]
    /\ \A w \in Workers : JobFine(cjob[w])
    /\ \A v, w \in Workers : v # w /\ cjob[v].message \in Messages => cjob[v].message # cjob[w].message

MailFine ==
    /\ posted \in [Messages -> [room : Rooms \cup {NoRoom}, by : Members \cup {NoOne}]]
    /\ wire \subseteq Messages
    /\ joined \in [Members -> SUBSET Rooms] /\ inbox \in [Members -> SUBSET Messages]
    /\ \A m \in Messages : posted[m] = C!NotPosted \/ Been(posted[m].room, posted[m].by)
    /\ \A m \in wire : posted[m] # C!NotPosted
    /\ \A e \in Members : /\ \A r \in joined[e] : Been(r, e)
                          /\ \A m \in inbox[e] : posted[m] # C!NotPosted /\ Been(posted[m].room, e)

ChatTyped == RoomsFine /\ JobsFine /\ MailFine

LEMMA ChatIdle ==
    /\ C!NoJob \in ChatJobs /\ C!NoJob.op = "idle" /\ C!NoJob.message = NoMessage
    /\ C!NoJob.by = NoOne /\ C!NoJob.room = NoRoom
BY DEF C!NoJob, ChatJobs

LEMMA ChatStart == C!Init => ChatTyped
<1> SUFFICES ASSUME C!Init PROVE ChatTyped
  OBVIOUS
<1>1. RoomsFine
  BY DEF C!Init, RoomsFine, ChatRows, C!NoRow, C!NoMembers
<1>2. \A w \in Workers : cjob[w] = C!NoJob
  BY DEF C!Init
<1>3. \A w \in Workers : cjob[w].op = "idle" /\ cjob[w].message = NoMessage
  BY <1>2, ChatIdle
<1>4. cjob \in [Workers -> ChatJobs]
  BY ChatIdle DEF C!Init
<1>5. JobsFine
  BY <1>3, <1>4, DeskAssumption DEF JobsFine, JobFine
<1>6. MailFine
  BY DEF C!Init, MailFine, C!NotPosted
<1> QED
  BY <1>1, <1>5, <1>6 DEF ChatTyped

(* What a step may do to rooms.                                            *)
RoomsGrow ==
    \A r \in Rooms : /\ room'[r].type = room[r].type \/ room[r].type = "NONE"
                     /\ \A e \in Members : room[r].member[e] # "no" => room'[r].member[e] # "no"

LEMMA MailGrows ==
    ASSUME MailFine, RoomsGrow, UNCHANGED <<posted, wire, joined, inbox>>
    PROVE  MailFine'
BY DEF MailFine, RoomsGrow, Been

LEMMA JobGrows ==
    ASSUME RoomsFine, RoomsGrow, UNCHANGED posted, NEW j \in ChatJobs, JobFine(j)
    PROVE  JobFine(j)'
<1>1. \A r \in Rooms, e \in Members : Been(r, e) => Been(r, e)'
  BY DEF RoomsGrow, Been
<1>2. j.room # NoRoom => j.room \in Rooms
  BY DEF ChatJobs
<1>3. j.room \in Rooms /\ room[j.room].type \in {"DIRECT", "DEPARTMENT"} =>
         room'[j.room].type = room[j.room].type
  BY DEF RoomsGrow
<1>4. Been(j.room, j.by) => Been(j.room, j.by)'
  BY <1>1 DEF Been
<1> QED
  BY <1>2, <1>3, <1>4 DEF JobFine

(* A request begins, having checked what it has in hand ...                *)
LEMMA ChatBegins ==
    ASSUME ChatTyped, NEW w \in Workers, NEW j \in ChatJobs, JobFine(j),
           cjob' = [cjob EXCEPT ![w] = j], UNCHANGED <<room, posted>>,
           j.message \in Messages => \A v \in Workers : cjob[v].message # j.message
    PROVE  JobsFine' /\ RoomsFine' /\ RoomsGrow
<1>1. RoomsGrow /\ RoomsFine'
  BY DEF RoomsGrow, ChatTyped, RoomsFine
<1>2. /\ cjob' \in [Workers -> ChatJobs] /\ cjob'[w] = j
      /\ \A v \in Workers \ {w} : cjob'[v] = cjob[v]
  BY DEF ChatTyped, JobsFine
<1>3. ASSUME NEW v \in Workers PROVE JobFine(cjob[v])'
  <2>1. cjob'[v] \in ChatJobs /\ JobFine(cjob'[v])
    BY <1>2 DEF ChatTyped, JobsFine
  <2> QED
    BY <2>1 DEF JobFine, Been
<1>4. \A u, v \in Workers : u # v /\ cjob'[u].message \in Messages => cjob'[u].message # cjob'[v].message
  BY <1>2 DEF ChatTyped, JobsFine
<1> QED
  BY <1>1, <1>2, <1>3, <1>4 DEF JobsFine

(* ... and ends.                                                           *)
LEMMA ChatEnds ==
    ASSUME ChatTyped, NEW w \in Workers, cjob' = [cjob EXCEPT ![w] = C!NoJob],
           UNCHANGED posted, RoomsGrow
    PROVE  JobsFine'
<1>2. /\ cjob' \in [Workers -> ChatJobs] /\ cjob'[w].op = "idle" /\ cjob'[w].message = NoMessage
      /\ \A v \in Workers \ {w} : cjob'[v] = cjob[v]
  BY ChatIdle DEF ChatTyped, JobsFine
<1>3. ASSUME NEW v \in Workers PROVE JobFine(cjob[v])'
  <2>1. CASE v = w
    BY <1>2, <2>1 DEF JobFine
  <2>2. CASE v # w
    <3>1. PICK j \in ChatJobs : j = cjob[v] /\ cjob'[v] = j /\ JobFine(j)
      BY <1>2, <2>2 DEF ChatTyped, JobsFine
    <3>2. JobFine(j)'
      BY <3>1, JobGrows DEF ChatTyped
    <3> QED
      BY <3>1, <3>2 DEF JobFine, Been
  <2> QED
    BY <2>1, <2>2
<1>4. \A u, v \in Workers : u # v /\ cjob'[u].message \in Messages => cjob'[u].message # cjob'[v].message
  BY <1>2, DeskAssumption DEF ChatTyped, JobsFine
<1> QED
  BY <1>2, <1>3, <1>4 DEF JobsFine

LEMMA ChatRests ==
    ASSUME ChatTyped, UNCHANGED <<cjob, posted>>, RoomsGrow
    PROVE  JobsFine'
<1>1. ASSUME NEW v \in Workers PROVE JobFine(cjob[v])'
  <2>1. PICK j \in ChatJobs : j = cjob[v] /\ cjob'[v] = j /\ JobFine(j)
    BY DEF ChatTyped, JobsFine
  <2>2. JobFine(j)'
    BY <2>1, JobGrows DEF ChatTyped
  <2> QED
    BY <2>1, <2>2 DEF JobFine, Been
<1> QED
  BY <1>1 DEF ChatTyped, JobsFine

LEMMA ChatReads ==
    ASSUME ChatTyped, NEW w \in Workers, NEW j \in ChatJobs, JobFine(j),
           C!Begin(w, j), C!Still, UNCHANGED room,
           j.message \in Messages => \A v \in Workers : cjob[v].message # j.message
    PROVE  ChatTyped'
<1>1. cjob' = [cjob EXCEPT ![w] = j] /\ UNCHANGED <<posted, wire, joined, inbox>>
  BY DEF C!Begin, C!Still
<1>2. JobsFine' /\ RoomsFine' /\ RoomsGrow
  BY <1>1, ChatBegins
<1>3. MailFine'
  BY <1>1, <1>2, MailGrows DEF ChatTyped
<1> QED
  BY <1>2, <1>3 DEF ChatTyped

LEMMA ChatDirectRead ==
    ASSUME ChatTyped, NEW w \in Workers, NEW e \in Members, NEW f \in Members, C!DirectRead(w, e, f)
    PROVE  ChatTyped'
<1>1. PICK r \in C!FirstOf(C!Between({e, f})) :
         C!Begin(w, [C!NoJob EXCEPT !.op = "direct", !.by = e, !.room = r, !.who = {e, f}])
  BY DEF C!DirectRead
<1>2. PICK j : j = [C!NoJob EXCEPT !.op = "direct", !.by = e, !.room = r, !.who = {e, f}]
  OBVIOUS
<1>3. r \in Rooms \cup {NoRoom} /\ (r # NoRoom => r \in Rooms /\ room[r].type = "DIRECT")
  BY <1>1 DEF C!FirstOf, C!Between, C!OfType
<1>4. /\ j \in ChatJobs /\ j.op = "direct" /\ j.by = e /\ j.room = r /\ j.message = NoMessage
  BY <1>2, <1>3 DEF C!NoJob, ChatJobs
<1>5. JobFine(j)
  BY <1>3, <1>4 DEF JobFine
<1> QED
  BY <1>1, <1>2, <1>4, <1>5, ChatReads, DeskAssumption DEF C!DirectRead, C!Quiet

LEMMA ChatDepartmentRead ==
    ASSUME ChatTyped, NEW w \in Workers, NEW e \in Members, C!DepartmentRead(w, e),
           active \subseteq Members
    PROVE  ChatTyped'
<1>1. PICK r \in C!FirstOf(C!OfType("DEPARTMENT")) :
         C!Begin(w, [C!NoJob EXCEPT !.op = "department", !.by = e, !.room = r,
                                    !.who = active \cup {e}])
  BY DEF C!DepartmentRead
<1>2. PICK j : j = [C!NoJob EXCEPT !.op = "department", !.by = e, !.room = r, !.who = active \cup {e}]
  OBVIOUS
<1>3. r \in Rooms \cup {NoRoom} /\ (r # NoRoom => r \in Rooms /\ room[r].type = "DEPARTMENT")
  BY <1>1 DEF C!FirstOf, C!OfType
<1>4. /\ j \in ChatJobs /\ j.op = "department" /\ j.by = e /\ j.room = r /\ j.message = NoMessage
  BY <1>2, <1>3 DEF C!NoJob, ChatJobs
<1>5. JobFine(j)
  BY <1>3, <1>4 DEF JobFine
<1> QED
  BY <1>1, <1>2, <1>4, <1>5, ChatReads, DeskAssumption DEF C!DepartmentRead, C!Quiet

LEMMA ChatSendCheck ==
    ASSUME ChatTyped, NEW w \in Workers, NEW e \in Members, NEW r \in Rooms,
           NEW op \in {"send", "store"}, C!SendCheck(w, e, r, op)
    PROVE  ChatTyped'
<1>1. PICK m \in Messages :
         /\ posted[m] = C!NotPosted /\ \A v \in Workers : cjob[v].message # m
         /\ C!Begin(w, [C!NoJob EXCEPT !.op = op, !.by = e, !.room = r, !.message = m])
  BY DEF C!SendCheck
<1>2. PICK j : j = [C!NoJob EXCEPT !.op = op, !.by = e, !.room = r, !.message = m]
  OBVIOUS
<1>3. Been(r, e)
  BY DEF C!SendCheck, C!Member, Been
<1>4. /\ j \in ChatJobs /\ j.op = op /\ j.by = e /\ j.room = r /\ j.message = m
  BY <1>2 DEF C!NoJob, ChatJobs
<1>5. JobFine(j)
  BY <1>1, <1>3, <1>4 DEF JobFine
<1> QED
  BY <1>1, <1>2, <1>4, <1>5, ChatReads, DeskAssumption DEF C!SendCheck, C!Quiet

LEMMA ChatJoinCheck ==
    ASSUME ChatTyped, NEW w \in Workers, NEW e \in Members, NEW r \in Rooms, C!JoinCheck(w, e, r)
    PROVE  ChatTyped'
<1>1. C!Begin(w, [C!NoJob EXCEPT !.op = "join", !.by = e, !.room = r])
  BY DEF C!JoinCheck
<1>2. PICK j : j = [C!NoJob EXCEPT !.op = "join", !.by = e, !.room = r]
  OBVIOUS
<1>3. Been(r, e)
  BY DEF C!JoinCheck, C!Member, Been
<1>4. /\ j \in ChatJobs /\ j.op = "join" /\ j.by = e /\ j.room = r /\ j.message = NoMessage
  BY <1>2 DEF C!NoJob, ChatJobs
<1>5. JobFine(j)
  BY <1>3, <1>4 DEF JobFine
<1> QED
  BY <1>1, <1>2, <1>4, <1>5, ChatReads, DeskAssumption DEF C!JoinCheck, C!Quiet

LEMMA ChatSuspend ==
    ASSUME ChatTyped, NEW w \in Workers, NEW e \in Members, C!Suspend(w, e)
    PROVE  ChatTyped'
<1>1. C!Begin(w, [C!NoJob EXCEPT !.op = "revoke", !.by = e])
  BY DEF C!Suspend
<1>2. PICK j : j = [C!NoJob EXCEPT !.op = "revoke", !.by = e]
  OBVIOUS
<1>4. /\ j \in ChatJobs /\ j.op = "revoke" /\ j.by = e /\ j.room = NoRoom /\ j.message = NoMessage
  BY <1>2 DEF C!NoJob, ChatJobs
<1>5. JobFine(j)
  BY <1>4 DEF JobFine
<1> QED
  BY <1>1, <1>2, <1>4, <1>5, ChatReads, DeskAssumption DEF C!Suspend, C!Quiet

(* What a room becomes when it is opened to some employees.                *)
Opened(r, type, who) ==
    room' = [room EXCEPT ![r] = [type |-> type, member |-> C!Admit(who, room[r].member)]]

LEMMA RoomOpens ==
    ASSUME RoomsFine, NEW r \in Rooms, NEW type \in C!Types, NEW who, Opened(r, type, who),
           room[r].type \in {"NONE", type}
    PROVE  /\ RoomsFine' /\ RoomsGrow
           /\ room'[r].type = type /\ \A s \in Rooms \ {r} : room'[s] = room[s]
           /\ \A e \in Members : room'[r].member[e] = IF e \in who THEN "active" ELSE room[r].member[e]
<1>1. PICK row : row = [type |-> type, member |-> C!Admit(who, room[r].member)]
  OBVIOUS
<1>2. room[r].member \in [Members -> {"no", "active", "revoked"}]
  BY DEF RoomsFine, ChatRows
<1>3. PICK a : a = C!Admit(who, room[r].member)
  OBVIOUS
<1>4. /\ a \in [Members -> {"no", "active", "revoked"}]
      /\ \A e \in Members : a[e] = IF e \in who THEN "active" ELSE room[r].member[e]
  BY <1>2, <1>3 DEF C!Admit
<1>5. row \in ChatRows /\ row.type = type /\ row.member = a
  BY <1>1, <1>3, <1>4 DEF ChatRows
<1>6. room' \in [Rooms -> ChatRows] /\ room'[r] = row /\ \A s \in Rooms \ {r} : room'[s] = room[s]
  BY <1>1, <1>5 DEF Opened, RoomsFine
<1>7. \A s \in Rooms : room'[s].type = "NONE" => \A e \in Members : room'[s].member[e] = "no"
  BY <1>5, <1>6 DEF RoomsFine, C!Types
<1>8. RoomsGrow
  BY <1>4, <1>5, <1>6 DEF RoomsGrow
<1> QED
  BY <1>4, <1>5, <1>6, <1>7, <1>8 DEF RoomsFine

LEMMA ChatOpens ==
    ASSUME ChatTyped, NEW w \in Workers, C!RoomWrite(w)
    PROVE  \E type \in C!Types, r \in Rooms :
             /\ \/ cjob[w].op = "direct" /\ type = "DIRECT"
                \/ cjob[w].op = "department" /\ type = "DEPARTMENT"
             /\ Opened(r, type, cjob[w].who)
             /\ IF cjob[w].room = NoRoom THEN room[r].type = "NONE"
                                         ELSE r = cjob[w].room /\ room[r].type = type
<1>1. PICK j \in ChatJobs : j = cjob[w] /\ JobFine(j)
  BY DEF ChatTyped, JobsFine
<1>2. PICK type \in C!Types :
         /\ \/ j.op = "direct" /\ type = "DIRECT"
            \/ j.op = "department" /\ type = "DEPARTMENT"
         /\ \E r \in IF j.room = NoRoom THEN {s \in Rooms : room[s].type = "NONE"} ELSE {j.room} :
               room' = [room EXCEPT ![r] = [type |-> type, member |-> C!Admit(j.who, room[r].member)]]
  <2>1. CASE j.op = "direct"
    BY <1>1, <2>1 DEF C!RoomWrite, C!OpenRoom, C!Types
  <2>2. CASE j.op = "department"
    BY <1>1, <2>2 DEF C!RoomWrite, C!OpenRoom, C!Types
  <2> QED
    BY <1>1, <2>1, <2>2 DEF C!RoomWrite
<1>3. PICK r \in IF j.room = NoRoom THEN {s \in Rooms : room[s].type = "NONE"} ELSE {j.room} :
         Opened(r, type, j.who)
  BY <1>2 DEF Opened
<1>4. j.room # NoRoom => j.room \in Rooms /\ room[j.room].type = type
  BY <1>1, <1>2 DEF JobFine, ChatJobs
<1>5. CASE j.room = NoRoom
  BY <1>1, <1>2, <1>3, <1>5
<1>6. CASE j.room # NoRoom
  <2>1. r = j.room
    BY <1>3, <1>6
  <2> QED
    BY <1>1, <1>2, <1>3, <1>4, <1>6, <2>1
<1> QED
  BY <1>5, <1>6

LEMMA ChatRoomWrite ==
    ASSUME ChatTyped, NEW w \in Workers, C!RoomWrite(w)
    PROVE  ChatTyped'
<1>1. PICK type \in C!Types, r \in Rooms : /\ Opened(r, type, cjob[w].who)
                                           /\ room[r].type \in {"NONE", type}
  BY ChatOpens
<1>2. RoomsFine' /\ RoomsGrow
  BY <1>1, RoomOpens DEF ChatTyped
<1>3. /\ cjob' = [cjob EXCEPT ![w] = C!NoJob]
      /\ UNCHANGED <<posted, wire, joined, inbox>>
  BY DEF C!RoomWrite, C!Done, C!Still
<1> QED
  BY <1>2, <1>3, MailGrows, ChatEnds DEF ChatTyped

LEMMA ChatGroupRoom ==
    ASSUME ChatTyped, NEW e \in Members, NEW who \in SUBSET Members, C!GroupRoom(e, who)
    PROVE  /\ ChatTyped' /\ RoomsGrow
           /\ \E r \in Rooms : /\ room[r].type = "NONE" /\ room'[r].type = "GROUP"
                               /\ \A s \in Rooms \ {r} : room'[s] = room[s]
<1>1. PICK r \in Rooms : /\ room[r].type = "NONE"
                         /\ room' = [room EXCEPT ![r] = [type |-> "GROUP",
                                                         member |-> C!Admit(who \cup {e}, C!NoMembers)]]
  BY DEF C!GroupRoom
<1>2. C!NoMembers = room[r].member
  <2>1. room[r].member \in [Members -> {"no", "active", "revoked"}] /\ \A f \in Members : room[r].member[f] = "no"
    BY <1>1 DEF ChatTyped, RoomsFine, ChatRows
  <2> QED
    BY <2>1 DEF C!NoMembers
<1>3. Opened(r, "GROUP", who \cup {e})
  BY <1>1, <1>2, Zenon DEF Opened
<1>4. /\ RoomsFine' /\ RoomsGrow /\ room'[r].type = "GROUP"
      /\ \A s \in Rooms \ {r} : room'[s] = room[s]
  BY <1>1, <1>3, RoomOpens DEF ChatTyped, C!Types
<1>5. UNCHANGED <<cjob, posted, wire, joined, inbox>>
  BY DEF C!GroupRoom, C!Quiet, C!Still
<1> QED
  BY <1>1, <1>4, <1>5, MailGrows, ChatRests DEF ChatTyped

LEMMA ChatSendStore ==
    ASSUME ChatTyped, NEW w \in Workers, C!SendStore(w)
    PROVE  ChatTyped'
<1>1. PICK j \in ChatJobs : j = cjob[w] /\ JobFine(j)
  BY DEF ChatTyped, JobsFine
<1>2. PICK row : row = [room |-> j.room, by |-> j.by]
  OBVIOUS
<1>3. /\ j.op \in {"send", "store"} /\ posted' = [posted EXCEPT ![j.message] = row]
      /\ IF j.op = "send" THEN cjob' = [cjob EXCEPT ![w] = C!NoJob]
                          ELSE cjob' = [cjob EXCEPT ![w].op = "publish"]
      /\ UNCHANGED <<active, room, wire, joined, inbox, insisted>>
  BY <1>1, <1>2 DEF C!SendStore, C!Done
<1>4. /\ Been(j.room, j.by) /\ j.message \in Messages /\ posted[j.message] = C!NotPosted
      /\ j.room \in Rooms /\ j.by \in Members
  BY <1>1, <1>3 DEF JobFine, Been
<1>5. /\ row \in [room : Rooms \cup {NoRoom}, by : Members \cup {NoOne}]
      /\ row.room = j.room /\ row.by = j.by /\ row # C!NotPosted
  BY <1>2, <1>4, DeskAssumption DEF C!NotPosted
<1>6. /\ posted' \in [Messages -> [room : Rooms \cup {NoRoom}, by : Members \cup {NoOne}]]
      /\ posted'[j.message] = row /\ \A m \in Messages \ {j.message} : posted'[m] = posted[m]
  BY <1>3, <1>4, <1>5 DEF ChatTyped, MailFine
<1>7. PICK k \in ChatJobs : /\ k.op \in {"idle", "publish"} /\ (k.op = "publish" => k = [j EXCEPT !.op = "publish"])
                            /\ k.message = (IF k.op = "idle" THEN NoMessage ELSE j.message)
                            /\ cjob' = [cjob EXCEPT ![w] = k]
  <2>1. CASE j.op = "send"
    BY <1>3, <2>1, ChatIdle
  <2>2. CASE j.op = "store"
    <3>1. PICK k : k = [j EXCEPT !.op = "publish"]
      OBVIOUS
    <3>2. k \in ChatJobs /\ k.op = "publish" /\ k.message = j.message
      BY <3>1 DEF ChatJobs
    <3>3. cjob' = [cjob EXCEPT ![w] = k]
      BY <1>1, <1>3, <2>2, <3>1
    <3> QED
      BY <3>1, <3>2, <3>3
  <2> QED
    BY <1>3, <2>1, <2>2
<1>8. /\ cjob' \in [Workers -> ChatJobs] /\ cjob'[w] = k
      /\ \A v \in Workers \ {w} : cjob'[v] = cjob[v]
  BY <1>7 DEF ChatTyped, JobsFine
<1>9. \A v \in Workers \ {w} : cjob[v].message # j.message
  BY <1>1, <1>4 DEF ChatTyped, JobsFine
<1>10. ASSUME NEW v \in Workers PROVE JobFine(cjob[v])'
  <2>1. CASE v = w
    <3>1. CASE k.op = "idle"
      BY <1>7, <1>8, <2>1, <3>1 DEF JobFine
    <3>2. CASE k.op = "publish"
      <4>1. k.room = j.room /\ k.by = j.by
        BY <1>7, <3>2 DEF ChatJobs
      <4>2. Been(k.room, k.by)'
        BY <1>3, <1>4, <4>1 DEF Been
      <4>3. posted'[k.message] = [room |-> k.room, by |-> k.by]
        BY <1>2, <1>6, <1>7, <3>2, <4>1
      <4> QED
        BY <1>4, <1>7, <1>8, <2>1, <3>2, <4>2, <4>3 DEF JobFine
    <3> QED
      BY <1>7, <3>1, <3>2
  <2>2. CASE v # w
    <3>1. PICK i \in ChatJobs : i = cjob[v] /\ cjob'[v] = i /\ JobFine(i) /\ i.message # j.message
      BY <1>8, <1>9, <2>2 DEF ChatTyped, JobsFine
    <3>2. i.op \in {"send", "store", "publish"} => i.message \in Messages /\ posted'[i.message] = posted[i.message]
      BY <1>6, <3>1 DEF JobFine
    <3>3. JobFine(i)'
      BY <1>3, <3>1, <3>2 DEF JobFine, Been
    <3> QED
      BY <3>1, <3>3 DEF JobFine, Been
  <2> QED
    BY <2>1, <2>2
<1>11. JobsFine'
  <2>1. ASSUME NEW u \in Workers, NEW v \in Workers, u # v, cjob'[u].message \in Messages
        PROVE  cjob'[u].message # cjob'[v].message
    BY <1>4, <1>7, <1>8, <1>9, <2>1, DeskAssumption DEF ChatTyped, JobsFine
  <2> QED
    BY <1>8, <1>10, <2>1 DEF JobsFine
<1>12. \A m \in Messages : posted[m] # C!NotPosted => m # j.message /\ posted'[m] = posted[m]
  BY <1>4, <1>6
<1>13. MailFine'
  <2>1. \A m \in Messages : posted'[m] = C!NotPosted \/ Been(posted[m].room, posted[m].by)'
    BY <1>3, <1>4, <1>5, <1>6 DEF ChatTyped, MailFine, Been
  <2>2. \A m \in wire' : posted'[m] # C!NotPosted
    BY <1>3, <1>12 DEF ChatTyped, MailFine
  <2>3. ASSUME NEW e \in Members
        PROVE  /\ \A r \in joined'[e] : Been(r, e)'
               /\ \A m \in inbox'[e] : posted'[m] # C!NotPosted /\ Been(posted[m].room, e)'
    BY <1>3, <1>12 DEF ChatTyped, MailFine, Been
  <2> QED
    BY <1>3, <1>6, <2>1, <2>2, <2>3 DEF ChatTyped, MailFine
<1> QED
  BY <1>3, <1>11, <1>13 DEF ChatTyped, RoomsFine

LEMMA ChatPublish ==
    ASSUME ChatTyped, NEW w \in Workers, C!Publish(w)
    PROVE  ChatTyped'
<1>1. PICK j \in ChatJobs : j = cjob[w] /\ JobFine(j)
  BY DEF ChatTyped, JobsFine
<1>2. /\ j.op = "publish" /\ wire' = wire \cup {j.message} /\ cjob' = [cjob EXCEPT ![w] = C!NoJob]
      /\ UNCHANGED <<active, room, posted, joined, inbox, insisted>>
  BY <1>1 DEF C!Publish, C!Done
<1>3. j.message \in Messages /\ posted[j.message] # C!NotPosted
  BY <1>1, <1>2, DeskAssumption DEF JobFine, Been, C!NotPosted
<1>4. RoomsGrow
  BY <1>2 DEF RoomsGrow
<1>5. MailFine'
  BY <1>2, <1>3 DEF ChatTyped, MailFine, Been
<1> QED
  BY <1>2, <1>4, <1>5, ChatEnds DEF ChatTyped, RoomsFine

LEMMA ChatDeliver ==
    ASSUME ChatTyped, NEW m \in Messages, C!Deliver(m)
    PROVE  ChatTyped'
<1>1. /\ m \in wire /\ wire' = wire \ {m}
      /\ inbox' = [e \in Members |-> IF posted[m].room \in joined[e] THEN inbox[e] \cup {m} ELSE inbox[e]]
      /\ UNCHANGED <<active, room, posted, joined, cjob, insisted>>
  BY DEF C!Deliver
<1>2. RoomsGrow
  BY <1>1 DEF RoomsGrow
<1>3. MailFine'
  <2>1. inbox' \in [Members -> SUBSET Messages]
    BY <1>1 DEF ChatTyped, MailFine
  <2>2. ASSUME NEW e \in Members, NEW n \in inbox'[e]
        PROVE  posted'[n] # C!NotPosted /\ Been(posted[n].room, e)'
    BY <1>1 DEF ChatTyped, MailFine, Been
  <2> QED
    BY <1>1, <2>1, <2>2 DEF ChatTyped, MailFine, Been
<1> QED
  BY <1>1, <1>2, <1>3, ChatRests DEF ChatTyped, RoomsFine

LEMMA ChatJoin ==
    ASSUME ChatTyped, NEW w \in Workers, C!Join(w)
    PROVE  ChatTyped'
<1>1. PICK j \in ChatJobs : j = cjob[w] /\ JobFine(j)
  BY DEF ChatTyped, JobsFine
<1>2. /\ j.op = "join" /\ joined' = [joined EXCEPT ![j.by] = @ \cup {j.room}]
      /\ cjob' = [cjob EXCEPT ![w] = C!NoJob]
      /\ UNCHANGED <<active, room, posted, wire, inbox, insisted>>
  BY <1>1 DEF C!Join, C!Done
<1>3. Been(j.room, j.by) /\ j.room \in Rooms /\ j.by \in Members
  BY <1>1, <1>2 DEF JobFine, Been
<1>4. RoomsGrow
  BY <1>2 DEF RoomsGrow
<1>5. MailFine'
  <2>1. joined' \in [Members -> SUBSET Rooms]
    BY <1>2, <1>3 DEF ChatTyped, MailFine
  <2>2. ASSUME NEW e \in Members, NEW r \in joined'[e] PROVE Been(r, e)'
    BY <1>2, <1>3 DEF ChatTyped, MailFine, Been
  <2> QED
    BY <1>2, <2>1, <2>2 DEF ChatTyped, MailFine, Been
<1> QED
  BY <1>2, <1>4, <1>5, ChatEnds DEF ChatTyped, RoomsFine

LEMMA ChatDisconnect ==
    ASSUME ChatTyped, NEW e \in Members, C!Disconnect(e)
    PROVE  ChatTyped'
<1>1. /\ joined' = [joined EXCEPT ![e] = {}]
      /\ UNCHANGED <<active, room, posted, wire, inbox, cjob, insisted>>
  BY DEF C!Disconnect
<1>2. RoomsGrow
  BY <1>1 DEF RoomsGrow
<1>3. MailFine'
  BY <1>1 DEF ChatTyped, MailFine, Been
<1> QED
  BY <1>1, <1>2, <1>3, ChatRests DEF ChatTyped, RoomsFine

LEMMA ChatRevoke ==
    ASSUME ChatTyped, NEW w \in Workers, C!Revoke(w)
    PROVE  /\ ChatTyped' /\ RoomsGrow
           /\ \A r \in Rooms : /\ room'[r].type = room[r].type
                               /\ \A e \in Members :
                                     room'[r].member[e] =
                                        IF e = cjob[w].by /\ room[r].member[e] = "active" THEN "revoked"
                                        ELSE room[r].member[e]
<1>1. PICK e \in Members : e = cjob[w].by
  BY DEF ChatTyped, JobsFine, JobFine, C!Revoke
<1>2. room' = [r \in Rooms |-> IF room[r].member[e] = "active" THEN [room[r] EXCEPT !.member[e] = "revoked"]
                                                               ELSE room[r]]
  BY <1>1 DEF C!Revoke, C!Member
<1>3. ASSUME NEW r \in Rooms
      PROVE  /\ room'[r] \in ChatRows /\ room'[r].type = room[r].type
             /\ \A f \in Members : room'[r].member[f] =
                   IF f = e /\ room[r].member[f] = "active" THEN "revoked" ELSE room[r].member[f]
  <2>1. room[r] \in ChatRows
    BY DEF ChatTyped, RoomsFine
  <2>2. PICK row : row = [room[r] EXCEPT !.member[e] = "revoked"]
    OBVIOUS
  <2>3. row \in ChatRows /\ row.type = room[r].type /\ row.member = [room[r].member EXCEPT ![e] = "revoked"]
    BY <2>1, <2>2 DEF ChatRows
  <2>4. room'[r] = IF room[r].member[e] = "active" THEN row ELSE room[r]
    BY <1>2, <2>2
  <2> QED
    BY <2>1, <2>3, <2>4 DEF ChatRows
<1>4. RoomsGrow
  BY <1>3 DEF RoomsGrow
<1>5. RoomsFine'
  <2>1. room' \in [Rooms -> ChatRows]
    BY <1>2, <1>3
  <2> QED
    BY <1>3, <2>1 DEF ChatTyped, RoomsFine
<1>6. /\ cjob' = [cjob EXCEPT ![w] = C!NoJob]
      /\ UNCHANGED <<posted, wire, joined, inbox>>
  BY DEF C!Revoke, C!Done, C!Still
<1> QED
  BY <1>1, <1>3, <1>4, <1>5, <1>6, MailGrows, ChatEnds DEF ChatTyped

LEMMA ChatFail ==
    ASSUME ChatTyped, NEW w \in Workers, C!Fail(w)
    PROVE  ChatTyped'
<1>1. /\ cjob' = [cjob EXCEPT ![w] = C!NoJob]
      /\ UNCHANGED <<posted, wire, joined, inbox, room>>
  BY DEF C!Fail, C!Done, C!Quiet, C!Still
<1>2. RoomsGrow
  BY <1>1 DEF RoomsGrow
<1> QED
  BY <1>1, <1>2, MailGrows, ChatEnds DEF ChatTyped, RoomsFine

LEMMA ChatReinstate ==
    ASSUME ChatTyped, NEW e \in Members, C!Reinstate(e)
    PROVE  ChatTyped'
<1>1. UNCHANGED <<cjob, posted, wire, joined, inbox, room>>
  BY DEF C!Reinstate, C!Quiet, C!Still
<1>2. RoomsGrow
  BY <1>1 DEF RoomsGrow
<1> QED
  BY <1>1, <1>2, MailGrows, ChatRests DEF ChatTyped, RoomsFine

LEMMA ChatKeeps ==
    ASSUME ChatTyped, active \subseteq Members, C!Next
    PROVE  ChatTyped' /\ active' \subseteq Members
<1>1. ASSUME NEW w \in Workers, NEW e \in Members,
             \/ C!DepartmentRead(w, e) \/ C!Suspend(w, e)
             \/ \E f \in Members : C!DirectRead(w, e, f)
             \/ \E r \in Rooms : C!JoinCheck(w, e, r) \/ \E op \in {"send", "store"} : C!SendCheck(w, e, r, op)
      PROVE  ChatTyped' /\ active' \subseteq Members
  <2>1. ChatTyped'
    BY <1>1, ChatDepartmentRead, ChatSuspend, ChatDirectRead, ChatJoinCheck, ChatSendCheck, Zenon
  <2>2. active' = active \/ active' = active \ {e}
    BY <1>1 DEF C!DepartmentRead, C!Suspend, C!DirectRead, C!JoinCheck, C!SendCheck
  <2> QED
    BY <2>1, <2>2
<1>2. ASSUME NEW e \in Members, NEW who \in SUBSET Members, C!GroupRoom(e, who)
      PROVE  ChatTyped' /\ active' \subseteq Members
  BY <1>2, ChatGroupRoom DEF C!GroupRoom
<1>3. ASSUME NEW w \in Workers, \/ C!RoomWrite(w) \/ C!SendStore(w) \/ C!Publish(w)
                                \/ C!Join(w) \/ C!Revoke(w) \/ C!Fail(w)
      PROVE  ChatTyped' /\ active' \subseteq Members
  <2>1. ChatTyped'
    BY <1>3, ChatRoomWrite, ChatSendStore, ChatPublish, ChatJoin, ChatRevoke, ChatFail, Zenon
  <2>2. active' = active
    BY <1>3 DEF C!RoomWrite, C!SendStore, C!Publish, C!Join, C!Revoke, C!Fail
  <2> QED
    BY <2>1, <2>2
<1>4. ASSUME NEW e \in Members, C!Disconnect(e) \/ C!Reinstate(e)
      PROVE  ChatTyped' /\ active' \subseteq Members
  BY <1>4, ChatDisconnect, ChatReinstate DEF C!Disconnect, C!Reinstate
<1>5. ASSUME NEW m \in Messages, C!Deliver(m)
      PROVE  ChatTyped' /\ active' \subseteq Members
  BY <1>5, ChatDeliver DEF C!Deliver
<1> QED
  BY <1>1, <1>2, <1>3, <1>4, <1>5, Zenon DEF C!Next

-----------------------------------------------------------------------------
(* While no two requests that open or close rooms meet, what one has found *)
(* is the only room there is for those it asked for; and whoever is not    *)
(* active, and has not had the department's room opened, is out of it, or  *)
(* about to be.                                                            *)
InRoom(r) == {e \in Members : room[r].member[e] # "no"}
OneOfEach ==
    /\ \A r, s \in Rooms : /\ room[r].type = "DIRECT" /\ room[s].type = "DIRECT"
                           /\ InRoom(r) = InRoom(s)
                           => r = s
    /\ \A r, s \in Rooms : room[r].type = "DEPARTMENT" /\ room[s].type = "DEPARTMENT" => r = s
FoundOnly(j) ==
    /\ j.op = "direct" =>
          /\ \A r \in Rooms : room[r].type = "DIRECT" /\ InRoom(r) = j.who => r = j.room
          /\ j.room # NoRoom => InRoom(j.room) = j.who
    /\ j.op = "department" =>
          /\ \A r \in Rooms : room[r].type = "DEPARTMENT" => r = j.room
          /\ j.who \subseteq active \cup {j.by}
ChatAlone == ~C!Overlap /\ OneOfEach /\ \A w \in Workers : FoundOnly(cjob[w])

Leaving(e) == \E w \in Workers : cjob[w].op = "revoke" /\ cjob[w].by = e
OutOrLeaving ==
    \A r \in Rooms, e \in Members \ (active \cup insisted) :
        room[r].type = "DEPARTMENT" /\ room[r].member[e] = "active" => Leaving(e)

LEMMA ChatAloneStarts == C!Init => ChatAlone /\ OutOrLeaving
<1> SUFFICES ASSUME C!Init PROVE ChatAlone /\ OutOrLeaving
  OBVIOUS
<1>1. \A w \in Workers : cjob[w].op = "idle"
  BY ChatIdle DEF C!Init
<1>2. \A r \in Rooms : room[r].type = "NONE"
  BY DEF C!Init, C!NoRow
<1> QED
  BY <1>1, <1>2 DEF ChatAlone, OneOfEach, FoundOnly, OutOrLeaving, C!Overlap, C!Opening

(* Most steps leave what matters of a room alone.                          *)
SameRooms ==
    \A r \in Rooms :
        /\ room'[r].type = "DIRECT" <=> room[r].type = "DIRECT"
        /\ room'[r].type = "DEPARTMENT" <=> room[r].type = "DEPARTMENT"
        /\ room[r].type = "DIRECT" =>
              \A e \in Members : room'[r].member[e] = "no" <=> room[r].member[e] = "no"

LEMMA InSameRoom ==
    ASSUME SameRooms, NEW r \in Rooms, room[r].type = "DIRECT" PROVE InRoom(r)' = InRoom(r)
BY DEF SameRooms, InRoom

LEMMA SameRoomsAreOne == ASSUME SameRooms, OneOfEach PROVE OneOfEach'
BY InSameRoom DEF SameRooms, OneOfEach

LEMMA StillFound ==
    ASSUME SameRooms, NEW j \in ChatJobs, JobFine(j), FoundOnly(j),
           j.op = "department" => active \subseteq active'
    PROVE  FoundOnly(j)'
<1>1. CASE j.op = "direct"
  <2>1. j.room # NoRoom => j.room \in Rooms /\ room[j.room].type = "DIRECT" /\ InRoom(j.room) = j.who
    BY <1>1 DEF JobFine, ChatJobs, FoundOnly
  <2>2. j.room # NoRoom => InRoom(j.room)' = j.who
    BY <2>1, InSameRoom
  <2>3. \A r \in Rooms : room'[r].type = "DIRECT" /\ InRoom(r)' = j.who => r = j.room
    BY <1>1, InSameRoom DEF SameRooms, FoundOnly
  <2> QED
    BY <1>1, <2>2, <2>3 DEF FoundOnly, InRoom
<1>2. CASE j.op = "department"
  BY <1>2 DEF FoundOnly, SameRooms
<1> QED
  BY <1>1, <1>2 DEF FoundOnly

LEMMA ChatAloneStays ==
    ASSUME ChatTyped, ChatAlone, ~C!Overlap', SameRooms,
           \A w \in Workers : \/ cjob'[w] = cjob[w] /\ (cjob[w].op = "department" => active \subseteq active')
                              \/ cjob'[w].op \notin {"direct", "department"}
                              \/ FoundOnly(cjob[w])'
    PROVE  ChatAlone'
<1>1. OneOfEach'
  BY SameRoomsAreOne DEF ChatAlone
<1>2. ASSUME NEW w \in Workers PROVE FoundOnly(cjob[w])'
  <2>1. CASE cjob'[w] = cjob[w] /\ (cjob[w].op = "department" => active \subseteq active')
    <3>1. PICK j \in ChatJobs : j = cjob[w] /\ cjob'[w] = j /\ JobFine(j) /\ FoundOnly(j)
      BY <2>1 DEF ChatTyped, JobsFine, ChatAlone
    <3>2. FoundOnly(j)'
      BY <2>1, <3>1, StillFound
    <3> QED
      BY <3>1, <3>2 DEF FoundOnly, InRoom
  <2>2. CASE cjob'[w].op \notin {"direct", "department"}
    BY <2>2 DEF FoundOnly
  <2> QED
    BY <2>1, <2>2
<1> QED
  BY <1>1, <1>2 DEF ChatAlone

LEMMA FindsOnly ==
    ASSUME ChatTyped, OneOfEach, active \subseteq Members, UNCHANGED <<room, active>>,
           NEW w \in Workers, NEW e \in Members,
           C!DepartmentRead(w, e) \/ \E f \in Members : C!DirectRead(w, e, f)
    PROVE  FoundOnly(cjob[w])'
<1>1. CASE C!DepartmentRead(w, e)
  <2>1. PICK r \in C!FirstOf(C!OfType("DEPARTMENT")) :
           cjob' = [cjob EXCEPT ![w] = [C!NoJob EXCEPT !.op = "department", !.by = e, !.room = r,
                                                       !.who = active \cup {e}]]
    BY <1>1 DEF C!DepartmentRead, C!Begin
  <2>2. PICK j : j = [C!NoJob EXCEPT !.op = "department", !.by = e, !.room = r, !.who = active \cup {e}]
    OBVIOUS
  <2>3. j.op = "department" /\ j.by = e /\ j.room = r /\ j.who = active \cup {e}
    BY <2>2 DEF C!NoJob
  <2>4. cjob'[w] = j
    BY <2>1, <2>2 DEF ChatTyped, JobsFine
  <2>5. \A s \in Rooms : room[s].type = "DEPARTMENT" => s = r
    BY <2>1 DEF OneOfEach, C!FirstOf, C!OfType
  <2> QED
    BY <2>3, <2>4, <2>5 DEF FoundOnly
<1>2. ASSUME NEW f \in Members, C!DirectRead(w, e, f) PROVE FoundOnly(cjob[w])'
  <2>1. PICK r \in C!FirstOf(C!Between({e, f})) :
           cjob' = [cjob EXCEPT ![w] = [C!NoJob EXCEPT !.op = "direct", !.by = e, !.room = r,
                                                       !.who = {e, f}]]
    BY <1>2 DEF C!DirectRead, C!Begin
  <2>2. PICK j : j = [C!NoJob EXCEPT !.op = "direct", !.by = e, !.room = r, !.who = {e, f}]
    OBVIOUS
  <2>3. j.op = "direct" /\ j.by = e /\ j.room = r /\ j.who = {e, f}
    BY <2>2 DEF C!NoJob
  <2>4. cjob'[w] = j
    BY <2>1, <2>2 DEF ChatTyped, JobsFine
  <2>5. C!Between({e, f}) = {s \in Rooms : room[s].type = "DIRECT" /\ InRoom(s) = {e, f}}
    BY DEF C!Between, C!OfType, InRoom
  <2>6. IF C!Between({e, f}) = {} THEN r = NoRoom ELSE r \in C!Between({e, f})
    BY <2>1 DEF C!FirstOf
  <2>7. \A s \in Rooms : room[s].type = "DIRECT" /\ InRoom(s) = {e, f} => s = r
    BY <2>5, <2>6 DEF OneOfEach
  <2>8. r # NoRoom => InRoom(r) = {e, f}
    BY <2>5, <2>6
  <2>9. \A s : InRoom(s)' = InRoom(s)
    BY DEF InRoom
  <2> QED
    BY <2>3, <2>4, <2>7, <2>8, <2>9 DEF FoundOnly
<1> QED
  BY <1>1, <1>2

LEMMA WritesOnly ==
    ASSUME ChatTyped, ChatAlone, ~C!Overlap', NEW w \in Workers, C!RoomWrite(w)
    PROVE  ChatAlone'
<1>1. PICK type \in C!Types, r \in Rooms :
         /\ \/ cjob[w].op = "direct" /\ type = "DIRECT"
            \/ cjob[w].op = "department" /\ type = "DEPARTMENT"
         /\ Opened(r, type, cjob[w].who)
         /\ IF cjob[w].room = NoRoom THEN room[r].type = "NONE"
                                     ELSE r = cjob[w].room /\ room[r].type = type
  BY ChatOpens
<1>2. PICK j \in ChatJobs : j = cjob[w] /\ JobFine(j) /\ FoundOnly(j)
  BY DEF ChatTyped, JobsFine, ChatAlone
<1>3. /\ room'[r].type = type /\ \A s \in Rooms \ {r} : room'[s] = room[s]
      /\ \A e \in Members : room'[r].member[e] = IF e \in j.who THEN "active" ELSE room[r].member[e]
  BY <1>1, <1>2, RoomOpens DEF ChatTyped
<1>4. \A s \in Rooms \ {r} : InRoom(s)' = InRoom(s)
  BY <1>3 DEF InRoom
<1>5. j.who \subseteq Members
  BY <1>2 DEF ChatJobs
<1>6. OneOfEach'
  <2>1. CASE type = "DIRECT"
    <3>1. InRoom(r)' = j.who
      <4>1. CASE j.room = NoRoom
        <5>1. \A e \in Members : room[r].member[e] = "no"
          BY <1>1, <1>2, <4>1 DEF ChatTyped, RoomsFine
        <5> QED
          BY <1>3, <1>5, <5>1 DEF InRoom
      <4>2. CASE j.room # NoRoom
        <5>1. InRoom(r) = j.who
          BY <1>1, <1>2, <2>1, <4>2 DEF FoundOnly
        <5>2. \A e \in Members : room[r].member[e] # "no" <=> e \in j.who
          BY <5>1 DEF InRoom
        <5> QED
          BY <1>3, <1>5, <5>2 DEF InRoom
      <4> QED
        BY <4>1, <4>2
    <3>2. \A s \in Rooms : room[s].type = "DIRECT" /\ InRoom(s) = j.who => s = j.room
      BY <1>1, <1>2, <2>1 DEF FoundOnly
    <3>3. \A s \in Rooms \ {r} : room[s].type = "DIRECT" => InRoom(s) # j.who
      BY <1>1, <1>2, <3>2, DeskAssumption
    <3>4. \A s \in Rooms \ {r} : room'[s].type = "DIRECT" => InRoom(s)' # InRoom(r)'
      BY <1>3, <1>4, <3>1, <3>3
    <3>5. \A s, t \in Rooms \ {r} : room'[s].type = "DIRECT" /\ room'[t].type = "DIRECT"
                                       /\ InRoom(s)' = InRoom(t)' => s = t
      BY <1>3, <1>4 DEF ChatAlone, OneOfEach
    <3>6. \A s, t \in Rooms : room'[s].type = "DEPARTMENT" /\ room'[t].type = "DEPARTMENT" => s = t
      BY <1>3, <2>1 DEF ChatAlone, OneOfEach
    <3> QED
      BY <3>4, <3>5, <3>6 DEF OneOfEach
  <2>2. CASE type = "DEPARTMENT"
    <3>1. \A s \in Rooms : room[s].type = "DEPARTMENT" => s = j.room
      BY <1>1, <1>2, <2>2 DEF FoundOnly
    <3>2. \A s \in Rooms \ {r} : room'[s].type # "DEPARTMENT"
      BY <1>1, <1>2, <1>3, <3>1, DeskAssumption
    <3>3. \A s, t \in Rooms : room'[s].type = "DIRECT" /\ room'[t].type = "DIRECT"
                                 /\ InRoom(s)' = InRoom(t)' => s = t
      BY <1>3, <1>4, <2>2 DEF ChatAlone, OneOfEach
    <3> QED
      BY <3>2, <3>3 DEF OneOfEach
  <2> QED
    BY <1>1, <2>1, <2>2
<1>7. ASSUME NEW v \in Workers PROVE FoundOnly(cjob[v])'
  <2>1. cjob' = [cjob EXCEPT ![w] = C!NoJob]
    BY DEF C!RoomWrite, C!Done
  <2>2. cjob'[v].op \notin {"direct", "department"}
    BY <1>1, <2>1, ChatIdle DEF ChatTyped, JobsFine, ChatAlone, C!Overlap, C!Opening
  <2> QED
    BY <2>2 DEF FoundOnly
<1> QED
  BY <1>6, <1>7 DEF ChatAlone

LEMMA ChatAloneKeeps ==
    ASSUME ChatTyped, active \subseteq Members, ChatAlone, C!Next, ~C!Overlap'
    PROVE  ChatAlone'
<1> DEFINE Others(w) == \A v \in Workers \ {w} : cjob'[v] = cjob[v]
<1>1. UNCHANGED room => SameRooms
  BY DEF SameRooms
<1>2. \A w \in Workers : \A j : C!Begin(w, j) => Others(w) /\ cjob'[w] = j
  BY DEF C!Begin, ChatTyped, JobsFine
<1>3. \A w \in Workers : C!Done(w) => Others(w) /\ cjob'[w].op = "idle"
  BY ChatIdle DEF C!Done, ChatTyped, JobsFine
<1>4. ASSUME NEW w \in Workers, NEW e \in Members,
             C!DepartmentRead(w, e) \/ \E f \in Members : C!DirectRead(w, e, f)
      PROVE  ChatAlone'
  <2>1. UNCHANGED <<room, active>> /\ Others(w)
    BY <1>2, <1>4 DEF C!DepartmentRead, C!DirectRead
  <2>2. FoundOnly(cjob[w])'
    BY <1>4, <2>1, FindsOnly DEF ChatAlone
  <2> QED
    BY <1>1, <2>1, <2>2, ChatAloneStays
<1>5. ASSUME NEW w \in Workers, NEW e \in Members, C!Suspend(w, e)
      PROVE  ChatAlone'
  <2>1. PICK j : j = [C!NoJob EXCEPT !.op = "revoke", !.by = e] /\ C!Begin(w, j)
    BY <1>5 DEF C!Suspend
  <2>2. j.op = "revoke"
    BY <2>1 DEF C!NoJob
  <2>3. UNCHANGED room /\ Others(w) /\ cjob'[w].op = "revoke"
    BY <1>2, <1>5, <2>1, <2>2 DEF C!Suspend
  <2>4. \A v \in Workers \ {w} : cjob[v].op # "department"
    BY <2>3 DEF C!Overlap, C!Opening
  <2> QED
    BY <1>1, <2>3, <2>4, ChatAloneStays
<1>6. ASSUME NEW w \in Workers, NEW e \in Members, NEW r \in Rooms,
             C!JoinCheck(w, e, r) \/ \E op \in {"send", "store"} : C!SendCheck(w, e, r, op)
      PROVE  ChatAlone'
  <2>1. Others(w) /\ cjob'[w].op \notin {"direct", "department"}
    <3>1. CASE C!JoinCheck(w, e, r)
      <4>1. PICK j : j = [C!NoJob EXCEPT !.op = "join", !.by = e, !.room = r] /\ C!Begin(w, j)
        BY <3>1 DEF C!JoinCheck
      <4>2. j.op = "join"
        BY <4>1 DEF C!NoJob
      <4> QED
        BY <1>2, <4>1, <4>2
    <3>2. ASSUME NEW op \in {"send", "store"}, C!SendCheck(w, e, r, op)
          PROVE  Others(w) /\ cjob'[w].op \notin {"direct", "department"}
      <4>1. PICK m, j : /\ j = [C!NoJob EXCEPT !.op = op, !.by = e, !.room = r, !.message = m]
                        /\ C!Begin(w, j)
        BY <3>2 DEF C!SendCheck
      <4>2. j.op = op
        BY <4>1 DEF C!NoJob
      <4> QED
        BY <1>2, <4>1, <4>2
    <3> QED
      BY <1>6, <3>1, <3>2
  <2>2. UNCHANGED <<room, active>>
    BY <1>6 DEF C!JoinCheck, C!SendCheck
  <2> QED
    BY <1>1, <2>1, <2>2, ChatAloneStays
<1>7. ASSUME NEW e \in Members, NEW who \in SUBSET Members, C!GroupRoom(e, who) PROVE ChatAlone'
  <2>1. PICK r \in Rooms : /\ room[r].type = "NONE" /\ room'[r].type = "GROUP"
                           /\ \A s \in Rooms \ {r} : room'[s] = room[s]
    BY <1>7, ChatGroupRoom
  <2>2. SameRooms
    BY <2>1 DEF SameRooms
  <2>3. UNCHANGED <<cjob, active>>
    BY <1>7 DEF C!GroupRoom
  <2> QED
    BY <2>2, <2>3, ChatAloneStays
<1>8. ASSUME NEW w \in Workers, C!SendStore(w) PROVE ChatAlone'
  <2>1. /\ UNCHANGED <<room, active>> /\ cjob[w] \in ChatJobs
        /\ C!Done(w) \/ cjob' = [cjob EXCEPT ![w].op = "publish"]
    BY <1>8 DEF C!SendStore, ChatTyped, JobsFine
  <2>2. Others(w) /\ cjob'[w].op \notin {"direct", "department"}
    BY <1>3, <2>1 DEF ChatTyped, JobsFine, ChatJobs
  <2> QED
    BY <1>1, <2>1, <2>2, ChatAloneStays
<1>9. ASSUME NEW w \in Workers, C!Publish(w) \/ C!Join(w) \/ C!Fail(w) PROVE ChatAlone'
  <2>1. UNCHANGED <<room, active>> /\ C!Done(w)
    BY <1>9 DEF C!Publish, C!Join, C!Fail
  <2> QED
    BY <1>1, <1>3, <2>1, ChatAloneStays
<1>10. ASSUME NEW w \in Workers, C!Revoke(w) PROVE ChatAlone'
  <2>1. SameRooms
    BY <1>10, ChatRevoke DEF SameRooms
  <2>2. active' = active /\ C!Done(w)
    BY <1>10 DEF C!Revoke
  <2> QED
    BY <1>3, <2>1, <2>2, ChatAloneStays
<1>11. ASSUME NEW w \in Workers, C!RoomWrite(w) PROVE ChatAlone'
  BY <1>11, WritesOnly
<1>12. ASSUME NEW e \in Members, C!Disconnect(e) \/ C!Reinstate(e) PROVE ChatAlone'
  <2>1. active \subseteq active' /\ UNCHANGED <<room, cjob>>
    BY <1>12 DEF C!Disconnect, C!Reinstate
  <2> QED
    BY <1>1, <2>1, ChatAloneStays
<1>13. ASSUME NEW m \in Messages, C!Deliver(m) PROVE ChatAlone'
  <2>1. UNCHANGED <<room, cjob, active>>
    BY <1>13 DEF C!Deliver
  <2> QED
    BY <1>1, <2>1, ChatAloneStays
<1> QED
  BY <1>4, <1>5, <1>6, <1>7, <1>8, <1>9, <1>10, <1>11, <1>12, <1>13, Zenon DEF C!Next

LEMMA OutStays ==
    ASSUME OutOrLeaving, NEW w \in Workers, UNCHANGED insisted, active \subseteq active',
           \A v \in Workers \ {w} : cjob'[v] = cjob[v], cjob[w].op # "revoke",
           \A r \in Rooms : room'[r].type = "DEPARTMENT" =>
               room[r].type = "DEPARTMENT" /\ room'[r].member = room[r].member
    PROVE  OutOrLeaving'
<1> SUFFICES ASSUME NEW r \in Rooms, NEW e \in Members \ (active' \cup insisted'),
                    room'[r].type = "DEPARTMENT", room'[r].member[e] = "active"
             PROVE  Leaving(e)'
  BY DEF OutOrLeaving
<1>1. PICK v \in Workers : cjob[v].op = "revoke" /\ cjob[v].by = e
  BY DEF OutOrLeaving, Leaving
<1> QED
  BY <1>1 DEF Leaving

LEMMA OutWhenAsked ==
    ASSUME ChatTyped, OutOrLeaving, NEW w \in Workers, NEW j, C!Begin(w, j), UNCHANGED <<room, insisted>>,
           \/ active' = active
           \/ \E e \in Members : j.op = "revoke" /\ j.by = e /\ active' = active \ {e}
    PROVE  OutOrLeaving'
<1>1. cjob'[w] = j /\ cjob[w].op = "idle" /\ \A v \in Workers \ {w} : cjob'[v] = cjob[v]
  BY ChatIdle DEF C!Begin, ChatTyped, JobsFine
<1> SUFFICES ASSUME NEW r \in Rooms, NEW e \in Members \ (active' \cup insisted'),
                    room[r].type = "DEPARTMENT", room[r].member[e] = "active"
             PROVE  Leaving(e)'
  BY DEF OutOrLeaving
<1>2. CASE e \in active
  BY <1>1, <1>2 DEF Leaving
<1>3. CASE e \notin active
  <2>1. PICK v \in Workers : cjob[v].op = "revoke" /\ cjob[v].by = e
    BY <1>3 DEF OutOrLeaving, Leaving
  <2> QED
    BY <1>1, <2>1 DEF Leaving
<1> QED
  BY <1>2, <1>3

LEMMA OutWhenOpened ==
    ASSUME ChatTyped, ChatAlone, OutOrLeaving, NEW w \in Workers, C!RoomWrite(w)
    PROVE  OutOrLeaving'
<1>1. PICK type \in C!Types, r \in Rooms :
         /\ \/ cjob[w].op = "direct" /\ type = "DIRECT"
            \/ cjob[w].op = "department" /\ type = "DEPARTMENT"
         /\ Opened(r, type, cjob[w].who)
         /\ IF cjob[w].room = NoRoom THEN room[r].type = "NONE"
                                     ELSE r = cjob[w].room /\ room[r].type = type
  BY ChatOpens
<1>2. PICK j \in ChatJobs : j = cjob[w] /\ FoundOnly(j)
  BY DEF ChatTyped, JobsFine, ChatAlone
<1>3. /\ room'[r].type = type /\ \A s \in Rooms \ {r} : room'[s] = room[s]
      /\ \A e \in Members : room'[r].member[e] = IF e \in j.who THEN "active" ELSE room[r].member[e]
  BY <1>1, <1>2, RoomOpens DEF ChatTyped
<1>4. /\ active' = active /\ insisted \subseteq insisted' /\ \A v \in Workers \ {w} : cjob'[v] = cjob[v]
      /\ cjob[w].op # "revoke" /\ (j.op = "department" => insisted' = insisted \cup ({j.by} \ active))
  BY <1>1, <1>2 DEF C!RoomWrite, C!Done, ChatTyped, JobsFine
<1> SUFFICES ASSUME NEW s \in Rooms, NEW e \in Members \ (active' \cup insisted'),
                    room'[s].type = "DEPARTMENT", room'[s].member[e] = "active"
             PROVE  Leaving(e)'
  BY DEF OutOrLeaving
<1>5. room[s].type = "DEPARTMENT" /\ room[s].member[e] = "active"
  <2>1. CASE s # r
    BY <1>3, <2>1
  <2>2. CASE s = r
    <3>1. j.op = "department" /\ type = "DEPARTMENT"
      BY <1>1, <1>2, <1>3, <2>2
    <3>2. e \notin j.who
      BY <1>2, <1>4, <3>1 DEF FoundOnly
    <3>3. room[r].member[e] = "active"
      BY <1>3, <2>2, <3>2
    <3> QED
      BY <1>1, <2>2, <3>1, <3>3 DEF ChatTyped, RoomsFine
  <2> QED
    BY <2>1, <2>2
<1>6. PICK v \in Workers : cjob[v].op = "revoke" /\ cjob[v].by = e
  BY <1>4, <1>5 DEF OutOrLeaving, Leaving
<1> QED
  BY <1>4, <1>6 DEF Leaving

LEMMA OutWhenRevoked ==
    ASSUME ChatTyped, OutOrLeaving, NEW w \in Workers, C!Revoke(w)
    PROVE  OutOrLeaving'
<1>1. PICK f \in Members : f = cjob[w].by
  BY DEF ChatTyped, JobsFine, JobFine, C!Revoke
<1>2. \A r \in Rooms : /\ room'[r].type = room[r].type
                       /\ \A e \in Members : room'[r].member[e] =
                             IF e = f /\ room[r].member[e] = "active" THEN "revoked" ELSE room[r].member[e]
  BY <1>1, ChatRevoke
<1>3. /\ active' = active /\ insisted' = insisted \ {f} /\ \A v \in Workers \ {w} : cjob'[v] = cjob[v]
  BY <1>1 DEF C!Revoke, C!Done, ChatTyped, JobsFine
<1> SUFFICES ASSUME NEW r \in Rooms, NEW e \in Members \ (active' \cup insisted'),
                    room'[r].type = "DEPARTMENT", room'[r].member[e] = "active"
             PROVE  Leaving(e)'
  BY DEF OutOrLeaving
<1>4. e # f /\ room[r].type = "DEPARTMENT" /\ room[r].member[e] = "active"
  BY <1>2
<1>5. PICK v \in Workers : cjob[v].op = "revoke" /\ cjob[v].by = e
  BY <1>3, <1>4 DEF OutOrLeaving, Leaving
<1> QED
  BY <1>1, <1>3, <1>4, <1>5 DEF Leaving

LEMMA OutKeeps ==
    ASSUME ChatTyped, ChatAlone, OutOrLeaving, C!Next,
           ~ \E w \in Workers : cjob[w].op = "revoke" /\ C!Fail(w)
    PROVE  OutOrLeaving'
<1> DEFINE Others(w) == \A v \in Workers \ {w} : cjob'[v] = cjob[v]
           Kept == \A r \in Rooms : room'[r].type = "DEPARTMENT" =>
                      room[r].type = "DEPARTMENT" /\ room'[r].member = room[r].member
<1>1. UNCHANGED room => Kept
  OBVIOUS
<1>2. \A w \in Workers : C!Done(w) => Others(w)
  BY DEF C!Done, ChatTyped, JobsFine
<1>3. ASSUME NEW w \in Workers, NEW e \in Members,
             \/ C!DepartmentRead(w, e) \/ C!Suspend(w, e)
             \/ \E f \in Members : C!DirectRead(w, e, f)
             \/ \E r \in Rooms : C!JoinCheck(w, e, r) \/ \E op \in {"send", "store"} : C!SendCheck(w, e, r, op)
      PROVE  OutOrLeaving'
  <2>1. CASE C!Suspend(w, e)
    <3>1. PICK j : j = [C!NoJob EXCEPT !.op = "revoke", !.by = e] /\ C!Begin(w, j)
      BY <2>1 DEF C!Suspend
    <3>2. j.op = "revoke" /\ j.by = e
      BY <3>1 DEF C!NoJob
    <3>3. active' = active \ {e} /\ UNCHANGED <<room, insisted>>
      BY <2>1 DEF C!Suspend, C!Quiet
    <3> QED
      BY <3>1, <3>2, <3>3, OutWhenAsked
  <2>2. CASE ~C!Suspend(w, e)
    <3>1. UNCHANGED <<room, active, insisted>>
      BY <1>3, <2>2 DEF C!DepartmentRead, C!DirectRead, C!JoinCheck, C!SendCheck, C!Quiet
    <3>2. CASE C!DepartmentRead(w, e)
      BY <3>1, <3>2, OutWhenAsked DEF C!DepartmentRead
    <3>3. ASSUME NEW f \in Members, C!DirectRead(w, e, f) PROVE OutOrLeaving'
      BY <3>1, <3>3, OutWhenAsked DEF C!DirectRead
    <3>4. ASSUME NEW r \in Rooms, C!JoinCheck(w, e, r) PROVE OutOrLeaving'
      BY <3>1, <3>4, OutWhenAsked DEF C!JoinCheck
    <3>5. ASSUME NEW r \in Rooms, NEW op \in {"send", "store"}, C!SendCheck(w, e, r, op) PROVE OutOrLeaving'
      BY <3>1, <3>5, OutWhenAsked DEF C!SendCheck
    <3> QED
      BY <1>3, <2>2, <3>2, <3>3, <3>4, <3>5, Zenon
  <2> QED
    BY <2>1, <2>2
<1>4. ASSUME NEW e \in Members, NEW who \in SUBSET Members, C!GroupRoom(e, who) PROVE OutOrLeaving'
  <2>1. PICK r \in Rooms : /\ room[r].type = "NONE" /\ room'[r].type = "GROUP"
                           /\ \A s \in Rooms \ {r} : room'[s] = room[s]
    BY <1>4, ChatGroupRoom
  <2>2. Kept
    BY <2>1
  <2>3. UNCHANGED <<cjob, active, insisted>>
    BY <1>4 DEF C!GroupRoom, C!Quiet
  <2> QED
    BY <2>2, <2>3 DEF OutOrLeaving, Leaving
<1>5. ASSUME NEW w \in Workers, C!SendStore(w) \/ C!Publish(w) \/ C!Join(w) \/ C!Fail(w) PROVE OutOrLeaving'
  <2>1. UNCHANGED <<room, active, insisted>> /\ cjob[w].op # "revoke"
    BY <1>5 DEF C!SendStore, C!Publish, C!Join, C!Fail, C!Quiet
  <2>2. Others(w)
    BY <1>2, <1>5 DEF C!SendStore, C!Publish, C!Join, C!Fail, ChatTyped, JobsFine
  <2> QED
    BY <1>1, <2>1, <2>2, OutStays
<1>6. ASSUME NEW w \in Workers, C!RoomWrite(w) \/ C!Revoke(w) PROVE OutOrLeaving'
  BY <1>6, OutWhenOpened, OutWhenRevoked
<1>7. ASSUME NEW e \in Members, C!Disconnect(e) \/ C!Reinstate(e) PROVE OutOrLeaving'
  <2>1. active \subseteq active' /\ UNCHANGED <<room, cjob, insisted>>
    BY <1>7 DEF C!Disconnect, C!Reinstate, C!Quiet
  <2> QED
    BY <2>1 DEF OutOrLeaving, Leaving
<1>8. ASSUME NEW m \in Messages, C!Deliver(m) PROVE OutOrLeaving'
  <2>1. UNCHANGED <<room, cjob, active, insisted>>
    BY <1>8 DEF C!Deliver
  <2> QED
    BY <2>1 DEF OutOrLeaving, Leaving
<1> QED
  BY <1>3, <1>4, <1>5, <1>6, <1>7, <1>8, Zenon DEF C!Next

(* What was to be shown of rooms.                                          *)
LEMMA OneRoomOfEach == ASSUME OneOfEach PROVE C!OneRoomEach
<1>1. ASSUME NEW those, \A r, s \in those : r = s
      PROVE  Cardinality(those) <= 1
  <2>1. CASE those = {}
    BY <2>1, FS_EmptySet
  <2>2. CASE those # {}
    <3>1. PICK r : r \in those
      BY <2>2
    <3>2. those = {r}
      BY <1>1, <3>1
    <3> QED
      BY <3>2, FS_Singleton
  <2> QED
    BY <2>1, <2>2
<1>2. ASSUME NEW who \in SUBSET Members PROVE Cardinality(C!Between(who)) <= 1
  <2>1. \A r \in C!Between(who) : r \in Rooms /\ room[r].type = "DIRECT" /\ InRoom(r) = who
    BY DEF C!Between, C!OfType, InRoom
  <2>2. \A r, s \in C!Between(who) : r = s
    BY <2>1 DEF OneOfEach
  <2> QED
    BY <1>1, <2>2
<1>3. Cardinality(C!OfType("DEPARTMENT")) <= 1
  <2>1. \A r, s \in C!OfType("DEPARTMENT") : r = s
    BY DEF C!OfType, OneOfEach
  <2> QED
    BY <1>1, <2>1
<1>4. \A those : C!Cardinality(those) = Cardinality(those)
  BY Zenon DEF C!Cardinality, Cardinality
<1> QED
  BY <1>2, <1>3, <1>4 DEF C!OneRoomEach

LEMMA SocketsOfMembers == ASSUME ChatTyped PROVE C!SentToMembers
<1> SUFFICES ASSUME NEW e \in Members, NEW m \in inbox[e]
             PROVE  LET r == posted[m].room
                    IN r # NoRoom /\ room[r].member[e] # "no" /\ room[r].member[posted[m].by] # "no"
  BY DEF C!SentToMembers
<1>1. m \in Messages /\ posted[m] # C!NotPosted /\ Been(posted[m].room, e)
  BY DEF ChatTyped, MailFine
<1>2. Been(posted[m].room, posted[m].by)
  BY <1>1 DEF ChatTyped, MailFine
<1> QED
  BY <1>1, <1>2, DeskAssumption DEF Been

LEMMA SuspendedOut == ASSUME OutOrLeaving PROVE C!SuspendedIsOut
BY DEF OutOrLeaving, Leaving, C!SuspendedIsOut, C!OfType, C!Member

ChatInv ==
    /\ ChatTyped /\ active \subseteq Members
    /\ ~raced => ChatAlone
    /\ ~raced /\ ~died => OutOrLeaving

LEMMA ChatInvKeeps ==
    ASSUME ChatInv, C!Next, raced' = (raced \/ C!Overlap'),
           died' = (died \/ \E w \in Workers : cjob[w].op = "revoke" /\ C!Fail(w))
    PROVE  ChatInv'
<1>1. ChatTyped' /\ active' \subseteq Members
  BY ChatKeeps DEF ChatInv
<1>2. ~raced' => ChatAlone'
  BY ChatAloneKeeps DEF ChatInv
<1>3. ~raced' /\ ~died' => OutOrLeaving'
  BY OutKeeps DEF ChatInv
<1> QED
  BY <1>1, <1>2, <1>3 DEF ChatInv

-----------------------------------------------------------------------------
(* RATINGS *)

RatingJobs == [at : {"idle", "ratee", "walk", "save", "activate", "close"},
               cycle : Cycles \cup {NoCycle}, employee : Ids \cup {NoOne}, by : Ids \cup {NoOne},
               next : Ids \cup {NoOne}, visited : SUBSET Ids]
Named(j) == /\ j.at # "idle" => j.cycle \in Cycles
            /\ j.at \in {"ratee", "walk", "save"} => j.employee \in Ids /\ j.by \in Ids
RatingTyped ==
    /\ manager \in [Ids -> Ids \cup {NoOne}] /\ gone \subseteq Ids
    /\ cycle \in [Cycles -> {"NONE", "DRAFT", "ACTIVE", "CLOSED"}]
    /\ ratedBy \in [Cycles -> [Ids -> Ids \cup {NoOne}]]
    /\ moved \in Nat
    /\ rjob \in [Workers -> RatingJobs]
    /\ \A w \in Workers : Named(rjob[w])

(* The walk has come up a path of as many managers as it has visited.      *)
OnWay(p, n, j) ==
    /\ p[0] = j.employee /\ j.next = manager[p[n]]
    /\ \A i \in 0 .. n : p[i] \notin gone
    /\ \A i \in 0 .. n - 1 : manager[p[i]] = p[i + 1]
    /\ IsFiniteSet(j.visited) /\ Cardinality(j.visited) = n + 1
    /\ j.at = "save" => j.next = j.by /\ n < MaxHops
OpenFor(j) == j.cycle \in Cycles /\ cycle[j.cycle] = "ACTIVE" /\ j.employee \in Ids /\ j.by \in Ids
RaterFine(j) ==
    /\ j.at \in {"ratee", "walk", "save"} => OpenFor(j)
    /\ j.at \in {"walk", "save"} =>
          j.employee # j.by /\ \E n \in Nat : \E p \in [0 .. n -> Ids] : OnWay(p, n, j)
RatersFine == \A w \in Workers : RaterFine(rjob[w])

LEMMA RaterIdle == A!NoJob \in RatingJobs /\ A!NoJob.at = "idle"
BY DEF A!NoJob, RatingJobs

LEMMA RatingStart == A!Init => RatingTyped /\ RatersFine
<1> SUFFICES ASSUME A!Init PROVE RatingTyped /\ RatersFine
  OBVIOUS
<1>1. rjob \in [Workers -> RatingJobs] /\ \A w \in Workers : rjob[w].at = "idle"
  BY RaterIdle DEF A!Init
<1> QED
  BY <1>1 DEF A!Init, RatingTyped, RatersFine, RaterFine, Named

LEMMA StillFine ==
    ASSUME UNCHANGED <<manager, gone, cycle>>, NEW j, RaterFine(j) PROVE RaterFine(j)'
BY DEF RaterFine, OpenFor, OnWay

LEMMA RaterGoesOn ==
    ASSUME RatingTyped, NEW w \in Workers, NEW j \in RatingJobs, rjob' = [rjob EXCEPT ![w] = j],
           Named(j),
           UNCHANGED <<manager, gone, ratedBy, cycle, moved>>
    PROVE  /\ RatingTyped'
           /\ RatersFine /\ RaterFine(j) => RatersFine'
<1>1. rjob' \in [Workers -> RatingJobs] /\ rjob'[w] = j /\ \A v \in Workers \ {w} : rjob'[v] = rjob[v]
  BY DEF RatingTyped
<1>2. RatingTyped'
  BY <1>1 DEF RatingTyped, Named
<1>3. ASSUME RatersFine, RaterFine(j), NEW v \in Workers PROVE RaterFine(rjob[v])'
  <2>1. PICK i : i = rjob'[v]
    OBVIOUS
  <2>2. RaterFine(i)
    BY <1>1, <1>3, <2>1 DEF RatersFine
  <2>3. RaterFine(i)'
    BY <2>2, StillFine
  <2> QED
    BY <2>1, <2>3 DEF RaterFine, OpenFor, OnWay
<1> QED
  BY <1>2, <1>3 DEF RatersFine

LEMMA CycleReads ==
    ASSUME RatingTyped, NEW w \in Workers, NEW c \in Cycles, NEW step \in {"activate", "close"},
           A!CycleRead(w, c, step)
    PROVE  RatingTyped' /\ (RatersFine => RatersFine')
<1>1. PICK j : j = [A!NoJob EXCEPT !.at = step, !.cycle = c]
  OBVIOUS
<1>2. j \in RatingJobs /\ j.at = step /\ j.cycle = c
  BY <1>1 DEF A!NoJob, RatingJobs
<1>3. rjob' = [rjob EXCEPT ![w] = j] /\ UNCHANGED <<manager, gone, cycle, ratedBy, moved>>
  BY <1>1 DEF A!CycleRead, A!Begin
<1>4. RaterFine(j)
  BY <1>2 DEF RaterFine
<1> QED
  BY <1>2, <1>3, <1>4, RaterGoesOn DEF Named

LEMMA SubmitReads ==
    ASSUME RatingTyped, NEW w \in Workers, NEW c \in Cycles, NEW e \in Ids, NEW by \in Ids,
           A!SubmitRead(w, c, e, by)
    PROVE  RatingTyped' /\ (RatersFine => RatersFine')
<1>1. PICK j : j = [A!NoJob EXCEPT !.at = "ratee", !.cycle = c, !.employee = e, !.by = by]
  OBVIOUS
<1>2. j \in RatingJobs /\ j.at = "ratee" /\ j.cycle = c /\ j.employee = e /\ j.by = by
  BY <1>1 DEF A!NoJob, RatingJobs
<1>3. /\ rjob' = [rjob EXCEPT ![w] = j] /\ cycle[c] = "ACTIVE"
      /\ UNCHANGED <<manager, gone, cycle, ratedBy, moved>>
  BY <1>1 DEF A!SubmitRead, A!Begin
<1>4. RaterFine(j)
  BY <1>2, <1>3 DEF RaterFine, OpenFor
<1> QED
  BY <1>2, <1>3, <1>4, RaterGoesOn DEF Named

LEMMA RateeReads ==
    ASSUME RatingTyped, NEW w \in Workers, A!RateeRead(w)
    PROVE  RatingTyped' /\ (RatersFine => RatersFine')
<1>1. PICK i \in RatingJobs : i = rjob[w] /\ Named(i) /\ (RatersFine => RaterFine(i))
  BY DEF RatingTyped, RatersFine
<1>2. i.at = "ratee" /\ UNCHANGED <<manager, gone, cycle, ratedBy, moved>>
  BY <1>1 DEF A!RateeRead
<1>3. CASE A!Live(i.employee) /\ i.employee # i.by
  <2>1. PICK j : j = [i EXCEPT !.at = "walk", !.visited = {i.employee}, !.next = manager[i.employee]]
    OBVIOUS
  <2>2. i.employee \in Ids \ gone
    BY <1>3 DEF A!Live
  <2>3. /\ j \in RatingJobs /\ j.at = "walk" /\ j.employee = i.employee /\ j.by = i.by /\ j.cycle = i.cycle
        /\ j.visited = {i.employee} /\ j.next = manager[i.employee]
    BY <2>1, <2>2 DEF RatingJobs, RatingTyped
  <2>4. rjob' = [rjob EXCEPT ![w] = j]
    BY <1>1, <1>3, <2>1 DEF A!RateeRead, A!Goto
  <2>5. PICK p \in [0 .. 0 -> Ids] : p = [k \in 0 .. 0 |-> i.employee]
    BY <2>2
  <2>6. OnWay(p, 0, j)
    <3>1. IsFiniteSet(j.visited) /\ Cardinality(j.visited) = 1
      BY <2>3, FS_Singleton
    <3> QED
      BY <2>2, <2>3, <2>5, <3>1 DEF OnWay
  <2>7. RatersFine => RaterFine(j)
    BY <1>1, <1>2, <1>3, <2>3, <2>6 DEF RaterFine, OpenFor
  <2> QED
    BY <1>1, <1>2, <2>3, <2>4, <2>7, RaterGoesOn DEF Named
<1>4. CASE ~(A!Live(i.employee) /\ i.employee # i.by)
  <2>1. rjob' = [rjob EXCEPT ![w] = A!NoJob]
    BY <1>1, <1>4 DEF A!RateeRead, A!Done, A!Goto
  <2> QED
    BY <1>2, <2>1, RaterIdle, RaterGoesOn DEF RaterFine, Named
<1> QED
  BY <1>3, <1>4

LEMMA PathExtends ==
    ASSUME NEW n \in Nat, NEW p \in [0 .. n -> Ids], NEW m \in Ids
    PROVE  \E q \in [0 .. (n + 1) -> Ids] : q[n + 1] = m /\ \A k \in 0 .. n : q[k] = p[k]
<1> DEFINE f == [k \in 0 .. (n + 1) |-> IF k = n + 1 THEN m ELSE p[k]]
<1>1. \A k \in 0 .. (n + 1) : k # n + 1 => k \in 0 .. n
  OBVIOUS
<1>2. f \in [0 .. (n + 1) -> Ids]
  BY <1>1
<1>3. f[n + 1] = m /\ \A k \in 0 .. n : f[k] = p[k]
  OBVIOUS
<1> QED
  BY <1>2, <1>3

LEMMA WalkTurns ==
    ASSUME RatingTyped, NEW w \in Workers, A!Walk(w)
    PROVE  RatingTyped' /\ (RatersFine => RatersFine')
<1>1. PICK i \in RatingJobs : i = rjob[w] /\ Named(i) /\ (RatersFine => RaterFine(i))
  BY DEF RatingTyped, RatersFine
<1>2. i.at = "walk" /\ UNCHANGED <<manager, gone, cycle, ratedBy, moved>>
  BY <1>1 DEF A!Walk
<1>3. \A those : A!Cardinality(those) = Cardinality(those)
  BY Zenon DEF A!Cardinality, Cardinality
<1> DEFINE Stop == \/ i.next = NoOne \/ Cardinality(i.visited) > MaxHops
                   \/ i.next # i.by /\ (i.next \in i.visited \/ ~A!Live(i.next))
<1>4. CASE Stop
  <2>1. rjob' = [rjob EXCEPT ![w] = A!NoJob]
    BY <1>1, <1>3, <1>4 DEF A!Walk, A!Done, A!Goto
  <2> QED
    BY <1>2, <2>1, RaterIdle, RaterGoesOn DEF RaterFine, Named
<1>5. CASE ~Stop /\ i.next = i.by
  <2>1. PICK j : j = [i EXCEPT !.at = "save"]
    OBVIOUS
  <2>2. /\ j \in RatingJobs /\ j.at = "save" /\ j.employee = i.employee /\ j.by = i.by /\ j.cycle = i.cycle
        /\ j.visited = i.visited /\ j.next = i.next
    BY <2>1 DEF RatingJobs
  <2>3. rjob' = [rjob EXCEPT ![w] = j]
    BY <1>1, <1>3, <1>5, <2>1 DEF A!Walk, A!Goto
  <2>4. ASSUME RatersFine PROVE RaterFine(j)
    <3>1. /\ OpenFor(i) /\ i.employee # i.by
      BY <1>1, <1>2, <2>4 DEF RaterFine
    <3>2. PICK n \in Nat : \E p \in [0 .. n -> Ids] : OnWay(p, n, i)
      BY <1>1, <1>2, <2>4 DEF RaterFine
    <3>3. PICK p \in [0 .. n -> Ids] : OnWay(p, n, i)
      BY <3>2
    <3>4. n < MaxHops
      BY <1>5, <3>3, DeskAssumption DEF OnWay
    <3>5. OnWay(p, n, j)
      BY <1>5, <2>2, <3>3, <3>4 DEF OnWay
    <3> QED
      BY <2>2, <3>1, <3>5 DEF RaterFine, OpenFor
  <2> QED
    BY <1>1, <1>2, <2>2, <2>3, <2>4, RaterGoesOn DEF Named
<1>6. CASE ~Stop /\ i.next # i.by
  <2>1. PICK j : j = [i EXCEPT !.visited = i.visited \cup {i.next}, !.next = manager[i.next]]
    OBVIOUS
  <2>2. i.next \in Ids \ gone /\ i.next \notin i.visited
    BY <1>6 DEF A!Live
  <2>3. /\ j \in RatingJobs /\ j.at = "walk" /\ j.employee = i.employee /\ j.by = i.by /\ j.cycle = i.cycle
        /\ j.visited = i.visited \cup {i.next} /\ j.next = manager[i.next]
    BY <1>2, <2>1, <2>2 DEF RatingJobs, RatingTyped
  <2>4. rjob' = [rjob EXCEPT ![w] = j]
    BY <1>1, <1>3, <1>6, <2>1 DEF A!Walk, A!Goto
  <2>5. ASSUME RatersFine PROVE RaterFine(j)
    <3>1. OpenFor(i) /\ i.employee # i.by
      BY <1>1, <1>2, <2>5 DEF RaterFine
    <3>2. PICK n \in Nat : \E p \in [0 .. n -> Ids] : OnWay(p, n, i)
      BY <1>1, <1>2, <2>5 DEF RaterFine
    <3>3. PICK p \in [0 .. n -> Ids] : OnWay(p, n, i)
      BY <3>2
    <3>4. PICK m \in Ids : m = i.next
      BY <2>2
    <3>5. PICK q \in [0 .. (n + 1) -> Ids] : q[n + 1] = m /\ \A k \in 0 .. n : q[k] = p[k]
      BY PathExtends
    <3>6. IsFiniteSet(j.visited) /\ Cardinality(j.visited) = n + 2
      <4>1. IsFiniteSet(i.visited) /\ Cardinality(i.visited) = n + 1
        BY <3>3 DEF OnWay
      <4>2. Cardinality(i.visited \cup {i.next}) = Cardinality(i.visited) + 1
        BY <2>2, <4>1, FS_AddElement
      <4>3. IsFiniteSet(i.visited \cup {i.next})
        BY <4>1, FS_AddElement
      <4>4. PICK more : more = i.visited \cup {i.next}
        OBVIOUS
      <4>5. IsFiniteSet(more) /\ Cardinality(more) = n + 2
        BY <4>1, <4>2, <4>3, <4>4, Z3
      <4> QED
        BY <2>3, <4>4, <4>5, Zenon
    <3>7. /\ q[0] = j.employee /\ j.next = manager[q[n + 1]]
          /\ \A k \in 0 .. n + 1 : q[k] \notin gone
          /\ \A k \in 0 .. n : manager[q[k]] = q[k + 1]
      <4>1. /\ p[0] = i.employee /\ i.next = manager[p[n]]
            /\ \A k \in 0 .. n : p[k] \notin gone
            /\ \A k \in 0 .. n - 1 : manager[p[k]] = p[k + 1]
        BY <3>3 DEF OnWay
      <4>2. \A k \in 0 .. n + 1 : k = n + 1 \/ k \in 0 .. n
        OBVIOUS
      <4>3. \A k \in 0 .. n : k = n \/ (k \in 0 .. n - 1 /\ k + 1 \in 0 .. n)
        OBVIOUS
      <4> QED
        BY <2>2, <2>3, <3>4, <3>5, <4>1, <4>2, <4>3
    <3>8. OnWay(q, n + 1, j)
      BY <2>3, <3>6, <3>7 DEF OnWay
    <3> QED
      BY <2>3, <3>1, <3>8 DEF RaterFine, OpenFor
  <2> QED
    BY <1>1, <1>2, <2>3, <2>4, <2>5, RaterGoesOn DEF Named
<1> QED
  BY <1>4, <1>5, <1>6

(* ... so that a rating is written from above.                             *)
LEMMA WayIsAbove ==
    ASSUME RatingTyped, NEW j, RaterFine(j), j.at = "save" PROVE A!Above(j.employee, j.by)
<1>1. PICK n \in Nat : \E p \in [0 .. n -> Ids] : OnWay(p, n, j)
  BY DEF RaterFine
<1>2. PICK p \in [0 .. n -> Ids] : OnWay(p, n, j)
  BY <1>1
<1>3. j.by \in Ids /\ j.by # j.employee
  BY DEF RaterFine, OpenFor
<1>4. PICK q \in [0 .. (n + 1) -> Ids] : q[n + 1] = j.by /\ \A k \in 0 .. n : q[k] = p[k]
  BY <1>3, PathExtends
<1>5. n + 1 \in 1 .. MaxHops
  BY <1>2, DeskAssumption DEF OnWay
<1>6. /\ q[0] = j.employee /\ q[n + 1] = j.by
      /\ \A k \in 0 .. n : manager[q[k]] = q[k + 1] /\ q[k] \in Ids \ gone
  BY <1>2, <1>4 DEF OnWay
<1> QED
  BY <1>3, <1>5, <1>6 DEF A!Above, A!Live

LEMMA SavesFromAbove ==
    ASSUME RatingTyped, NEW w \in Workers, A!Save(w)
    PROVE  RatingTyped' /\ (RatersFine => RatersFine' /\ A!RatedFromAbove)
<1>1. PICK i \in RatingJobs : i = rjob[w] /\ Named(i) /\ (RatersFine => RaterFine(i))
  BY DEF RatingTyped, RatersFine
<1>2. /\ i.at = "save" /\ ratedBy' = [ratedBy EXCEPT ![i.cycle][i.employee] = i.by]
      /\ rjob' = [rjob EXCEPT ![w] = A!NoJob] /\ UNCHANGED <<manager, gone, cycle, moved>>
  BY <1>1 DEF A!Save, A!Done, A!Goto
<1>3. i.cycle \in Cycles /\ i.employee \in Ids /\ i.by \in Ids
  BY <1>1, <1>2 DEF Named
<1>4. rjob' \in [Workers -> RatingJobs] /\ rjob'[w].at = "idle" /\ \A v \in Workers \ {w} : rjob'[v] = rjob[v]
  BY <1>2, RaterIdle DEF RatingTyped
<1>5. RatingTyped'
  <2>1. ratedBy' \in [Cycles -> [Ids -> Ids \cup {NoOne}]]
    BY <1>2, <1>3 DEF RatingTyped
  <2> QED
    BY <1>2, <1>4, <2>1 DEF RatingTyped, Named
<1>6. ASSUME RatersFine, NEW v \in Workers PROVE RaterFine(rjob[v])'
  <2>1. PICK k : k = rjob'[v]
    OBVIOUS
  <2>2. RaterFine(k)
    BY <1>4, <1>6, <2>1 DEF RatersFine, RaterFine
  <2>3. RaterFine(k)'
    BY <1>2, <2>2, StillFine
  <2> QED
    BY <2>1, <2>3 DEF RaterFine, OpenFor, OnWay
<1>7. ASSUME RatersFine PROVE A!RatedFromAbove
  <2>1. cycle[i.cycle] = "ACTIVE" /\ A!Above(i.employee, i.by)
    BY <1>1, <1>2, <1>7, WayIsAbove DEF RaterFine, OpenFor
  <2>2. \A c \in Cycles, e \in Ids : ratedBy'[c][e] # ratedBy[c][e] =>
           c = i.cycle /\ e = i.employee /\ ratedBy'[c][e] = i.by
    BY <1>2, <1>3 DEF RatingTyped
  <2> QED
    BY <2>1, <2>2, Zenon DEF A!RatedFromAbove
<1> QED
  BY <1>5, <1>6, <1>7 DEF RatersFine

LEMMA NotRated == ASSUME UNCHANGED ratedBy PROVE A!RatedFromAbove
BY DEF A!RatedFromAbove

(* What changes a cycle or a manager does so while nobody submits, or has  *)
(* met a submission.                                                       *)
LEMMA CycleWrites ==
    ASSUME RatingTyped, NEW w \in Workers, A!CycleWrite(w)
    PROVE  RatingTyped' /\ (UNCHANGED cycle \/ ~A!Submitting => (RatersFine => RatersFine'))
<1>1. PICK i \in RatingJobs : i = rjob[w] /\ Named(i)
  BY DEF RatingTyped
<1>2. /\ i.at \in {"activate", "close"} /\ rjob' = [rjob EXCEPT ![w] = A!NoJob]
      /\ cycle' = [cycle EXCEPT ![i.cycle] = IF i.at = "activate" THEN "ACTIVE" ELSE "CLOSED"]
      /\ UNCHANGED <<manager, gone, ratedBy, moved>>
  BY <1>1 DEF A!CycleWrite, A!Done, A!Goto
<1>3. rjob' \in [Workers -> RatingJobs] /\ rjob'[w].at = "idle" /\ \A v \in Workers \ {w} : rjob'[v] = rjob[v]
  BY <1>2, RaterIdle DEF RatingTyped
<1>4. RatingTyped'
  <2>1. cycle' \in [Cycles -> {"NONE", "DRAFT", "ACTIVE", "CLOSED"}]
    BY <1>1, <1>2 DEF RatingTyped, Named
  <2> QED
    BY <1>2, <1>3, <2>1 DEF RatingTyped, Named
<1>5. ASSUME ~A!Submitting PROVE RatersFine'
  BY <1>3, <1>5 DEF A!Submitting, RatersFine, RaterFine
<1>6. ASSUME UNCHANGED cycle, RatersFine PROVE RatersFine'
  BY <1>2, <1>6, <1>4, RaterIdle, RaterGoesOn DEF RaterFine, Named
<1> QED
  BY <1>4, <1>5, <1>6

LEMMA CycleCreates ==
    ASSUME RatingTyped, NEW c \in Cycles, NEW s \in {"DRAFT", "ACTIVE", "CLOSED"}, A!CreateCycle(c, s)
    PROVE  /\ RatingTyped' /\ UNCHANGED <<ratedBy, rjob, moved>> /\ cycle' # cycle
           /\ ~A!Submitting => (RatersFine => RatersFine')
<1>1. UNCHANGED <<manager, gone, ratedBy, rjob, moved>> /\ cycle' = [cycle EXCEPT ![c] = s] /\ cycle[c] = "NONE"
  BY DEF A!CreateCycle
<1>2. cycle' \in [Cycles -> {"NONE", "DRAFT", "ACTIVE", "CLOSED"}] /\ cycle'[c] # cycle[c]
  BY <1>1 DEF RatingTyped
<1> QED
  BY <1>1, <1>2 DEF RatingTyped, Named, A!Submitting, RatersFine, RaterFine

LEMMA ManagersMove ==
    ASSUME RatingTyped, NEW e \in Ids,
           A!Remove(e) \/ A!Restore(e) \/ \E m \in Ids : A!SetManager(e, m)
    PROVE  /\ RatingTyped' /\ UNCHANGED <<cycle, ratedBy, rjob>> /\ moved' # moved
           /\ ~A!Submitting => (RatersFine => RatersFine')
<1>1. UNCHANGED <<cycle, ratedBy, rjob>> /\ moved' = moved + 1
  BY DEF A!Remove, A!Restore, A!SetManager, A!Ask
<1>2. manager' \in [Ids -> Ids \cup {NoOne}] /\ gone' \subseteq Ids
  BY DEF A!Remove, A!Restore, A!SetManager, RatingTyped
<1> QED
  BY <1>1, <1>2 DEF RatingTyped, Named, A!Submitting, RatersFine, RaterFine

LEMMA RatingsKeep ==
    ASSUME RatingTyped, A!Next
    PROVE  /\ RatingTyped'
           /\ RatersFine /\ ~(A!Submitting /\ <<cycle, moved>>' # <<cycle, moved>>) =>
                 RatersFine' /\ A!RatedFromAbove
<1>1. ASSUME NEW c \in Cycles, NEW s \in {"DRAFT", "ACTIVE", "CLOSED"}, A!CreateCycle(c, s)
      PROVE  /\ RatingTyped'
             /\ RatersFine /\ ~(A!Submitting /\ <<cycle, moved>>' # <<cycle, moved>>) =>
                   RatersFine' /\ A!RatedFromAbove
  BY <1>1, CycleCreates, NotRated
<1>2. ASSUME NEW w \in Workers, NEW c \in Cycles,
             \/ \E step \in {"activate", "close"} : A!CycleRead(w, c, step)
             \/ \E e, by \in Ids : A!SubmitRead(w, c, e, by)
      PROVE  RatingTyped' /\ (RatersFine => RatersFine' /\ A!RatedFromAbove)
  <2>1. UNCHANGED ratedBy
    BY <1>2 DEF A!CycleRead, A!SubmitRead
  <2> QED
    BY <1>2, <2>1, CycleReads, SubmitReads, NotRated
<1>3. ASSUME NEW w \in Workers, A!CycleWrite(w)
      PROVE  /\ RatingTyped'
             /\ RatersFine /\ ~(A!Submitting /\ <<cycle, moved>>' # <<cycle, moved>>) =>
                   RatersFine' /\ A!RatedFromAbove
  <2>1. UNCHANGED <<ratedBy, moved>>
    BY <1>3 DEF A!CycleWrite
  <2> QED
    BY <1>3, <2>1, CycleWrites, NotRated
<1>4. ASSUME NEW w \in Workers, A!RateeRead(w) \/ A!Walk(w)
      PROVE  RatingTyped' /\ (RatersFine => RatersFine' /\ A!RatedFromAbove)
  <2>1. UNCHANGED ratedBy
    BY <1>4 DEF A!RateeRead, A!Walk
  <2> QED
    BY <1>4, <2>1, RateeReads, WalkTurns, NotRated
<1>5. ASSUME NEW w \in Workers, A!Save(w)
      PROVE  RatingTyped' /\ (RatersFine => RatersFine' /\ A!RatedFromAbove)
  BY <1>5, SavesFromAbove
<1>6. ASSUME NEW e \in Ids, A!Remove(e) \/ A!Restore(e) \/ \E m \in Ids : A!SetManager(e, m)
      PROVE  /\ RatingTyped'
             /\ RatersFine /\ ~(A!Submitting /\ <<cycle, moved>>' # <<cycle, moved>>) =>
                   RatersFine' /\ A!RatedFromAbove
  BY <1>6, ManagersMove, NotRated
<1> QED
  BY <1>1, <1>2, <1>3, <1>4, <1>5, <1>6 DEF A!Next

-----------------------------------------------------------------------------
(* NOTICES *)

NoticeRows == [status : {"none", "draft", "scheduled", "published", "deleted"},
               text : 0 .. 1, at : 0 .. 1 \cup {Never}]
NoticeTyped ==
    /\ board \in [Notices -> NoticeRows] /\ due \subseteq Notices
    /\ DOMAIN njob = Workers
    /\ \A w \in Workers : /\ njob[w].op \in {"idle", "update", "remove"}
                          /\ njob[w].op # "idle" => njob[w].id \in Notices /\ njob[w] # N!NoJob
                          /\ njob[w].op = "update" => njob[w].text \in 0 .. 1
                                                      /\ njob[w].at \in 0 .. 1 \cup {Never, Same}

(* While no two have one notice in hand, what an update has read is still  *)
(* no published one.                                                       *)
StillDraft(n) == board[n].status \in {"draft", "scheduled"}
NoticesAlone == ~N!Overlap /\ \A w \in Workers : njob[w].op = "update" => StillDraft(njob[w].id)

LEMMA NoticeIdle == N!NoJob.op = "idle" /\ N!NoJob.id = NoNotice
BY DEF N!NoJob

LEMMA NoticeStart == N!Init => NoticeTyped /\ NoticesAlone
<1> SUFFICES ASSUME N!Init PROVE NoticeTyped /\ NoticesAlone
  OBVIOUS
<1>1. /\ DOMAIN njob = Workers /\ due = {} /\ board = [n \in Notices |-> N!NoRow]
      /\ \A w \in Workers : njob[w] = N!NoJob
  BY DEF N!Init
<1>2. \A w \in Workers : njob[w].op = "idle"
  BY <1>1, NoticeIdle
<1>3. N!NoRow \in NoticeRows
  BY DEF N!NoRow, NoticeRows
<1>4. NoticeTyped
  BY <1>1, <1>2, <1>3 DEF NoticeTyped
<1>5. ~N!Overlap
  BY <1>1 DEF N!Overlap
<1> QED
  BY <1>2, <1>4, <1>5 DEF NoticesAlone

LEMMA NoticeStatus ==
    ASSUME NEW publish, NEW at PROVE N!StatusFor(publish, at) \in {"draft", "scheduled", "published"}
BY DEF N!StatusFor

LEMMA NoticeCreates ==
    ASSUME NoticeTyped, NEW n \in Notices, NEW at \in 0 .. 1 \cup {Never}, NEW p \in BOOLEAN,
           N!Create(n, at, p)
    PROVE  /\ NoticeTyped'
           /\ NoticesAlone /\ ~N!Overlap' => NoticesAlone' /\ N!PublishedIsFinal
<1>1. PICK row : row = [status |-> N!StatusFor(p, at), text |-> 0, at |-> at]
  OBVIOUS
<1>2. row \in NoticeRows
  BY <1>1, NoticeStatus DEF NoticeRows
<1>3. /\ board[n].status = "none" /\ board' = [board EXCEPT ![n] = row]
      /\ UNCHANGED <<due, njob>>
  BY <1>1 DEF N!Create, N!Put
<1>4. board' \in [Notices -> NoticeRows] /\ \A m \in Notices \ {n} : board'[m] = board[m]
  BY <1>2, <1>3 DEF NoticeTyped
<1>5. NoticeTyped'
  BY <1>3, <1>4 DEF NoticeTyped
<1>6. N!PublishedIsFinal
  BY <1>3, <1>4 DEF N!PublishedIsFinal
<1>7. ASSUME NoticesAlone, NEW w \in Workers, njob[w].op = "update" PROVE StillDraft(njob[w].id)'
  BY <1>3, <1>4, <1>7 DEF NoticesAlone, StillDraft, NoticeTyped
<1> QED
  BY <1>3, <1>5, <1>6, <1>7 DEF NoticesAlone

LEMMA NoticeReads ==
    ASSUME NoticeTyped, NEW w \in Workers, NEW j, njob' = [njob EXCEPT ![w] = j],
           j.op \in {"update", "remove"}, j.id \in Notices, UNCHANGED <<board, due>>,
           j.op = "update" => StillDraft(j.id) /\ j.text \in 0 .. 1 /\ j.at \in 0 .. 1 \cup {Never, Same}
    PROVE  /\ NoticeTyped'
           /\ NoticesAlone /\ ~N!Overlap' => NoticesAlone' /\ N!PublishedIsFinal
<1>1. DOMAIN njob' = Workers /\ njob'[w] = j /\ \A v \in Workers \ {w} : njob'[v] = njob[v]
  BY DEF NoticeTyped
<1>2. j # N!NoJob
  BY NoticeIdle
<1>3. NoticeTyped'
  BY <1>1, <1>2 DEF NoticeTyped
<1>4. N!PublishedIsFinal
  BY DEF N!PublishedIsFinal
<1>5. ASSUME NoticesAlone, NEW v \in Workers, njob'[v].op = "update" PROVE StillDraft(njob[v].id)'
  BY <1>1, <1>5 DEF NoticesAlone, StillDraft
<1> QED
  BY <1>3, <1>4, <1>5 DEF NoticesAlone

LEMMA NoticeUpdateReads ==
    ASSUME NoticeTyped, NEW n \in Notices, NEW w \in Workers, NEW text \in 0 .. 1,
           NEW at \in 0 .. 1 \cup {Never, Same}, NEW p \in BOOLEAN, N!UpdateRead(w, n, text, at, p)
    PROVE  /\ NoticeTyped'
           /\ NoticesAlone /\ ~N!Overlap' => NoticesAlone' /\ N!PublishedIsFinal
<1>1. PICK j : j = [op |-> "update", id |-> n, text |-> text, at |-> at, publish |-> p]
  OBVIOUS
<1>2. j.op = "update" /\ j.id = n /\ j.text = text /\ j.at = at
  BY <1>1
<1>3. njob' = [njob EXCEPT ![w] = j] /\ UNCHANGED <<board, due>>
  BY <1>1, Zenon DEF N!UpdateRead
<1>4. StillDraft(n)
  BY DEF N!UpdateRead, N!Exists, StillDraft
<1> QED
  BY <1>2, <1>3, <1>4, NoticeReads

LEMMA NoticeRemoveReads ==
    ASSUME NoticeTyped, NEW n \in Notices, NEW w \in Workers, N!RemoveRead(w, n)
    PROVE  /\ NoticeTyped'
           /\ NoticesAlone /\ ~N!Overlap' => NoticesAlone' /\ N!PublishedIsFinal
<1>1. PICK j : j = [N!NoJob EXCEPT !.op = "remove", !.id = n]
  OBVIOUS
<1>2. j.op = "remove" /\ j.id = n
  BY <1>1 DEF N!NoJob
<1>3. njob' = [njob EXCEPT ![w] = j] /\ UNCHANGED <<board, due>>
  BY <1>1, Zenon DEF N!RemoveRead
<1> QED
  BY <1>2, <1>3, NoticeReads

LEMMA NoticeWrites ==
    ASSUME NoticeTyped, NEW w \in Workers, njob[w].op \in {"update", "remove"},
           N!UpdateWrite(w) \/ N!RemoveWrite(w)
    PROVE  /\ NoticeTyped'
           /\ NoticesAlone /\ ~N!Overlap' => NoticesAlone' /\ N!PublishedIsFinal
<1>1. PICK n \in Notices : n = njob[w].id /\ njob[w] # N!NoJob
  BY DEF NoticeTyped
<1>2. njob' = [njob EXCEPT ![w] = N!NoJob] /\ UNCHANGED due
  BY DEF N!UpdateWrite, N!RemoveWrite, N!Finish
<1>3. DOMAIN njob' = Workers /\ njob'[w].op = "idle" /\ \A v \in Workers \ {w} : njob'[v] = njob[v]
  BY <1>2, NoticeIdle DEF NoticeTyped
<1>4. /\ board' \in [Notices -> NoticeRows] /\ \A m \in Notices \ {n} : board'[m] = board[m]
      /\ njob[w].op = "update" \/ board'[n].status = "deleted"
  <2>1. CASE N!UpdateWrite(w)
    <3>1. CASE N!Exists(n)
      <4>1. PICK row : row = [text |-> IF njob[w].text = 0 THEN board[n].text ELSE njob[w].text,
                              at |-> IF njob[w].at = Same THEN board[n].at ELSE njob[w].at,
                              status |-> IF njob[w].at = Same /\ ~njob[w].publish THEN board[n].status
                                         ELSE N!StatusFor(njob[w].publish, njob[w].at)]
        OBVIOUS
      <4>2. board[n] \in NoticeRows
        BY DEF NoticeTyped
      <4>3. njob[w].op = "update" /\ njob[w].text \in 0 .. 1 /\ njob[w].at \in 0 .. 1 \cup {Never, Same}
        BY <2>1 DEF N!UpdateWrite, NoticeTyped
      <4>4. row \in NoticeRows
        <5>1. row.text \in 0 .. 1
          BY <4>1, <4>2, <4>3 DEF NoticeRows
        <5>2. row.at \in 0 .. 1 \cup {Never}
          BY <4>1, <4>2, <4>3 DEF NoticeRows
        <5>3. row.status \in {"none", "draft", "scheduled", "published", "deleted"}
          BY <4>1, <4>2, NoticeStatus DEF NoticeRows
        <5> QED
          BY <4>1, <5>1, <5>2, <5>3 DEF NoticeRows
      <4>5. board' = [board EXCEPT ![n] = row]
        BY <1>1, <2>1, <3>1, <4>1, Zenon DEF N!UpdateWrite, N!Put
      <4> QED
        BY <4>3, <4>4, <4>5 DEF NoticeTyped
    <3>2. CASE ~N!Exists(n)
      BY <1>1, <2>1, <3>2 DEF N!UpdateWrite, NoticeTyped
    <3> QED
      BY <3>1, <3>2
  <2>2. CASE N!RemoveWrite(w)
    <3>1. PICK row : row = [N!NoRow EXCEPT !.status = "deleted"]
      OBVIOUS
    <3>2. row \in NoticeRows /\ row.status = "deleted"
      BY <3>1 DEF N!NoRow, NoticeRows
    <3>3. board' = [board EXCEPT ![n] = row]
      BY <1>1, <2>2, <3>1, Zenon DEF N!RemoveWrite, N!Put
    <3> QED
      BY <3>2, <3>3 DEF NoticeTyped
  <2> QED
    BY <2>1, <2>2
<1>5. NoticeTyped'
  BY <1>2, <1>3, <1>4 DEF NoticeTyped
<1>6. ASSUME NoticesAlone PROVE N!PublishedIsFinal
  <2>1. njob[w].op = "update" => board[n].status # "published"
    BY <1>1, <1>6 DEF NoticesAlone, StillDraft
  <2> QED
    BY <1>4, <2>1 DEF N!PublishedIsFinal
<1>7. ASSUME NoticesAlone, NEW v \in Workers, njob'[v].op = "update" PROVE StillDraft(njob[v].id)'
  <2>1. v # w /\ njob'[v] = njob[v] /\ njob[v].id \in Notices
    BY <1>3, <1>7 DEF NoticeTyped
  <2>2. njob[v].id # n
    BY <1>1, <1>7, <2>1 DEF NoticesAlone, N!Overlap
  <2> QED
    BY <1>4, <1>7, <2>1, <2>2 DEF NoticesAlone, StillDraft
<1> QED
  BY <1>5, <1>6, <1>7 DEF NoticesAlone

LEMMA NoticeSweeps ==
    ASSUME NoticeTyped, N!SweepRead \/ N!SweepWrite
    PROVE  /\ NoticeTyped'
           /\ NoticesAlone /\ ~N!Overlap' => NoticesAlone' /\ N!PublishedIsFinal
<1>1. UNCHANGED njob /\ due' \subseteq Notices
  BY DEF N!SweepRead, N!SweepWrite
<1>2. ASSUME NEW n \in Notices
      PROVE  /\ board'[n] \in NoticeRows /\ (n \notin due => board'[n] = board[n])
             /\ board[n].status = "published" => board'[n] = board[n]
  <2>1. PICK row : row = [board[n] EXCEPT !.status = "published"]
    OBVIOUS
  <2>2. board[n] \in NoticeRows
    BY DEF NoticeTyped
  <2>3. row \in NoticeRows /\ (board[n].status = "published" => row = board[n])
    BY <2>1, <2>2 DEF NoticeRows
  <2>4. board'[n] \in {row, board[n]} /\ (n \notin due => board'[n] = board[n])
    BY <2>1 DEF N!SweepRead, N!SweepWrite
  <2> QED
    BY <2>2, <2>3, <2>4
<1>3. board' \in [Notices -> NoticeRows]
  <2>1. board' = board \/ board' = [n \in Notices |-> board'[n]]
    BY DEF N!SweepRead, N!SweepWrite
  <2> QED
    BY <1>2, <2>1 DEF NoticeTyped
<1>4. NoticeTyped'
  BY <1>1, <1>3 DEF NoticeTyped
<1>5. N!PublishedIsFinal
  BY <1>2 DEF N!PublishedIsFinal
<1>6. ASSUME NoticesAlone, NEW w \in Workers, njob'[w].op = "update" PROVE StillDraft(njob[w].id)'
  <2>1. njob[w].id \in Notices \ due
    BY <1>1, <1>6 DEF NoticesAlone, N!Overlap, NoticeTyped
  <2> QED
    BY <1>1, <1>2, <1>6, <2>1 DEF NoticesAlone, StillDraft
<1> QED
  BY <1>4, <1>5, <1>6 DEF NoticesAlone

LEMMA NoticesKeep ==
    ASSUME NoticeTyped, N!Next
    PROVE  /\ NoticeTyped'
           /\ NoticesAlone /\ ~N!Overlap' => NoticesAlone' /\ N!PublishedIsFinal
<1> DEFINE Goal == /\ NoticeTyped'
                   /\ NoticesAlone /\ ~N!Overlap' => NoticesAlone' /\ N!PublishedIsFinal
<1>1. ASSUME NEW n \in Notices, NEW at \in 0 .. 1 \cup {Never}, NEW p \in BOOLEAN, N!Create(n, at, p)
      PROVE  Goal
  BY <1>1, NoticeCreates
<1>2. ASSUME NEW n \in Notices, NEW w \in Workers, NEW text \in 0 .. 1,
             NEW at \in 0 .. 1 \cup {Never, Same}, NEW p \in BOOLEAN, N!UpdateRead(w, n, text, at, p)
      PROVE  Goal
  BY <1>2, NoticeUpdateReads
<1>3. ASSUME NEW n \in Notices, NEW w \in Workers, N!RemoveRead(w, n) PROVE Goal
  BY <1>3, NoticeRemoveReads
<1>4. ASSUME NEW w \in Workers, N!UpdateWrite(w) \/ N!RemoveWrite(w) PROVE Goal
  <2>1. njob[w].op \in {"update", "remove"}
    BY <1>4 DEF N!UpdateWrite, N!RemoveWrite
  <2> QED
    BY <1>4, <2>1, NoticeWrites
<1>5. ASSUME N!SweepRead \/ N!SweepWrite PROVE Goal
  BY <1>5, NoticeSweeps
<1>6. ASSUME N!Tick \/ \E n \in Notices, r \in Readers : N!MarkRead(n, r) PROVE Goal
  <2>1. UNCHANGED <<board, due, njob>>
    BY <1>6 DEF N!Tick, N!MarkRead
  <2> QED
    BY <2>1 DEF NoticeTyped, NoticesAlone, StillDraft, N!PublishedIsFinal
<1> HIDE DEF Goal
<1>7. N!Times = 0 .. 1
  BY DEF N!Times
<1>8. ASSUME NEW n \in Notices,
             \/ \E at \in N!Times \cup {Never}, p \in BOOLEAN : N!Create(n, at, p)
             \/ \E w \in Workers, text \in 0 .. 1, at \in N!Times \cup {Never, Same}, p \in BOOLEAN :
                   N!UpdateRead(w, n, text, at, p)
      PROVE  Goal
  BY <1>1, <1>2, <1>7, <1>8, Zenon
<1>9. Goal
  BY <1>3, <1>4, <1>5, <1>6, <1>8, Zenon DEF N!Next
<1> QED
  BY <1>9 DEF Goal

-----------------------------------------------------------------------------
(* SESSIONS *)

SessionJobs == [op : S!Ops, user : Users \cup {NoUser}, at : Nat, rest : SUBSET S!Statements]
Known(j) == IF j.op = "idle" THEN j.rest = {} ELSE j.user \in Users
SessionTyped ==
    /\ clock \in Nat /\ refresh \in [Users -> Nat] /\ rows \in [Users -> SUBSET Nat]
    /\ link \in [Users -> {"unsent", "valid", "gone"}] /\ resets \in [Users -> Nat]
    /\ over \in [Users -> Nat]
    /\ night \in [at : Nat, users : SUBSET Users, step : {"idle", "tokens"}]
    /\ sjob \in [Workers -> SessionJobs]
    /\ \A w \in Workers : Known(sjob[w])

(* While no revocation meets another request of the user: a token that is  *)
(* about to be stored is not older than the last revocation; and one that  *)
(* has been deleted by a revocation under way has not come back.           *)
JobInTime(j) ==
    /\ j.op \in {"login", "refresh"} => over[j.user] <= j.at /\ j.at <= clock
    /\ j.op \in {"logout", "change", "reset"} =>
          j.at <= clock /\ ("token" \notin j.rest => refresh[j.user] = 0)
SessionsAlone ==
    /\ \A u \in Users : over[u] <= clock /\ (refresh[u] # 0 => refresh[u] >= over[u])
    /\ \A w \in Workers : JobInTime(sjob[w])
    /\ night # S!NoNight => night.at <= clock /\ \A u \in Users \ night.users : refresh[u] = 0

(* A link is good until it has been used, or is about to be deleted.       *)
Resetting(u) == \E w \in Workers : /\ sjob[w].op = "reset" /\ sjob[w].user = u
                                   /\ "link" \in sjob[w].rest /\ "password" \notin sjob[w].rest
LinkOf(u) ==
    /\ resets[u] <= 1
    /\ link[u] = "unsent" => resets[u] = 0
    /\ link[u] = "valid" => resets[u] = 0 \/ Resetting(u)
ResetFine(j) ==
    j.op = "reset" => /\ link[j.user] # "unsent"
                      /\ "link" \notin j.rest => link[j.user] = "gone"
                      /\ "password" \in j.rest => resets[j.user] = 0
LinksAlone == (\A u \in Users : LinkOf(u)) /\ \A w \in Workers : ResetFine(sjob[w])

LEMMA SessionIdle == /\ S!NoJob \in SessionJobs /\ S!NoJob.op = "idle" /\ S!NoJob.rest = {}
                     /\ S!NoNight \in [at : Nat, users : SUBSET Users, step : {"idle", "tokens"}]
                     /\ S!NoNight.step = "idle"
BY DEF S!NoJob, SessionJobs, S!Ops, S!Statements, S!NoNight

LEMMA SessionStart == S!Init => SessionTyped /\ SessionsAlone /\ LinksAlone
<1> SUFFICES ASSUME S!Init PROVE SessionTyped /\ SessionsAlone /\ LinksAlone
  OBVIOUS
<1>1. sjob \in [Workers -> SessionJobs] /\ \A w \in Workers : sjob[w].op = "idle" /\ sjob[w].rest = {}
  BY SessionIdle DEF S!Init
<1>2. SessionTyped
  BY <1>1, SessionIdle DEF S!Init, SessionTyped, Known
<1>3. SessionsAlone
  BY <1>1 DEF S!Init, SessionsAlone, JobInTime
<1>4. LinksAlone
  BY <1>1 DEF S!Init, LinksAlone, LinkOf, ResetFine
<1> QED
  BY <1>2, <1>3, <1>4

LEMMA SessionJob ==
    ASSUME SessionTyped, NEW w \in Workers, NEW j \in SessionJobs, sjob' = [sjob EXCEPT ![w] = j],
           Known(j)
    PROVE  /\ sjob' \in [Workers -> SessionJobs] /\ sjob'[w] = j
           /\ \A v \in Workers \ {w} : sjob'[v] = sjob[v]
           /\ \A v \in Workers : Known(sjob'[v])
BY DEF SessionTyped, Known

(* A request begins.                                                       *)
LEMMA SessionBegins ==
    ASSUME SessionTyped, SessionsAlone, NEW w \in Workers, NEW j \in SessionJobs,
           sjob' = [sjob EXCEPT ![w] = j], sjob[w].op = "idle", j.op # "idle", j.user \in Users,
           j.op # "session" => j.at = clock /\ "token" \in j.rest,
           UNCHANGED <<clock, refresh, rows, link, resets, over, marked, night>>,
           j.op = "reset" => link[j.user] = "valid" /\ "link" \in j.rest /\ "password" \in j.rest
    PROVE  /\ SessionTyped' /\ SessionsAlone'
           /\ LinksAlone /\ ~S!Overlap' => LinksAlone'
<1>1. /\ sjob' \in [Workers -> SessionJobs] /\ sjob'[w] = j
      /\ \A v \in Workers \ {w} : sjob'[v] = sjob[v]
      /\ \A v \in Workers : Known(sjob'[v])
  BY SessionJob DEF Known
<1>2. SessionTyped'
  BY <1>1 DEF SessionTyped, Known
<1>3. ASSUME NEW v \in Workers PROVE JobInTime(sjob[v])'
  <2>1. CASE v = w
    BY <1>1, <2>1 DEF SessionTyped, SessionsAlone, JobInTime
  <2>2. CASE v # w
    BY <1>1, <2>2 DEF SessionsAlone, JobInTime
  <2> QED
    BY <2>1, <2>2
<1>4. SessionsAlone'
  BY <1>3 DEF SessionsAlone
<1>5. ASSUME LinksAlone, NEW u \in Users PROVE LinkOf(u)'
  <2>1. Resetting(u) => Resetting(u)'
    BY <1>1 DEF Resetting
  <2> QED
    BY <1>5, <2>1 DEF LinksAlone, LinkOf
<1>6. ASSUME LinksAlone, ~S!Overlap', NEW v \in Workers PROVE ResetFine(sjob[v])'
  <2>1. CASE v # w
    BY <1>1, <1>6, <2>1 DEF LinksAlone, ResetFine
  <2>2. CASE v = w /\ j.op = "reset"
    <3>1. ASSUME Resetting(j.user) PROVE FALSE
      <4>1. PICK x \in Workers : sjob[x].op = "reset" /\ sjob[x].user = j.user
        BY <3>1 DEF Resetting
      <4> QED
        BY <1>1, <1>6, <2>2, <4>1 DEF S!Overlap, S!Revokes
    <3> QED
      BY <1>1, <1>6, <2>2, <3>1 DEF LinksAlone, LinkOf, ResetFine
  <2>3. CASE v = w /\ j.op # "reset"
    BY <1>1, <2>3 DEF ResetFine
  <2> QED
    BY <2>1, <2>2, <2>3
<1> QED
  BY <1>2, <1>4, <1>5, <1>6 DEF LinksAlone

LEMMA SessionAsks ==
    ASSUME SessionTyped, SessionsAlone, NEW w \in Workers, NEW u \in Users,
           NEW op \in {"login", "refresh", "logout", "change", "reset"},
           NEW rest \in SUBSET S!Statements, "token" \in rest, S!Begin(w, op, u, rest),
           op = "reset" => link[u] = "valid" /\ "link" \in rest /\ "password" \in rest
    PROVE  /\ SessionTyped' /\ SessionsAlone'
           /\ LinksAlone /\ ~S!Overlap' => LinksAlone'
<1>1. PICK j : j = [op |-> op, user |-> u, at |-> clock, rest |-> rest]
  OBVIOUS
<1>2. j \in SessionJobs /\ j.op = op /\ j.user = u /\ j.at = clock /\ j.rest = rest
  BY <1>1 DEF SessionJobs, S!Ops, SessionTyped
<1>3. /\ sjob' = [sjob EXCEPT ![w] = j] /\ sjob[w].op = "idle"
      /\ UNCHANGED <<clock, refresh, rows, link, resets, over, marked, night>>
  BY <1>1 DEF S!Begin
<1> QED
  BY <1>2, <1>3, SessionBegins

LEMMA SessionsAsk ==
    ASSUME SessionTyped, SessionsAlone, NEW w \in Workers, NEW u \in Users,
           \/ S!Login(w, u) \/ S!Refresh(w, u) \/ S!Logout(w, u)
           \/ S!ChangePassword(w, u) \/ S!ResetPassword(w, u)
    PROVE  /\ SessionTyped' /\ SessionsAlone'
           /\ LinksAlone /\ ~S!Overlap' => LinksAlone'
<1>1. CASE S!Login(w, u)
  BY <1>1, SessionAsks DEF S!Login, S!Statements
<1>2. CASE S!Refresh(w, u)
  BY <1>2, SessionAsks DEF S!Refresh, S!Statements
<1>3. CASE S!Logout(w, u)
  BY <1>3, SessionAsks DEF S!Logout, S!Statements
<1>4. CASE S!ChangePassword(w, u)
  BY <1>4, SessionAsks DEF S!ChangePassword, S!Statements
<1>5. CASE S!ResetPassword(w, u)
  BY <1>5, SessionAsks DEF S!ResetPassword, S!Statements
<1> QED
  BY <1>1, <1>2, <1>3, <1>4, <1>5

LEMMA SessionAsksOfOne ==
    ASSUME SessionTyped, SessionsAlone, NEW w \in Workers, NEW u \in Users, NEW t \in rows[u],
           S!LogoutSession(w, u, t)
    PROVE  /\ SessionTyped' /\ SessionsAlone'
           /\ LinksAlone /\ ~S!Overlap' => LinksAlone'
<1>1. PICK j : j = [op |-> "session", user |-> u, at |-> t, rest |-> {"row"}]
  OBVIOUS
<1>2. j \in SessionJobs /\ j.op = "session" /\ j.user = u
  BY <1>1 DEF SessionJobs, S!Ops, S!Statements, SessionTyped
<1>3. /\ sjob' = [sjob EXCEPT ![w] = j] /\ sjob[w].op = "idle"
      /\ UNCHANGED <<clock, refresh, rows, link, resets, over, marked, night>>
  BY <1>1 DEF S!LogoutSession
<1> QED
  BY <1>2, <1>3, SessionBegins

(* It does one of its statements.                                          *)
LEMMA SessionDoes ==
    ASSUME SessionTyped, NEW w \in Workers, NEW s, S!Do(w, s)
    PROVE  \E j \in SessionJobs :
             /\ j.op = sjob[w].op /\ j.user = sjob[w].user /\ j.at = sjob[w].at
             /\ j.rest = sjob[w].rest \ {s} /\ j.op # "idle" /\ j.user \in Users
             /\ sjob' \in [Workers -> SessionJobs] /\ sjob'[w] = j
             /\ \A v \in Workers \ {w} : sjob'[v] = sjob[v]
             /\ \A v \in Workers : Known(sjob'[v])
             /\ s \in sjob[w].rest /\ UNCHANGED <<clock, over, marked, night>>
<1>1. PICK i \in SessionJobs : i = sjob[w] /\ Known(i)
  BY DEF SessionTyped
<1>2. /\ s \in i.rest /\ sjob' = [sjob EXCEPT ![w].rest = i.rest \ {s}]
      /\ UNCHANGED <<clock, over, marked, night>>
  BY <1>1 DEF S!Do
<1>3. PICK j : j = [i EXCEPT !.rest = i.rest \ {s}]
  OBVIOUS
<1>4. /\ j \in SessionJobs /\ j.op = i.op /\ j.user = i.user /\ j.at = i.at /\ j.rest = i.rest \ {s}
  BY <1>3 DEF SessionJobs
<1>5. sjob' = [sjob EXCEPT ![w] = j]
  BY <1>1, <1>2, <1>3
<1>6. i.op # "idle" /\ i.user \in Users /\ Known(j)
  BY <1>1, <1>2, <1>4 DEF Known
<1> QED
  BY <1>1, <1>2, <1>4, <1>5, <1>6, SessionJob

(* A statement that leaves the token, or the link, as it was.              *)
LEMMA TokenKept ==
    ASSUME SessionTyped, SessionsAlone, NEW w \in Workers, NEW s \in S!Statements \ {"token"},
           S!Do(w, s), UNCHANGED refresh
    PROVE  SessionsAlone'
<1>1. PICK j \in SessionJobs :
        /\ j.op = sjob[w].op /\ j.user = sjob[w].user /\ j.at = sjob[w].at
        /\ j.rest = sjob[w].rest \ {s}
        /\ sjob'[w] = j /\ \A v \in Workers \ {w} : sjob'[v] = sjob[v]
        /\ UNCHANGED <<clock, over, marked, night>>
  BY SessionDoes
<1>2. ASSUME NEW v \in Workers PROVE JobInTime(sjob[v])'
  <2>1. CASE v = w
    BY <1>1, <2>1 DEF SessionsAlone, JobInTime
  <2>2. CASE v # w
    BY <1>1, <2>2 DEF SessionsAlone, JobInTime
  <2> QED
    BY <2>1, <2>2
<1> QED
  BY <1>1, <1>2 DEF SessionsAlone

LEMMA LinkKept ==
    ASSUME SessionTyped, LinksAlone, NEW w \in Workers, NEW s \in {"token", "row"},
           S!Do(w, s), UNCHANGED <<link, resets>>
    PROVE  LinksAlone'
<1>1. PICK j \in SessionJobs :
        /\ j.op = sjob[w].op /\ j.user = sjob[w].user
        /\ j.rest = sjob[w].rest \ {s}
        /\ sjob'[w] = j /\ \A v \in Workers \ {w} : sjob'[v] = sjob[v]
  BY SessionDoes
<1>2. ASSUME NEW u \in Users PROVE LinkOf(u)'
  <2>1. ASSUME Resetting(u) PROVE Resetting(u)'
    <3>1. PICK v \in Workers : /\ sjob[v].op = "reset" /\ sjob[v].user = u
                               /\ "link" \in sjob[v].rest /\ "password" \notin sjob[v].rest
      BY <2>1 DEF Resetting
    <3>2. /\ sjob'[v].op = "reset" /\ sjob'[v].user = u
          /\ "link" \in sjob'[v].rest /\ "password" \notin sjob'[v].rest
      BY <1>1, <3>1
    <3> QED
      BY <3>2 DEF Resetting
  <2> QED
    BY <2>1 DEF LinksAlone, LinkOf
<1>3. ASSUME NEW v \in Workers PROVE ResetFine(sjob[v])'
  <2>1. CASE v = w
    BY <1>1, <2>1 DEF LinksAlone, ResetFine
  <2>2. CASE v # w
    BY <1>1, <2>2 DEF LinksAlone, ResetFine
  <2> QED
    BY <2>1, <2>2
<1> QED
  BY <1>2, <1>3 DEF LinksAlone

(* Tokens are stored and deleted.                                          *)
LEMMA SessionSaves ==
    ASSUME SessionTyped, ~S!Overlap, SessionsAlone, NEW w \in Workers, S!SaveToken(w)
    PROVE  SessionTyped' /\ SessionsAlone' /\ (LinksAlone => LinksAlone')
<1>1. /\ S!Do(w, "token") /\ sjob[w].op \in {"login", "refresh"}
      /\ UNCHANGED <<rows, link, resets>>
  BY DEF S!SaveToken, S!Issues
<1>2. PICK j \in SessionJobs :
        /\ j.op = sjob[w].op /\ j.user = sjob[w].user /\ j.at = sjob[w].at
        /\ j.rest = sjob[w].rest \ {"token"} /\ j.user \in Users
        /\ sjob' \in [Workers -> SessionJobs] /\ sjob'[w] = j
        /\ \A v \in Workers \ {w} : sjob'[v] = sjob[v]
        /\ \A v \in Workers : Known(sjob'[v])
        /\ UNCHANGED <<clock, over, marked, night>>
  BY <1>1, SessionDoes
<1>3. refresh' = [refresh EXCEPT ![j.user] = j.at] /\ j.at \in Nat
  BY <1>2 DEF S!SaveToken, SessionJobs
<1>4. /\ refresh' \in [Users -> Nat] /\ refresh'[j.user] = j.at
      /\ \A u \in Users \ {j.user} : refresh'[u] = refresh[u]
  BY <1>2, <1>3 DEF SessionTyped
<1>5. SessionTyped'
  BY <1>1, <1>2, <1>4 DEF SessionTyped
<1>6. JobInTime(sjob[w])
  BY DEF SessionsAlone
<1>7. ASSUME NEW u \in Users
      PROVE  (over[u] <= clock /\ (refresh[u] # 0 => refresh[u] >= over[u]))'
  <2>1. CASE u = j.user
    BY <1>1, <1>2, <1>4, <1>6, <2>1 DEF SessionsAlone, SessionTyped, JobInTime
  <2>2. CASE u # j.user
    BY <1>2, <1>4, <2>2 DEF SessionsAlone
  <2> QED
    BY <2>1, <2>2
<1>8. ASSUME NEW v \in Workers PROVE JobInTime(sjob[v])'
  <2>1. CASE v = w
    BY <1>1, <1>2, <1>6, <2>1 DEF JobInTime
  <2>2. CASE v # w /\ sjob[v].op \in {"logout", "change", "reset"}
    <3>1. sjob[v].user # j.user
      BY <1>1, <1>2, <2>2 DEF S!Overlap, S!Issues, S!Revokes
    <3>2. sjob[v].user \in Users
      BY <2>2 DEF SessionTyped, Known
    <3> QED
      BY <1>2, <1>4, <2>2, <3>1, <3>2 DEF SessionsAlone, JobInTime
  <2>3. CASE v # w /\ sjob[v].op \notin {"logout", "change", "reset"}
    BY <1>2, <2>3 DEF SessionsAlone, JobInTime
  <2> QED
    BY <2>1, <2>2, <2>3
<1>9. night' = S!NoNight
  BY <1>1, <1>2 DEF S!Overlap, S!Issues
<1>10. SessionsAlone'
  BY <1>7, <1>8, <1>9 DEF SessionsAlone
<1> QED
  BY <1>1, <1>5, <1>10, LinkKept

LEMMA SessionDeletes ==
    ASSUME SessionTyped, SessionsAlone, NEW w \in Workers, S!DeleteToken(w)
    PROVE  SessionTyped' /\ SessionsAlone' /\ (LinksAlone => LinksAlone')
<1>1. /\ S!Do(w, "token") /\ sjob[w].op \in {"logout", "change", "reset"}
      /\ UNCHANGED <<rows, link, resets>>
  BY DEF S!DeleteToken
<1>2. PICK j \in SessionJobs :
        /\ j.op = sjob[w].op /\ j.user = sjob[w].user /\ j.at = sjob[w].at
        /\ j.rest = sjob[w].rest \ {"token"} /\ j.user \in Users
        /\ sjob' \in [Workers -> SessionJobs] /\ sjob'[w] = j
        /\ \A v \in Workers \ {w} : sjob'[v] = sjob[v]
        /\ \A v \in Workers : Known(sjob'[v])
        /\ UNCHANGED <<clock, over, marked, night>>
  BY <1>1, SessionDoes
<1>3. refresh' = [refresh EXCEPT ![j.user] = 0]
  BY <1>2 DEF S!DeleteToken
<1>4. /\ refresh' \in [Users -> Nat] /\ refresh'[j.user] = 0
      /\ \A u \in Users : refresh'[u] \in {0, refresh[u]}
      /\ \A u \in Users : refresh[u] = 0 => refresh'[u] = 0
  BY <1>2, <1>3 DEF SessionTyped
<1>5. SessionTyped'
  BY <1>1, <1>2, <1>4 DEF SessionTyped
<1>6. ASSUME NEW v \in Workers PROVE JobInTime(sjob[v])'
  <2>1. CASE v = w
    BY <1>1, <1>2, <1>4, <2>1 DEF SessionsAlone, JobInTime
  <2>2. CASE v # w /\ sjob[v].op \in {"logout", "change", "reset"}
    <3>1. sjob[v].user \in Users
      BY <2>2 DEF SessionTyped, Known
    <3> QED
      BY <1>2, <1>4, <2>2, <3>1 DEF SessionsAlone, JobInTime
  <2>3. CASE v # w /\ sjob[v].op \notin {"logout", "change", "reset"}
    BY <1>2, <2>3 DEF SessionsAlone, JobInTime
  <2> QED
    BY <2>1, <2>2, <2>3
<1>7. SessionsAlone'
  BY <1>2, <1>4, <1>6 DEF SessionsAlone
<1> QED
  BY <1>1, <1>5, <1>7, LinkKept

(* The login history.                                                      *)
LEMMA SessionRows ==
    ASSUME SessionTyped, SessionsAlone, NEW w \in Workers, S!OpenRow(w) \/ S!CloseRows(w)
    PROVE  SessionTyped' /\ SessionsAlone' /\ (LinksAlone => LinksAlone')
<1>1. S!Do(w, "row") /\ UNCHANGED <<refresh, link, resets>> /\ "row" \in S!Statements \ {"token"}
  BY DEF S!OpenRow, S!CloseRows, S!Statements
<1>2. rows' \in [Users -> SUBSET Nat]
  BY DEF SessionTyped, S!OpenRow, S!CloseRows
<1>3. SessionTyped'
  <2>1. /\ sjob' \in [Workers -> SessionJobs] /\ \A v \in Workers : Known(sjob'[v])
        /\ UNCHANGED <<clock, over, marked, night>>
    BY <1>1, SessionDoes
  <2> QED
    BY <1>1, <1>2, <2>1 DEF SessionTyped
<1>4. SessionsAlone'
  BY <1>1, TokenKept
<1> QED
  BY <1>1, <1>3, <1>4, LinkKept

(* The password, and the link it was reset by.                             *)
LEMMA SessionPassword ==
    ASSUME SessionTyped, ~S!Overlap, SessionsAlone, NEW w \in Workers, S!SavePassword(w)
    PROVE  SessionTyped' /\ SessionsAlone' /\ (LinksAlone => LinksAlone')
<1>1. /\ S!Do(w, "password") /\ UNCHANGED <<refresh, rows, link>>
      /\ "password" \in S!Statements \ {"token"}
  BY DEF S!SavePassword, S!Statements
<1>2. PICK j \in SessionJobs :
        /\ j.op = sjob[w].op /\ j.user = sjob[w].user /\ j.at = sjob[w].at
        /\ j.rest = sjob[w].rest \ {"password"} /\ j.user \in Users
        /\ sjob' \in [Workers -> SessionJobs] /\ sjob'[w] = j
        /\ \A v \in Workers \ {w} : sjob'[v] = sjob[v]
        /\ \A v \in Workers : Known(sjob'[v])
        /\ "password" \in sjob[w].rest /\ UNCHANGED <<clock, over, marked, night>>
  BY <1>1, SessionDoes
<1>3. PICK u \in Users : u = j.user
  BY <1>2
<1>4. resets' = [resets EXCEPT ![u] = IF j.op = "reset" /\ resets[u] < 2 THEN resets[u] + 1
                                      ELSE resets[u]]
  BY <1>2, <1>3 DEF S!SavePassword
<1>5. /\ resets' \in [Users -> Nat] /\ \A x \in Users \ {u} : resets'[x] = resets[x]
      /\ resets'[u] = IF j.op = "reset" /\ resets[u] < 2 THEN resets[u] + 1 ELSE resets[u]
  BY <1>3, <1>4 DEF SessionTyped
<1>6. SessionTyped'
  BY <1>1, <1>2, <1>5 DEF SessionTyped
<1>7. ASSUME LinksAlone, NEW x \in Users PROVE LinkOf(x)'
  <2>1. ASSUME Resetting(x) PROVE Resetting(x)'
    <3>1. PICK v \in Workers : /\ sjob[v].op = "reset" /\ sjob[v].user = x
                               /\ "link" \in sjob[v].rest /\ "password" \notin sjob[v].rest
      BY <2>1 DEF Resetting
    <3> QED
      BY <1>2, <3>1 DEF Resetting
  <2>2. CASE x = u /\ j.op = "reset"
    <3>1. ResetFine(sjob[w]) /\ LinkOf(u)
      BY <1>7 DEF LinksAlone
    <3>2. resets'[u] = 1 /\ link[u] # "unsent"
      BY <1>2, <1>3, <1>5, <2>2, <3>1 DEF ResetFine
    <3>3. ASSUME link[u] = "valid" PROVE Resetting(u)'
      <4>1. "link" \in sjob[w].rest
        BY <1>2, <1>3, <2>2, <3>1, <3>3 DEF ResetFine
      <4>2. /\ sjob'[w].op = "reset" /\ sjob'[w].user = u
            /\ "link" \in sjob'[w].rest /\ "password" \notin sjob'[w].rest
        BY <1>2, <1>3, <2>2, <4>1
      <4> QED
        BY <4>2 DEF Resetting
    <3> QED
      BY <1>1, <2>2, <3>2, <3>3 DEF LinkOf
  <2>3. CASE ~(x = u /\ j.op = "reset")
    <3>1. resets'[x] = resets[x] /\ LinkOf(x)
      BY <1>5, <1>7, <2>3 DEF LinksAlone
    <3> QED
      BY <1>1, <2>1, <3>1 DEF LinkOf
  <2> QED
    BY <2>2, <2>3
<1>8. ASSUME LinksAlone, NEW v \in Workers PROVE ResetFine(sjob[v])'
  <2>1. CASE v = w
    BY <1>1, <1>2, <1>8, <2>1 DEF LinksAlone, ResetFine
  <2>2. CASE v # w /\ sjob[v].op = "reset"
    <3>1. sjob[v].user \in Users
      BY <2>2 DEF SessionTyped, Known
    <3>2. resets'[sjob[v].user] = resets[sjob[v].user]
      <4>1. CASE j.op = "reset"
        <5>1. sjob[v].user # u
          BY <1>2, <1>3, <2>2, <4>1 DEF S!Overlap, S!Revokes
        <5> QED
          BY <1>5, <3>1, <5>1
      <4>2. CASE j.op # "reset"
        BY <1>5, <3>1, <4>2
      <4> QED
        BY <4>1, <4>2
    <3> QED
      BY <1>1, <1>2, <1>8, <2>2, <3>2 DEF LinksAlone, ResetFine
  <2>3. CASE v # w /\ sjob[v].op # "reset"
    BY <1>2, <2>3 DEF ResetFine
  <2> QED
    BY <2>1, <2>2, <2>3
<1>9. SessionsAlone'
  BY <1>1, TokenKept
<1> QED
  BY <1>6, <1>7, <1>8, <1>9 DEF LinksAlone

LEMMA SessionLink ==
    ASSUME SessionTyped, SessionsAlone, NEW w \in Workers, S!DeleteLink(w)
    PROVE  SessionTyped' /\ SessionsAlone' /\ (LinksAlone => LinksAlone')
<1>1. /\ S!Do(w, "link") /\ UNCHANGED <<refresh, rows, resets>>
      /\ "link" \in S!Statements \ {"token"}
  BY DEF S!DeleteLink, S!Statements
<1>2. PICK j \in SessionJobs :
        /\ j.op = sjob[w].op /\ j.user = sjob[w].user /\ j.at = sjob[w].at
        /\ j.rest = sjob[w].rest \ {"link"} /\ j.user \in Users
        /\ sjob' \in [Workers -> SessionJobs] /\ sjob'[w] = j
        /\ \A v \in Workers \ {w} : sjob'[v] = sjob[v]
        /\ \A v \in Workers : Known(sjob'[v])
        /\ UNCHANGED <<clock, over, marked, night>>
  BY <1>1, SessionDoes
<1>3. PICK u \in Users : u = j.user
  BY <1>2
<1>4. link' = [link EXCEPT ![u] = "gone"]
  BY <1>2, <1>3 DEF S!DeleteLink
<1>5. /\ link' \in [Users -> {"unsent", "valid", "gone"}] /\ link'[u] = "gone"
      /\ \A x \in Users \ {u} : link'[x] = link[x]
  BY <1>3, <1>4 DEF SessionTyped
<1>6. SessionTyped'
  BY <1>1, <1>2, <1>5 DEF SessionTyped
<1>7. ASSUME LinksAlone, NEW x \in Users PROVE LinkOf(x)'
  <2>1. CASE x = u
    BY <1>1, <1>5, <1>7, <2>1 DEF LinksAlone, LinkOf
  <2>2. CASE x # u
    <3>1. ASSUME Resetting(x) PROVE Resetting(x)'
      <4>1. PICK v \in Workers : /\ sjob[v].op = "reset" /\ sjob[v].user = x
                                 /\ "link" \in sjob[v].rest /\ "password" \notin sjob[v].rest
        BY <3>1 DEF Resetting
      <4> QED
        BY <1>2, <1>3, <2>2, <4>1 DEF Resetting
    <3> QED
      BY <1>1, <1>5, <1>7, <2>2, <3>1 DEF LinksAlone, LinkOf
  <2> QED
    BY <2>1, <2>2
<1>8. ASSUME LinksAlone, NEW v \in Workers PROVE ResetFine(sjob[v])'
  <2>1. CASE v = w
    BY <1>1, <1>2, <1>3, <1>5, <1>8, <2>1 DEF LinksAlone, ResetFine
  <2>2. CASE v # w /\ sjob[v].op = "reset"
    <3>1. sjob[v].user \in Users
      BY <2>2 DEF SessionTyped, Known
    <3> QED
      BY <1>1, <1>2, <1>5, <1>8, <2>2, <3>1 DEF LinksAlone, ResetFine
  <2>3. CASE v # w /\ sjob[v].op # "reset"
    BY <1>2, <2>3 DEF ResetFine
  <2> QED
    BY <2>1, <2>2, <2>3
<1>9. SessionsAlone'
  BY <1>1, TokenKept
<1> QED
  BY <1>6, <1>7, <1>8, <1>9 DEF LinksAlone

(* A request answers, or dies.                                             *)
LEMMA SessionEnds ==
    ASSUME SessionTyped, ~S!Overlap, SessionsAlone, NEW w \in Workers, S!Finish(w) \/ S!Fail(w)
    PROVE  SessionTyped' /\ SessionsAlone' /\ (S!Finish(w) /\ LinksAlone => LinksAlone')
<1>1. sjob' = [sjob EXCEPT ![w] = S!NoJob] /\ UNCHANGED <<clock, refresh, rows, link, resets, marked, night>>
  BY DEF S!Finish, S!Fail
<1>2. /\ sjob' \in [Workers -> SessionJobs] /\ sjob'[w] = S!NoJob
      /\ \A v \in Workers \ {w} : sjob'[v] = sjob[v]
      /\ \A v \in Workers : Known(sjob'[v])
  BY <1>1, SessionIdle, SessionJob DEF Known
<1>3. PICK i \in SessionJobs : i = sjob[w] /\ Known(i) /\ JobInTime(i)
  BY DEF SessionTyped, SessionsAlone
<1>4. /\ over' \in [Users -> Nat]
      /\ \A u \in Users :
            \/ over'[u] = over[u]
            \/ /\ i.op \in {"logout", "change", "reset"} /\ i.user = u /\ i.rest = {}
               /\ over'[u] = S!Later(over[u], i.at)
  <2>1. CASE over' = over
    BY <2>1 DEF SessionTyped
  <2>2. CASE over' # over
    <3>1. /\ i.op \in {"logout", "change", "reset"} /\ i.rest = {} /\ i.user \in Users
          /\ over' = [over EXCEPT ![i.user] = S!Later(over[i.user], i.at)]
      BY <1>3, <2>2 DEF S!Finish, S!Fail, S!Issues, SessionJobs, S!Ops, Known
    <3>2. i.at \in Nat /\ over[i.user] \in Nat
      BY <1>3, <3>1 DEF SessionJobs, SessionTyped
    <3>3. S!Later(over[i.user], i.at) \in Nat
      BY <3>2 DEF S!Later
    <3> QED
      BY <3>1, <3>3 DEF SessionTyped
  <2> QED
    BY <2>1, <2>2
<1>5. SessionTyped'
  BY <1>1, <1>2, <1>4 DEF SessionTyped
<1>6. ASSUME NEW u \in Users
      PROVE  (over[u] <= clock /\ (refresh[u] # 0 => refresh[u] >= over[u]))'
  BY <1>1, <1>3, <1>4 DEF SessionsAlone, JobInTime, SessionTyped, SessionJobs, S!Later
<1>7. ASSUME NEW v \in Workers PROVE JobInTime(sjob[v])'
  <2>1. CASE v = w
    BY <1>2, <2>1, SessionIdle DEF JobInTime
  <2>2. CASE v # w /\ sjob[v].op \in {"login", "refresh"}
    <3>1. sjob[v].user \in Users
      BY <2>2 DEF SessionTyped, Known
    <3>2. over'[sjob[v].user] = over[sjob[v].user]
      BY <1>3, <1>4, <2>2, <3>1 DEF S!Overlap, S!Issues, S!Revokes
    <3> QED
      BY <1>1, <1>2, <2>2, <3>2 DEF SessionsAlone, JobInTime
  <2>3. CASE v # w /\ sjob[v].op \notin {"login", "refresh"}
    BY <1>1, <1>2, <2>3 DEF SessionsAlone, JobInTime
  <2> QED
    BY <2>1, <2>2, <2>3
<1>8. SessionsAlone'
  BY <1>1, <1>6, <1>7 DEF SessionsAlone
<1>9. ASSUME S!Finish(w), LinksAlone, NEW u \in Users PROVE LinkOf(u)'
  <2>1. ASSUME Resetting(u) PROVE Resetting(u)'
    <3>1. PICK v \in Workers : /\ sjob[v].op = "reset" /\ sjob[v].user = u
                               /\ "link" \in sjob[v].rest /\ "password" \notin sjob[v].rest
      BY <2>1 DEF Resetting
    <3>2. v # w
      BY <1>9, <3>1 DEF S!Finish
    <3> QED
      BY <1>2, <3>1, <3>2 DEF Resetting
  <2> QED
    BY <1>1, <1>9, <2>1 DEF LinksAlone, LinkOf
<1>10. ASSUME LinksAlone, NEW v \in Workers PROVE ResetFine(sjob[v])'
  <2>1. CASE v = w
    BY <1>2, <2>1, SessionIdle DEF ResetFine
  <2>2. CASE v # w
    BY <1>1, <1>2, <1>10, <2>2 DEF LinksAlone, ResetFine
  <2> QED
    BY <2>1, <2>2
<1> QED
  BY <1>5, <1>8, <1>9, <1>10 DEF LinksAlone

(* The nightly logout.                                                     *)
LEMMA NightGoes ==
    ASSUME SessionTyped, ~S!Overlap, SessionsAlone,
           S!NightBegin \/ S!NightClose \/ S!NightFails \/ \E u \in Users : S!NightDelete(u)
    PROVE  SessionTyped' /\ SessionsAlone' /\ (LinksAlone => LinksAlone')
<1>1. UNCHANGED <<clock, link, resets, sjob>>
  BY DEF S!NightBegin, S!NightClose, S!NightFails, S!NightDelete
<1>2. ASSUME LinksAlone PROVE LinksAlone'
  BY <1>1, <1>2 DEF LinksAlone, LinkOf, Resetting, ResetFine
<1>3. CASE S!NightBegin
  <2>1. PICK n : n = [at |-> clock, users |-> Users, step |-> "tokens"]
    OBVIOUS
  <2>2. /\ n \in [at : Nat, users : SUBSET Users, step : {"idle", "tokens"}]
        /\ n.at = clock /\ n.users = Users
    BY <2>1 DEF SessionTyped
  <2>3. night' = n /\ UNCHANGED <<refresh, rows, over>>
    BY <1>3, <2>1 DEF S!NightBegin
  <2>4. SessionTyped'
    BY <1>1, <2>2, <2>3 DEF SessionTyped
  <2>5. SessionsAlone'
    BY <1>1, <2>2, <2>3 DEF SessionsAlone, JobInTime, SessionTyped
  <2> QED
    BY <1>2, <2>4, <2>5
<1>4. CASE S!NightFails
  <2>1. night' = S!NoNight /\ UNCHANGED <<refresh, rows, over>>
    BY <1>4 DEF S!NightFails
  <2>2. SessionTyped'
    BY <1>1, <2>1, SessionIdle DEF SessionTyped
  <2>3. SessionsAlone'
    BY <1>1, <2>1 DEF SessionsAlone, JobInTime
  <2> QED
    BY <1>2, <2>2, <2>3
<1>5. ASSUME NEW u \in Users, S!NightDelete(u) PROVE SessionTyped' /\ SessionsAlone'
  <2>1. PICK o \in [at : Nat, users : SUBSET Users, step : {"idle", "tokens"}] : o = night
    BY DEF SessionTyped
  <2>2. PICK n : n = [o EXCEPT !.users = o.users \ {u}]
    OBVIOUS
  <2>3. /\ n \in [at : Nat, users : SUBSET Users, step : {"idle", "tokens"}]
        /\ n.at = o.at /\ n.users = o.users \ {u}
    BY <2>2
  <2>4. /\ night' = n /\ o # S!NoNight /\ UNCHANGED <<rows, over>>
        /\ refresh' = [refresh EXCEPT ![u] = 0]
    BY <1>5, <2>1, <2>2, SessionIdle DEF S!NightDelete
  <2>5. /\ refresh' \in [Users -> Nat] /\ refresh'[u] = 0
        /\ \A x \in Users : refresh'[x] \in {0, refresh[x]}
        /\ \A x \in Users : refresh[x] = 0 => refresh'[x] = 0
    BY <2>4 DEF SessionTyped
  <2>6. SessionTyped'
    BY <1>1, <2>3, <2>4, <2>5 DEF SessionTyped
  <2>7. ASSUME NEW v \in Workers PROVE JobInTime(sjob[v])'
    <3>1. CASE sjob[v].op \in {"logout", "change", "reset"}
      <4>1. sjob[v].user \in Users
        BY <3>1 DEF SessionTyped, Known
      <4> QED
        BY <1>1, <2>4, <2>5, <3>1, <4>1 DEF SessionsAlone, JobInTime
    <3>2. CASE sjob[v].op \notin {"logout", "change", "reset"}
      BY <1>1, <2>4, <3>2 DEF SessionsAlone, JobInTime
    <3> QED
      BY <3>1, <3>2
  <2>8. SessionsAlone'
    BY <1>1, <2>1, <2>3, <2>4, <2>5, <2>7 DEF SessionsAlone
  <2> QED
    BY <2>6, <2>8
<1>6. CASE S!NightClose
  <2>1. /\ night' = S!NoNight /\ night.users = {} /\ night # S!NoNight
        /\ UNCHANGED refresh /\ rows' = [u \in Users |-> {}]
        /\ over' = [u \in Users |-> S!Later(over[u], night.at)]
    BY <1>6, SessionIdle DEF S!NightClose
  <2>2. night.at \in Nat /\ night.at <= clock /\ \A u \in Users : refresh[u] = 0
    BY <2>1 DEF SessionsAlone, SessionTyped
  <2>3. over' \in [Users -> Nat] /\ \A u \in Users : over'[u] <= clock
    BY <2>1, <2>2 DEF SessionTyped, SessionsAlone, S!Later
  <2>4. SessionTyped'
    BY <1>1, <2>1, <2>3, SessionIdle DEF SessionTyped
  <2>5. ASSUME NEW v \in Workers PROVE JobInTime(sjob[v])'
    <3>1. sjob[v].op \notin {"login", "refresh"}
      BY <2>1 DEF S!Overlap, S!Issues
    <3> QED
      BY <1>1, <2>1, <3>1 DEF SessionsAlone, JobInTime
  <2>6. SessionsAlone'
    BY <1>1, <2>1, <2>2, <2>3, <2>5 DEF SessionsAlone
  <2> QED
    BY <1>2, <2>4, <2>6
<1> QED
  BY <1>2, <1>3, <1>4, <1>5, <1>6

(* Keys expire, links are sent, and time passes.                           *)
LEMMA SessionsPass ==
    ASSUME SessionTyped, SessionsAlone,
           S!Tick \/ \E u \in Users : S!SendLink(u) \/ S!Expire(u)
    PROVE  SessionTyped' /\ SessionsAlone' /\ (LinksAlone => LinksAlone')
<1>1. UNCHANGED <<rows, resets, over, night, sjob>>
  BY DEF S!Tick, S!SendLink, S!Expire
<1>2. /\ clock' \in {clock, clock + 1}
      /\ refresh' \in [Users -> Nat] /\ link' \in [Users -> {"unsent", "valid", "gone"}]
      /\ \A u \in Users : /\ refresh'[u] \in {0, refresh[u]}
                          /\ \/ link'[u] = link[u]
                             \/ link[u] = "unsent" /\ link'[u] = "valid"
                             \/ link[u] = "valid" /\ link'[u] = "gone"
  <2>1. CASE S!Tick
    BY <2>1 DEF S!Tick, SessionTyped
  <2>2. ASSUME NEW u \in Users, S!SendLink(u) \/ S!Expire(u)
        PROVE  /\ UNCHANGED clock
               /\ \/ UNCHANGED refresh
                  \/ refresh' = [refresh EXCEPT ![u] = 0]
               /\ \/ UNCHANGED link
                  \/ link[u] = "unsent" /\ link' = [link EXCEPT ![u] = "valid"]
                  \/ link[u] = "valid" /\ link' = [link EXCEPT ![u] = "gone"]
    BY <2>2 DEF S!SendLink, S!Expire
  <2> QED
    BY <2>1, <2>2 DEF SessionTyped
<1>3. SessionTyped'
  BY <1>1, <1>2 DEF SessionTyped
<1>4. ASSUME NEW v \in Workers PROVE JobInTime(sjob[v])'
  <2>1. CASE sjob[v].op = "idle"
    BY <1>1, <2>1 DEF JobInTime
  <2>2. CASE sjob[v].op # "idle"
    <3>1. sjob[v].user \in Users /\ sjob[v].at \in Nat
      BY <2>2 DEF SessionTyped, Known, SessionJobs
    <3> QED
      BY <1>1, <1>2, <3>1 DEF SessionsAlone, JobInTime, SessionTyped
  <2> QED
    BY <2>1, <2>2
<1>5. SessionsAlone'
  BY <1>1, <1>2, <1>4 DEF SessionsAlone, SessionTyped
<1>6. ASSUME LinksAlone PROVE LinksAlone'
  <2>1. ASSUME NEW u \in Users PROVE LinkOf(u)'
    <3>1. Resetting(u)' <=> Resetting(u)
      BY <1>1 DEF Resetting
    <3> QED
      BY <1>1, <1>2, <1>6, <3>1 DEF LinksAlone, LinkOf
  <2>2. ASSUME NEW v \in Workers PROVE ResetFine(sjob[v])'
    <3>1. CASE sjob[v].op = "reset"
      <4>1. sjob[v].user \in Users
        BY <3>1 DEF SessionTyped, Known
      <4> QED
        BY <1>1, <1>2, <1>6, <3>1, <4>1 DEF LinksAlone, ResetFine
    <3>2. CASE sjob[v].op # "reset"
      BY <1>1, <3>2 DEF ResetFine
    <3> QED
      BY <3>1, <3>2
  <2> QED
    BY <2>1, <2>2 DEF LinksAlone
<1> QED
  BY <1>3, <1>5, <1>6

(* Every step that starts with no revocation having met another request of *)
(* its user.                                                               *)
LEMMA SessionsKeep ==
    ASSUME SessionTyped, ~S!Overlap, SessionsAlone, S!Next
    PROVE  /\ SessionTyped' /\ SessionsAlone'
           /\ LinksAlone /\ ~S!Overlap' /\ ~(\E w \in Workers : S!Fail(w)) => LinksAlone'
<1> DEFINE Goal == /\ SessionTyped' /\ SessionsAlone'
                   /\ LinksAlone /\ ~S!Overlap' /\ ~(\E w \in Workers : S!Fail(w)) => LinksAlone'
<1>1. ASSUME NEW w \in Workers, NEW u \in Users,
             \/ S!Login(w, u) \/ S!Refresh(w, u) \/ S!Logout(w, u)
             \/ \E t \in rows[u] : S!LogoutSession(w, u, t)
             \/ S!ChangePassword(w, u) \/ S!ResetPassword(w, u)
      PROVE  Goal
  BY <1>1, SessionsAsk, SessionAsksOfOne
<1>2. ASSUME NEW w \in Workers,
             \/ S!SaveToken(w) \/ S!DeleteToken(w) \/ S!OpenRow(w) \/ S!CloseRows(w)
             \/ S!SavePassword(w) \/ S!DeleteLink(w) \/ S!Finish(w) \/ S!Fail(w)
      PROVE  Goal
  BY <1>2, SessionSaves, SessionDeletes, SessionRows, SessionPassword, SessionLink, SessionEnds
<1>3. ASSUME \/ \E u \in Users : S!SendLink(u) \/ S!NightDelete(u) \/ S!Expire(u)
             \/ S!NightBegin \/ S!NightClose \/ S!NightFails \/ S!Tick
      PROVE  Goal
  <2>1. ASSUME S!Tick \/ \E u \in Users : S!SendLink(u) \/ S!Expire(u) PROVE Goal
    BY <2>1, SessionsPass
  <2>2. ASSUME \/ S!NightBegin \/ S!NightClose \/ S!NightFails
               \/ \E u \in Users : S!NightDelete(u)
        PROVE  Goal
    BY <2>2, NightGoes
  <2> HIDE DEF Goal
  <2> QED
    BY <1>3, <2>1, <2>2, Zenon
<1> HIDE DEF Goal
<1>4. Goal
  BY <1>1, <1>2, <1>3, Zenon DEF S!Next
<1> QED
  BY <1>4 DEF Goal

-----------------------------------------------------------------------------
(* A behaviour takes the steps of one service; the others are as they were *)
(* at first, and what is claimed of requests alone holds of those.         *)
RequestsOnly == IF side = "requests" THEN RequestInv ELSE DeskInv /\ RequestsAlone
FilesOnly == IF side = "files" THEN FilesInv
             ELSE UploadInv /\ FilesTypes /\ KeysAreNotices /\ FilesAlone /\ FilesWhole

LEMMA RequestsOnlyKeeps == ASSUME RequestsOnly, [MCNext]_<<vars, side, raced, died>> PROVE RequestsOnly'
<1>1. CASE UNCHANGED <<request, leaves, call, side, raced>>
  BY <1>1 DEF RequestsOnly, RequestInv, DeskInv, RequestTyped, Checked, StillChecked, RequestsAlone,
     RequestsSo, StillSo, Q!Overlap, Q!ResolvedIsGranted, Q!ResolvedStaysResolved
<1>2. CASE side # "requests" /\ UNCHANGED <<request, leaves, call, side>>
  BY <1>2 DEF RequestsOnly, DeskInv, RequestTyped, Checked, StillChecked, RequestsAlone,
     RequestsSo, StillSo, Q!Overlap, Q!ResolvedIsGranted, Q!ResolvedStaysResolved
<1>3. CASE RequestsStep /\ UNCHANGED side
  BY <1>3, RequestsKeep DEF RequestsOnly, RequestsStep
<1> QED
  BY <1>1, <1>2, <1>3 DEF MCNext, SessionsStep, RatingsStep, FilesStep, ChatStep, NoticesStep,
     MemosStep, vars, requestVars

LEMMA FilesOnlyKeeps ==
    ASSUME NoAsset \notin Ids, FilesOnly, [MCNext]_<<vars, side, raced, died>> PROVE FilesOnly'
<1>1. CASE UNCHANGED <<file, photo, byHand, documents, notice, purge, answered, ujob, side, raced, died>>
  BY <1>1 DEF FilesOnly, FilesInv, UploadInv, FilesTyped, FilesTypes, KeysAreNotices, FilesAlone, FilesWhole,
     KnownIsUsed, UploadIsNew, IsNew, Uploading, KeyIsNotice, Now, InPlace, Accounted, U!Overlap
<1>2. CASE side # "files" /\ UNCHANGED <<file, photo, byHand, documents, notice, purge, answered, ujob, side>>
  BY <1>2 DEF FilesOnly, UploadInv, FilesTyped, FilesTypes, KeysAreNotices, FilesAlone, FilesWhole,
     KnownIsUsed, UploadIsNew, IsNew, Uploading, KeyIsNotice, Now, InPlace, Accounted, U!Overlap
<1>3. CASE FilesStep /\ UNCHANGED side
  BY <1>3, FilesKeep DEF FilesOnly, FilesStep
<1> QED
  BY <1>1, <1>2, <1>3 DEF MCNext, SessionsStep, RatingsStep, RequestsStep, ChatStep, NoticesStep,
     MemosStep, vars, fileVars

MemosOnly == IF side = "memos" THEN MemoInv ELSE MemosTyped /\ MemosEarned /\ MemosAlone

LEMMA MemosOnlyKeeps ==
    ASSUME MemosOnly, [MCNext]_<<vars, side, raced, died>> PROVE MemosOnly'
<1>1. CASE UNCHANGED <<memos, flagged, notices, djob, side, raced, died>>
  BY <1>1 DEF MemosOnly, MemoInv, MemosTyped, MemosEarned, MemosAlone, MemoSo, MemoReads, ReviewOf, Told,
     D!FlagIsEarned, D!ReviewIsDue, D!Overlap, D!Serving
<1>2. CASE side # "memos" /\ UNCHANGED <<memos, flagged, notices, djob, side>>
  BY <1>2 DEF MemosOnly, MemosTyped, MemosEarned, MemosAlone, MemoSo, MemoReads, ReviewOf, Told,
     D!FlagIsEarned, D!ReviewIsDue, D!Overlap, D!Serving
<1>3. CASE MemosStep /\ UNCHANGED side
  BY <1>3, MemosKeep DEF MemosOnly, MemosStep
<1> QED
  BY <1>1, <1>2, <1>3 DEF MCNext, SessionsStep, RatingsStep, RequestsStep, ChatStep, NoticesStep,
     FilesStep, vars, memoVars

LEMMA ChartKept == ASSUME ChartTyped, [MCNext]_<<vars, side, raced, died>> PROVE ChartTyped'
<1>1. CASE UNCHANGED <<manager, gone>>
  BY <1>1 DEF ChartTyped
<1>2. CASE RatingsStep
  BY <1>2, ChartKeeps DEF RatingsStep
<1> QED
  BY <1>1, <1>2 DEF MCNext, SessionsStep, MemosStep, RequestsStep, ChatStep, NoticesStep,
     FilesStep, vars, ratingVars

ChatOnly ==
    IF side = "chat" THEN ChatInv
    ELSE ChatTyped /\ active \subseteq Members /\ ChatAlone /\ OutOrLeaving

LEMMA ChatOnlyKeeps == ASSUME ChatOnly, [MCNext]_<<vars, side, raced, died>> PROVE ChatOnly'
<1>1. UNCHANGED chatVars => /\ ChatTyped' <=> ChatTyped
                            /\ ChatAlone' <=> ChatAlone
                            /\ OutOrLeaving' <=> OutOrLeaving
  <2> SUFFICES ASSUME UNCHANGED <<active, room, posted, wire, joined, inbox, cjob, insisted>>
               PROVE  /\ ChatTyped' <=> ChatTyped
                      /\ ChatAlone' <=> ChatAlone
                      /\ OutOrLeaving' <=> OutOrLeaving
    BY DEF chatVars
  <2>1. ChatTyped' <=> ChatTyped
    BY DEF ChatTyped, RoomsFine, JobsFine, MailFine, JobFine, Been
  <2>2. ChatAlone' <=> ChatAlone
    BY DEF ChatAlone, OneOfEach, FoundOnly, InRoom, C!Overlap, C!Opening
  <2>3. OutOrLeaving' <=> OutOrLeaving
    BY DEF OutOrLeaving, Leaving
  <2> QED
    BY <2>1, <2>2, <2>3
<1>2. CASE UNCHANGED <<chatVars, side, raced, died>>
  BY <1>1, <1>2 DEF ChatOnly, ChatInv, chatVars
<1>3. CASE side # "chat" /\ UNCHANGED <<chatVars, side>>
  BY <1>1, <1>3 DEF ChatOnly, chatVars
<1>4. CASE ChatStep /\ UNCHANGED side
  BY <1>4, ChatInvKeeps DEF ChatOnly, ChatStep
<1> QED
  BY <1>2, <1>3, <1>4 DEF MCNext, SessionsStep, RatingsStep, RequestsStep, MemosStep, NoticesStep,
     FilesStep, vars

RatingsOnly == RatingTyped /\ ((side = "ratings" /\ raced) \/ RatersFine)
NoticesOnly == NoticeTyped /\ ((side = "notices" /\ raced) \/ NoticesAlone)

LEMMA RatingsOnlyKeeps ==
    ASSUME RatingsOnly, [MCNext]_<<vars, side, raced, died>>
    PROVE  RatingsOnly' /\ (~raced' => A!RatedFromAbove)
<1>1. ASSUME UNCHANGED ratingVars PROVE (RatingTyped' <=> RatingTyped) /\ (RatersFine' <=> RatersFine)
  <2> SUFFICES ASSUME UNCHANGED <<manager, gone, cycle, ratedBy, rjob, moved>>
               PROVE  (RatingTyped' <=> RatingTyped) /\ (RatersFine' <=> RatersFine)
    BY <1>1 DEF ratingVars
  <2>1. RatingTyped' <=> RatingTyped
    BY DEF RatingTyped, Named
  <2>2. RatersFine' <=> RatersFine
    BY DEF RatersFine, RaterFine, OpenFor, OnWay
  <2> QED
    BY <2>1, <2>2
<1>2. CASE UNCHANGED <<ratingVars, side, raced>>
  BY <1>1, <1>2, NotRated DEF RatingsOnly, ratingVars
<1>3. CASE side # "ratings" /\ UNCHANGED <<ratingVars, side>>
  BY <1>1, <1>3, NotRated DEF RatingsOnly, ratingVars
<1>4. CASE RatingsStep /\ UNCHANGED side
  <2>1. /\ RatingTyped' /\ side = "ratings"
        /\ RatersFine /\ ~(A!Submitting /\ <<cycle, moved>>' # <<cycle, moved>>) =>
              RatersFine' /\ A!RatedFromAbove
    BY <1>4, RatingsKeep DEF RatingsStep, RatingsOnly
  <2>2. raced' = (raced \/ (A!Submitting /\ <<cycle, moved>>' # <<cycle, moved>>))
    BY <1>4 DEF RatingsStep
  <2> QED
    BY <1>4, <2>1, <2>2 DEF RatingsOnly
<1> QED
  BY <1>2, <1>3, <1>4 DEF MCNext, SessionsStep, RequestsStep, ChatStep, MemosStep, NoticesStep,
     FilesStep, vars

LEMMA NoticesOnlyKeeps ==
    ASSUME NoticesOnly, [MCNext]_<<vars, side, raced, died>>
    PROVE  NoticesOnly' /\ (~raced' => N!PublishedIsFinal)
<1>1. ASSUME UNCHANGED noticeVars
      PROVE  /\ (NoticeTyped' <=> NoticeTyped) /\ (NoticesAlone' <=> NoticesAlone)
             /\ N!PublishedIsFinal
  <2> SUFFICES ASSUME UNCHANGED <<board, due, njob>>
               PROVE  /\ (NoticeTyped' <=> NoticeTyped) /\ (NoticesAlone' <=> NoticesAlone)
                      /\ N!PublishedIsFinal
    BY <1>1 DEF noticeVars
  <2>1. NoticeTyped' <=> NoticeTyped
    BY DEF NoticeTyped
  <2>2. NoticesAlone' <=> NoticesAlone
    BY DEF NoticesAlone, StillDraft, N!Overlap
  <2>3. N!PublishedIsFinal
    BY DEF N!PublishedIsFinal
  <2> QED
    BY <2>1, <2>2, <2>3
<1>2. CASE UNCHANGED <<noticeVars, side, raced>>
  BY <1>1, <1>2 DEF NoticesOnly
<1>3. CASE side # "notices" /\ UNCHANGED <<noticeVars, side>>
  BY <1>1, <1>3 DEF NoticesOnly
<1>4. CASE NoticesStep /\ UNCHANGED side
  <2>1. /\ NoticeTyped' /\ side = "notices"
        /\ NoticesAlone /\ ~N!Overlap' => NoticesAlone' /\ N!PublishedIsFinal
    BY <1>4, NoticesKeep DEF NoticesStep, NoticesOnly
  <2>2. raced' = (raced \/ N!Overlap')
    BY <1>4 DEF NoticesStep
  <2> QED
    BY <1>4, <2>1, <2>2 DEF NoticesOnly
<1> QED
  BY <1>2, <1>3, <1>4 DEF MCNext, SessionsStep, RequestsStep, ChatStep, MemosStep, RatingsStep,
     FilesStep, vars

SessionsOnly ==
    /\ SessionTyped
    /\ ~S!Overlap => SessionsAlone /\ (~died => LinksAlone)

LEMMA SessionsOnlyKeeps ==
    ASSUME SessionsOnly, [MCNext]_<<vars, side, raced, died>> PROVE SessionsOnly'
<1>1. CASE UNCHANGED sessionVars /\ (died => died')
  <2> SUFFICES ASSUME UNCHANGED <<clock, refresh, rows, link, resets, over, marked, night, sjob>>,
                      died => died'
               PROVE  SessionsOnly'
    BY <1>1 DEF sessionVars
  <2>1. SessionTyped' <=> SessionTyped
    BY DEF SessionTyped
  <2>2. SessionsAlone' <=> SessionsAlone
    BY DEF SessionsAlone, JobInTime
  <2>3. LinksAlone' <=> LinksAlone
    BY DEF LinksAlone, LinkOf, Resetting, ResetFine
  <2>4. S!Overlap' <=> S!Overlap
    BY DEF S!Overlap, S!Issues, S!Revokes
  <2> QED
    BY <2>1, <2>2, <2>3, <2>4 DEF SessionsOnly
<1>2. CASE SessionsStep
  <2>1. /\ S!Next /\ ~S!Overlap
        /\ died' = (died \/ \E w \in Workers : S!Fail(w))
    BY <1>2 DEF SessionsStep
  <2> QED
    BY <2>1, SessionsKeep DEF SessionsOnly
<1>3. CASE UNCHANGED <<vars, side, raced, died>>
  BY <1>1, <1>3 DEF vars
<1>4. CASE \/ RequestsStep \/ RatingsStep \/ FilesStep \/ ChatStep \/ NoticesStep \/ MemosStep
  <2>1. UNCHANGED sessionVars
    BY <1>4 DEF RequestsStep, RatingsStep, FilesStep, ChatStep, NoticesStep, MemosStep
  <2>2. died => died'
    BY <1>4 DEF RequestsStep, RatingsStep, FilesStep, ChatStep, NoticesStep, MemosStep
  <2> QED
    BY <1>1, <2>1, <2>2
<1> QED
  BY <1>2, <1>3, <1>4 DEF MCNext

-----------------------------------------------------------------------------
(* TYPES.  What the invariants above leave open: bounds of the counters,   *)
(* and times.                                                              *)

RatingTypes == RatingTyped /\ moved \in 0 .. 3

LEMMA RatingTypesStay ==
    ASSUME RatingTypes, [MCNext]_<<vars, side, raced, died>> PROVE moved' \in 0 .. 3
<1>1. CASE UNCHANGED moved
  BY <1>1 DEF RatingTypes
<1>2. CASE A!Ask
  BY <1>2 DEF A!Ask, RatingTypes
<1>3. A!Next => UNCHANGED moved \/ A!Ask
  BY DEF A!Next, A!CreateCycle, A!CycleRead, A!CycleWrite, A!SubmitRead, A!RateeRead, A!Walk, A!Save,
     A!SetManager, A!Remove, A!Restore
<1>4. UNCHANGED ratingVars => UNCHANGED moved
  BY DEF ratingVars
<1> QED
  BY <1>1, <1>2, <1>3, <1>4
  DEF MCNext, SessionsStep, RequestsStep, RatingsStep, FilesStep, ChatStep, NoticesStep, MemosStep, vars

ChatTypes == insisted \subseteq Members /\ chats \in 0 .. 4

LEMMA ChatTypesStay ==
    ASSUME ChatTyped, active \subseteq Members, ChatTypes, [MCNext]_<<vars, side, raced, died>>
    PROVE  ChatTypes'
<1>1. C!Next => UNCHANGED chats \/ C!Ask
  BY DEF C!Next, C!DepartmentRead, C!Suspend, C!DirectRead, C!JoinCheck, C!SendCheck, C!GroupRoom,
     C!Begin
<1>2. C!Next => insisted' \subseteq Members
  <2> SUFFICES ASSUME C!Next, ~UNCHANGED insisted PROVE insisted' \subseteq Members
    BY DEF ChatTypes
  <2>1. PICK w \in Workers : C!RoomWrite(w) \/ C!Revoke(w)
    BY DEF C!Next, C!DepartmentRead, C!Suspend, C!DirectRead, C!JoinCheck, C!SendCheck, C!GroupRoom,
       C!SendStore, C!Publish, C!Join, C!Fail, C!Disconnect, C!Reinstate, C!Deliver, C!Quiet
  <2>2. insisted' \subseteq insisted \cup {cjob[w].by}
        /\ (C!RoomWrite(w) => cjob[w].by \in Members)
    BY <2>1 DEF C!RoomWrite, C!Revoke, ChatTyped, JobsFine, JobFine
  <2>3. C!Revoke(w) => insisted' \subseteq insisted
    BY DEF C!Revoke
  <2> QED
    BY <2>1, <2>2, <2>3 DEF ChatTypes
<1>3. C!Ask => chats' \in 0 .. 4
  BY DEF C!Ask, ChatTypes
<1>4. UNCHANGED chatVars => UNCHANGED <<insisted, chats>>
  BY DEF chatVars
<1> QED
  BY <1>1, <1>2, <1>3, <1>4
  DEF ChatTypes, MCNext, SessionsStep, RequestsStep, RatingsStep, FilesStep, ChatStep, NoticesStep,
      MemosStep, vars

NoticeJobs == [op : {"idle", "update", "remove"}, id : Notices \cup {NoNotice}, text : 0 .. 1,
               at : 0 .. 1 \cup {Never, Same}, publish : BOOLEAN]
NoticeTypes == now \in 0 .. 1 /\ reads \subseteq Notices \X Readers /\ njob \in [Workers -> NoticeJobs]

LEMMA NoticeTypesStay ==
    ASSUME NoticeTypes, [MCNext]_<<vars, side, raced, died>> PROVE NoticeTypes'
<1>1. ASSUME N!Next PROVE now' \in 0 .. 1
  <2>1. UNCHANGED now \/ N!Tick
    BY <1>1 DEF N!Next, N!Create, N!UpdateRead, N!RemoveRead, N!MarkRead, N!UpdateWrite, N!RemoveWrite,
       N!SweepRead, N!SweepWrite
  <2> QED
    BY <2>1 DEF N!Tick, NoticeTypes
<1>2. ASSUME N!Next PROVE reads' \subseteq Notices \X Readers
  <2>1. \/ reads' \subseteq reads
        \/ \E n \in Notices, r \in Readers : reads' = reads \cup {<<n, r>>}
    <3>1. ASSUME NEW w \in Workers, N!UpdateWrite(w) \/ N!RemoveWrite(w) PROVE reads' \subseteq reads
      BY <3>1 DEF N!UpdateWrite, N!RemoveWrite
    <3>2. ASSUME NEW n \in Notices, NEW r \in Readers, N!MarkRead(n, r)
          PROVE  reads' = reads \cup {<<n, r>>}
      BY <3>2 DEF N!MarkRead
    <3>3. ASSUME NEW n \in Notices,
                 \/ \E at \in N!Times \cup {Never}, p \in BOOLEAN : N!Create(n, at, p)
                 \/ \E w \in Workers, text \in 0 .. 1, at \in N!Times \cup {Never, Same}, p \in BOOLEAN :
                       N!UpdateRead(w, n, text, at, p)
                 \/ \E w \in Workers : N!RemoveRead(w, n)
          PROVE  UNCHANGED reads
      BY <3>3 DEF N!Create, N!UpdateRead, N!RemoveRead
    <3>4. ASSUME N!SweepRead \/ N!SweepWrite \/ N!Tick PROVE UNCHANGED reads
      BY <3>4 DEF N!SweepRead, N!SweepWrite, N!Tick
    <3> QED
      BY <1>2, <3>1, <3>2, <3>3, <3>4 DEF N!Next
  <2> QED
    BY <2>1 DEF NoticeTypes
<1>3. ASSUME N!Next PROVE njob' \in [Workers -> NoticeJobs]
  <2>1. N!NoJob \in NoticeJobs
    BY DEF N!NoJob, NoticeJobs
  <2>2. \/ UNCHANGED njob
        \/ \E w \in Workers, j \in NoticeJobs : njob' = [njob EXCEPT ![w] = j]
    <3>1. ASSUME NEW w \in Workers, NEW n \in Notices, NEW text \in 0 .. 1,
                 NEW at \in 0 .. 1 \cup {Never, Same}, NEW p \in BOOLEAN,
                 N!UpdateRead(w, n, text, at, p)
          PROVE  \E j \in NoticeJobs : njob' = [njob EXCEPT ![w] = j]
      BY <3>1 DEF N!UpdateRead, NoticeJobs
    <3>2. ASSUME NEW w \in Workers, NEW n \in Notices, N!RemoveRead(w, n)
          PROVE  \E j \in NoticeJobs : njob' = [njob EXCEPT ![w] = j]
      <4>1. PICK i : i = [N!NoJob EXCEPT !.op = "remove"]
        OBVIOUS
      <4>2. i \in NoticeJobs
        BY <2>1, <4>1 DEF NoticeJobs
      <4>3. PICK j : j = [i EXCEPT !.id = n]
        OBVIOUS
      <4>4. j \in NoticeJobs
        BY <4>2, <4>3 DEF NoticeJobs
      <4> QED
        BY <3>2, <4>1, <4>3, <4>4 DEF N!RemoveRead
    <3>3. ASSUME NEW w \in Workers, N!UpdateWrite(w) \/ N!RemoveWrite(w)
          PROVE  njob' = [njob EXCEPT ![w] = N!NoJob]
      BY <3>3 DEF N!UpdateWrite, N!RemoveWrite, N!Finish
    <3>4. ASSUME N!SweepRead \/ N!SweepWrite \/ N!Tick PROVE UNCHANGED njob
      BY <3>4 DEF N!SweepRead, N!SweepWrite, N!Tick
    <3>5. ASSUME NEW n \in Notices, \/ \E at \in N!Times \cup {Never}, p \in BOOLEAN : N!Create(n, at, p)
                                    \/ \E r \in Readers : N!MarkRead(n, r)
          PROVE  UNCHANGED njob
      BY <3>5 DEF N!Create, N!MarkRead
    <3>6. N!Times = 0 .. 1
      BY DEF N!Times
    <3> QED
      BY <1>3, <2>1, <3>1, <3>2, <3>3, <3>4, <3>5, <3>6 DEF N!Next
  <2> QED
    BY <2>2 DEF NoticeTypes
<1>4. UNCHANGED noticeVars => UNCHANGED <<now, reads, njob>>
  BY DEF noticeVars
<1> QED
  BY <1>1, <1>2, <1>3, <1>4
  DEF NoticeTypes, MCNext, SessionsStep, RequestsStep, RatingsStep, FilesStep, ChatStep, NoticesStep,
      MemosStep, vars

MemoTypes == memos \in [Staff -> 0 .. MaxMemos] /\ notices \in [Staff -> 0 .. 2]

LEMMA MemoTypesStay ==
    ASSUME MemosTyped, MemoTypes, [MCNext]_<<vars, side, raced, died>> PROVE MemoTypes'
<1>1. ASSUME NEW w \in Workers, D!Insert(w) PROVE MemoTypes'
  <2>1. PICK e : e = djob[w].employee
    OBVIOUS
  <2>2. /\ memos[e] < MaxMemos /\ memos' = [memos EXCEPT ![e] = memos[e] + 1]
        /\ UNCHANGED notices
    BY <1>1, <2>1 DEF D!Insert
  <2>3. e \in Staff => memos[e] + 1 \in 0 .. MaxMemos
    BY <2>2, DeskAssumption DEF MemoTypes
  <2> QED
    BY <2>2, <2>3 DEF MemoTypes
<1>2. ASSUME NEW w \in Workers, D!Notify(w) PROVE MemoTypes'
  <2>1. PICK e : e = djob[w].employee
    OBVIOUS
  <2>2. PICK n : n = IF notices[e] < 2 THEN notices[e] + 1 ELSE notices[e]
    OBVIOUS
  <2>3. notices' = [notices EXCEPT ![e] = n] /\ UNCHANGED memos
    BY <1>2, <2>1, <2>2 DEF D!Notify
  <2>4. e \in Staff => n \in 0 .. 2
    BY <2>2 DEF MemoTypes
  <2> QED
    BY <2>3, <2>4 DEF MemoTypes
<1>3. ASSUME NEW w \in Workers,
             \/ \E e \in Staff : D!Read(w, e)
             \/ D!Count(w) \/ D!Flag(w) \/ D!Fail(w)
      PROVE  UNCHANGED <<memos, notices>>
  BY <1>3 DEF D!Read, D!Count, D!Flag, D!Fail
<1>4. D!Next => MemoTypes'
  BY <1>1, <1>2, <1>3 DEF D!Next, MemoTypes
<1>5. UNCHANGED memoVars => MemoTypes'
  BY DEF memoVars, MemoTypes
<1> QED
  BY <1>4, <1>5
  DEF MCNext, SessionsStep, RequestsStep, RatingsStep, FilesStep, ChatStep, NoticesStep,
      MemosStep, vars

Nights == [at : 0 .. MaxTime, users : SUBSET Users, step : {"idle", "tokens"}]
TimedJobs == [op : S!Ops, user : Users \cup {NoUser}, at : 0 .. MaxTime, rest : SUBSET S!Statements]
SessionTypes ==
    /\ clock \in 0 .. MaxTime /\ refresh \in [Users -> 0 .. MaxTime]
    /\ rows \in [Users -> SUBSET (0 .. MaxTime)] /\ resets \in [Users -> 0 .. 2]
    /\ over \in [Users -> 0 .. MaxTime] /\ marked \subseteq Nat
    /\ night \in Nights /\ sjob \in [Workers -> TimedJobs]

LEMMA TimedIdle == S!NoJob \in TimedJobs /\ S!NoNight \in Nights
BY DeskAssumption DEF S!NoJob, S!NoNight, TimedJobs, Nights, S!Ops, S!Statements

(* A request begins, or goes on.                                           *)
LEMMA SessionBeginsTyped ==
    ASSUME SessionTypes, NEW w \in Workers, NEW op \in S!Ops, NEW u \in Users, NEW at \in 0 .. MaxTime,
           NEW rest \in SUBSET S!Statements,
           sjob' = [sjob EXCEPT ![w] = [op |-> op, user |-> u, at |-> at, rest |-> rest]]
    PROVE  sjob' \in [Workers -> TimedJobs]
<1>1. PICK j : j = [op |-> op, user |-> u, at |-> at, rest |-> rest]
  OBVIOUS
<1>2. j \in TimedJobs
  BY <1>1 DEF TimedJobs
<1> QED
  BY <1>1, <1>2 DEF SessionTypes

LEMMA SessionDoesTyped ==
    ASSUME SessionTypes, SessionTyped, NEW w \in Workers, NEW s, S!Do(w, s)
    PROVE  /\ sjob' \in [Workers -> TimedJobs] /\ UNCHANGED <<clock, over, marked, night>>
           /\ sjob[w].user \in Users /\ sjob[w].at \in 0 .. MaxTime
<1>1. PICK j : j = [sjob[w] EXCEPT !.rest = @ \ {s}]
  OBVIOUS
<1>2. sjob[w] \in TimedJobs /\ j \in TimedJobs
  BY <1>1 DEF SessionTypes, TimedJobs
<1>3. sjob' = [sjob EXCEPT ![w] = j]
  BY <1>1 DEF S!Do
<1>4. sjob[w].user \in Users
  BY DEF S!Do, SessionTyped, Known
<1> QED
  BY <1>2, <1>3, <1>4 DEF S!Do, SessionTypes, TimedJobs

LEMMA SessionTypesStay ==
    ASSUME SessionTypes, SessionTyped, S!Next PROVE SessionTypes'
<1>1. ASSUME NEW w \in Workers, NEW u \in Users,
             \/ S!Login(w, u) \/ S!Refresh(w, u) \/ S!Logout(w, u)
             \/ S!ChangePassword(w, u) \/ S!ResetPassword(w, u)
      PROVE  SessionTypes'
  <2>1. \E op \in S!Ops, rest \in SUBSET S!Statements : S!Begin(w, op, u, rest)
    BY <1>1 DEF S!Login, S!Refresh, S!Logout, S!ChangePassword, S!ResetPassword, S!Ops, S!Statements
  <2>2. PICK op \in S!Ops, rest \in SUBSET S!Statements : S!Begin(w, op, u, rest)
    BY <2>1
  <2>3. sjob' \in [Workers -> TimedJobs]
    BY <2>2, SessionBeginsTyped DEF S!Begin, SessionTypes
  <2> QED
    BY <2>2, <2>3 DEF S!Begin, SessionTypes
<1>2. ASSUME NEW w \in Workers, NEW u \in Users, NEW t \in rows[u], S!LogoutSession(w, u, t)
      PROVE  SessionTypes'
  <2>1. "session" \in S!Ops /\ {"row"} \in SUBSET S!Statements /\ t \in 0 .. MaxTime
    BY DEF S!Ops, S!Statements, SessionTypes
  <2>2. sjob' \in [Workers -> TimedJobs]
    BY <1>2, <2>1, SessionBeginsTyped DEF S!LogoutSession
  <2> QED
    BY <1>2, <2>2 DEF S!LogoutSession, SessionTypes
<1>3. ASSUME NEW w \in Workers, S!SaveToken(w) \/ S!DeleteToken(w) PROVE SessionTypes'
  <2>1. /\ sjob' \in [Workers -> TimedJobs] /\ UNCHANGED <<clock, over, marked, night>>
        /\ sjob[w].user \in Users /\ sjob[w].at \in 0 .. MaxTime
    BY <1>3, SessionDoesTyped DEF S!SaveToken, S!DeleteToken
  <2>2. PICK t \in 0 .. MaxTime : refresh' = [refresh EXCEPT ![sjob[w].user] = t]
    BY <1>3, <2>1, DeskAssumption DEF S!SaveToken, S!DeleteToken
  <2> QED
    BY <1>3, <2>1, <2>2 DEF S!SaveToken, S!DeleteToken, SessionTypes
<1>4. ASSUME NEW w \in Workers, S!OpenRow(w) \/ S!CloseRows(w) PROVE SessionTypes'
  <2>1. /\ sjob' \in [Workers -> TimedJobs] /\ UNCHANGED <<clock, over, marked, night>>
        /\ sjob[w].user \in Users /\ sjob[w].at \in 0 .. MaxTime
    BY <1>4, SessionDoesTyped DEF S!OpenRow, S!CloseRows
  <2>2. PICK R \in SUBSET (0 .. MaxTime) : rows' = [rows EXCEPT ![sjob[w].user] = R]
    <3>1. PICK v \in Users : v = sjob[w].user
      BY <2>1
    <3>2. rows[v] \cup {clock} \in SUBSET (0 .. MaxTime)
          /\ (IF sjob[w].op = "logout" THEN {} ELSE rows[v] \ {sjob[w].at}) \in SUBSET (0 .. MaxTime)
      BY DEF SessionTypes
    <3> QED
      BY <1>4, <3>1, <3>2 DEF S!OpenRow, S!CloseRows
  <2> QED
    BY <1>4, <2>1, <2>2 DEF S!OpenRow, S!CloseRows, SessionTypes
<1>5. ASSUME NEW w \in Workers, S!SavePassword(w) \/ S!DeleteLink(w) PROVE SessionTypes'
  <2>1. /\ sjob' \in [Workers -> TimedJobs] /\ UNCHANGED <<clock, over, marked, night>>
        /\ sjob[w].user \in Users
    BY <1>5, SessionDoesTyped DEF S!SavePassword, S!DeleteLink
  <2>2. PICK n \in 0 .. 2 : S!SavePassword(w) => resets' = [resets EXCEPT ![sjob[w].user] = n]
    <3>1. PICK v \in Users : v = sjob[w].user
      BY <2>1
    <3>2. PICK n : n = IF sjob[w].op = "reset" /\ resets[v] < 2 THEN resets[v] + 1 ELSE resets[v]
      OBVIOUS
    <3>3. n \in 0 .. 2
      BY <3>2 DEF SessionTypes
    <3> QED
      BY <3>1, <3>2, <3>3 DEF S!SavePassword
  <2>3. resets' \in [Users -> 0 .. 2] /\ UNCHANGED <<refresh, rows>>
    BY <1>5, <2>1, <2>2 DEF S!SavePassword, S!DeleteLink, SessionTypes
  <2> QED
    BY <2>1, <2>3 DEF SessionTypes
<1>6. ASSUME NEW w \in Workers, S!Finish(w) \/ S!Fail(w) PROVE SessionTypes'
  <2>1. sjob' = [sjob EXCEPT ![w] = S!NoJob] /\ UNCHANGED <<clock, refresh, rows, resets, marked, night>>
    BY <1>6 DEF S!Finish, S!Fail
  <2>2. sjob' \in [Workers -> TimedJobs]
    BY <2>1, TimedIdle DEF SessionTypes
  <2>3. over' \in [Users -> 0 .. MaxTime]
    <3>1. PICK j \in TimedJobs : j = sjob[w]
      BY DEF SessionTypes
    <3>2. PICK t : t = S!Later(over[j.user], j.at)
      OBVIOUS
    <3>3. j.user \in Users => t \in 0 .. MaxTime
      BY <3>2 DEF S!Later, TimedJobs, SessionTypes
    <3>4. UNCHANGED over \/ over' = [over EXCEPT ![j.user] = t]
      BY <1>6, <3>1, <3>2 DEF S!Finish, S!Fail
    <3> QED
      BY <3>3, <3>4 DEF SessionTypes
  <2> QED
    BY <2>1, <2>2, <2>3 DEF SessionTypes
<1>7. ASSUME NEW u \in Users, S!SendLink(u) \/ S!Expire(u) PROVE SessionTypes'
  <2>1. UNCHANGED refresh \/ refresh' = [refresh EXCEPT ![u] = 0]
    BY <1>7 DEF S!SendLink, S!Expire
  <2>2. refresh' \in [Users -> 0 .. MaxTime]
    BY <2>1, DeskAssumption DEF SessionTypes
  <2>3. UNCHANGED <<clock, rows, resets, over, marked, night, sjob>>
    BY <1>7 DEF S!SendLink, S!Expire
  <2> QED
    BY <2>2, <2>3 DEF SessionTypes
<1>8. ASSUME NEW u \in Users, S!NightDelete(u) PROVE SessionTypes'
  <2>1. night' \in Nights /\ refresh' \in [Users -> 0 .. MaxTime]
    BY <1>8, DeskAssumption DEF S!NightDelete, SessionTypes, Nights
  <2> QED
    BY <1>8, <2>1 DEF S!NightDelete, SessionTypes
<1>9. CASE S!NightBegin
  <2>1. S!Day(clock) \in Nat
    BY DEF S!Day, SessionTypes
  <2>2. night' \in Nights
    BY <1>9 DEF S!NightBegin, SessionTypes, Nights
  <2> QED
    BY <1>9, <2>1, <2>2 DEF S!NightBegin, SessionTypes
<1>10. CASE S!NightClose
  <2>1. \A u \in Users : S!Later(over[u], night.at) \in 0 .. MaxTime
    BY DEF S!Later, SessionTypes, Nights
  <2> QED
    BY <1>10, <2>1, TimedIdle DEF S!NightClose, SessionTypes
<1>11. CASE S!NightFails
  BY <1>11, TimedIdle DEF S!NightFails, SessionTypes
<1>12. CASE S!Tick
  BY <1>12, DeskAssumption DEF S!Tick, SessionTypes
<1> HIDE DEF SessionTypes
<1> QED
  BY <1>1, <1>2, <1>3, <1>4, <1>5, <1>6, <1>7, <1>8, <1>9, <1>10, <1>11, <1>12 DEF S!Next

LEMMA SessionTypesKeep ==
    ASSUME SessionTypes, SessionTyped, [MCNext]_<<vars, side, raced, died>> PROVE SessionTypes'
<1>1. UNCHANGED sessionVars => SessionTypes'
  BY DEF sessionVars, SessionTypes
<1> QED
  BY <1>1, SessionTypesStay
  DEF MCNext, SessionsStep, RequestsStep, RatingsStep, FilesStep, ChatStep, NoticesStep,
      MemosStep, vars

LEMMA SessionTypesOK == SessionTyped /\ SessionTypes => S!TypeOK
BY DEF SessionTyped, SessionTypes, Nights, TimedJobs, S!TypeOK, S!Seconds

LEMMA FilesTypesOK == FilesOnly => U!TypeOK
BY DEF FilesOnly, FilesInv, UploadInv, FilesTypes, FilesTyped, FileRows, FileJobs, U!TypeOK

LEMMA RequestTypesOK == RequestsOnly => Q!TypeOK
BY DEF RequestsOnly, RequestInv, DeskInv, RequestTyped, RequestRows, RequestCalls, Q!TypeOK

LEMMA RatingTypesOK == RatingTypes => A!TypeOK
BY DEF RatingTypes, RatingTyped, RatingJobs, A!TypeOK, A!Someone

LEMMA ChatTypesOK == ChatTyped /\ active \subseteq Members /\ ChatTypes => C!TypeOK
BY DEF ChatTyped, ChatTypes, RoomsFine, JobsFine, MailFine, ChatRows, ChatJobs, C!TypeOK

LEMMA NoticeTypesOK == NoticeTyped /\ NoticeTypes => N!TypeOK
BY DEF NoticeTyped, NoticeTypes, NoticeRows, NoticeJobs, N!TypeOK, N!Times

LEMMA MemoTypesOK == MemosTyped /\ MemoTypes => D!TypeOK
BY DEF MemosTyped, MemoTypes, MemoJobs, D!TypeOK

BoundsOK == SessionTypes /\ moved \in 0 .. 3 /\ ChatTypes /\ NoticeTypes /\ MemoTypes

LEMMA BoundsStart == MCInit => BoundsOK
<1> SUFFICES ASSUME MCInit PROVE BoundsOK
  OBVIOUS
<1>1. SessionTypes
  BY TimedIdle, DeskAssumption DEF MCInit, S!Init, SessionTypes
<1>2. N!NoJob \in NoticeJobs
  BY DEF N!NoJob, NoticeJobs
<1>3. moved \in 0 .. 3 /\ ChatTypes /\ NoticeTypes
  BY <1>2 DEF MCInit, A!Init, C!Init, N!Init, ChatTypes, NoticeTypes
<1>4. MemoTypes
  BY DeskAssumption DEF MCInit, D!Init, MemoTypes
<1> QED
  BY <1>1, <1>3, <1>4 DEF BoundsOK

-----------------------------------------------------------------------------
(* RESULTS *)

(* A special leave is resolved only by granting it, whatever calls meet;   *)
(* and, if no two calls on one request have met, it was granted once, what *)
(* is resolved stays so, and the times of a request agree with its status: *)
(* any number of requests, people and desks.                               *)
THEOREM RequestsSettle == MCSpec => []RequestsAreSettled
<1>1. MCInit => RequestsOnly
  BY RequestsStart DEF MCInit, RequestsOnly, RequestInv
<1>2. RequestsOnly /\ [MCNext]_<<vars, side, raced, died>> => RequestsOnly'
  BY RequestsOnlyKeeps
<1>3. RequestsOnly => RequestsAreSettled
  BY DEF RequestsOnly, RequestInv, DeskInv, RequestsAlone, RequestsAreSettled
<1> QED
  BY <1>1, <1>2, <1>3, PTL DEF MCSpec

(* The attachment of a notice is always stored, however uploads, removals, *)
(* failures and crashes meet; if no two uploads of a kind have met, nor an *)
(* upload and a removal, so are the documents and the photo an upload set; *)
(* and then no file is left that nothing points at, unless a request died, *)
(* a deletion gave up on the disk, or it is a photo behind an address      *)
(* given by hand: any number of files and requests.                        *)
THEOREM FilesAreKept == MCSpec => []FilesAreAccounted
<1>1. MCInit => FilesOnly
  BY FilesStart, DeskAssumption DEF MCInit, FilesOnly, FilesInv
<1>2. FilesOnly /\ [MCNext]_<<vars, side, raced, died>> => FilesOnly'
  BY FilesOnlyKeeps, DeskAssumption
<1>3. FilesOnly => FilesAreAccounted
  BY FilesInvAccounts, DeskAssumption DEF FilesOnly, FilesInv
<1> QED
  BY <1>1, <1>2, <1>3, PTL DEF MCSpec

(* The list of the managers above an employee and the tree of the people   *)
(* below a manager agree, whatever rings the managers form: any number of  *)
(* employees, and of levels up to the length of the chain.  And a flag for *)
(* a review, or a mail about it, is earned by as many memos as it takes;   *)
(* and each is there once when no two memos of an employee have met and no *)
(* request has died.                                                       *)
THEOREM RecordsOfAllAgree == MCSpec => []RecordsAgree
<1>1. MCInit => ChartTyped /\ MemosOnly
  BY ChartStart, MemosStart DEF MCInit, MemosOnly, MemoInv
<1>2. ChartTyped /\ MemosOnly /\ [MCNext]_<<vars, side, raced, died>> => (ChartTyped /\ MemosOnly)'
  BY ChartKept, MemosOnlyKeeps
<1>3. ChartTyped /\ MemosOnly => RecordsAgree
  BY ChartsOfTheTypeAgree DEF MemosOnly, MemoInv, MemosEarned, MemosAlone, RecordsAgree
<1> QED
  BY <1>1, <1>2, <1>3, PTL DEF MCSpec

(* A socket is sent only stored messages of rooms its employee has been a  *)
(* member of, whatever is published, joined, revoked and lost in between;  *)
(* if no two requests that open or close rooms have met, two employees     *)
(* have one direct room and the department one; and if moreover no         *)
(* revocation died, nobody suspended is in that of the department unless   *)
(* they had it opened since: any number of employees, rooms and messages.  *)
THEOREM RoomsAreTheirs == MCSpec => []RoomsAreForMembers
<1>1. MCInit => ChatOnly
  BY ChatStart, ChatAloneStarts DEF MCInit, ChatOnly, ChatInv, C!Init
<1>2. ChatOnly /\ [MCNext]_<<vars, side, raced, died>> => ChatOnly'
  BY ChatOnlyKeeps
<1>3. ChatOnly => RoomsAreForMembers
  BY SocketsOfMembers, OneRoomOfEach, SuspendedOut DEF ChatOnly, ChatInv, ChatAlone, RoomsAreForMembers
<1> QED
  BY <1>1, <1>2, <1>3, PTL DEF MCSpec

(* If neither a cycle nor a manager changes during a submission, a rating  *)
(* is only ever written in an open cycle and by someone whom a path of at  *)
(* most MaxHops live managers leads up to from the employee, rings or not; *)
(* and if no two requests, nor one and the job, have had one notice in     *)
(* hand, a step leaves a published notice as it is or deletes it.          *)
THEOREM StepsAreAllowedOnes == MCSpec => StepsAreAllowed
<1>1. MCInit => RatingsOnly /\ NoticesOnly
  BY RatingStart, NoticeStart DEF MCInit, RatingsOnly, NoticesOnly
<1>2. RatingsOnly /\ NoticesOnly /\ [MCNext]_<<vars, side, raced, died>> =>
         (RatingsOnly /\ NoticesOnly)'
  BY RatingsOnlyKeeps, NoticesOnlyKeeps
<1>3. RatingsOnly /\ NoticesOnly /\ [MCNext]_<<vars, side, raced, died>> =>
         [~raced' => A!RatedFromAbove /\ N!PublishedIsFinal]_vars
  BY RatingsOnlyKeeps, NoticesOnlyKeeps
<1> QED
  BY <1>1, <1>2, <1>3, PTL DEF MCSpec, StepsAreAllowed

(* If no revocation has met another request of its user, no token is left  *)
(* that is older than a finished logout, change of password or nightly     *)
(* logout; and if moreover no request has died half way, a link resets a   *)
(* password once: any number of users and requests, for as long as it runs.*)
THEOREM SessionsAreEnded == MCSpec => []SessionsEnd
<1>1. MCInit => SessionsOnly
  BY SessionStart DEF MCInit, SessionsOnly
<1>2. SessionsOnly /\ [MCNext]_<<vars, side, raced, died>> => SessionsOnly'
  BY SessionsOnlyKeeps
<1>3. SessionsOnly => SessionsEnd
  BY DEF SessionsOnly, SessionsAlone, LinksAlone, LinkOf, SessionsEnd, S!RevokedIsGone, S!LinkWorksOnce
<1> QED
  BY <1>1, <1>2, <1>3, PTL DEF MCSpec

(* Tokens, requests, ratings, files, rooms, notices and memos keep their   *)
(* types, and what each request has in hand: for any number of them, and   *)
(* whatever meets, fails or dies.                                          *)
THEOREM DeskTypes == MCSpec => []TypesAreOK
<1> DEFINE Typed == /\ RequestsOnly /\ FilesOnly /\ MemosOnly /\ ChatOnly
                    /\ RatingsOnly /\ NoticesOnly /\ SessionsOnly
<1>1. MCInit => Typed
  BY RequestsStart, FilesStart, MemosStart, ChatStart, ChatAloneStarts, RatingStart, NoticeStart,
     SessionStart, DeskAssumption
  DEF MCInit, RequestsOnly, RequestInv, FilesOnly, FilesInv, MemosOnly, MemoInv, ChatOnly, ChatInv,
      RatingsOnly, NoticesOnly, SessionsOnly, C!Init
<1>2. Typed /\ [MCNext]_<<vars, side, raced, died>> => Typed'
  BY RequestsOnlyKeeps, FilesOnlyKeeps, MemosOnlyKeeps, ChatOnlyKeeps, RatingsOnlyKeeps,
     NoticesOnlyKeeps, SessionsOnlyKeeps, DeskAssumption
<1>3. Typed => /\ SessionTyped /\ RatingTyped /\ ChatTyped /\ active \subseteq Members
               /\ NoticeTyped /\ MemosTyped
  BY DEF SessionsOnly, RatingsOnly, ChatOnly, ChatInv, NoticesOnly, MemosOnly, MemoInv
<1>4. BoundsOK /\ Typed /\ [MCNext]_<<vars, side, raced, died>> => BoundsOK'
  <2> SUFFICES ASSUME BoundsOK, Typed, [MCNext]_<<vars, side, raced, died>> PROVE BoundsOK'
    OBVIOUS
  <2> QED
    BY <1>3, SessionTypesKeep, RatingTypesStay, ChatTypesStay, NoticeTypesStay, MemoTypesStay
    DEF BoundsOK, RatingTypes
<1>5. BoundsOK /\ Typed => TypesAreOK
  BY <1>3, SessionTypesOK, RequestTypesOK, RatingTypesOK, FilesTypesOK, ChatTypesOK, NoticeTypesOK,
     MemoTypesOK
  DEF BoundsOK, RatingTypes, TypesAreOK
<1> QED
  BY <1>1, <1>2, <1>4, <1>5, BoundsStart, PTL DEF MCSpec
=============================================================================
