--------------------------- MODULE AttendanceDay ---------------------------
(***************************************************************************)
(* The one attendance row an employee has for a day, and the on-duty       *)
(* record beside it.  Check-in, check-out and the approval of a correction *)
(* read the row in one statement and write it in a later one; a manual     *)
(* entry, a correction request and the on-duty mark are upserts.  Notes,   *)
(* the approver and places are left out.                                   *)
(***************************************************************************)
EXTENDS Integers

CONSTANTS
    Days,           \* (employee, date) pairs
    Times,          \* natural numbers: timestamps come from the client
    Minutes,        \* of an on-duty location entry, positive
    MaxMinutes,     \* bound on what is entered for a day
    Named,          \* statuses an entry or an approval may name; "NONE" is no status
    NoDay,
    Workers,        \* concurrently served requests
    Crashes

Null == -1

VARIABLES
    log,        \* day -> AttendanceLog
    od,         \* day -> OdRecord: the minutes of its entries, and totalMinutes
    pc, job

vars == <<log, od, pc, job>>

Status == {"NONE", "PRESENT", "ABSENT", "ON_DUTY"}
NoHours == [known |-> FALSE, n |-> 0]
NoLog == [status |-> "NONE", in |-> Null, out |-> Null, hours |-> NoHours]
NoJob == [day |-> NoDay, log |-> NoLog, sum |-> 0]
Logs == [status : Status, in : Times \cup {Null}, out : Times \cup {Null},
         hours : [known : BOOLEAN, n : Int]]

TypeOK ==
    /\ log \in [Days -> Logs]
    /\ od \in [Days -> [sum : Nat, total : Nat]]
    /\ pc \in [Workers -> {"idle", "in", "out", "correct", "sum", "total", "mark"}]
    /\ job \in [Workers -> [day : Days \cup {NoDay}, log : Logs, sum : Nat]]

Init ==
    /\ log = [d \in Days |-> NoLog]
    /\ od = [d \in Days |-> [sum |-> 0, total |-> 0]]
    /\ pc = [w \in Workers |-> "idle"]
    /\ job = [w \in Workers |-> NoJob]

Goto(w, to, j) == pc' = [pc EXCEPT ![w] = to] /\ job' = [job EXCEPT ![w] = j]
Finish(w) == Goto(w, "idle", NoJob)

(* A handler has read the row and keeps what it will need of it. *)
Read(w, d, s, kept) ==
    /\ pc[w] = "idle"
    /\ Goto(w, s, [NoJob EXCEPT !.day = d, !.log = kept])
    /\ UNCHANGED <<log, od>>

Exists(d) == log[d].status # "NONE"
Open(d) == Exists(d) /\ log[d].out = Null
Hours(in, out) == [known |-> TRUE, n |-> out - in]

-----------------------------------------------------------------------------
CheckInRead(w, d) == ~Open(d) /\ Read(w, d, "in", NoLog)

(* A second row for the day violates the unique key. *)
CheckInWrite(w, t) ==
    LET d == job[w].day
    IN /\ pc[w] = "in"
       /\ log' = IF Exists(d) THEN log
                 ELSE [log EXCEPT ![d] = [NoLog EXCEPT !.status = "PRESENT", !.in = t]]
       /\ Finish(w)
       /\ UNCHANGED od

(* An open row without a check-in time makes the subtraction throw. *)
CheckOutRead(w, d) ==
    /\ Open(d)
    /\ log[d].in # Null
    /\ Read(w, d, "out", [NoLog EXCEPT !.in = log[d].in])

CheckOutWrite(w, t) ==
    LET d == job[w].day
    IN /\ pc[w] = "out"
       /\ log' = [log EXCEPT ![d] = [@ EXCEPT !.out = t, !.hours = Hours(job[w].log.in, t)]]
       /\ Finish(w)
       /\ UNCHANGED od

(* manualEntry, and every row of bulkImport; "NONE": no status is given. *)
ManualEntry(d, in, out, s) ==
    /\ log' = [log EXCEPT ![d] =
                  [in |-> in, out |-> out,
                   hours |-> IF Null \in {in, out} THEN NoHours ELSE Hours(in, out),
                   status |-> IF s # "NONE" THEN s ELSE IF Exists(d) THEN @.status ELSE "PRESENT"]]
    /\ UNCHANGED <<od, pc, job>>

(* Fault: the row takes the status of its request. *)
RequestIsPending(d) ==
    /\ ~Exists(d)
    /\ log' = [log EXCEPT ![d].status = "PENDING"]
    /\ UNCHANGED <<od, pc, job>>

(* A row that exists is given a note and loses its approval: neither is    *)
(* modelled.                                                               *)
RequestCorrection(d) ==
    /\ ~Exists(d)
    /\ log' = [log EXCEPT ![d].status = "ABSENT"]
    /\ UNCHANGED <<od, pc, job>>

CorrectionRead(w, d) == Exists(d) /\ Read(w, d, "correct", log[d])

(* approveCorrection; a time the reviewer does not give is the one that    *)
(* was read.                                                               *)
CorrectionWrite(w, dtoIn, dtoOut, s) ==
    LET d == job[w].day
        old == job[w].log
        in == IF dtoIn = Null THEN old.in ELSE dtoIn
        out == IF dtoOut = Null THEN old.out ELSE dtoOut
    IN /\ pc[w] = "correct"
       /\ log' = [log EXCEPT ![d] =
                     [in |-> in, out |-> out,
                      hours |-> IF Null \in {in, out} THEN old.hours ELSE Hours(in, out),
                      status |-> IF s = "NONE" THEN old.status ELSE s]]
       /\ Finish(w)
       /\ UNCHANGED od

-----------------------------------------------------------------------------
(* OdService.create and addLocation: the entry, the sum of the entries,    *)
(* the total, and the day's attendance, a statement each.                  *)

AddEntry(w, d, m) ==
    /\ pc[w] = "idle"
    /\ od[d].sum + m <= MaxMinutes
    /\ od' = [od EXCEPT ![d].sum = @ + m]
    /\ Goto(w, "sum", [NoJob EXCEPT !.day = d])
    /\ UNCHANGED log

SumEntries(w) ==
    /\ pc[w] = "sum"
    /\ Goto(w, "total", [job[w] EXCEPT !.sum = od[job[w].day].sum])
    /\ UNCHANGED <<log, od>>

(* Fault: the entries are added to the total kept so far. *)
AddToTotal(w) ==
    /\ pc[w] = "total"
    /\ od' = [od EXCEPT ![job[w].day].total = @ + job[w].sum]
    /\ Goto(w, "mark", job[w])
    /\ UNCHANGED log

WriteTotal(w) ==
    /\ pc[w] = "total"
    /\ od' = [od EXCEPT ![job[w].day].total = job[w].sum]
    /\ Goto(w, "mark", job[w])
    /\ UNCHANGED log

MarkOnDuty(w) ==
    LET d == job[w].day
    IN /\ pc[w] = "mark"
       /\ log' = [log EXCEPT ![d] = [@ EXCEPT !.status = "ON_DUTY"]]
       /\ Finish(w)
       /\ UNCHANGED od

-----------------------------------------------------------------------------
Crash(w) ==
    /\ Crashes
    /\ pc[w] # "idle"
    /\ Finish(w)
    /\ UNCHANGED <<log, od>>

Given == Times \cup {Null}

Next ==
    \/ \E d \in Days : \/ RequestCorrection(d)
                       \/ \E in, out \in Given, s \in Named : ManualEntry(d, in, out, s)
    \/ \E w \in Workers :
          \/ \E d \in Days : \/ CheckInRead(w, d) \/ CheckOutRead(w, d) \/ CorrectionRead(w, d)
                             \/ \E m \in Minutes : AddEntry(w, d, m)
          \/ \E t \in Times : CheckInWrite(w, t) \/ CheckOutWrite(w, t)
          \/ \E in, out \in Given, s \in Named : CorrectionWrite(w, in, out, s)
          \/ SumEntries(w) \/ WriteTotal(w) \/ MarkOnDuty(w)
          \/ Crash(w)

Spec == Init /\ [][Next]_vars

-----------------------------------------------------------------------------
(* PROPERTIES *)

(* The hours of a day are known exactly when both times are, and are the   *)
(* time between them.                                                      *)
HoursMatchTimes ==
    \A d \in Days : log[d].hours = IF Null \in {log[d].in, log[d].out} THEN NoHours
                                   ELSE Hours(log[d].in, log[d].out)

(* The total of an on-duty record is that of entries it has had, never     *)
(* more, whatever interleaves ...                                          *)
TotalIsCovered == \A d \in Days : od[d].total <= od[d].sum

(* ... and all of them once nothing is being added.                        *)
TotalIsSum ==
    \A d \in Days : (\A w \in Workers : job[w].day # d) => od[d].total = od[d].sum

(* An open row is one that checkOut can close.                             *)
OpenLogCanBeClosed == \A d \in Days : Open(d) => log[d].in # Null

(* A step changes the day of a request that is half way through it and     *)
(* does not move.                                                          *)
Overtaken ==
    \E w \in Workers :
        LET d == job[w].day
        IN /\ d # NoDay
           /\ pc'[w] = pc[w] /\ job'[w] = job[w]
           /\ <<log'[d], od'[d]>> # <<log[d], od[d]>>
=============================================================================
