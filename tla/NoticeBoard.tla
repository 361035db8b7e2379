---------------------------- MODULE NoticeBoard ----------------------------
(***************************************************************************)
(* Notices: drafted, scheduled, published, and read.  A scheduled notice   *)
(* is on the board from its time on; a job that runs every minute makes it *)
(* a published one.  Requests read the row, check it and write by id; the  *)
(* job reads the ids that are due and writes them all.  Audience, expiry   *)
(* and attachments are left out.                                           *)
(***************************************************************************)
EXTENDS Naturals

CONSTANTS
    Notices, Readers,
    Never,              \* no scheduledAt
    Same,               \* a scheduledAt the request leaves out
    MaxTime, MaxTexts,  \* bounds on the clock and on the edits
    NoNotice,
    Editors             \* concurrently served requests

Times == 0 .. MaxTime

VARIABLES
    now,
    notice,             \* id -> status, text (its version) and scheduledAt
    reads,              \* NoticeRead rows
    due,                \* ids the job has read
    job                 \* editor -> its request

vars == <<now, notice, reads, due, job>>

NoRow == [status |-> "none", text |-> 0, at |-> Never]
NoJob == [op |-> "idle", id |-> NoNotice, text |-> 0, at |-> Same, publish |-> FALSE]

TypeOK ==
    /\ now \in Times /\ due \subseteq Notices
    /\ notice \in [Notices -> [status : {"none", "draft", "scheduled", "published", "deleted"},
                               text : 0 .. MaxTexts, at : Times \cup {Never}]]
    /\ reads \subseteq Notices \X Readers
    /\ job \in [Editors -> [op : {"idle", "update", "remove"}, id : Notices \cup {NoNotice},
                            text : 0 .. MaxTexts, at : Times \cup {Never, Same},
                            publish : BOOLEAN]]

Init ==
    /\ now = 0
    /\ notice = [n \in Notices |-> NoRow]
    /\ reads = {} /\ due = {}
    /\ job = [e \in Editors |-> NoJob]

Exists(n) == notice[n].status \in {"draft", "scheduled", "published"}
Put(n, row) == notice' = [notice EXCEPT ![n] = row]
Finish(e) == job' = [job EXCEPT ![e] = NoJob]

-----------------------------------------------------------------------------
StatusFor(publish, at) ==
    IF publish THEN "published" ELSE IF at = Never THEN "draft" ELSE "scheduled"

Create(n, at, publish) ==
    /\ notice[n].status = "none"
    /\ Put(n, [status |-> StatusFor(publish, at), text |-> 0, at |-> at])
    /\ UNCHANGED <<now, reads, due, job>>

(* update, and publish, which changes neither the text nor the time.       *)
UpdateRead(e, n, text, at, publish) ==
    /\ job[e] = NoJob /\ Exists(n)
    /\ notice[n].status # "published"
    /\ job' = [job EXCEPT ![e] = [op |-> "update", id |-> n, text |-> text, at |-> at,
                                  publish |-> publish]]
    /\ UNCHANGED <<now, notice, reads, due>>

(* Fault: a time that is left out is written all the same. *)
UpdateOmitted(e) ==
    LET j == job[e]
    IN /\ j.op = "update" /\ Exists(j.id)
       /\ Put(j.id, [text |-> j.text, at |-> j.at, status |-> StatusFor(j.publish, j.at)])
       /\ Finish(e)
       /\ UNCHANGED <<now, reads, due>>

(* A text is 0 when the request leaves it out.  An update of a row that is *)
(* gone fails.                                                             *)
UpdateWrite(e) ==
    LET j == job[e]
        old == notice[j.id]
    IN /\ j.op = "update"
       /\ IF Exists(j.id)
          THEN Put(j.id, [text |-> IF j.text = 0 THEN old.text ELSE j.text,
                          at |-> IF j.at = Same THEN old.at ELSE j.at,
                          status |-> IF j.at = Same /\ ~j.publish THEN old.status
                                     ELSE StatusFor(j.publish, j.at)])
          ELSE UNCHANGED notice
       /\ Finish(e)
       /\ UNCHANGED <<now, reads, due>>

RemoveRead(e, n) ==
    /\ job[e] = NoJob /\ Exists(n)
    /\ job' = [job EXCEPT ![e] = [NoJob EXCEPT !.op = "remove", !.id = n]]
    /\ UNCHANGED <<now, notice, reads, due>>

(* The reads go with the notice (ON DELETE CASCADE). *)
RemoveWrite(e) ==
    LET n == job[e].id
    IN /\ job[e].op = "remove"
       /\ Put(n, [NoRow EXCEPT !.status = "deleted"])
       /\ reads' = {r \in reads : r[1] # n}
       /\ Finish(e)
       /\ UNCHANGED <<now, due>>

-----------------------------------------------------------------------------
IsDue(n) == notice[n].status = "scheduled" /\ notice[n].at <= now

IsDueOrPublished(n) == notice[n].status = "published" \/ IsDue(n)

MarkRead(n, r) ==
    /\ IsDueOrPublished(n)
    /\ reads' = reads \cup {<<n, r>>}
    /\ UNCHANGED <<now, notice, due, job>>

(* publishDueScheduledNotices *)
SweepRead ==
    /\ due = {}
    /\ due' = {n \in Notices : IsDue(n)}
    /\ due' # {}
    /\ UNCHANGED <<now, notice, reads, job>>

SweepWrite ==
    /\ due # {}
    /\ notice' = [n \in Notices |-> IF n \in due /\ Exists(n)
                                    THEN [notice[n] EXCEPT !.status = "published"]
                                    ELSE notice[n]]
    /\ due' = {}
    /\ UNCHANGED <<now, reads, job>>

Tick == now < MaxTime /\ now' = now + 1 /\ UNCHANGED <<notice, reads, due, job>>

Next ==
    \/ \E n \in Notices :
          \/ \E at \in Times \cup {Never}, p \in BOOLEAN : Create(n, at, p)
          \/ \E e \in Editors, text \in 0 .. MaxTexts, at \in Times \cup {Never, Same},
                p \in BOOLEAN : UpdateRead(e, n, text, at, p)
          \/ \E e \in Editors : RemoveRead(e, n)
          \/ \E r \in Readers : MarkRead(n, r)
    \/ \E e \in Editors : UpdateWrite(e) \/ RemoveWrite(e)
    \/ SweepRead \/ SweepWrite \/ Tick

Spec == Init /\ [][Next]_vars

-----------------------------------------------------------------------------
(* PROPERTIES *)

(* Two requests, or one and the job, have one notice in hand. *)
Overlap ==
    \E e \in Editors : \/ job[e].id \in due
                       \/ \E f \in Editors \ {e} : job[e] # NoJob /\ job[f].id = job[e].id

(* A published notice is neither edited nor withdrawn except by deletion.  *)
PublishedIsFinal ==
    \A n \in Notices : notice[n].status = "published" =>
        notice'[n] = notice[n] \/ notice'[n].status = "deleted"
=============================================================================
