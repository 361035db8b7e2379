---------------------------- MODULE PolicyTypes ----------------------------
(***************************************************************************)
(* update of a leave policy: reconcileTypes brings the LeavePolicyType     *)
(* rows in line with the list in the request, a statement at a time, while *)
(* balances and applications may start to refer to them.  It works from    *)
(* the rows read at the start; the database keeps types unique and refuses *)
(* to delete a row something refers to.                                    *)
(***************************************************************************)
EXTENDS Naturals, Sequences, FiniteSets

CONSTANTS
    Ids, Types,
    NoId,               \* an item that gives no id
    MaxItems,           \* bound on the list of a request
    MaxAsked,           \* bound on the updates
    Workers             \* concurrently served updates

VARIABLES
    row,                \* LeavePolicyType: id -> leaveType, "none" when there is no row
    used,               \* ids that balances or applications refer to
    job,                \* worker -> its update
    answer,             \* the last update that was answered: types asked, rows it renamed
    asked               \* updates so far

vars == <<row, used, job, answer, asked>>

Item == [id : Ids \cup {NoId}, type : Types]
Lists == UNION {[1 .. n -> Item] : n \in 1 .. MaxItems}
NoRows == [i \in Ids |-> "none"]
NoJob == [at |-> "idle", existing |-> NoRows, items |-> <<>>, keep |-> {}, drop |-> {},
          asked |-> {}, plain |-> TRUE]
NoAnswer == [asked |-> {}, plain |-> FALSE]

TypeOK ==
    /\ row \in [Ids -> Types \cup {"none"}] /\ used \subseteq Ids
    /\ answer.asked \subseteq Types /\ answer.plain \in BOOLEAN /\ asked \in 0 .. MaxAsked
    /\ \A w \in Workers :
          LET j == job[w]
          IN /\ j.at \in {"idle", "items", "count", "delete"}
             /\ j.existing \in [Ids -> Types \cup {"none"}]
             /\ j.items \in Seq(Item) /\ j.keep \subseteq Ids /\ j.drop \subseteq Ids
             /\ j.asked \subseteq Types /\ j.plain \in BOOLEAN

Init ==
    /\ row = NoRows
    /\ used = {} /\ answer = NoAnswer /\ asked = 0
    /\ job = [w \in Workers |-> NoJob]

Rows(r) == {i \in Ids : r[i] # "none"}
Goto(w, j) == job' = [job EXCEPT ![w] = j]
Done(w) == Goto(w, NoJob)

-----------------------------------------------------------------------------
(* An item names a row by its id, if it had it at the start, or else by    *)
(* its type at the start.                                                  *)
Match(existing, item) ==
    IF item.id \in Rows(existing) THEN {item.id}
    ELSE {i \in Ids : existing[i] = item.type}

(* No item of the request gives a row that exists another type. *)
Plain(items) ==
    \A k \in DOMAIN items : \A i \in Match(row, items[k]) : row[i] = items[k].type

(* create: the policy with its first types, here one. *)
Create(i, t) ==
    /\ row = NoRows /\ asked = 0
    /\ row' = [row EXCEPT ![i] = t]
    /\ UNCHANGED <<used, job, answer, asked>>

(* Begins only with a list assertNoDuplicateTypes lets through. *)
Update(w, items) ==
    /\ job[w] = NoJob
    /\ row # NoRows \/ asked > 0
    /\ asked < MaxAsked /\ asked' = asked + 1
    /\ \A k, l \in DOMAIN items : items[k].type = items[l].type => k = l
    /\ Goto(w, [NoJob EXCEPT !.at = "items", !.existing = row, !.items = items,
                             !.asked = {items[k].type : k \in DOMAIN items},
                             !.plain = Plain(items)])
    /\ UNCHANGED <<row, used, answer>>

(* An id nothing knows yet. *)
Fresh ==
    {i \in Ids \ used : row[i] = "none" /\ \A w \in Workers :
        i \notin Rows(job[w].existing) \cup job[w].keep}

(* The next item: update the row it names, or create one; either fails if  *)
(* the type is there already, or the row to update is gone.                *)
Reconcile(w) ==
    LET j == job[w]
        item == Head(j.items)
        match == Match(j.existing, item)
        Becomes(i) ==
            IF \E k \in Ids \ {i} : row[k] = item.type
            THEN UNCHANGED row /\ Done(w)
            ELSE /\ row' = [row EXCEPT ![i] = item.type]
                 /\ Goto(w, [j EXCEPT !.items = Tail(@), !.keep = @ \cup {i}])
    IN /\ j.at = "items" /\ j.items # <<>>
       /\ IF match = {} THEN \E i \in Fresh : Becomes(i)
          ELSE \E i \in match : IF row[i] = "none" THEN UNCHANGED row /\ Done(w) ELSE Becomes(i)
       /\ UNCHANGED <<used, answer>>

(* The rows read at the start that no item kept are to go.                 *)
Kept(w) ==
    LET j == job[w]
    IN /\ j.at = "items" /\ j.items = <<>>
       /\ Goto(w, [j EXCEPT !.at = "count", !.drop = Rows(j.existing) \ j.keep])
       /\ UNCHANGED <<row, used, answer>>

(* One of them is not in use, or the request ends with an error. *)
Count(w, i) ==
    /\ job[w].at = "count" /\ i \in job[w].drop
    /\ IF i \in used THEN Done(w)
       ELSE Goto(w, [job[w] EXCEPT !.at = "delete", !.drop = @ \ {i}, !.keep = {i}])
    /\ UNCHANGED <<row, used, answer>>

(* Refused by the database if the row is in use by now, or gone. *)
Delete(w) ==
    LET j == job[w]
    IN /\ j.at = "delete"
       /\ IF \E i \in j.keep : i \in used \/ row[i] = "none" THEN UNCHANGED row /\ Done(w)
          ELSE /\ row' = [i \in Ids |-> IF i \in j.keep THEN "none" ELSE row[i]]
               /\ Goto(w, [j EXCEPT !.at = "count"])
       /\ UNCHANGED <<used, answer>>

Answer(w) ==
    LET j == job[w]
    IN /\ j.at = "count" /\ j.drop = {}
       /\ answer' = [asked |-> j.asked, plain |-> j.plain]
       /\ Done(w)
       /\ UNCHANGED <<row, used>>

(* A balance or an application of the type. *)
Use(i) ==
    /\ row[i] # "none"
    /\ used' = used \cup {i}
    /\ UNCHANGED <<row, job, answer, asked>>

(* A request that dies leaves the rows as they are: there is no transaction. *)
Fail(w) == job[w] # NoJob /\ Done(w) /\ UNCHANGED <<row, used, answer>>

Next ==
    \/ \E w \in Workers : \/ \E items \in Lists : Update(w, items)
                          \/ /\ \/ Reconcile(w) \/ Kept(w) \/ Delete(w) \/ Answer(w) \/ Fail(w)
                                \/ \E i \in Ids : Count(w, i)
                             /\ UNCHANGED asked
    \/ \E i \in Ids : Use(i) \/ \E t \in Types : Create(i, t)

Spec == Init /\ [][Next]_vars

-----------------------------------------------------------------------------
(* PROPERTIES *)

Overlap == \E v, w \in Workers : v # w /\ job[v] # NoJob /\ job[w] # NoJob

(* Whatever interleaves, what balances refer to exists, and no type twice. *)
UsedStays ==
    /\ \A i \in used : row[i] # "none"
    /\ \A i, k \in Rows(row) : row[i] = row[k] => i = k

(* A step that answers an update leaves exactly the types it asked for.    *)
AnsweredAsAsked ==
    answer' # answer /\ answer'.plain => {row[i] : i \in Rows(row)} = answer'.asked
=============================================================================
