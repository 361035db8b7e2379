----------------------------- MODULE MCPeople -----------------------------
(***************************************************************************)
(* How people join and how their days are recorded.  The two share no      *)
(* table, so a behaviour takes the steps of one of them.                   *)
(***************************************************************************)
EXTENDS Onboarding, TLC

CONSTANTS e1, e2, l1, l2, Days, Times, Minutes, MaxMinutes, Named, NoDay

ASSUME DayAssumption ==
    /\ Times \subseteq Nat /\ Minutes \subseteq Nat /\ MaxMinutes \in Nat
    /\ Named \subseteq {"NONE", "PRESENT", "ABSENT", "ON_DUTY"}
    /\ NoDay \notin Days

VARIABLES log, od, apc, ajob,
          side,     \* which of the two
          raced,    \* two requests of a link, or one overtaken on its day
          moved,    \* links whose employee has changed the address
          died      \* a request has died half way

AD == INSTANCE AttendanceDay WITH pc <- apc, job <- ajob

OneEmail == l1 :> e1
TwoEmails == l1 :> e1 @@ l2 :> e2
(* A code that sorts after every generated one. *)
LateCode == {[rank |-> 2, num |-> 3]}
Symmetry == Permutations(Workers)

MCInit ==
    /\ Init /\ AD!Init /\ side \in {"joining", "days"}
    /\ raced = FALSE /\ moved = {} /\ died = FALSE

JoiningStep ==
    /\ side = "joining"
    /\ Next
    /\ raced' = (raced \/ Racing')
    /\ moved' = moved \cup {l \in Links : \E e, to \in Emails : hired[e].by = l /\ ChangeEmail(e, to)}
    /\ died' = (died \/ \E w \in Workers : pc[w] = "seed" /\ Crash(w) /\ ~Seed(w))
    /\ UNCHANGED <<log, od, apc, ajob, side>>

DaysStep ==
    /\ side = "days"
    /\ AD!Next
    /\ raced' = (raced \/ AD!Overtaken)
    /\ died' = (died \/ \E w \in Workers : apc[w] \in {"sum", "total"} /\ AD!Crash(w))
    /\ UNCHANGED <<vars, side, moved>>

MCNext == JoiningStep \/ DaysStep
MCSpec == MCInit /\ [][MCNext]_<<vars, AD!vars, side, raced, moved, died>>

-----------------------------------------------------------------------------
TypesAreOK == TypeOK /\ AD!TypeOK

(* approve makes an employee and names it in the link, whatever requests    *)
(* interleave; and no link becomes two employees, unless one of them has    *)
(* changed the address that kept the other out and two requests of one      *)
(* link have met.                                                           *)
HiredOnce ==
    LinksNameEmployees /\ \A l \in Links : ~(raced /\ l \in moved) => SpentOnce(l)

(* approve's checks of the completed steps, one request of a link at a     *)
(* time; and what approve does after its transaction, if it comes to that. *)
JoinedIsComplete == (~raced => ReviewedIsComplete) /\ (~died => HiredIsWelcome)

(* assertValidTransition and the row written beside each change, one       *)
(* request of a link at a time.                                            *)
ChangesAreLoggedUnraced == [][~raced' => ChangesAreLogged]_vars

(* The hours that checkOut, manualEntry and approveCorrection write, none  *)
(* of them overtaken, are those between the times of the day; and the      *)
(* total of recomputeTotalMinutes is never more than the entries, and all  *)
(* of them if no addition is overtaken or dies.                            *)
DayAddsUp ==
    /\ ~raced => AD!HoursMatchTimes
    /\ AD!TotalIsCovered /\ (~raced /\ ~died => AD!TotalIsSum)

(* checkIn answers that an open row must be checked out first.             *)
OpenLogCanBeClosed == AD!OpenLogCanBeClosed
=============================================================================
