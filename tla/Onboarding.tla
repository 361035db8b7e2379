---------------------------- MODULE Onboarding ----------------------------
(***************************************************************************)
(* An onboarding link from the invitation to the employee it becomes.      *)
(* Every handler reads the link, checks the transition and writes by id in *)
(* a later transaction, so HR, the candidate and the hourly scheduler can  *)
(* interleave.  The invitation and welcome mails are left out, except that *)
(* the welcome mail carries the only copy of the password.                 *)
(***************************************************************************)
EXTENDS Hiring

CONSTANTS
    EmailOf,        \* link -> the address it was created for
    Types,          \* the leave policy types of the chosen policies
    NoLink,
    Workers,        \* concurrently served requests and scheduler runs
    Crashes         \* a request may die between two statements

ASSUME OnboardingAssumption ==
    EmailOf \in [Links -> Emails] /\ NoLink \notin Links /\ Crashes \in BOOLEAN

VARIABLES
    link,       \* id -> OnboardingLink
    trail,      \* id -> its last OnboardingTransition
    seeded,     \* <<code, type>>: the balance rows made by approve
    welcomed,   \* codes: the welcome mail is in the queue
    pc, job

vars == <<hired, link, trail, seeded, welcomed, pc, job>>
people == <<hired, seeded, welcomed>>

Status == {"PENDING", "IN_PROGRESS", "SUBMITTED", "UNDER_REVIEW", "CHANGES_REQUESTED",
           "ACTIVATED", "REJECTED", "EXPIRED"}
Steps == {"details", "documents"}

(* VALID_TRANSITIONS *)
Valid(from) ==
    CASE from = "PENDING" -> {"IN_PROGRESS", "EXPIRED"}
      [] from = "IN_PROGRESS" -> {"SUBMITTED", "EXPIRED"}
      [] from = "SUBMITTED" -> {"UNDER_REVIEW"}
      [] from = "UNDER_REVIEW" -> {"CHANGES_REQUESTED", "ACTIVATED", "REJECTED"}
      [] from = "CHANGES_REQUESTED" -> {"IN_PROGRESS"}
      [] OTHER -> {}

NoRow == [status |-> "NONE", steps |-> {}, late |-> FALSE, employee |-> NoCode]
NoJob == [link |-> NoLink, from |-> "NONE", to |-> "NONE", steps |-> {},
          email |-> NoOne, code |-> NoCode]

TypeOK ==
    /\ HiringTypeOK
    /\ link \in [Links -> [status : Status \cup {"NONE"}, steps : SUBSET Steps,
                           late : BOOLEAN, employee : Codes \cup {NoCode}]]
    /\ trail \in [Links -> [from : Status \cup {"NONE"}, to : Status \cup {"NONE"}]]
    /\ seeded \subseteq Codes \X Types /\ welcomed \subseteq Codes
    /\ pc \in [Workers -> {"idle", "move", "renew", "details", "upload", "submit", "approve",
                           "activate", "seed", "resolve", "create"}]
    /\ job \in [Workers -> [link : Links \cup {NoLink}, from : Status \cup {"NONE"},
                            to : Status \cup {"NONE"}, steps : SUBSET Steps,
                            email : Emails \cup {NoOne}, code : Codes \cup {NoCode}]]

Init ==
    /\ HiringInit
    /\ link = [l \in Links |-> NoRow]
    /\ trail = [l \in Links |-> [from |-> "NONE", to |-> "NONE"]]
    /\ seeded = {} /\ welcomed = {}
    /\ pc = [w \in Workers |-> "idle"]
    /\ job = [w \in Workers |-> NoJob]

Goto(w, to, j) == pc' = [pc EXCEPT ![w] = to] /\ job' = [job EXCEPT ![w] = j]
Finish(w) == Goto(w, "idle", NoJob)

(* A handler has read the link and goes on to statement s. *)
Read(w, l, s, to) ==
    /\ pc[w] = "idle"
    /\ Goto(w, s, [NoJob EXCEPT !.link = l, !.from = link[l].status, !.to = to,
                                !.steps = link[l].steps])
    /\ UNCHANGED <<people, link, trail>>

(* The row in onboarding_transitions. *)
Log(l, from, to) == trail' = [trail EXCEPT ![l] = [from |-> from, to |-> to]]

-----------------------------------------------------------------------------
(* HR and the scheduler. *)

CreateLink(l) ==
    /\ link[l].status = "NONE"
    /\ link' = [link EXCEPT ![l].status = "PENDING"]
    /\ Log(l, "PENDING", "PENDING")
    /\ UNCHANGED <<people, pc, job>>

(* markUnderReview, requestChanges and reject: the table decides. *)
Review(w, l, to) ==
    /\ to \in {"UNDER_REVIEW", "CHANGES_REQUESTED", "REJECTED"}
    /\ to \in Valid(link[l].status)
    /\ Read(w, l, "move", to)

(* Fault: a link under review may be revoked too. *)
RevokeAny(w, l) ==
    /\ link[l].status \in {"PENDING", "IN_PROGRESS", "UNDER_REVIEW"}
    /\ Read(w, l, "move", "EXPIRED")

RevokeLink(w, l) ==
    /\ link[l].status \in {"PENDING", "IN_PROGRESS"}
    /\ Read(w, l, "move", "EXPIRED")

(* resendInvite logs a transition to the same status and, if the link has  *)
(* run out, extends it.                                                    *)
ResendInvite(w, l) ==
    /\ link[l].status \in {"PENDING", "IN_PROGRESS", "CHANGES_REQUESTED"}
    /\ Read(w, l, IF link[l].late THEN "renew" ELSE "move", link[l].status)

(* OnboardingScheduler.expireStaleLinks: one query for the stale links and *)
(* one transaction for each; a link is a worker's business of its own.     *)
ExpireStaleLinks(w, l) ==
    /\ link[l].status \in {"PENDING", "IN_PROGRESS"}
    /\ link[l].late
    /\ Read(w, l, "move", "EXPIRED")

(* getPublicLink: the candidate re-opens the link. *)
Reopen(w, l) ==
    /\ link[l].status = "CHANGES_REQUESTED"
    /\ ~link[l].late
    /\ Read(w, l, "move", "IN_PROGRESS")

(* transition(): link and row in one transaction, with what was read. *)
Transition(w) ==
    LET j == job[w]
    IN /\ pc[w] \in {"move", "renew"}
       /\ link' = [link EXCEPT ![j.link] =
                      [@ EXCEPT !.status = j.to,
                                !.late = IF pc[w] = "renew" THEN FALSE ELSE link[j.link].late]]
       /\ Log(j.link, j.from, j.to)
       /\ Finish(w)
       /\ UNCHANGED people

-----------------------------------------------------------------------------
(* The candidate.  Each save writes the whole submissionData back. *)

CanWrite(l) == ~link[l].late /\ link[l].status \in {"PENDING", "IN_PROGRESS"}

DetailsRead(w, l) == CanWrite(l) /\ Read(w, l, "details", "IN_PROGRESS")

DetailsWrite(w) ==
    LET j == job[w]
    IN /\ pc[w] = "details"
       /\ IF j.from = "PENDING"
          THEN /\ link' = [link EXCEPT ![j.link] =
                              [@ EXCEPT !.steps = j.steps \cup {"details"}, !.status = j.to]]
               /\ Log(j.link, j.from, j.to)
          ELSE /\ link' = [link EXCEPT ![j.link].steps = j.steps \cup {"details"}]
               /\ UNCHANGED trail
       /\ Finish(w)
       /\ UNCHANGED people

(* submitDocuments, whose checks the controller has made once before: an   *)
(* upload or the final submission.                                         *)
DocumentsRead(w, l, final) ==
    /\ CanWrite(l)
    /\ "details" \in link[l].steps
    /\ Read(w, l, IF final THEN "submit" ELSE "upload", "SUBMITTED")

(* Fault: the final submission does not complete the step. *)
DocumentsUncounted(w) ==
    LET j == job[w]
    IN /\ \/ /\ pc[w] = "upload"
             /\ UNCHANGED <<link, trail>>
          \/ /\ pc[w] = "submit" /\ j.to \in Valid(j.from)
             /\ link' = [link EXCEPT ![j.link].status = j.to]
             /\ Log(j.link, j.from, j.to)
       /\ Finish(w)
       /\ UNCHANGED people

(* The table is asked inside the transaction of a final submission: a link *)
(* that was PENDING is refused and nothing of it is written.               *)
DocumentsWrite(w) ==
    LET j == job[w]
    IN /\ \/ /\ pc[w] = "upload"
             /\ link' = [link EXCEPT ![j.link].steps = j.steps]
             /\ UNCHANGED trail
          \/ /\ pc[w] = "submit" /\ j.to \in Valid(j.from)
             /\ link' = [link EXCEPT ![j.link] =
                            [@ EXCEPT !.steps = j.steps \cup {"documents"}, !.status = j.to]]
             /\ Log(j.link, j.from, j.to)
          \/ /\ pc[w] = "submit" /\ j.to \notin Valid(j.from)
             /\ UNCHANGED <<link, trail>>
       /\ Finish(w)
       /\ UNCHANGED people

-----------------------------------------------------------------------------
(* approve *)

ApproveRead(w, l) ==
    /\ "ACTIVATED" \in Valid(link[l].status)
    /\ link[l].steps = Steps
    /\ Read(w, l, "approve", "ACTIVATED")

(* resolveEmpCode; c is NoCode when HR types none.  A typed code in use is *)
(* answered with 409.                                                      *)
ApproveCode(w, c) ==
    /\ pc[w] = "approve"
    /\ IF c \in Used THEN Finish(w)
       ELSE Goto(w, "activate", [job[w] EXCEPT !.code = IF c = NoCode THEN NextCode ELSE c])
    /\ UNCHANGED <<people, link, trail>>

(* Fault: the link is not told of the employee it became. *)
ActivateUnlinked(w) ==
    LET j == job[w]
        e == EmailOf[j.link]
    IN /\ pc[w] = "activate"
       /\ IF CanHire(e, j.code)
          THEN /\ Hire(e, j.code, j.link)
               /\ link' = [link EXCEPT ![j.link].status = j.to]
               /\ Log(j.link, j.from, j.to)
               /\ Goto(w, "seed", j)
          ELSE Finish(w) /\ UNCHANGED <<hired, link, trail>>
       /\ UNCHANGED <<seeded, welcomed>>

(* Employee, user, link and row in one transaction. *)
Activate(w) ==
    LET j == job[w]
        e == EmailOf[j.link]
    IN /\ pc[w] = "activate"
       /\ IF CanHire(e, j.code)
          THEN /\ Hire(e, j.code, j.link)
               /\ link' = [link EXCEPT ![j.link] =
                              [@ EXCEPT !.status = j.to, !.employee = j.code]]
               /\ Log(j.link, j.from, j.to)
               /\ Goto(w, "seed", j)
          ELSE Finish(w) /\ UNCHANGED <<hired, link, trail>>
       /\ UNCHANGED <<seeded, welcomed>>

Has(c) == {t \in Types : <<c, t>> \in seeded}

(* A balance row for one type after the other, then the welcome mail. *)
Seed(w) ==
    LET c == job[w].code
    IN /\ pc[w] = "seed"
       /\ \/ \E t \in Types \ Has(c) :
                 /\ seeded' = seeded \cup {<<c, t>>}
                 /\ UNCHANGED <<welcomed, pc, job>>
          \/ /\ Has(c) = Types
             /\ welcomed' = welcomed \cup {c}
             /\ Finish(w)
             /\ UNCHANGED seeded
       /\ UNCHANGED <<hired, link, trail>>

-----------------------------------------------------------------------------
(* EmployeesService.create: the plan's limit, the code, the transaction. *)

CreateRead(w, e) ==
    /\ pc[w] = "idle"
    /\ BelowLimit
    /\ Goto(w, "resolve", [NoJob EXCEPT !.email = e])
    /\ UNCHANGED <<people, link, trail>>

CreateCode(w, c) ==
    /\ pc[w] = "resolve"
    /\ IF c \in Used \/ (c = NoCode /\ Candidates = {}) THEN Finish(w)
       ELSE Goto(w, "create", [job[w] EXCEPT !.code = IF c = NoCode THEN FirstFree ELSE c])
    /\ UNCHANGED <<people, link, trail>>

CreateWrite(w) ==
    LET j == job[w]
    IN /\ pc[w] = "create"
       /\ IF CanHire(j.email, j.code) THEN Hire(j.email, j.code, HR) ELSE UNCHANGED hired
       /\ Finish(w)
       /\ UNCHANGED <<seeded, welcomed, link, trail>>

UpdateEmail(e, to) == ChangeEmail(e, to) /\ UNCHANGED <<seeded, welcomed, link, trail, pc, job>>

-----------------------------------------------------------------------------
(* A statement fails, or the process dies. *)
Crash(w) ==
    /\ Crashes
    /\ pc[w] # "idle"
    /\ Finish(w)
    /\ UNCHANGED <<people, link, trail>>

(* expiresAt passes. *)
RunOut(l) ==
    /\ link[l].status # "NONE" /\ ~link[l].late
    /\ link' = [link EXCEPT ![l].late = TRUE]
    /\ UNCHANGED <<people, trail, pc, job>>

OnLink(w, l) ==
    \/ \E to \in Status : Review(w, l, to)
    \/ RevokeLink(w, l) \/ ResendInvite(w, l) \/ ExpireStaleLinks(w, l) \/ Reopen(w, l)
    \/ DetailsRead(w, l)
    \/ \E final \in BOOLEAN : DocumentsRead(w, l, final)
    \/ ApproveRead(w, l)

Proceed(w) ==
    \/ Transition(w) \/ DetailsWrite(w) \/ DocumentsWrite(w)
    \/ \E c \in Typed \cup {NoCode} : ApproveCode(w, c) \/ CreateCode(w, c)
    \/ Activate(w) \/ Seed(w) \/ CreateWrite(w)

Next ==
    \/ \E l \in Links : CreateLink(l) \/ RunOut(l)
    \/ \E e, to \in Emails : UpdateEmail(e, to)
    \/ \E w \in Workers : \/ \E l \in Links : OnLink(w, l)
                          \/ \E e \in Emails : CreateRead(w, e)
                          \/ Proceed(w)
                          \/ Crash(w)

Spec == Init /\ [][Next]_vars

-----------------------------------------------------------------------------
(* PROPERTIES *)

(* However requests interleave, a link names an employee that came by it,  *)
(* an ACTIVATED link names one, and no two employees share a code.         *)
LinksNameEmployees ==
    /\ \A l \in Links :
          /\ link[l].employee # NoCode =>
                 \E e \in Emails : hired[e] = [code |-> link[l].employee, by |-> l]
          /\ link[l].status = "ACTIVATED" => link[l].employee # NoCode
    /\ \A d, e \in Emails : IsHired(d) /\ IsHired(e) /\ hired[d].code = hired[e].code => d = e

(* An employee that came by the link is the one the link names: it has not *)
(* become two of them.                                                     *)
SpentOnce(l) == \A e \in Emails : hired[e].by = l => link[l].employee = hired[e].code

(* What HR reviews, and activates, has its details and its documents.      *)
ReviewedIsComplete ==
    \A l \in Links :
        link[l].status \in {"SUBMITTED", "UNDER_REVIEW", "ACTIVATED"} => link[l].steps = Steps

(* A link's status changes as the table says, and the row logged with the  *)
(* change starts where the link was.                                       *)
ChangesAreLogged ==
    \A l \in Links : link[l].status \notin {"NONE", link'[l].status} =>
        /\ link'[l].status \in Valid(link[l].status)
        /\ trail'[l] = [from |-> link[l].status, to |-> link'[l].status]

(* Whoever came by a link has a balance for every leave type and a welcome *)
(* mail, unless the request that makes them is still running.              *)
HiredIsWelcome ==
    \A e \in Emails : hired[e].by \in Links =>
        \/ Has(hired[e].code) = Types /\ hired[e].code \in welcomed
        \/ \E w \in Workers : pc[w] = "seed" /\ job[w].code = hired[e].code

(* Two requests are being served for one link. *)
Racing == \E v, w \in Workers : v # w /\ job[v].link = job[w].link /\ job[v].link # NoLink
=============================================================================
