---------------------------- MODULE PeopleProofs ----------------------------
(***************************************************************************)
(* Joining and attendance for any number of links, addresses, days and     *)
(* concurrent requests, with requests that die wherever they are: when a   *)
(* generated employee code is free, that a link becomes one employee, that *)
(* what is reviewed is complete and what is changed is logged, and that    *)
(* the hours and minutes of a day add up.                                  *)
(***************************************************************************)
EXTENDS MCPeople, FiniteSetTheorems, WellFoundedInduction, TLAPS

-----------------------------------------------------------------------------
(* Employee codes. *)

(* A set of natural numbers has a least one. *)
LEMMA LeastNumber ==
    ASSUME NEW S, S \subseteq Nat, S # {}
    PROVE  \E n \in S : \A m \in S : n <= m
<1> DEFINE R == OpToRel(<, Nat)
<1>1. IsWellFoundedOn(R, Nat)
  BY NatLessThanWellFounded
<1>2. \A m, n \in Nat : m < n => <<m, n>> \in R
  BY DEF OpToRel
<1> HIDE DEF R
<1>3. PICK n \in S : \A m \in S : ~ (<<m, n>> \in R)
  BY <1>1, WFMin
<1>4. ASSUME NEW m \in S PROVE ~ (m < n)
  BY <1>2, <1>3
<1>5. ASSUME NEW m \in S PROVE n <= m
  BY <1>4
<1> QED
  BY <1>5

(* Employees are finitely many, and so are their codes. *)
LEMMA UsedIsFinite ==
    ASSUME HiringTypeOK
    PROVE  IsFiniteSet(Used)
<1> DEFINE D == {e \in Emails : IsHired(e)}
           f == [e \in D |-> hired[e].code]
<1>1. IsFiniteSet(D)
  BY HiringAssumption, FS_Subset
<1>2. f \in Surjection(D, Used)
  BY DEF Surjection, Used
<1> QED
  BY <1>1, <1>2, FS_Surjection DEF ExistsSurjection

(* Whoever is hired has a code: part of the invariant of Onboarding.       *)
HiredHaveCodes == \A e \in Emails : IsHired(e) => hired[e].code \in Codes

(* What all operations on codes need.                                      *)
LEMMA UsedAreCodes ==
    ASSUME HiredHaveCodes
    PROVE  Used \subseteq Codes
BY DEF HiredHaveCodes, Used

(* One code is the last in string order: the one that has fewest codes     *)
(* after it.                                                               *)
LEMMA LastIsLast ==
    ASSUME HiringTypeOK, HiredHaveCodes, Used # {}
    PROVE  Last \in Used /\ \A d \in Used : After(Last, d)
<1> DEFINE from(c) == {d \in Used : After(d, c)}
           size(c) == Cardinality(from(c))
<1>1. \A c \in Used : IsFiniteSet(from(c)) /\ size(c) \in Nat
  BY UsedIsFinite, FS_Subset, FS_CardinalityType
<1>2. ASSUME NEW c \in Used, NEW d \in Used, ~ After(c, d)
      PROVE  size(d) < size(c)
  <2>1. c \in Codes /\ d \in Codes /\ Used \subseteq Codes
    BY UsedAreCodes
  <2>2. \A e \in Used : After(e, d) => After(e, c)
    BY <1>2, <2>1 DEF After, Codes
  <2>3. After(c, c)
    BY <2>1 DEF After, Codes
  <2>4. from(d) \in SUBSET from(c) /\ from(d) # from(c)
    BY <1>2, <2>2, <2>3
  <2>5. size(d) <= size(c) /\ size(d) # size(c)
    BY <1>1, <2>4, FS_Subset
  <2> QED
    BY <1>1, <2>5
<1>3. PICK n \in {size(c) : c \in Used} : \A m \in {size(c) : c \in Used} : n <= m
  <2>1. {size(c) : c \in Used} \subseteq Nat /\ {size(c) : c \in Used} # {}
    BY <1>1
  <2> HIDE DEF size
  <2> QED
    BY <2>1, LeastNumber
<1>4. PICK c \in Used : n = size(c)
  BY <1>3
<1> HIDE DEF size
<1>5. ASSUME NEW d \in Used PROVE After(c, d)
  <2>1. size(c) \in Nat /\ size(d) \in Nat /\ size(c) <= size(d)
    BY <1>1, <1>3, <1>4
  <2>2. ~ (size(d) < size(c))
    BY <2>1
  <2> QED
    BY <1>2, <2>2
<1> QED
  BY <1>5 DEF Last

(* The number a generated code starts from is a number.                    *)
LEMMA HighestIsNat ==
    ASSUME HiringTypeOK, HiredHaveCodes
    PROVE  Highest \in Nat
BY LastIsLast, UsedAreCodes DEF Highest, Codes

(* Generated codes are codes.                                              *)
LEMMA GeneratedAreCodes ==
    ASSUME HiringTypeOK, HiredHaveCodes
    PROVE  NextCode \in Codes /\ (Candidates # {} => FirstFree \in Codes)
<1>1. Highest \in Nat
  BY HighestIsNat
<1>2. NextCode \in Codes
  BY <1>1 DEF NextCode, Emp, Codes
<1>3. ASSUME Candidates # {} PROVE FirstFree \in Codes
  <2>1. Candidates \subseteq Nat
    BY <1>1 DEF Candidates
  <2>2. \E n \in Candidates : \A m \in Candidates : n <= m
    BY <1>3, <2>1, LeastNumber
  <2> QED
    BY <2>1, <2>2 DEF FirstFree, Emp, Codes
<1> QED
  BY <1>2, <1>3

-----------------------------------------------------------------------------
(* OnboardingService.resolveEmpCode generates a free code as long as no    *)
(* code in use sorts after those that start with "EMP": the run that finds *)
(* NextCodeIsFree violated needs such a code.                              *)
THEOREM NextCodeIsFreeAmongEmp ==
    ASSUME HiringTypeOK, HiredHaveCodes, \A c \in Used : c.rank # 2
    PROVE  NextCodeIsFree
<1>1. CASE Used = {}
  BY <1>1 DEF NextCodeIsFree
<1>2. CASE Used # {}
  <2>1. Last \in Used /\ \A d \in Used : After(Last, d)
    BY <1>2, LastIsLast
  <2>2. Used \subseteq Codes /\ Last.rank < 2
    BY <2>1, UsedAreCodes DEF Codes
  <2>3. Highest = Last.num
    BY <1>2 DEF Highest
  <2>4. NextCode = [rank |-> 1, num |-> Last.num + 1]
    BY <2>3 DEF NextCode, Emp
  <2>5. ASSUME NextCode \in Used PROVE FALSE
    BY <2>1, <2>2, <2>4, <2>5 DEF After, Codes
  <2> QED
    BY <2>5 DEF NextCodeIsFree
<1> QED
  BY <1>1, <1>2

(* The helper that EmployeesService.create calls answers with a free code  *)
(* or, after three, with an error.                                         *)
THEOREM HelperCodeIsFree ==
    ASSUME HiringTypeOK, HiredHaveCodes, Candidates # {}
    PROVE  FirstFree \notin Used
<1>1. Candidates \subseteq Nat
  BY HighestIsNat DEF Candidates
<1>2. \E n \in Candidates : \A m \in Candidates : n <= m
  BY <1>1, LeastNumber
<1> QED
  BY <1>2 DEF FirstFree, Candidates

-----------------------------------------------------------------------------
(* Links and the employees they become. *)

Places == {"idle", "move", "renew", "details", "upload", "submit", "approve",
           "activate", "seed", "resolve", "create"}
AtLink == {"move", "renew", "details", "upload", "submit", "approve", "activate", "seed"}
Rows == [status : Status \cup {"NONE"}, steps : SUBSET Steps, late : BOOLEAN,
         employee : Codes \cup {NoCode}]
Jobs == [link : Links \cup {NoLink}, from : Status \cup {"NONE"}, to : Status \cup {"NONE"},
         steps : SUBSET Steps, email : Emails \cup {NoOne}, code : Codes \cup {NoCode}]

(* What a request that waits before statement p has decided: only approve  *)
(* activates, and the code it writes is a code.                            *)
Sound(p, j) ==
    /\ p \in AtLink => j.link \in Links
    /\ p \in {"move", "renew", "details", "submit"} => j.to # "ACTIVATED"
    /\ p \in {"activate", "seed", "create"} => j.code \in Codes
    /\ p \in {"resolve", "create"} => j.email \in Emails

JobsAreSound == \A w \in Workers : Sound(pc[w], job[w])

JoinInv == TypeOK /\ HiredHaveCodes /\ JobsAreSound /\ LinksNameEmployees

(* The rows and jobs that stand for nothing are rows and jobs.             *)
LEMMA NothingIsTyped == NoRow \in Rows /\ NoJob \in Jobs
BY DEF NoRow, NoJob, Rows, Jobs

(* No link, code or address is taken for one that is missing.              *)
LEMMA Missing ==
    /\ NoCode \notin Codes /\ NoOne \notin Links /\ HR \notin Links /\ NoLink \notin Links
    /\ EmailOf \in [Links -> Emails] /\ Typed \subseteq Codes
BY HiringAssumption, OnboardingAssumption

LEMMA Starts == Init => JoinInv
<1> SUFFICES ASSUME Init PROVE JoinInv
  OBVIOUS
<1> USE Missing
<1>1. TypeOK
  <2>1. HiringTypeOK
    BY DEF Init, HiringInit, HiringTypeOK, Nobody
  <2> QED
    BY <2>1, NothingIsTyped DEF Init, TypeOK, Rows, Jobs
<1>2. HiredHaveCodes
  BY DEF Init, HiringInit, HiredHaveCodes, IsHired
<1>3. JobsAreSound
  BY DEF Init, JobsAreSound, Sound, AtLink
<1>4. LinksNameEmployees
  BY DEF Init, HiringInit, LinksNameEmployees, IsHired, Nobody, NoRow
<1> QED
  BY <1>1, <1>2, <1>3, <1>4 DEF JoinInv

(* A request that goes on with a sound job keeps the requests in order.    *)
LEMMA Going ==
    ASSUME TypeOK, JobsAreSound, NEW w \in Workers, NEW to \in Places, NEW j \in Jobs,
           Sound(to, j), Goto(w, to, j)
    PROVE  /\ pc' \in [Workers -> Places] /\ job' \in [Workers -> Jobs]
           /\ JobsAreSound'
<1>1. pc \in [Workers -> Places] /\ job \in [Workers -> Jobs]
  BY DEF TypeOK, Places, Jobs
<1>2. pc' \in [Workers -> Places] /\ job' \in [Workers -> Jobs]
  BY <1>1 DEF Goto
<1>3. ASSUME NEW v \in Workers PROVE Sound(pc'[v], job'[v])
  <2>1. CASE v = w
    BY <1>1, <2>1 DEF Goto
  <2>2. CASE v # w
    <3>1. pc'[v] = pc[v] /\ job'[v] = job[v]
      BY <1>1, <2>2 DEF Goto
    <3> QED
      BY <3>1 DEF JobsAreSound
  <2> QED
    BY <2>1, <2>2
<1>4. JobsAreSound'
  BY <1>3 DEF JobsAreSound
<1> QED
  BY <1>2, <1>4

(* A request that ends does, too.                                          *)
LEMMA Finishing ==
    ASSUME TypeOK, JobsAreSound, NEW w \in Workers, Finish(w)
    PROVE  /\ pc' \in [Workers -> Places] /\ job' \in [Workers -> Jobs]
           /\ JobsAreSound'
<1>1. Sound("idle", NoJob) /\ "idle" \in Places
  BY DEF Sound, AtLink, Places
<1> QED
  BY <1>1, NothingIsTyped, Going DEF Finish

(* The requests are typed and sound whenever their part of TypeOK is.      *)
LEMMA Together ==
    ASSUME HiringTypeOK', link' \in [Links -> Rows],
           trail' \in [Links -> [from : Status \cup {"NONE"}, to : Status \cup {"NONE"}]],
           seeded' \subseteq Codes \X Types, welcomed' \subseteq Codes,
           pc' \in [Workers -> Places], job' \in [Workers -> Jobs]
    PROVE  TypeOK'
BY DEF TypeOK, Rows, Places, Jobs

(* What a step that leaves the people, and the employees of the links,     *)
(* alone must do to keep the promise: not activate a link.                 *)
LEMMA LinksMove ==
    ASSUME TypeOK, LinksNameEmployees, NEW l \in Links, NEW r \in Rows,
           r.employee = link[l].employee,
           r.status = "ACTIVATED" => link[l].status = "ACTIVATED",
           link' = [link EXCEPT ![l] = r], hired' = hired
    PROVE  LinksNameEmployees'
<1>1. link \in [Links -> Rows]
  BY DEF TypeOK, Rows
<1>2. \A m \in Links : /\ link'[m].employee = link[m].employee
                       /\ link'[m].status = "ACTIVATED" => link[m].status = "ACTIVATED"
  BY <1>1
<1> QED
  BY <1>2 DEF LinksNameEmployees, IsHired

(* Hiring is for an address and a code that nobody has.                    *)
LEMMA NewEmployee ==
    ASSUME TypeOK, HiredHaveCodes, NEW e \in Emails, NEW c \in Codes,
           NEW by \in Links \cup {HR}, CanHire(e, c), Hire(e, c, by)
    PROVE  /\ HiringTypeOK' /\ HiredHaveCodes'
           /\ ~ IsHired(e) /\ hired'[e] = [code |-> c, by |-> by]
           /\ \A d \in Emails : d # e => hired'[d] = hired[d]
           /\ \A d \in Emails : IsHired(d) => hired[d].code # c
<1> USE Missing
<1>1. HiringTypeOK
  BY DEF TypeOK
<1>2. HiringTypeOK' /\ hired'[e] = [code |-> c, by |-> by]
      /\ \A d \in Emails : d # e => hired'[d] = hired[d]
  BY <1>1 DEF HiringTypeOK, Hire
<1>3. ~ IsHired(e) /\ \A d \in Emails : IsHired(d) => hired[d].code # c
  BY DEF CanHire, Used
<1>4. HiredHaveCodes'
  BY <1>2 DEF HiredHaveCodes, IsHired
<1> QED
  BY <1>2, <1>3, <1>4

-----------------------------------------------------------------------------
(* Steps that only move a request. *)

(* Nothing but requests has changed.                                       *)
LEMMA RequestsOnly ==
    ASSUME JoinInv, pc' \in [Workers -> Places], job' \in [Workers -> Jobs], JobsAreSound',
           UNCHANGED <<people, link, trail>>
    PROVE  JoinInv'
<1>1. TypeOK'
  BY DEF JoinInv, TypeOK, HiringTypeOK, people, Places, Jobs
<1>2. HiredHaveCodes' /\ LinksNameEmployees'
  BY DEF JoinInv, HiredHaveCodes, LinksNameEmployees, IsHired, people
<1> QED
  BY <1>1, <1>2 DEF JoinInv

(* A handler has read a link; only approve means to activate it.           *)
LEMMA Reading ==
    ASSUME JoinInv, NEW w \in Workers, NEW l \in Links, NEW to \in Status,
           NEW s \in {"move", "renew", "details", "upload", "submit", "approve"},
           to = "ACTIVATED" => s = "approve", Read(w, l, s, to)
    PROVE  JoinInv'
<1> DEFINE j == [NoJob EXCEPT !.link = l, !.from = link[l].status, !.to = to,
                              !.steps = link[l].steps]
<1>1. link[l] \in Rows
  BY DEF JoinInv, TypeOK, Rows
<1>2. j \in Jobs /\ j.link = l /\ j.to = to
  BY <1>1 DEF NoJob, Jobs, Rows
<1>3. Sound(s, j) /\ s \in Places
  BY <1>2 DEF Sound, AtLink, Places
<1>4. Goto(w, s, j) /\ UNCHANGED <<people, link, trail>>
  BY DEF Read
<1> HIDE DEF j
<1> QED
  BY <1>2, <1>3, <1>4, Going, RequestsOnly DEF JoinInv

(* What HR, the scheduler and the candidate read a link for.               *)
LEMMA OnLinkKeeps ==
    ASSUME JoinInv, NEW w \in Workers, NEW l \in Links, OnLink(w, l)
    PROVE  JoinInv'
<1>1. CASE \E to \in Status : Review(w, l, to)
  BY <1>1, Reading DEF Review, Status
<1>2. CASE RevokeLink(w, l)
  BY <1>2, Reading DEF RevokeLink, Status
<1>3. CASE ResendInvite(w, l)
  <2>1. link[l].status \in Status \ {"ACTIVATED"}
    BY <1>3 DEF ResendInvite, Status
  <2> QED
    BY <1>3, <2>1, Reading DEF ResendInvite
<1>4. CASE ExpireStaleLinks(w, l)
  BY <1>4, Reading DEF ExpireStaleLinks, Status
<1>5. CASE Reopen(w, l)
  BY <1>5, Reading DEF Reopen, Status
<1>6. CASE DetailsRead(w, l)
  BY <1>6, Reading DEF DetailsRead, Status
<1>7. CASE \E final \in BOOLEAN : DocumentsRead(w, l, final)
  BY <1>7, Reading DEF DocumentsRead, Status
<1>8. CASE ApproveRead(w, l)
  BY <1>8, Reading DEF ApproveRead, Status
<1> QED
  BY <1>1, <1>2, <1>3, <1>4, <1>5, <1>6, <1>7, <1>8 DEF OnLink

(* resolveEmpCode, before an approval.                                     *)
LEMMA ApproveCodeKeeps ==
    ASSUME JoinInv, NEW w \in Workers, NEW c \in Typed \cup {NoCode}, ApproveCode(w, c)
    PROVE  JoinInv'
<1> USE Missing
<1> DEFINE d == IF c = NoCode THEN NextCode ELSE c
           j == [job[w] EXCEPT !.code = d]
<1>1. d \in Codes
  BY GeneratedAreCodes DEF JoinInv, TypeOK
<1>2. job[w] \in Jobs /\ job[w].link \in Links
  BY DEF JoinInv, TypeOK, Jobs, JobsAreSound, Sound, AtLink, ApproveCode
<1> HIDE DEF d
<1>3. j \in Jobs /\ j.link \in Links /\ j.code \in Codes
  BY <1>1, <1>2 DEF Jobs
<1>4. Sound("activate", j) /\ "activate" \in Places
  BY <1>3 DEF Sound, Places
<1>5. CASE Finish(w)
  BY <1>5, Finishing, RequestsOnly DEF ApproveCode, JoinInv
<1>6. CASE Goto(w, "activate", j)
  <2> HIDE DEF j
  <2> QED
    BY <1>3, <1>4, <1>6, Going, RequestsOnly DEF ApproveCode, JoinInv
<1> QED
  BY <1>5, <1>6 DEF ApproveCode, d

(* ... and before a creation.                                              *)
LEMMA CreateCodeKeeps ==
    ASSUME JoinInv, NEW w \in Workers, NEW c \in Typed \cup {NoCode}, CreateCode(w, c)
    PROVE  JoinInv'
<1> USE Missing
<1> DEFINE d == IF c = NoCode THEN FirstFree ELSE c
           j == [job[w] EXCEPT !.code = d]
<1>1. CASE Finish(w)
  BY <1>1, Finishing, RequestsOnly DEF CreateCode, JoinInv
<1>2. CASE ~ (c = NoCode /\ Candidates = {}) /\ Goto(w, "create", j)
  <2>1. d \in Codes
    BY <1>2, GeneratedAreCodes DEF JoinInv, TypeOK
  <2>2. job[w] \in Jobs /\ job[w].email \in Emails
    BY DEF JoinInv, TypeOK, Jobs, JobsAreSound, Sound, CreateCode
  <2> HIDE DEF d
  <2>3. j \in Jobs /\ j.email \in Emails /\ j.code \in Codes
    BY <2>1, <2>2 DEF Jobs
  <2>4. Sound("create", j) /\ "create" \in Places
    BY <2>3 DEF Sound, AtLink, Places
  <2> HIDE DEF j
  <2> QED
    BY <1>2, <2>3, <2>4, Going, RequestsOnly DEF CreateCode, JoinInv
<1> QED
  BY <1>1, <1>2 DEF CreateCode

(* EmployeesService.create has checked the plan's limit.                   *)
LEMMA CreateReadKeeps ==
    ASSUME JoinInv, NEW w \in Workers, NEW e \in Emails, CreateRead(w, e)
    PROVE  JoinInv'
<1> DEFINE j == [NoJob EXCEPT !.email = e]
<1>1. j \in Jobs /\ j.email = e
  BY DEF NoJob, Jobs
<1>2. Sound("resolve", j) /\ "resolve" \in Places
  BY <1>1 DEF Sound, AtLink, Places
<1> HIDE DEF j
<1> QED
  BY <1>1, <1>2, Going, RequestsOnly DEF CreateRead, JoinInv, j

(* A request dies.                                                         *)
LEMMA CrashKeeps ==
    ASSUME JoinInv, NEW w \in Workers, Crash(w)
    PROVE  JoinInv'
BY Finishing, RequestsOnly DEF Crash, JoinInv

-----------------------------------------------------------------------------
(* Steps that write a link. *)

(* A row is written that keeps the link's employee and does not activate   *)
(* it.                                                                     *)
LEMMA Writing ==
    ASSUME JoinInv, NEW l \in Links, NEW r \in Rows, r.employee = link[l].employee,
           r.status = "ACTIVATED" => link[l].status = "ACTIVATED",
           link' = [link EXCEPT ![l] = r],
           trail' \in [Links -> [from : Status \cup {"NONE"}, to : Status \cup {"NONE"}]],
           pc' \in [Workers -> Places], job' \in [Workers -> Jobs], JobsAreSound',
           UNCHANGED people
    PROVE  JoinInv'
<1>1. LinksNameEmployees'
  BY LinksMove DEF JoinInv, people
<1>2. HiringTypeOK' /\ HiredHaveCodes'
  BY DEF JoinInv, TypeOK, HiringTypeOK, HiredHaveCodes, IsHired, people
<1>3. link' \in [Links -> Rows]
  BY DEF JoinInv, TypeOK, Rows
<1>4. seeded' \subseteq Codes \X Types /\ welcomed' \subseteq Codes
  BY DEF JoinInv, TypeOK, people
<1> QED
  BY <1>1, <1>2, <1>3, <1>4, Together DEF JoinInv

(* What a request knows of its link.                                       *)
LEMMA Known ==
    ASSUME JoinInv, NEW w \in Workers, pc[w] \in AtLink
    PROVE  /\ job[w] \in Jobs /\ job[w].link \in Links
           /\ link[job[w].link] \in Rows /\ link \in [Links -> Rows]
           /\ pc \in [Workers -> Places] /\ job \in [Workers -> Jobs]
           /\ trail \in [Links -> [from : Status \cup {"NONE"}, to : Status \cup {"NONE"}]]
BY DEF JoinInv, TypeOK, Rows, Jobs, Places, JobsAreSound, Sound

(* createLink                                                              *)
LEMMA CreateLinkKeeps ==
    ASSUME JoinInv, NEW l \in Links, CreateLink(l)
    PROVE  JoinInv'
<1> DEFINE r == [link[l] EXCEPT !.status = "PENDING"]
<1>1. link \in [Links -> Rows]
  BY DEF JoinInv, TypeOK, Rows
<1>2. r \in Rows /\ r.employee = link[l].employee /\ r.status = "PENDING"
  BY <1>1 DEF Rows, Status
<1>3. link' = [link EXCEPT ![l] = r]
  BY <1>1 DEF CreateLink
<1>4. trail' \in [Links -> [from : Status \cup {"NONE"}, to : Status \cup {"NONE"}]]
  BY DEF CreateLink, Log, JoinInv, TypeOK, Status
<1>5. /\ pc' \in [Workers -> Places] /\ job' \in [Workers -> Jobs]
      /\ JobsAreSound' /\ UNCHANGED people
  BY DEF CreateLink, JoinInv, TypeOK, Places, Jobs, JobsAreSound
<1> HIDE DEF r
<1> QED
  BY <1>2, <1>3, <1>4, <1>5, Writing

(* expiresAt passes.                                                       *)
LEMMA RunOutKeeps ==
    ASSUME JoinInv, NEW l \in Links, RunOut(l)
    PROVE  JoinInv'
<1> DEFINE r == [link[l] EXCEPT !.late = TRUE]
<1>1. link \in [Links -> Rows]
  BY DEF JoinInv, TypeOK, Rows
<1>2. r \in Rows /\ r.employee = link[l].employee /\ r.status = link[l].status
  BY <1>1 DEF Rows
<1>3. link' = [link EXCEPT ![l] = r]
  BY <1>1 DEF RunOut
<1>4. trail' \in [Links -> [from : Status \cup {"NONE"}, to : Status \cup {"NONE"}]]
  BY DEF RunOut, JoinInv, TypeOK
<1>5. /\ pc' \in [Workers -> Places] /\ job' \in [Workers -> Jobs]
      /\ JobsAreSound' /\ UNCHANGED people
  BY DEF RunOut, JoinInv, TypeOK, Places, Jobs, JobsAreSound
<1> HIDE DEF r
<1> QED
  BY <1>2, <1>3, <1>4, <1>5, Writing

(* transition() writes what the review, the scheduler or the candidate     *)
(* decided, which is never to activate.                                    *)
LEMMA TransitionKeeps ==
    ASSUME JoinInv, NEW w \in Workers, Transition(w)
    PROVE  JoinInv'
<1> DEFINE l == job[w].link
           x == IF pc[w] = "renew" THEN FALSE ELSE link[l].late
           r == [link[l] EXCEPT !.status = job[w].to, !.late = x]
<1>1. pc[w] \in {"move", "renew"} /\ pc[w] \in AtLink
  BY DEF Transition, AtLink
<1>2. job[w].to # "ACTIVATED"
  BY <1>1 DEF JoinInv, JobsAreSound, Sound
<1>3. r \in Rows /\ r.employee = link[l].employee /\ r.status = job[w].to
  <2>1. link[l] \in Rows /\ job[w].to \in Status \cup {"NONE"}
    BY <1>1, Known DEF Jobs
  <2>2. x \in BOOLEAN
    BY <2>1 DEF Rows
  <2> HIDE DEF x, l
  <2> QED
    BY <2>1, <2>2 DEF Rows
<1>4. link' = [link EXCEPT ![l] = r]
  BY DEF Transition
<1>5. trail' \in [Links -> [from : Status \cup {"NONE"}, to : Status \cup {"NONE"}]]
  BY <1>1, Known DEF Transition, Log, Jobs
<1>6. pc' \in [Workers -> Places] /\ job' \in [Workers -> Jobs] /\ JobsAreSound'
  BY Finishing DEF Transition, JoinInv
<1>7. l \in Links /\ UNCHANGED people
  BY <1>1, Known DEF Transition
<1> HIDE DEF l, x, r
<1> QED
  BY <1>2, <1>3, <1>4, <1>5, <1>6, <1>7, Writing

(* submitDetails                                                           *)
LEMMA DetailsWriteKeeps ==
    ASSUME JoinInv, NEW w \in Workers, DetailsWrite(w)
    PROVE  JoinInv'
<1> DEFINE l == job[w].link
           s == job[w].steps \cup {"details"}
           q == [link[l] EXCEPT !.steps = s]
           r == [link[l] EXCEPT !.steps = s, !.status = job[w].to]
<1>1. pc[w] = "details" /\ pc[w] \in AtLink
  BY DEF DetailsWrite, AtLink
<1>2. job[w].to # "ACTIVATED" /\ l \in Links
  BY <1>1, Known DEF JoinInv, JobsAreSound, Sound
<1>3. /\ q \in Rows /\ q.employee = link[l].employee /\ q.status = link[l].status
      /\ r \in Rows /\ r.employee = link[l].employee /\ r.status = job[w].to
  <2>1. link[l] \in Rows /\ job[w].to \in Status \cup {"NONE"}
    BY <1>1, Known DEF Jobs
  <2>2. job[w].steps \in SUBSET Steps
    BY <1>1, Known DEF Jobs
  <2>3. s \in SUBSET Steps
    BY <2>2 DEF Steps
  <2> HIDE DEF s, l
  <2> QED
    BY <2>1, <2>2, <2>3 DEF Rows
<1>4. link' = [link EXCEPT ![l] = q] \/ link' = [link EXCEPT ![l] = r]
  BY <1>1, Known DEF DetailsWrite
<1>5. trail' \in [Links -> [from : Status \cup {"NONE"}, to : Status \cup {"NONE"}]]
  BY <1>1, Known DEF DetailsWrite, Log, Jobs
<1>6. /\ pc' \in [Workers -> Places] /\ job' \in [Workers -> Jobs] /\ JobsAreSound'
      /\ UNCHANGED people
  BY Finishing DEF DetailsWrite, JoinInv
<1> HIDE DEF l, s, q, r
<1> QED
  BY <1>2, <1>3, <1>4, <1>5, <1>6, Writing

(* submitDocuments                                                         *)
LEMMA DocumentsWriteKeeps ==
    ASSUME JoinInv, NEW w \in Workers, DocumentsWrite(w)
    PROVE  JoinInv'
<1> DEFINE l == job[w].link
           q == [link[l] EXCEPT !.steps = job[w].steps]
           s == job[w].steps \cup {"documents"}
           r == [link[l] EXCEPT !.steps = s, !.status = job[w].to]
<1>1. pc[w] \in {"upload", "submit"} /\ pc[w] \in AtLink
  BY DEF DocumentsWrite, AtLink
<1>2. l \in Links /\ (pc[w] = "submit" => job[w].to # "ACTIVATED")
  BY <1>1, Known DEF JoinInv, JobsAreSound, Sound
<1>3. /\ q \in Rows /\ q.employee = link[l].employee /\ q.status = link[l].status
      /\ r \in Rows /\ r.employee = link[l].employee /\ r.status = job[w].to
  <2>1. link[l] \in Rows /\ job[w].to \in Status \cup {"NONE"}
    BY <1>1, Known DEF Jobs
  <2>2. job[w].steps \in SUBSET Steps
    BY <1>1, Known DEF Jobs
  <2>3. s \in SUBSET Steps
    BY <2>2 DEF Steps
  <2> HIDE DEF s, l
  <2> QED
    BY <2>1, <2>2, <2>3 DEF Rows
<1>4. trail' \in [Links -> [from : Status \cup {"NONE"}, to : Status \cup {"NONE"}]]
  BY <1>1, Known DEF DocumentsWrite, Log, Jobs
<1>5. /\ pc' \in [Workers -> Places] /\ job' \in [Workers -> Jobs] /\ JobsAreSound'
      /\ UNCHANGED people
  BY Finishing DEF DocumentsWrite, JoinInv
<1>6. CASE pc[w] = "upload"
  <2>1. link' = [link EXCEPT ![l] = q]
    BY <1>1, <1>6, Known DEF DocumentsWrite
  <2> HIDE DEF l, q, s, r
  <2> QED
    BY <1>2, <1>3, <1>4, <1>5, <2>1, Writing
<1>7. CASE pc[w] = "submit" /\ job[w].to \in Valid(job[w].from)
  <2>1. link' = [link EXCEPT ![l] = r]
    BY <1>1, <1>7, Known DEF DocumentsWrite
  <2> HIDE DEF l, q, s, r
  <2> QED
    BY <1>2, <1>3, <1>4, <1>5, <1>7, <2>1, Writing
<1>8. CASE pc[w] = "submit" /\ job[w].to \notin Valid(job[w].from)
  <2>1. UNCHANGED <<people, link, trail>>
    BY <1>8 DEF DocumentsWrite
  <2> QED
    BY <1>5, <2>1, RequestsOnly
<1> QED
  BY <1>1, <1>6, <1>7, <1>8

-----------------------------------------------------------------------------
(* Steps that make an employee, and what follows. *)

(* The codes of the employees stay apart: the key (organization, empCode). *)
LEMMA CodesApart ==
    ASSUME JoinInv, NEW e \in Emails, NEW c \in Codes,
           \A d \in Emails : d # e => hired'[d] = hired[d],
           hired'[e].code = c,
           \A d \in Emails : IsHired(d) => hired[d].code # c
    PROVE  \A d, f \in Emails : IsHired(d)' /\ IsHired(f)' /\ hired'[d].code = hired'[f].code
               => d = f
BY DEF JoinInv, LinksNameEmployees, IsHired

(* The transaction of approve.                                             *)
LEMMA ActivateKeeps ==
    ASSUME JoinInv, NEW w \in Workers, Activate(w)
    PROVE  JoinInv'
<1> USE Missing
<1> DEFINE l == job[w].link
           e == EmailOf[l]
           c == job[w].code
           r == [link[l] EXCEPT !.status = job[w].to, !.employee = c]
<1>1. pc[w] = "activate" /\ pc[w] \in AtLink
  BY DEF Activate, AtLink
<1>2. l \in Links /\ e \in Emails /\ job[w] \in Jobs
  BY <1>1, Known
<1>3. c \in Codes
  BY <1>1 DEF JoinInv, JobsAreSound, Sound
<1>4. CASE ~ CanHire(e, c)
  <2>1. Finish(w) /\ UNCHANGED <<people, link, trail>>
    BY <1>4 DEF Activate, people
  <2> QED
    BY <2>1, Finishing, RequestsOnly DEF JoinInv
<1>5. CASE CanHire(e, c)
  <2>1. /\ Hire(e, c, l) /\ link' = [link EXCEPT ![l] = r]
        /\ Log(l, job[w].from, job[w].to) /\ Goto(w, "seed", job[w])
        /\ UNCHANGED <<seeded, welcomed>>
    BY <1>5 DEF Activate
  <2>2. /\ HiringTypeOK' /\ HiredHaveCodes'
        /\ ~ IsHired(e) /\ hired'[e] = [code |-> c, by |-> l]
        /\ \A d \in Emails : d # e => hired'[d] = hired[d]
        /\ \A d \in Emails : IsHired(d) => hired[d].code # c
    BY <1>2, <1>3, <1>5, <2>1, NewEmployee DEF JoinInv
  <2>3. link \in [Links -> Rows] /\ r \in Rows /\ r.employee = c
    <3>1. link \in [Links -> Rows] /\ link[l] \in Rows
          /\ job[w].to \in Status \cup {"NONE"}
      BY <1>1, Known DEF Jobs
    <3> HIDE DEF c, l
    <3> QED
      BY <1>3, <3>1 DEF Rows
  <2>4. TypeOK'
    <3>1. link' \in [Links -> Rows]
      BY <2>1, <2>3
    <3>2. trail' \in [Links -> [from : Status \cup {"NONE"}, to : Status \cup {"NONE"}]]
      BY <1>1, <2>1, Known DEF Log, Jobs
    <3>3. seeded' \subseteq Codes \X Types /\ welcomed' \subseteq Codes
      BY <2>1 DEF JoinInv, TypeOK
    <3>4. Sound("seed", job[w]) /\ "seed" \in Places
      BY <1>2, <1>3 DEF Sound, Places
    <3>5. pc' \in [Workers -> Places] /\ job' \in [Workers -> Jobs]
      BY <1>2, <2>1, <3>4, Going DEF JoinInv
    <3> QED
      BY <2>2, <3>1, <3>2, <3>3, <3>5, Together
  <2>5. JobsAreSound'
    <3>1. Sound("seed", job[w]) /\ "seed" \in Places
      BY <1>2, <1>3 DEF Sound, Places
    <3> QED
      BY <1>2, <2>1, <3>1, Going DEF JoinInv
  <2>6. \A m \in Links : m # l => link'[m] = link[m]
    BY <2>1, <2>3
  <2>7. link'[l].employee = c
    BY <1>2, <2>1, <2>3
  <2> HIDE DEF r, c
  <2>8. ASSUME NEW m \in Links, link'[m].employee # NoCode
        PROVE  \E d \in Emails : hired'[d] = [code |-> link'[m].employee, by |-> m]
    <3>1. CASE m = l
      BY <1>2, <2>2, <2>7, <3>1
    <3>2. CASE m # l
      <4>1. PICK d \in Emails : hired[d] = [code |-> link[m].employee, by |-> m]
        BY <2>6, <2>8, <3>2 DEF JoinInv, LinksNameEmployees
      <4>2. IsHired(d)
        BY <4>1 DEF IsHired, Nobody
      <4> HIDE DEF e
      <4> QED
        BY <2>2, <2>6, <3>2, <4>1, <4>2
    <3> QED
      BY <3>1, <3>2
  <2>9. ASSUME NEW m \in Links, link'[m].status = "ACTIVATED"
        PROVE  link'[m].employee # NoCode
    <3>1. CASE m = l
      BY <1>3, <2>7, <3>1
    <3>2. CASE m # l
      BY <2>6, <2>9, <3>2 DEF JoinInv, LinksNameEmployees
    <3> QED
      BY <3>1, <3>2
  <2>10. \A d, f \in Emails : IsHired(d)' /\ IsHired(f)' /\ hired'[d].code = hired'[f].code
             => d = f
    <3>1. hired'[e].code = c
      BY <2>2
    <3> HIDE DEF e
    <3> QED
      BY <1>2, <1>3, <2>2, <3>1, CodesApart
  <2>11. LinksNameEmployees'
    BY <2>8, <2>9, <2>10 DEF LinksNameEmployees
  <2> QED
    BY <2>2, <2>4, <2>5, <2>11 DEF JoinInv
<1> QED
  BY <1>4, <1>5

(* The transaction of EmployeesService.create.                             *)
LEMMA CreateWriteKeeps ==
    ASSUME JoinInv, NEW w \in Workers, CreateWrite(w)
    PROVE  JoinInv'
<1> USE Missing
<1> DEFINE e == job[w].email
           c == job[w].code
<1>1. e \in Emails /\ c \in Codes
  BY DEF CreateWrite, JoinInv, JobsAreSound, Sound
<1>2. pc' \in [Workers -> Places] /\ job' \in [Workers -> Jobs] /\ JobsAreSound'
  BY Finishing DEF CreateWrite, JoinInv
<1>3. CASE ~ CanHire(e, c)
  <2>1. UNCHANGED <<people, link, trail>>
    BY <1>3 DEF CreateWrite, people
  <2> QED
    BY <1>2, <2>1, RequestsOnly
<1>4. CASE CanHire(e, c)
  <2>1. Hire(e, c, HR) /\ UNCHANGED <<seeded, welcomed, link, trail>>
    BY <1>4 DEF CreateWrite
  <2>2. /\ HiringTypeOK' /\ HiredHaveCodes'
        /\ ~ IsHired(e) /\ hired'[e] = [code |-> c, by |-> HR]
        /\ \A d \in Emails : d # e => hired'[d] = hired[d]
        /\ \A d \in Emails : IsHired(d) => hired[d].code # c
    BY <1>1, <1>4, <2>1, NewEmployee DEF JoinInv
  <2>3. TypeOK'
    BY <1>2, <2>1, <2>2, Together DEF JoinInv, TypeOK, Rows
  <2> HIDE DEF e, c
  <2>4. ASSUME NEW m \in Links, link'[m].employee # NoCode
        PROVE  \E d \in Emails : hired'[d] = [code |-> link'[m].employee, by |-> m]
    <3>1. PICK d \in Emails : hired[d] = [code |-> link[m].employee, by |-> m]
      BY <2>1, <2>4 DEF JoinInv, LinksNameEmployees
    <3>2. d # e
      BY <2>2, <3>1 DEF IsHired, Nobody
    <3> QED
      BY <2>1, <2>2, <3>1, <3>2
  <2>5. \A d, f \in Emails : IsHired(d)' /\ IsHired(f)' /\ hired'[d].code = hired'[f].code
            => d = f
    <3>1. hired'[e].code = c
      BY <2>2
    <3> QED
      BY <1>1, <2>2, <3>1, CodesApart
  <2>6. \A m \in Links : link'[m].status = "ACTIVATED" => link'[m].employee # NoCode
    BY <2>1 DEF JoinInv, LinksNameEmployees
  <2>7. LinksNameEmployees'
    BY <2>4, <2>5, <2>6 DEF LinksNameEmployees
  <2> QED
    BY <1>2, <2>2, <2>3, <2>7 DEF JoinInv
<1> QED
  BY <1>3, <1>4

(* The balances and the welcome mail.                                      *)
LEMMA SeedKeeps ==
    ASSUME JoinInv, NEW w \in Workers, Seed(w)
    PROVE  JoinInv'
<1>1. job[w].code \in Codes
  BY DEF Seed, JoinInv, JobsAreSound, Sound
<1>2. seeded \subseteq Codes \X Types /\ welcomed \subseteq Codes
  BY DEF JoinInv, TypeOK
<1>3. seeded' \subseteq Codes \X Types /\ welcomed' \subseteq Codes
  BY <1>1, <1>2 DEF Seed
<1>4. pc' \in [Workers -> Places] /\ job' \in [Workers -> Jobs] /\ JobsAreSound'
  <2>1. CASE UNCHANGED <<pc, job>>
    BY <2>1 DEF JoinInv, TypeOK, Places, Jobs, JobsAreSound
  <2>2. CASE Finish(w)
    BY <2>2, Finishing DEF JoinInv
  <2> QED
    BY <2>1, <2>2 DEF Seed
<1>5. UNCHANGED <<hired, link, trail>>
  BY DEF Seed
<1>6. TypeOK'
  BY <1>3, <1>4, <1>5 DEF JoinInv, TypeOK, HiringTypeOK, Places, Jobs
<1>7. HiredHaveCodes' /\ LinksNameEmployees'
  BY <1>5 DEF JoinInv, HiredHaveCodes, LinksNameEmployees, IsHired
<1> QED
  BY <1>4, <1>6, <1>7 DEF JoinInv

(* An employee is found under another address, and nobody under the one    *)
(* before.                                                                 *)
LEMMA AddressMoves ==
    ASSUME JoinInv, NEW e \in Emails, NEW to \in Emails, ChangeEmail(e, to)
    PROVE  /\ hired' \in [Emails -> [code : Codes \cup {NoCode}, by : Links \cup {NoOne, HR}]]
           /\ e # to /\ IsHired(e) /\ ~IsHired(to) /\ hired'[to] = hired[e] /\ hired'[e] = Nobody
           /\ \A d \in Emails \ {e, to} : hired'[d] = hired[d]
<1>1. /\ hired \in [Emails -> [code : Codes \cup {NoCode}, by : Links \cup {NoOne, HR}]]
      /\ Nobody \in [code : Codes \cup {NoCode}, by : Links \cup {NoOne, HR}]
  BY DEF JoinInv, TypeOK, HiringTypeOK, Nobody
<1>2. /\ IsHired(e) /\ ~IsHired(to)
      /\ hired' = [hired EXCEPT ![e] = Nobody, ![to] = hired[e]]
  BY DEF ChangeEmail
<1>3. e # to
  BY <1>2
<1>4. hired[e] \in [code : Codes \cup {NoCode}, by : Links \cup {NoOne, HR}]
  BY <1>1
<1> HIDE DEF Nobody
<1>5. hired'[e] = Nobody /\ hired'[to] = hired[e]
  BY <1>1, <1>2, <1>3
<1>6. \A d \in Emails \ {e, to} : hired'[d] = hired[d]
  BY <1>1, <1>2
<1>7. hired' \in [Emails -> [code : Codes \cup {NoCode}, by : Links \cup {NoOne, HR}]]
  BY <1>1, <1>2, <1>4
<1> QED
  BY <1>2, <1>3, <1>5, <1>6, <1>7

LEMMA UpdateEmailKeeps ==
    ASSUME JoinInv, NEW e \in Emails, NEW to \in Emails, UpdateEmail(e, to)
    PROVE  JoinInv'
<1>1. /\ hired' \in [Emails -> [code : Codes \cup {NoCode}, by : Links \cup {NoOne, HR}]]
      /\ e # to /\ hired[e] # Nobody /\ hired[to] = Nobody
      /\ hired'[to] = hired[e] /\ hired'[e] = Nobody
      /\ \A d \in Emails \ {e, to} : hired'[d] = hired[d]
  BY AddressMoves DEF UpdateEmail, IsHired
<1>2. UNCHANGED <<seeded, welcomed, link, trail, pc, job>>
  BY DEF UpdateEmail
<1>3. TypeOK'
  BY <1>1, <1>2 DEF JoinInv, TypeOK, HiringTypeOK
<1>4. HiredHaveCodes' /\ JobsAreSound'
  BY <1>1, <1>2 DEF JoinInv, HiredHaveCodes, IsHired, JobsAreSound
<1>5. ASSUME NEW m \in Links, link'[m].employee # NoCode
      PROVE  \E d \in Emails : hired'[d] = [code |-> link'[m].employee, by |-> m]
  <2>1. PICK d \in Emails : hired[d] = [code |-> link[m].employee, by |-> m]
    BY <1>2, <1>5 DEF JoinInv, LinksNameEmployees
  <2>2. d # to
    BY <1>1, <2>1, Missing DEF Nobody
  <2> QED
    BY <1>1, <1>2, <2>1, <2>2
<1>6. \A m \in Links : link'[m].status = "ACTIVATED" => link'[m].employee # NoCode
  BY <1>2 DEF JoinInv, LinksNameEmployees
<1>7. \A d, f \in Emails : IsHired(d)' /\ IsHired(f)' /\ hired'[d].code = hired'[f].code => d = f
  BY <1>1 DEF JoinInv, LinksNameEmployees, IsHired
<1>8. LinksNameEmployees'
  BY <1>5, <1>6, <1>7 DEF LinksNameEmployees
<1> QED
  BY <1>3, <1>4, <1>8 DEF JoinInv

-----------------------------------------------------------------------------
(* Every step keeps the invariant.                                         *)
LEMMA JoiningKeeps == JoinInv /\ [Next]_vars => JoinInv'
<1> SUFFICES ASSUME JoinInv, [Next]_vars PROVE JoinInv'
  OBVIOUS
<1>1. CASE \E l \in Links : CreateLink(l) \/ RunOut(l)
  BY <1>1, CreateLinkKeeps, RunOutKeeps
<1>2. ASSUME NEW w \in Workers, \E l \in Links : OnLink(w, l) PROVE JoinInv'
  BY <1>2, OnLinkKeeps
<1>3. ASSUME NEW w \in Workers, \E e \in Emails : CreateRead(w, e) PROVE JoinInv'
  BY <1>3, CreateReadKeeps
<1>4. ASSUME NEW w \in Workers, Proceed(w) PROVE JoinInv'
  BY <1>4, TransitionKeeps, DetailsWriteKeeps, DocumentsWriteKeeps, ApproveCodeKeeps,
     CreateCodeKeeps, ActivateKeeps, SeedKeeps, CreateWriteKeeps DEF Proceed
<1>5. ASSUME NEW w \in Workers, Crash(w) PROVE JoinInv'
  BY <1>5, CrashKeeps
<1>6. CASE UNCHANGED vars
  <2>1. UNCHANGED <<people, link, trail>> /\ UNCHANGED <<pc, job>>
    BY <1>6 DEF vars, people
  <2>2. pc' \in [Workers -> Places] /\ job' \in [Workers -> Jobs] /\ JobsAreSound'
    BY <2>1 DEF JoinInv, TypeOK, Places, Jobs, JobsAreSound
  <2> QED
    BY <2>1, <2>2, RequestsOnly
<1>7. CASE \E e, to \in Emails : UpdateEmail(e, to)
  BY <1>7, UpdateEmailKeeps
<1> QED
  BY <1>1, <1>2, <1>3, <1>4, <1>5, <1>6, <1>7 DEF Next

(* Links, people and requests keep their types.                            *)
THEOREM JoiningTypes == Spec => []TypeOK
<1>1. Init => JoinInv
  BY Starts
<1>2. JoinInv /\ [Next]_vars => JoinInv'
  BY JoiningKeeps
<1>3. JoinInv => TypeOK
  BY DEF JoinInv
<1> QED
  BY <1>1, <1>2, <1>3, PTL DEF Spec

-----------------------------------------------------------------------------
(* One request of a link at a time.  What a request has read of its link   *)
(* is still so, which is what the checks made while reading are worth.     *)

Resent == {"PENDING", "IN_PROGRESS", "CHANGES_REQUESTED"}

(* The decision of a request that waits before statement p and has read    *)
(* its link.                                                               *)
Decided(p, j) ==
    /\ p = "move" => \/ j.to \in Valid(j.from) \ {"SUBMITTED", "ACTIVATED"}
                     \/ j.to = j.from /\ j.to \in Resent
    /\ p = "renew" => j.to = j.from /\ j.to \in Resent
    /\ p = "details" => j.from \in {"PENDING", "IN_PROGRESS"} /\ j.to = "IN_PROGRESS"
    /\ p = "upload" => j.from \in {"PENDING", "IN_PROGRESS"}
    /\ p = "submit" => /\ j.from \in {"PENDING", "IN_PROGRESS"} /\ j.to = "SUBMITTED"
                      /\ "details" \in j.steps
    /\ p \in {"approve", "activate"} => /\ j.from = "UNDER_REVIEW" /\ j.to = "ACTIVATED"
                                       /\ j.steps = Steps

Readers == {"move", "renew", "details", "upload", "submit", "approve", "activate"}

(* ... and what it has read of it. *)
Current(p, j, lk) ==
    p \in Readers => /\ j.from = lk[j.link].status /\ j.from # "NONE"
                    /\ j.steps = lk[j.link].steps

RequestsDecided == \A w \in Workers : Decided(pc[w], job[w])
RequestsCurrent == \A w \in Workers : Current(pc[w], job[w], link)

AloneInv ==
    /\ RequestsDecided
    /\ ~raced => ~Racing /\ RequestsCurrent /\ ReviewedIsComplete

(* A step moves one request, which may write its own link.                 *)
LEMMA AloneStep ==
    ASSUME JoinInv, NEW w \in Workers, NEW to \in Places, NEW j \in Jobs, Goto(w, to, j),
           ~Racing, RequestsCurrent, link' \in [Links -> Rows],
           \A l \in Links : l # job[w].link => link'[l] = link[l],
           Current(to, j, link')
    PROVE  RequestsCurrent'
<1>1. /\ pc \in [Workers -> Places] /\ job \in [Workers -> Jobs]
      /\ \A v \in Workers \ {w} : pc'[v] = pc[v] /\ job'[v] = job[v]
      /\ pc'[w] = to /\ job'[w] = j
  BY DEF JoinInv, TypeOK, Places, Jobs, Goto
<1>2. ASSUME NEW v \in Workers PROVE Current(pc'[v], job'[v], link')
  <2>1. CASE v = w
    BY <1>1, <2>1
  <2>2. CASE v # w
    <3>1. Current(pc[v], job[v], link) /\ pc'[v] = pc[v] /\ job'[v] = job[v]
      BY <1>1, <2>2 DEF RequestsCurrent
    <3>2. CASE pc[v] \in Readers
      <4>1. job[v].link \in Links /\ job[v].link # NoLink
        BY <3>2, Missing DEF JoinInv, JobsAreSound, Sound, Readers, AtLink
      <4>2. job[v].link # job[w].link
        BY <2>2, <4>1 DEF Racing
      <4>3. link'[job[v].link] = link[job[v].link]
        BY <4>1, <4>2
      <4> QED
        BY <3>1, <4>3 DEF Current
    <3>3. CASE pc[v] \notin Readers
      BY <3>1, <3>3 DEF Current
    <3> QED
      BY <3>2, <3>3
  <2> QED
    BY <2>1, <2>2
<1> QED
  BY <1>2 DEF RequestsCurrent

(* Requests decide when they read.                                         *)
LEMMA DecidedStep ==
    ASSUME JoinInv, RequestsDecided, NEW w \in Workers, NEW to, NEW j, Goto(w, to, j), Decided(to, j)
    PROVE  RequestsDecided'
<1>1. pc \in [Workers -> Places] /\ job \in [Workers -> Jobs]
  BY DEF JoinInv, TypeOK, Places, Jobs
<1>2. ASSUME NEW v \in Workers PROVE Decided(pc'[v], job'[v])
  BY <1>1 DEF Goto, RequestsDecided
<1> QED
  BY <1>2 DEF RequestsDecided

(* What a worker at its link writes changes nothing for the others.        *)
LEMMA EndsAlone ==
    ASSUME JoinInv, AloneInv, NEW w \in Workers, Finish(w), raced' = (raced \/ Racing'),
           link' \in [Links -> Rows],
           \A l \in Links : l # job[w].link => link'[l] = link[l],
           ~raced => ReviewedIsComplete'
    PROVE  AloneInv'
<1>1. Goto(w, "idle", NoJob) /\ "idle" \in Places /\ NoJob \in Jobs
  BY NothingIsTyped DEF Finish, Places
<1>2. RequestsDecided'
  BY <1>1, DecidedStep DEF AloneInv, Decided
<1>3. Current("idle", NoJob, link')
  BY DEF Current, Readers
<1>4. ~raced => RequestsCurrent'
  BY <1>1, <1>3, AloneStep DEF AloneInv
<1> QED
  BY <1>2, <1>4 DEF AloneInv

(* A request that changes no link.                                         *)
LEMMA MovesAlone ==
    ASSUME JoinInv, AloneInv, NEW w \in Workers, NEW to \in Places, NEW j \in Jobs,
           Goto(w, to, j), raced' = (raced \/ Racing'), link' = link,
           Decided(to, j), ~raced => Current(to, j, link)
    PROVE  AloneInv'
<1>1. RequestsDecided'
  BY DecidedStep DEF AloneInv
<1>2. link \in [Links -> Rows]
  BY DEF JoinInv, TypeOK, Rows
<1>3. ~raced => RequestsCurrent' /\ ReviewedIsComplete'
  BY <1>2, AloneStep DEF AloneInv, ReviewedIsComplete
<1> QED
  BY <1>1, <1>3 DEF AloneInv

(* HR, the scheduler or the candidate reads a link.                        *)
LEMMA ReadsAlone ==
    ASSUME JoinInv, AloneInv, NEW w \in Workers, NEW l \in Links, OnLink(w, l),
           raced' = (raced \/ Racing')
    PROVE  AloneInv'
<1> DEFINE J(to) == [NoJob EXCEPT !.link = l, !.from = link[l].status, !.to = to,
                                  !.steps = link[l].steps]
<1>1. link[l] \in Rows
  BY DEF JoinInv, TypeOK, Rows
<1>2. \A to \in Status : /\ J(to) \in Jobs /\ J(to).link = l /\ J(to).from = link[l].status
                         /\ J(to).to = to /\ J(to).steps = link[l].steps
  BY <1>1 DEF NoJob, Jobs, Rows
<1>3. ASSUME NEW to \in Status, NEW s \in Places, Read(w, l, s, to), link[l].status # "NONE",
             Decided(s, J(to))
      PROVE  AloneInv'
  <2>1. Goto(w, s, J(to)) /\ link' = link
    BY <1>3 DEF Read
  <2> HIDE DEF J
  <2>2. Current(s, J(to), link) /\ J(to) \in Jobs
    BY <1>2, <1>3 DEF Current
  <2> QED
    BY <1>3, <2>1, <2>2, MovesAlone
<1> HIDE DEF J
<1>4. CASE \E to \in Status : Review(w, l, to)
  <2>1. PICK to \in Status : Review(w, l, to)
    BY <1>4
  <2>2. /\ to \in Valid(link[l].status) /\ to \in {"UNDER_REVIEW", "CHANGES_REQUESTED", "REJECTED"}
        /\ Read(w, l, "move", to) /\ "move" \in Places
    BY <2>1 DEF Review, Places
  <2>3. link[l].status # "NONE"
    BY <2>2 DEF Valid
  <2>4. Decided("move", J(to))
    BY <1>2, <2>2 DEF Decided
  <2> QED
    BY <1>3, <2>2, <2>3, <2>4
<1>5. CASE RevokeLink(w, l) \/ ExpireStaleLinks(w, l)
  <2>1. /\ link[l].status \in {"PENDING", "IN_PROGRESS"} /\ Read(w, l, "move", "EXPIRED")
        /\ "move" \in Places /\ "EXPIRED" \in Status
    BY <1>5 DEF RevokeLink, ExpireStaleLinks, Places, Status
  <2>2. Decided("move", J("EXPIRED"))
    BY <1>2, <2>1 DEF Decided, Valid
  <2> QED
    BY <1>3, <2>1, <2>2
<1>6. CASE ResendInvite(w, l)
  <2> DEFINE to == link[l].status
  <2>1. /\ to \in Resent /\ to \in Status /\ to # "NONE" /\ {"move", "renew"} \subseteq Places
        /\ Read(w, l, "renew", to) \/ Read(w, l, "move", to)
    BY <1>6 DEF ResendInvite, Resent, Status, Places
  <2>2. Decided("move", J(to)) /\ Decided("renew", J(to))
    BY <1>2, <2>1 DEF Decided
  <2> QED
    BY <1>3, <2>1, <2>2
<1>7. CASE Reopen(w, l)
  <2>1. /\ link[l].status = "CHANGES_REQUESTED" /\ Read(w, l, "move", "IN_PROGRESS")
        /\ "move" \in Places /\ "IN_PROGRESS" \in Status
    BY <1>7 DEF Reopen, Places, Status
  <2>2. Decided("move", J("IN_PROGRESS"))
    BY <1>2, <2>1 DEF Decided, Valid
  <2> QED
    BY <1>3, <2>1, <2>2
<1>8. CASE DetailsRead(w, l)
  <2>1. /\ link[l].status \in {"PENDING", "IN_PROGRESS"} /\ Read(w, l, "details", "IN_PROGRESS")
        /\ "details" \in Places /\ "IN_PROGRESS" \in Status
    BY <1>8 DEF DetailsRead, CanWrite, Places, Status
  <2>2. Decided("details", J("IN_PROGRESS"))
    BY <1>2, <2>1 DEF Decided
  <2> QED
    BY <1>3, <2>1, <2>2
<1>9. CASE \E final \in BOOLEAN : DocumentsRead(w, l, final)
  <2>1. /\ link[l].status \in {"PENDING", "IN_PROGRESS"} /\ "details" \in link[l].steps
        /\ Read(w, l, "submit", "SUBMITTED") \/ Read(w, l, "upload", "SUBMITTED")
        /\ {"submit", "upload"} \subseteq Places /\ "SUBMITTED" \in Status
    BY <1>9 DEF DocumentsRead, CanWrite, Places, Status
  <2>2. Decided("submit", J("SUBMITTED")) /\ Decided("upload", J("SUBMITTED"))
    BY <1>2, <2>1 DEF Decided
  <2> QED
    BY <1>3, <2>1, <2>2
<1>10. CASE ApproveRead(w, l)
  <2>1. /\ "ACTIVATED" \in Valid(link[l].status) /\ link[l].steps = Steps
        /\ Read(w, l, "approve", "ACTIVATED") /\ "approve" \in Places /\ "ACTIVATED" \in Status
    BY <1>10 DEF ApproveRead, Places, Status
  <2>2. link[l].status = "UNDER_REVIEW"
    BY <1>1, <2>1 DEF Valid, Rows, Status
  <2>3. Decided("approve", J("ACTIVATED"))
    BY <1>2, <2>1, <2>2 DEF Decided
  <2> QED
    BY <1>3, <2>1, <2>2, <2>3
<1> QED
  BY <1>4, <1>5, <1>6, <1>7, <1>8, <1>9, <1>10 DEF OnLink

(* An approval or a creation goes on.                                      *)
LEMMA CodesAlone ==
    ASSUME JoinInv, AloneInv, NEW w \in Workers, NEW c \in Typed \cup {NoCode},
           ApproveCode(w, c) \/ CreateCode(w, c), raced' = (raced \/ Racing')
    PROVE  AloneInv'
<1> USE Missing
<1>1. link' = link /\ job[w] \in Jobs /\ link \in [Links -> Rows]
  BY DEF ApproveCode, CreateCode, JoinInv, TypeOK, Jobs, Rows
<1>2. CASE Finish(w)
  BY <1>1, <1>2, EndsAlone DEF AloneInv, ReviewedIsComplete
<1>3. CASE ApproveCode(w, c) /\ ~Finish(w)
  <2> DEFINE d == IF c = NoCode THEN NextCode ELSE c
             j == [job[w] EXCEPT !.code = d]
  <2>1. pc[w] = "approve" /\ Goto(w, "activate", j) /\ d \in Codes
    BY <1>3, GeneratedAreCodes DEF ApproveCode, JoinInv, TypeOK
  <2> HIDE DEF d
  <2>2. /\ j \in Jobs /\ j.link = job[w].link /\ j.from = job[w].from /\ j.to = job[w].to
        /\ j.steps = job[w].steps
    BY <1>1, <2>1 DEF Jobs
  <2> HIDE DEF j
  <2>3. Decided("activate", j)
    BY <2>1, <2>2 DEF AloneInv, RequestsDecided, Decided
  <2>4. ~raced => Current("activate", j, link)
    BY <2>1, <2>2 DEF AloneInv, RequestsCurrent, Current, Readers
  <2>5. "activate" \in Places
    BY DEF Places
  <2> QED
    BY <1>1, <2>1, <2>2, <2>3, <2>4, <2>5, MovesAlone
<1>4. CASE CreateCode(w, c) /\ ~Finish(w)
  <2> DEFINE d == IF c = NoCode THEN FirstFree ELSE c
             j == [job[w] EXCEPT !.code = d]
  <2>1. pc[w] = "resolve" /\ Goto(w, "create", j) /\ d \in Codes
    BY <1>4, GeneratedAreCodes DEF CreateCode, JoinInv, TypeOK
  <2> HIDE DEF d
  <2>2. j \in Jobs
    BY <1>1, <2>1 DEF Jobs
  <2>3. Decided("create", j) /\ Current("create", j, link) /\ "create" \in Places
    BY DEF Decided, Current, Readers, Places
  <2> HIDE DEF j
  <2> QED
    BY <1>1, <2>1, <2>2, <2>3, MovesAlone
<1> QED
  BY <1>2, <1>3, <1>4

(* Statements that touch no link and end, or begin a creation.             *)
LEMMA ElsewhereAlone ==
    ASSUME JoinInv, AloneInv, NEW w \in Workers, raced' = (raced \/ Racing'),
           CreateWrite(w) \/ Crash(w) \/ Seed(w) \/ \E e \in Emails : CreateRead(w, e)
    PROVE  AloneInv'
<1>1. link' = link /\ link \in [Links -> Rows]
  BY DEF CreateWrite, Crash, Seed, CreateRead, JoinInv, TypeOK, Rows
<1>2. CASE Finish(w)
  BY <1>1, <1>2, EndsAlone DEF AloneInv, ReviewedIsComplete
<1>3. CASE UNCHANGED <<pc, job>>
  BY <1>1, <1>3 DEF AloneInv, RequestsDecided, RequestsCurrent, ReviewedIsComplete, Racing
<1>4. CASE \E e \in Emails : CreateRead(w, e)
  <2>1. PICK e \in Emails : CreateRead(w, e)
    BY <1>4
  <2> DEFINE j == [NoJob EXCEPT !.email = e]
  <2>2. Goto(w, "resolve", j) /\ j \in Jobs /\ "resolve" \in Places
    BY <2>1 DEF CreateRead, NoJob, Jobs, Places
  <2>3. Decided("resolve", j) /\ Current("resolve", j, link)
    BY DEF Decided, Current, Readers
  <2> HIDE DEF j
  <2> QED
    BY <1>1, <2>2, <2>3, MovesAlone
<1> QED
  BY <1>2, <1>3, <1>4 DEF CreateWrite, Crash, Seed

(* What the row of a link may become when nothing overtakes its writer.    *)
LEMMA OneLinkWritten ==
    ASSUME TypeOK, NEW l \in Links, NEW r \in Rows, link' = [link EXCEPT ![l] = r]
    PROVE  /\ link' \in [Links -> Rows] /\ link'[l] = r
           /\ \A m \in Links : m # l => link'[m] = link[m]
           /\ ReviewedIsComplete /\ (r.status \in {"SUBMITTED", "UNDER_REVIEW", "ACTIVATED"}
                                          => r.steps = Steps)
                  => ReviewedIsComplete'
<1>1. link \in [Links -> Rows]
  BY DEF TypeOK, Rows
<1>2. /\ link' \in [Links -> Rows] /\ link'[l] = r
      /\ \A m \in Links : m # l => link'[m] = link[m]
  BY <1>1
<1> QED
  BY <1>2 DEF ReviewedIsComplete

(* A link changes as the table says and its row is logged.                 *)
Logged(l) ==
    link[l].status \notin {"NONE", link'[l].status} =>
        /\ link'[l].status \in Valid(link[l].status)
        /\ trail'[l] = [from |-> link[l].status, to |-> link'[l].status]

LEMMA OneLinkLogged ==
    ASSUME NEW l \in Links, \A m \in Links : m # l => link'[m] = link[m], Logged(l)
    PROVE  ChangesAreLogged
BY DEF ChangesAreLogged, Logged

LEMMA LogWritten ==
    ASSUME TypeOK, NEW l \in Links, NEW from, NEW to, Log(l, from, to)
    PROVE  trail'[l] = [from |-> from, to |-> to]
BY DEF TypeOK, Log

(* transition()                                                            *)
LEMMA TransitionAlone ==
    ASSUME JoinInv, AloneInv, NEW w \in Workers, Transition(w), raced' = (raced \/ Racing')
    PROVE  AloneInv' /\ (~raced => ChangesAreLogged)
<1> DEFINE l == job[w].link
           to == job[w].to
           x == IF pc[w] = "renew" THEN FALSE ELSE link[l].late
           r == [link[l] EXCEPT !.status = to, !.late = x]
<1>1. pc[w] \in {"move", "renew"} /\ pc[w] \in AtLink /\ pc[w] \in Readers /\ TypeOK
  BY DEF Transition, AtLink, Readers, JoinInv
<1>2. /\ l \in Links /\ link[l] \in Rows /\ job[w] \in Jobs
      /\ Decided(pc[w], job[w]) /\ (~raced => Current(pc[w], job[w], link) /\ ReviewedIsComplete)
  BY <1>1, Known DEF AloneInv, RequestsDecided, RequestsCurrent
<1>3. /\ link' = [link EXCEPT ![l] = r] /\ Log(l, job[w].from, to) /\ Finish(w)
  BY DEF Transition
<1>4. r \in Rows /\ r.status = to /\ r.steps = link[l].steps
  <2>1. x \in BOOLEAN /\ to \in Status \cup {"NONE"}
    BY <1>2 DEF Rows, Jobs
  <2> HIDE DEF x, l, to
  <2> QED
    BY <1>2, <2>1 DEF Rows
<1>5. ASSUME ~raced
      PROVE  to \in Valid(link[l].status) \ {"SUBMITTED", "ACTIVATED"} \/ to = link[l].status
  BY <1>1, <1>2, <1>5 DEF Decided, Current
<1>6. ASSUME ~raced, r.status \in {"SUBMITTED", "UNDER_REVIEW", "ACTIVATED"} PROVE r.steps = Steps
  <2>1. CASE to = link[l].status
    BY <1>2, <1>4, <1>6, <2>1 DEF ReviewedIsComplete
  <2>2. CASE to = "UNDER_REVIEW" /\ to \in Valid(link[l].status)
    <3>1. link[l].status = "SUBMITTED"
      BY <1>2, <2>2 DEF Valid, Rows, Status
    <3> QED
      BY <1>2, <1>4, <1>6, <3>1 DEF ReviewedIsComplete
  <2> QED
    BY <1>4, <1>5, <1>6, <2>1, <2>2
<1> HIDE DEF l, x, r
<1>7. /\ link' \in [Links -> Rows] /\ link'[l] = r
      /\ \A m \in Links : m # l => link'[m] = link[m]
      /\ ~raced => ReviewedIsComplete'
  BY <1>1, <1>2, <1>3, <1>4, <1>6, OneLinkWritten
<1>8. AloneInv'
  BY <1>3, <1>7, EndsAlone DEF l
<1>9. ASSUME ~raced PROVE ChangesAreLogged
  <2>1. trail'[l] = [from |-> job[w].from, to |-> to]
    BY <1>1, <1>2, <1>3, LogWritten
  <2>2. job[w].from = link[l].status
    BY <1>1, <1>2, <1>9 DEF Current, l
  <2>3. Logged(l)
    BY <1>4, <1>5, <1>7, <1>9, <2>1, <2>2 DEF Logged
  <2> QED
    BY <1>2, <1>7, <2>3, OneLinkLogged
<1> QED
  BY <1>8, <1>9

(* submitDetails                                                           *)
LEMMA DetailsAlone ==
    ASSUME JoinInv, AloneInv, NEW w \in Workers, DetailsWrite(w), raced' = (raced \/ Racing')
    PROVE  AloneInv' /\ (~raced => ChangesAreLogged)
<1> DEFINE l == job[w].link
           s == job[w].steps \cup {"details"}
           q == [link[l] EXCEPT !.steps = s]
           r == [link[l] EXCEPT !.steps = s, !.status = job[w].to]
<1>1. pc[w] = "details" /\ pc[w] \in AtLink /\ pc[w] \in Readers /\ TypeOK
  BY DEF DetailsWrite, AtLink, Readers, JoinInv
<1>2. /\ l \in Links /\ link[l] \in Rows /\ job[w] \in Jobs /\ link \in [Links -> Rows]
      /\ job[w].from \in {"PENDING", "IN_PROGRESS"} /\ job[w].to = "IN_PROGRESS"
      /\ ~raced => job[w].from = link[l].status /\ ReviewedIsComplete
  BY <1>1, Known DEF AloneInv, RequestsDecided, RequestsCurrent, Decided, Current
<1>3. /\ q \in Rows /\ q.status = link[l].status
      /\ r \in Rows /\ r.status = "IN_PROGRESS"
  <2>1. s \in SUBSET Steps /\ "IN_PROGRESS" \in Status
    BY <1>2 DEF Jobs, Steps, Status
  <2> HIDE DEF s, l
  <2> QED
    BY <1>2, <2>1 DEF Rows
<1>4. /\ Finish(w)
      /\ \/ job[w].from = "PENDING" /\ link' = [link EXCEPT ![l] = r] /\ Log(l, job[w].from, job[w].to)
         \/ job[w].from = "IN_PROGRESS" /\ link' = [link EXCEPT ![l] = q]
  BY <1>2 DEF DetailsWrite
<1> HIDE DEF l, s, q, r
<1>5. /\ link' \in [Links -> Rows]
      /\ link'[l] = r \/ link'[l] = q
      /\ \A m \in Links : m # l => link'[m] = link[m]
      /\ ~raced => ReviewedIsComplete'
  BY <1>1, <1>2, <1>3, <1>4, OneLinkWritten
<1>6. AloneInv'
  BY <1>4, <1>5, EndsAlone DEF l
<1>7. ASSUME ~raced PROVE ChangesAreLogged
  <2>1. CASE job[w].from = "PENDING"
    <3>1. trail'[l] = [from |-> job[w].from, to |-> job[w].to] /\ link'[l] = r
      BY <1>1, <1>2, <1>3, <1>4, <2>1, LogWritten, OneLinkWritten
    <3>2. "IN_PROGRESS" \in Valid("PENDING")
      BY DEF Valid
    <3>3. Logged(l)
      BY <1>2, <1>3, <1>7, <2>1, <3>1, <3>2 DEF Logged
    <3> QED
      BY <1>2, <1>5, <3>3, OneLinkLogged
  <2>2. CASE job[w].from = "IN_PROGRESS"
    <3>1. link'[l].status = link[l].status
      BY <1>1, <1>2, <1>3, <1>4, <1>7, <2>2, OneLinkWritten
    <3> QED
      BY <1>2, <1>5, <3>1, OneLinkLogged DEF Logged
  <2> QED
    BY <1>2, <2>1, <2>2
<1> QED
  BY <1>6, <1>7

(* submitDocuments                                                         *)
LEMMA DocumentsAlone ==
    ASSUME JoinInv, AloneInv, NEW w \in Workers, DocumentsWrite(w), raced' = (raced \/ Racing')
    PROVE  AloneInv' /\ (~raced => ChangesAreLogged)
<1> DEFINE l == job[w].link
           q == [link[l] EXCEPT !.steps = job[w].steps]
           s == job[w].steps \cup {"documents"}
           r == [link[l] EXCEPT !.steps = s, !.status = job[w].to]
<1>1. /\ pc[w] \in {"upload", "submit"} /\ pc[w] \in AtLink /\ pc[w] \in Readers
      /\ TypeOK /\ Finish(w)
  BY DEF DocumentsWrite, AtLink, Readers, JoinInv
<1>2. /\ l \in Links /\ link[l] \in Rows /\ job[w] \in Jobs /\ link \in [Links -> Rows]
      /\ job[w].from \in {"PENDING", "IN_PROGRESS"}
      /\ pc[w] = "submit" => job[w].to = "SUBMITTED" /\ "details" \in job[w].steps
      /\ ~raced => /\ job[w].from = link[l].status /\ job[w].steps = link[l].steps
                   /\ ReviewedIsComplete
  BY <1>1, Known DEF AloneInv, RequestsDecided, RequestsCurrent, Decided, Current
<1>3. /\ q \in Rows /\ q.status = link[l].status /\ q.steps = job[w].steps
      /\ pc[w] = "submit" => r \in Rows /\ r.status = "SUBMITTED" /\ r.steps = Steps
  <2>1. s \in SUBSET Steps /\ "SUBMITTED" \in Status /\ job[w].steps \in SUBSET Steps
    BY <1>2 DEF Jobs, Steps, Status
  <2>2. pc[w] = "submit" => s = Steps
    BY <1>2, <2>1 DEF Steps
  <2> HIDE DEF s, l
  <2> QED
    BY <1>2, <2>1, <2>2 DEF Rows
<1>4. \/ pc[w] = "upload" /\ link' = [link EXCEPT ![l] = q]
      \/ /\ pc[w] = "submit" /\ job[w].to \in Valid(job[w].from) /\ link' = [link EXCEPT ![l] = r]
         /\ Log(l, job[w].from, job[w].to)
      \/ link' = link
  BY <1>2 DEF DocumentsWrite
<1> HIDE DEF l, s, q, r
<1>5. CASE pc[w] = "upload" /\ link' = [link EXCEPT ![l] = q]
  <2>1. /\ link' \in [Links -> Rows] /\ link'[l] = q
        /\ \A m \in Links : m # l => link'[m] = link[m]
        /\ ~raced => ReviewedIsComplete'
    BY <1>1, <1>2, <1>3, <1>5, OneLinkWritten
  <2>2. AloneInv'
    BY <1>1, <2>1, EndsAlone DEF l
  <2>3. ChangesAreLogged
    BY <1>2, <1>3, <2>1, OneLinkLogged DEF Logged
  <2> QED
    BY <2>2, <2>3
<1>6. CASE /\ pc[w] = "submit" /\ job[w].to \in Valid(job[w].from) /\ link' = [link EXCEPT ![l] = r]
           /\ Log(l, job[w].from, job[w].to)
  <2>1. /\ link' \in [Links -> Rows] /\ link'[l] = r
        /\ \A m \in Links : m # l => link'[m] = link[m]
        /\ ~raced => ReviewedIsComplete'
    BY <1>1, <1>2, <1>3, <1>6, OneLinkWritten
  <2>2. AloneInv'
    BY <1>1, <2>1, EndsAlone DEF l
  <2>3. ASSUME ~raced PROVE ChangesAreLogged
    <3>1. trail'[l] = [from |-> job[w].from, to |-> job[w].to]
      BY <1>1, <1>2, <1>6, LogWritten
    <3>2. Logged(l)
      BY <1>2, <1>3, <1>6, <2>1, <2>3, <3>1 DEF Logged
    <3> QED
      BY <1>2, <2>1, <3>2, OneLinkLogged
  <2> QED
    BY <2>2, <2>3
<1>7. CASE link' = link
  <2>1. AloneInv'
    BY <1>1, <1>2, <1>7, EndsAlone DEF AloneInv, ReviewedIsComplete
  <2>2. ChangesAreLogged
    BY <1>7 DEF ChangesAreLogged
  <2> QED
    BY <2>1, <2>2
<1> QED
  BY <1>4, <1>5, <1>6, <1>7

(* The transaction of approve.                                             *)
LEMMA ActivateAlone ==
    ASSUME JoinInv, AloneInv, NEW w \in Workers, Activate(w), raced' = (raced \/ Racing')
    PROVE  AloneInv' /\ (~raced => ChangesAreLogged)
<1> DEFINE l == job[w].link
           c == job[w].code
           r == [link[l] EXCEPT !.status = job[w].to, !.employee = c]
<1>1. /\ pc[w] = "activate" /\ pc[w] \in AtLink /\ pc[w] \in Readers
      /\ TypeOK /\ c \in Codes
  BY DEF Activate, AtLink, Readers, JoinInv, JobsAreSound, Sound
<1>2. /\ l \in Links /\ link[l] \in Rows /\ job[w] \in Jobs /\ link \in [Links -> Rows]
      /\ job[w].from = "UNDER_REVIEW" /\ job[w].to = "ACTIVATED" /\ job[w].steps = Steps
      /\ ~raced => /\ job[w].from = link[l].status /\ job[w].steps = link[l].steps
                   /\ ReviewedIsComplete
  BY <1>1, Known DEF AloneInv, RequestsDecided, RequestsCurrent, Decided, Current
<1>3. CASE Finish(w) /\ link' = link
  BY <1>2, <1>3, EndsAlone DEF AloneInv, ReviewedIsComplete, ChangesAreLogged
<1>4. CASE /\ link' = [link EXCEPT ![l] = r] /\ Log(l, job[w].from, job[w].to)
           /\ Goto(w, "seed", job[w])
  <2>1. r \in Rows /\ r.status = "ACTIVATED" /\ r.steps = link[l].steps
    <3>1. "ACTIVATED" \in Status
      BY DEF Status
    <3> HIDE DEF c, l
    <3> QED
      BY <1>1, <1>2, <3>1 DEF Rows
  <2> HIDE DEF l, c, r
  <2>2. /\ link' \in [Links -> Rows] /\ link'[l] = r
        /\ \A m \in Links : m # l => link'[m] = link[m]
        /\ ~raced => ReviewedIsComplete'
    BY <1>1, <1>2, <1>4, <2>1, OneLinkWritten
  <2>3. Decided("seed", job[w]) /\ Current("seed", job[w], link') /\ "seed" \in Places
    BY DEF Decided, Current, Readers, Places
  <2>4. RequestsDecided'
    BY <1>4, <2>3, DecidedStep DEF AloneInv
  <2>5. ~raced => RequestsCurrent'
    BY <1>2, <1>4, <2>2, <2>3, AloneStep DEF AloneInv, l
  <2>6. ASSUME ~raced PROVE ChangesAreLogged
    <3>1. trail'[l] = [from |-> job[w].from, to |-> job[w].to]
      BY <1>1, <1>2, <1>4, LogWritten
    <3>2. "ACTIVATED" \in Valid("UNDER_REVIEW")
      BY DEF Valid
    <3>3. Logged(l)
      BY <1>2, <2>1, <2>2, <2>6, <3>1, <3>2 DEF Logged
    <3> QED
      BY <1>2, <2>2, <3>3, OneLinkLogged
  <2> QED
    BY <2>2, <2>4, <2>5, <2>6 DEF AloneInv
<1> QED
  BY <1>3, <1>4 DEF Activate

(* createLink, and expiresAt passing: no request has read a link that was  *)
(* not there.                                                              *)
LEMMA LinkAlone ==
    ASSUME JoinInv, AloneInv, NEW l \in Links, CreateLink(l) \/ RunOut(l), raced' = (raced \/ Racing')
    PROVE  AloneInv' /\ (~raced => ChangesAreLogged)
<1>1. pc' = pc /\ job' = job /\ link \in [Links -> Rows] /\ link[l] \in Rows
  BY DEF CreateLink, RunOut, JoinInv, TypeOK, Rows
<1>2. /\ \A m \in Links : m # l => link'[m] = link[m]
      /\ link'[l].steps = link[l].steps
      /\ \/ link[l].status = "NONE" /\ link'[l].status = "PENDING"
         \/ link'[l].status = link[l].status
  BY <1>1 DEF CreateLink, RunOut, Rows
<1>3. RequestsDecided'
  BY <1>1 DEF AloneInv, RequestsDecided
<1>4. ASSUME ~raced PROVE RequestsCurrent' /\ ReviewedIsComplete'
  <2>1. ReviewedIsComplete'
    BY <1>2, <1>4 DEF AloneInv, ReviewedIsComplete
  <2>2. ASSUME NEW v \in Workers PROVE Current(pc[v], job[v], link')
    <3>1. Current(pc[v], job[v], link)
      BY <1>4 DEF AloneInv, RequestsCurrent
    <3>2. pc[v] \in Readers => job[v].link \in Links
      BY DEF JoinInv, JobsAreSound, Sound, Readers, AtLink
    <3> QED
      BY <1>2, <3>1, <3>2 DEF Current
  <2> QED
    BY <1>1, <2>1, <2>2 DEF RequestsCurrent
<1>5. ChangesAreLogged
  BY <1>2, OneLinkLogged DEF Logged
<1> QED
  BY <1>3, <1>4, <1>5 DEF AloneInv

(* Every step of joining.                                                  *)
LEMMA JoiningAlone ==
    ASSUME JoinInv, AloneInv, Next, raced' = (raced \/ Racing')
    PROVE  AloneInv' /\ (~raced => ChangesAreLogged)
<1>1. CASE \E l \in Links : CreateLink(l) \/ RunOut(l)
  BY <1>1, LinkAlone
<1>2. ASSUME NEW w \in Workers, NEW l \in Links, OnLink(w, l) PROVE link' = link
  BY <1>2 DEF OnLink, Review, RevokeLink, ResendInvite, ExpireStaleLinks, Reopen, DetailsRead,
              DocumentsRead, ApproveRead, Read
<1>3. ASSUME NEW w \in Workers, \E l \in Links : OnLink(w, l)
      PROVE  AloneInv' /\ ChangesAreLogged
  BY <1>2, <1>3, ReadsAlone DEF ChangesAreLogged
<1>4. ASSUME NEW w \in Workers, (\E e \in Emails : CreateRead(w, e)) \/ Crash(w)
      PROVE  AloneInv' /\ ChangesAreLogged
  BY <1>4, ElsewhereAlone DEF ChangesAreLogged, CreateRead, Crash
<1>5. ASSUME NEW e \in Emails, NEW to \in Emails, UpdateEmail(e, to)
      PROVE  AloneInv' /\ ChangesAreLogged
  <2>1. UNCHANGED <<link, pc, job>>
    BY <1>5 DEF UpdateEmail
  <2> QED
    BY <2>1 DEF AloneInv, RequestsDecided, RequestsCurrent, ReviewedIsComplete, Racing, ChangesAreLogged
<1>6. ASSUME NEW w \in Workers, Proceed(w) PROVE AloneInv' /\ (~raced => ChangesAreLogged)
  <2>1. CASE Seed(w) \/ CreateWrite(w)
    BY <2>1, ElsewhereAlone DEF ChangesAreLogged, Seed, CreateWrite
  <2>2. CASE \E c \in Typed \cup {NoCode} : ApproveCode(w, c) \/ CreateCode(w, c)
    BY <2>2, CodesAlone DEF ChangesAreLogged, ApproveCode, CreateCode
  <2> QED
    BY <1>6, <2>1, <2>2, TransitionAlone, DetailsAlone, DocumentsAlone, ActivateAlone DEF Proceed
<1> QED
  BY <1>1, <1>3, <1>4, <1>5, <1>6 DEF Next

-----------------------------------------------------------------------------
(* No link is spent twice.  While nobody changes an address, it keeps the  *)
(* second employee of a link out; while the link's requests come one at a  *)
(* time, its status does, which nothing changes once it is ACTIVATED.      *)

AtItsAddress(l) == \A e \in Emails : hired[e].by = l => e = EmailOf[l]
OnceInv ==
    \A l \in Links :
        /\ l \notin moved => AtItsAddress(l) /\ SpentOnce(l)
        /\ ~raced => SpentOnce(l) /\ (link[l].employee # NoCode => link[l].status = "ACTIVATED")

(* Steps that make nobody an employee and change no address.               *)
LEMMA OnceKept ==
    ASSUME OnceInv, hired' = hired, moved' = moved, raced => raced',
           \A l \in Links : /\ link'[l].employee = link[l].employee
                            /\ ~raced => \/ link'[l].status = link[l].status
                                         \/ link[l].status # "ACTIVATED"
    PROVE  OnceInv'
BY DEF OnceInv, AtItsAddress, SpentOnce

(* What the statements after a reading write over a link: not its employee, *)
(* and nothing over ACTIVATED if nobody has come in between.               *)
LEMMA WritesOnce ==
    ASSUME JoinInv, AloneInv, NEW w \in Workers,
           Transition(w) \/ DetailsWrite(w) \/ DocumentsWrite(w)
    PROVE  /\ hired' = hired
           /\ \A l \in Links : /\ link'[l].employee = link[l].employee
                               /\ ~raced => \/ link'[l].status = link[l].status
                                            \/ link[l].status # "ACTIVATED"
<1> DEFINE m == job[w].link
<1>1. /\ pc[w] \in AtLink /\ pc[w] \in Readers
      /\ pc[w] \in {"move", "renew", "details", "upload", "submit"} /\ hired' = hired
  BY DEF Transition, DetailsWrite, DocumentsWrite, people, AtLink, Readers
<1>2. /\ m \in Links /\ link \in [Links -> Rows] /\ link[m] \in Rows
      /\ Decided(pc[w], job[w]) /\ (~raced => job[w].from = link[m].status)
  BY <1>1, Known DEF AloneInv, RequestsDecided, RequestsCurrent, Current
<1>3. ~raced => link[m].status # "ACTIVATED"
  BY <1>1, <1>2 DEF Decided, Valid, Resent
<1>4. ASSUME NEW r, r.employee = link[m].employee, link' = [link EXCEPT ![m] = r]
      PROVE  \A l \in Links : /\ link'[l].employee = link[l].employee
                              /\ ~raced => \/ link'[l].status = link[l].status
                                           \/ link[l].status # "ACTIVATED"
  <2> HIDE DEF m
  <2> QED
    BY <1>2, <1>3, <1>4
<1>5. CASE Transition(w)
  <2>1. \A s, lt : [link[m] EXCEPT !.status = s, !.late = lt].employee = link[m].employee
    BY <1>2 DEF Rows
  <2> QED
    BY <1>1, <1>4, <1>5, <2>1 DEF Transition
<1>6. ASSUME NEW st, link' = [link EXCEPT ![m].steps = st]
      PROVE  \A l \in Links : /\ link'[l].employee = link[l].employee
                              /\ ~raced => \/ link'[l].status = link[l].status
                                           \/ link[l].status # "ACTIVATED"
  <2>1. [link[m] EXCEPT !.steps = st].employee = link[m].employee
    BY <1>2 DEF Rows
  <2> QED
    BY <1>4, <1>6, <2>1
<1>7. ASSUME NEW st, NEW s, link' = [link EXCEPT ![m] = [@ EXCEPT !.steps = st, !.status = s]]
      PROVE  \A l \in Links : /\ link'[l].employee = link[l].employee
                              /\ ~raced => \/ link'[l].status = link[l].status
                                           \/ link[l].status # "ACTIVATED"
  <2>1. [link[m] EXCEPT !.steps = st, !.status = s].employee = link[m].employee
    BY <1>2 DEF Rows
  <2> QED
    BY <1>4, <1>7, <2>1
<1>8. CASE DetailsWrite(w)
  <2>1. CASE job[w].from = "PENDING"
    <3>1. \E st, s : link' = [link EXCEPT ![m] = [@ EXCEPT !.steps = st, !.status = s]]
      BY <1>8, <2>1 DEF DetailsWrite
    <3> HIDE DEF m
    <3> QED
      BY <1>1, <1>7, <3>1
  <2>2. CASE job[w].from # "PENDING"
    <3>1. \E st : link' = [link EXCEPT ![m].steps = st]
      BY <1>8, <2>2 DEF DetailsWrite
    <3> HIDE DEF m
    <3> QED
      BY <1>1, <1>6, <3>1
  <2> QED
    BY <2>1, <2>2
<1>9. CASE DocumentsWrite(w)
  <2>1. CASE pc[w] = "upload"
    <3>1. \E st : link' = [link EXCEPT ![m].steps = st]
      BY <1>9, <2>1 DEF DocumentsWrite
    <3> HIDE DEF m
    <3> QED
      BY <1>1, <1>6, <3>1
  <2>2. CASE pc[w] = "submit"
    <3>1. link' = link \/ \E st, s : link' = [link EXCEPT ![m] = [@ EXCEPT !.steps = st, !.status = s]]
      BY <1>9, <2>2 DEF DocumentsWrite
    <3> HIDE DEF m
    <3> QED
      BY <1>1, <1>7, <3>1
  <2> QED
    BY <1>9, <2>1, <2>2 DEF DocumentsWrite
<1> QED
  BY <1>5, <1>8, <1>9

(* The transaction of approve: either the address is free because nobody   *)
(* came by the link, or the link is under review and names nobody.         *)
LEMMA ActivateOnce ==
    ASSUME JoinInv, AloneInv, OnceInv, NEW w \in Workers, Activate(w), moved' = moved,
           raced => raced'
    PROVE  OnceInv'
<1> USE Missing
<1>0. PICK l, e, c, r : /\ l = job[w].link /\ e = EmailOf[l] /\ c = job[w].code
                         /\ r = [link[l] EXCEPT !.status = job[w].to, !.employee = c]
  OBVIOUS
<1>1. pc[w] = "activate" /\ pc[w] \in AtLink /\ pc[w] \in Readers
  BY DEF Activate, AtLink, Readers
<1>2. /\ l \in Links /\ e \in Emails /\ job[w] \in Jobs /\ c \in Codes
      /\ link \in [Links -> Rows] /\ link[l] \in Rows /\ job[w].to = "ACTIVATED"
      /\ ~raced => link[l].status = "UNDER_REVIEW"
  BY <1>0, <1>1, Known DEF JoinInv, JobsAreSound, Sound, AloneInv, RequestsDecided, RequestsCurrent,
     Decided, Current
<1>3. CASE ~CanHire(e, c)
  BY <1>0, <1>3, OnceKept DEF Activate
<1>4. CASE CanHire(e, c)
  <2>1. Hire(e, c, l) /\ link' = [link EXCEPT ![l] = r]
    BY <1>0, <1>4 DEF Activate
  <2>2. /\ ~IsHired(e) /\ hired'[e] = [code |-> c, by |-> l]
        /\ \A d \in Emails : d # e => hired'[d] = hired[d]
    BY <1>2, <1>4, <2>1, NewEmployee DEF JoinInv
  <2>3. r.employee = c /\ r.status = "ACTIVATED"
    BY <1>0, <1>2 DEF Rows
  <2>4. /\ link'[l].employee = c /\ link'[l].status = "ACTIVATED"
        /\ \A m \in Links : m # l => link'[m] = link[m]
    BY <1>2, <2>1, <2>3
  <2>5. ASSUME l \notin moved \/ ~raced, NEW d \in Emails PROVE hired[d].by # l
    <3>1. CASE l \notin moved /\ hired[d].by = l
      <4>1. d = e
        BY <1>0, <1>2, <3>1 DEF OnceInv, AtItsAddress
      <4> QED
        BY <1>2, <2>2, <3>1, <4>1 DEF IsHired, Nobody
    <3>2. CASE ~raced /\ hired[d].by = l
      <4>1. link[l].employee = NoCode /\ link[l].employee = hired[d].code
        BY <1>2, <3>2 DEF OnceInv, SpentOnce
      <4>2. IsHired(d)
        BY <1>2, <3>2 DEF IsHired, Nobody
      <4> QED
        BY <4>1, <4>2 DEF JoinInv, HiredHaveCodes
    <3> QED
      BY <2>5, <3>1, <3>2
  <2>6. ASSUME l \notin moved \/ ~raced PROVE SpentOnce(l)'
    <3>1. \A d \in Emails : hired'[d].by = l => d = e
      BY <2>2, <2>5, <2>6
    <3> QED
      BY <2>2, <2>4, <3>1 DEF SpentOnce
  <2>7. ASSUME l \notin moved PROVE AtItsAddress(l)'
    <3>1. \A d \in Emails : hired'[d].by = l => d = e
      BY <2>2, <2>5, <2>7
    <3> QED
      BY <1>0, <3>1 DEF AtItsAddress
  <2>8. ASSUME NEW m \in Links, m # l
        PROVE  (SpentOnce(m) => SpentOnce(m)') /\ (AtItsAddress(m) => AtItsAddress(m)')
    <3>1. \A d \in Emails : hired'[d].by = m => hired'[d] = hired[d]
      BY <2>2, <2>8
    <3>2. link'[m] = link[m]
      BY <2>4, <2>8
    <3> QED
      BY <3>1, <3>2 DEF SpentOnce, AtItsAddress
  <2> QED
    BY <2>4, <2>6, <2>7, <2>8 DEF OnceInv
<1> QED
  BY <1>3, <1>4

(* A creation makes nobody an employee of a link.                          *)
LEMMA CreateOnce ==
    ASSUME JoinInv, OnceInv, NEW w \in Workers, CreateWrite(w), moved' = moved, raced => raced'
    PROVE  OnceInv'
<1> USE Missing
<1> DEFINE e == job[w].email
           c == job[w].code
<1>1. e \in Emails /\ c \in Codes /\ link' = link
  BY DEF CreateWrite, JoinInv, JobsAreSound, Sound
<1>2. CASE ~CanHire(e, c)
  BY <1>1, <1>2, OnceKept DEF CreateWrite
<1>3. CASE CanHire(e, c)
  <2>1. Hire(e, c, HR)
    BY <1>3 DEF CreateWrite
  <2>2. hired'[e] = [code |-> c, by |-> HR] /\ \A d \in Emails : d # e => hired'[d] = hired[d]
    BY <1>1, <1>3, <2>1, NewEmployee DEF JoinInv
  <2> HIDE DEF e, c
  <2>3. \A d \in Emails : hired'[d].by \in Links => hired'[d] = hired[d]
    BY <2>2
  <2> QED
    BY <1>1, <2>3 DEF OnceInv, AtItsAddress, SpentOnce
<1> QED
  BY <1>2, <1>3

(* An employee of a link changes the address, and only of that link.       *)
LEMMA EmailOnce ==
    ASSUME JoinInv, OnceInv, NEW e \in Emails, NEW to \in Emails, UpdateEmail(e, to),
           moved \subseteq moved', hired[e].by \in Links => hired[e].by \in moved', raced => raced'
    PROVE  OnceInv'
<1>1. /\ e # to /\ hired'[to] = hired[e] /\ hired'[e] = Nobody
      /\ \A d \in Emails \ {e, to} : hired'[d] = hired[d]
  BY AddressMoves DEF UpdateEmail
<1>2. link' = link /\ NoOne \notin Links
  BY Missing DEF UpdateEmail
<1>3. ASSUME NEW l \in Links, NEW d \in Emails, hired'[d].by = l
      PROVE  (d = to /\ hired[e].by = l /\ hired'[d] = hired[e]) \/ hired'[d] = hired[d]
  BY <1>1, <1>2, <1>3 DEF Nobody
<1>4. \A l \in Links : SpentOnce(l) => SpentOnce(l)'
  BY <1>2, <1>3 DEF SpentOnce
<1>5. \A l \in Links : AtItsAddress(l) /\ l \notin moved' => AtItsAddress(l)'
  BY <1>3 DEF AtItsAddress
<1> QED
  BY <1>2, <1>4, <1>5 DEF OnceInv

(* Every step of joining.                                                  *)
LEMMA JoiningOnce ==
    ASSUME JoinInv, AloneInv, OnceInv, Next, raced => raced',
           moved' = moved \cup {l \in Links : \E e, to \in Emails : hired[e].by = l /\ ChangeEmail(e, to)}
    PROVE  OnceInv'
<1>1. CASE hired' = hired
  <2>1. moved' = moved
    <3>1. \A e, to \in Emails : ~ChangeEmail(e, to)
      BY <1>1, AddressMoves DEF IsHired
    <3> QED
      BY <3>1
  <2>2. ASSUME NEW l \in Links, CreateLink(l) \/ RunOut(l)
        PROVE  \A m \in Links : /\ link'[m].employee = link[m].employee
                                /\ link'[m].status = link[m].status \/ link[m].status # "ACTIVATED"
    <3>1. link \in [Links -> Rows] /\ link[l] \in Rows
      BY DEF JoinInv, TypeOK, Rows
    <3> QED
      BY <2>2, <3>1 DEF CreateLink, RunOut, Rows
  <2>3. CASE \E l \in Links : CreateLink(l) \/ RunOut(l)
    BY <1>1, <2>1, <2>2, <2>3, OnceKept
  <2>4. CASE \E w \in Workers : Transition(w) \/ DetailsWrite(w) \/ DocumentsWrite(w)
    BY <1>1, <2>1, <2>4, WritesOnce, OnceKept
  <2>5. CASE link' = link
    BY <1>1, <2>1, <2>5, OnceKept
  <2>6. CASE \E w \in Workers : Activate(w)
    BY <2>1, <2>6, ActivateOnce
  <2>7. ASSUME NEW w \in Workers, NEW l \in Links, OnLink(w, l) PROVE link' = link
    BY <2>7 DEF OnLink, Review, RevokeLink, ResendInvite, ExpireStaleLinks, Reopen, DetailsRead,
                DocumentsRead, ApproveRead, Read
  <2>8. ASSUME NEW w \in Workers, \/ \E e \in Emails : CreateRead(w, e)
                                  \/ \E c \in Typed \cup {NoCode} : ApproveCode(w, c) \/ CreateCode(w, c)
                                  \/ Seed(w) \/ CreateWrite(w) \/ Crash(w)
        PROVE  link' = link
    BY <2>8 DEF CreateRead, ApproveCode, CreateCode, Seed, CreateWrite, Crash
  <2>9. CASE \E e, to \in Emails : UpdateEmail(e, to)
    BY <2>5, <2>9 DEF UpdateEmail
  <2> QED
    BY <2>3, <2>4, <2>5, <2>6, <2>7, <2>8, <2>9 DEF Next, Proceed
<1>2. CASE hired' # hired
  <2>1. ASSUME NEW w \in Workers, Activate(w) \/ CreateWrite(w) PROVE moved' = moved
    <3>1. ASSUME NEW e \in Emails, NEW to \in Emails, ChangeEmail(e, to) PROVE FALSE
      <4>1. IsHired(e) /\ hired'[e] = Nobody
        BY <3>1, AddressMoves
      <4>2. \A d \in Emails : IsHired(d) => hired'[d] = hired[d]
        BY <2>1, <1>2 DEF Activate, CreateWrite, CanHire, Hire, JoinInv, TypeOK, HiringTypeOK
      <4> QED
        BY <4>1, <4>2 DEF IsHired
    <3> QED
      BY <3>1
  <2>2. CASE \E w \in Workers : Activate(w)
    BY <2>1, <2>2, ActivateOnce
  <2>3. CASE \E w \in Workers : CreateWrite(w)
    BY <2>1, <2>3, CreateOnce
  <2>4. CASE \E e, to \in Emails : UpdateEmail(e, to)
    <3>1. PICK e \in Emails, to \in Emails : UpdateEmail(e, to)
      BY <2>4
    <3>2. ChangeEmail(e, to)
      BY <3>1 DEF UpdateEmail
    <3>3. moved \subseteq moved' /\ (hired[e].by \in Links => hired[e].by \in moved')
      BY <3>2
    <3> QED
      BY <3>1, <3>3, EmailOnce
  <2>5. ASSUME NEW l \in Links, CreateLink(l) \/ RunOut(l) PROVE FALSE
    BY <1>2, <2>5 DEF CreateLink, RunOut, people
  <2>6. ASSUME NEW w \in Workers, NEW l \in Links, OnLink(w, l) PROVE FALSE
    BY <1>2, <2>6 DEF OnLink, Review, RevokeLink, ResendInvite, ExpireStaleLinks, Reopen, DetailsRead,
                DocumentsRead, ApproveRead, Read, people
  <2>7. ASSUME NEW w \in Workers, \/ \E e \in Emails : CreateRead(w, e)
                                  \/ \E c \in Typed \cup {NoCode} : ApproveCode(w, c) \/ CreateCode(w, c)
                                  \/ Transition(w) \/ DetailsWrite(w) \/ DocumentsWrite(w)
                                  \/ Seed(w) \/ Crash(w)
        PROVE  FALSE
    BY <1>2, <2>7 DEF CreateRead, ApproveCode, CreateCode, Transition, DetailsWrite, DocumentsWrite,
                Seed, Crash, people
  <2> QED
    BY <2>2, <2>3, <2>4, <2>5, <2>6, <2>7 DEF Next, Proceed
<1> QED
  BY <1>1, <1>2

-----------------------------------------------------------------------------
(* Who is hired is welcome. *)

WelcomeInv == ~died => HiredIsWelcome

IsWelcome(c) ==
    \/ Has(c) = Types /\ c \in welcomed
    \/ \E w \in Workers : pc[w] = "seed" /\ job[w].code = c

(* Steps of requests that do not seed, for whoever was hired.              *)
LEMMA WelcomeKept ==
    ASSUME JoinInv, NEW w \in Workers, pc[w] # "seed", NEW to, NEW j,
           Goto(w, to, j), UNCHANGED <<seeded, welcomed>>, NEW c, IsWelcome(c)
    PROVE  IsWelcome(c)'
<1>1. pc \in [Workers -> Places] /\ job \in [Workers -> Jobs]
  BY DEF JoinInv, TypeOK, Places, Jobs
<1>2. CASE \E v \in Workers : pc[v] = "seed" /\ job[v].code = c
  <2>1. PICK v \in Workers : pc[v] = "seed" /\ job[v].code = c
    BY <1>2
  <2>2. pc'[v] = "seed" /\ job'[v].code = c
    BY <1>1, <2>1 DEF Goto
  <2> QED
    BY <2>2 DEF IsWelcome
<1> QED
  BY <1>2 DEF IsWelcome, Has

(* Steps that make nobody an employee of a link.                           *)
LEMMA WelcomeElsewhere ==
    ASSUME JoinInv, HiredIsWelcome, NEW w \in Workers, pc[w] # "seed", NEW to, NEW j,
           Goto(w, to, j), UNCHANGED <<seeded, welcomed>>,
           \A e \in Emails : hired'[e].by \in Links => hired'[e] = hired[e]
    PROVE  HiredIsWelcome'
<1>1. ASSUME NEW e \in Emails, hired'[e].by \in Links PROVE IsWelcome(hired[e].code)'
  BY <1>1, WelcomeKept DEF HiredIsWelcome, IsWelcome
<1> QED
  BY <1>1 DEF HiredIsWelcome, IsWelcome

(* approve's transaction: the request that made the employee goes on to    *)
(* seed.                                                                   *)
LEMMA ActivateWelcome ==
    ASSUME JoinInv, HiredIsWelcome, NEW w \in Workers, Activate(w)
    PROVE  HiredIsWelcome'
<1> DEFINE e == EmailOf[job[w].link]
           c == job[w].code
<1>1. /\ e \in Emails /\ c \in Codes /\ pc[w] # "seed" /\ job[w].link \in Links
      /\ pc \in [Workers -> Places] /\ job \in [Workers -> Jobs]
  BY Known, Missing DEF Activate, AtLink, JoinInv, JobsAreSound, Sound
<1>2. CASE ~CanHire(e, c)
  BY <1>1, <1>2, WelcomeElsewhere DEF Activate, Finish
<1>3. CASE CanHire(e, c)
  <2>1. /\ Hire(e, c, job[w].link) /\ Goto(w, "seed", job[w])
        /\ UNCHANGED <<seeded, welcomed>>
    BY <1>3 DEF Activate
  <2>2. /\ hired'[e] = [code |-> c, by |-> job[w].link]
        /\ \A d \in Emails : d # e => hired'[d] = hired[d]
    BY <1>1, <1>3, <2>1, NewEmployee DEF JoinInv
  <2>3. pc'[w] = "seed" /\ job'[w].code = c
    BY <1>1, <2>1 DEF Goto
  <2>4. ASSUME NEW d \in Emails, d # e, hired'[d].by \in Links PROVE IsWelcome(hired[d].code)'
    BY <1>1, <2>1, <2>2, <2>4, WelcomeKept DEF HiredIsWelcome, IsWelcome
  <2> HIDE DEF e, c
  <2> QED
    BY <2>2, <2>3, <2>4 DEF HiredIsWelcome, IsWelcome
<1> QED
  BY <1>2, <1>3

(* A balance row, or the mail once there is one for every type.            *)
LEMMA SeedWelcome ==
    ASSUME JoinInv, HiredIsWelcome, NEW w \in Workers, Seed(w)
    PROVE  HiredIsWelcome'
<1> DEFINE c == job[w].code
<1>1. /\ pc \in [Workers -> Places] /\ job \in [Workers -> Jobs] /\ hired' = hired
      /\ seeded \subseteq Codes \X Types
  BY DEF JoinInv, TypeOK, Places, Jobs, Seed
<1>2. CASE \E t \in Types \ Has(c) : /\ seeded' = seeded \cup {<<c, t>>}
                                      /\ UNCHANGED <<welcomed, pc, job>>
  <2>1. \A d : Has(d) = Types => Has(d)' = Types
    BY <1>2 DEF Has
  <2> QED
    BY <1>1, <1>2, <2>1 DEF HiredIsWelcome
<1>3. CASE Has(c) = Types /\ welcomed' = welcomed \cup {c} /\ Finish(w) /\ UNCHANGED seeded
  <2>1. ASSUME NEW d, IsWelcome(d) PROVE IsWelcome(d)'
    <3>1. CASE d = c
      BY <1>3, <3>1 DEF IsWelcome, Has
    <3>2. CASE Has(d) = Types /\ d \in welcomed
      BY <1>3, <3>2 DEF IsWelcome, Has
    <3>3. CASE d # c /\ \E v \in Workers : pc[v] = "seed" /\ job[v].code = d
      <4>1. PICK v \in Workers : pc[v] = "seed" /\ job[v].code = d
        BY <3>3
      <4>2. v # w
        BY <3>3, <4>1
      <4>3. pc'[v] = "seed" /\ job'[v].code = d
        BY <1>1, <1>3, <4>1, <4>2 DEF Finish, Goto
      <4> QED
        BY <4>3 DEF IsWelcome
    <3> QED
      BY <2>1, <3>1, <3>2, <3>3 DEF IsWelcome
  <2>2. ASSUME NEW e \in Emails, NEW d, d = hired[e].code, hired[e].by \in Links
        PROVE  IsWelcome(d)'
    BY <2>1, <2>2 DEF HiredIsWelcome, IsWelcome
  <2> QED
    BY <1>1, <2>2 DEF HiredIsWelcome, IsWelcome
<1> QED
  BY <1>2, <1>3 DEF Seed

(* Whoever changes the address has been welcomed by code.                  *)
LEMMA EmailWelcome ==
    ASSUME JoinInv, HiredIsWelcome, NEW e \in Emails, NEW to \in Emails, UpdateEmail(e, to)
    PROVE  HiredIsWelcome'
<1>1. UNCHANGED <<seeded, welcomed, pc, job>>
  BY DEF UpdateEmail
<1>2. \A d \in Emails : hired'[d].by \in Links => \E f \in Emails : hired'[d] = hired[f]
  BY AddressMoves, Missing DEF UpdateEmail, Nobody
<1> QED
  BY <1>1, <1>2 DEF HiredIsWelcome, Has

(* Every step of joining, unless a request dies while it seeds.            *)
LEMMA JoiningWelcome ==
    ASSUME JoinInv, WelcomeInv, Next,
           died' = (died \/ \E w \in Workers : pc[w] = "seed" /\ Crash(w) /\ ~Seed(w))
    PROVE  WelcomeInv'
<1> SUFFICES ASSUME ~died' PROVE HiredIsWelcome'
  BY DEF WelcomeInv
<1>1. HiredIsWelcome
  BY DEF WelcomeInv
<1>2. CASE \E l \in Links : CreateLink(l) \/ RunOut(l)
  <2>1. UNCHANGED <<hired, seeded, welcomed, pc, job>>
    BY <1>2 DEF CreateLink, RunOut, people
  <2> QED
    BY <1>1, <2>1 DEF HiredIsWelcome, Has
<1>3. ASSUME NEW w \in Workers, pc[w] # "seed", NEW to, NEW j, Goto(w, to, j),
             UNCHANGED <<seeded, welcomed>>,
             \A e \in Emails : hired'[e].by \in Links => hired'[e] = hired[e]
      PROVE  HiredIsWelcome'
  BY <1>1, <1>3, WelcomeElsewhere
<1>4. ASSUME NEW w \in Workers, \/ \E l \in Links : OnLink(w, l)
                                \/ \E e \in Emails : CreateRead(w, e)
      PROVE  HiredIsWelcome'
  <2>1. pc[w] = "idle" /\ UNCHANGED <<hired, seeded, welcomed>> /\ \E to, j : Goto(w, to, j)
    BY <1>4 DEF OnLink, Review, RevokeLink, ResendInvite, ExpireStaleLinks, Reopen, DetailsRead,
                DocumentsRead, ApproveRead, Read, CreateRead, people
  <2> QED
    BY <1>3, <2>1
<1>5. ASSUME NEW w \in Workers, Crash(w) PROVE HiredIsWelcome'
  <2>1. CASE pc[w] = "seed"
    BY <1>1, <1>5, <2>1, SeedWelcome
  <2>2. CASE pc[w] # "seed"
    BY <1>3, <1>5, <2>2 DEF Crash, Finish, people
  <2> QED
    BY <2>1, <2>2
<1>6. ASSUME NEW w \in Workers, Proceed(w) PROVE HiredIsWelcome'
  <2>1. CASE \E c \in Typed \cup {NoCode} : ApproveCode(w, c) \/ CreateCode(w, c)
    <3>1. /\ pc[w] \in {"approve", "resolve"} /\ UNCHANGED <<hired, seeded, welcomed>>
          /\ \E to, j : Goto(w, to, j)
      BY <2>1 DEF ApproveCode, CreateCode, Finish, people
    <3> QED
      BY <1>3, <3>1
  <2>2. CASE CreateWrite(w)
    <3>1. /\ job[w].email \in Emails /\ job[w].code \in Codes /\ HR \notin Links
          /\ pc[w] # "seed" /\ UNCHANGED <<seeded, welcomed>> /\ Goto(w, "idle", NoJob)
      BY <2>2, Missing DEF JoinInv, JobsAreSound, Sound, CreateWrite, Finish
    <3>2. \A e \in Emails : hired'[e].by \in Links => hired'[e] = hired[e]
      <4>1. PICK a, c : a = job[w].email /\ c = job[w].code
        OBVIOUS
      <4>2. CASE ~CanHire(a, c)
        BY <2>2, <4>1, <4>2 DEF CreateWrite
      <4>3. CASE CanHire(a, c)
        <5>1. Hire(a, c, HR)
          BY <2>2, <4>1, <4>3 DEF CreateWrite
        <5>2. /\ hired'[a] = [code |-> c, by |-> HR]
              /\ \A d \in Emails : d # a => hired'[d] = hired[d]
          BY <3>1, <4>1, <4>3, <5>1, NewEmployee DEF JoinInv
        <5> QED
          BY <3>1, <5>2
      <4> QED
        BY <4>2, <4>3
    <3> QED
      BY <1>3, <3>1, <3>2
  <2>3. CASE Transition(w) \/ DetailsWrite(w) \/ DocumentsWrite(w)
    <3>1. pc[w] # "seed" /\ UNCHANGED <<hired, seeded, welcomed>> /\ Goto(w, "idle", NoJob)
      BY <2>3 DEF Transition, DetailsWrite, DocumentsWrite, Finish, people
    <3> QED
      BY <1>3, <3>1
  <2> QED
    BY <1>1, <1>6, <2>1, <2>2, <2>3, ActivateWelcome, SeedWelcome DEF Proceed
<1>7. CASE \E e, to \in Emails : UpdateEmail(e, to)
  BY <1>1, <1>7, EmailWelcome
<1> QED
  BY <1>2, <1>4, <1>5, <1>6, <1>7 DEF Next
-----------------------------------------------------------------------------
(* The days: what a request that waits on a day knows of it. *)

DayPlaces == {"idle", "in", "out", "correct", "sum", "total", "mark"}
Sums == [sum : Nat, total : Nat]
DayJobs == [day : Days \cup {NoDay}, log : AD!Logs, sum : Nat]

Busy(p, j) == IF p = "idle" THEN j.day = NoDay ELSE j.day \in Days

DayTyped ==
    /\ log \in [Days -> AD!Logs] /\ od \in [Days -> Sums]
    /\ apc \in [Workers -> DayPlaces] /\ ajob \in [Workers -> DayJobs]
    /\ \A w \in Workers : Busy(apc[w], ajob[w])

(* No request is about to write more minutes than there are.               *)
DayCovered ==
    /\ AD!TotalIsCovered
    /\ \A w \in Workers : apc[w] = "total" => ajob[w].sum <= od[ajob[w].day].sum

Matched(r) ==
    r.hours = IF AD!Null \in {r.in, r.out} THEN AD!NoHours ELSE AD!Hours(r.in, r.out)

(* Nobody is overtaken: what was read of the day is still so.              *)
Kept(p, j, lg, o) ==
    /\ p = "out" => j.log.in = lg[j.day].in /\ j.log.in # AD!Null
    /\ p = "correct" => Matched(j.log)
    /\ p = "total" => j.sum = o[j.day].sum

DayCurrent ==
    /\ \A d \in Days : Matched(log[d])
    /\ \A w \in Workers : Kept(apc[w], ajob[w], log, od)

(* ... and nobody dies: a total that is not the sum is being written.      *)
Adding(p, j, d) == p \in {"sum", "total"} /\ j.day = d
DayCounted ==
    \A d \in Days : \/ od[d].total = od[d].sum
                    \/ \E w \in Workers : Adding(apc[w], ajob[w], d)

DayInv ==
    /\ DayTyped /\ DayCovered
    /\ ~raced => DayCurrent
    /\ ~raced /\ ~died => DayCounted

(* The row and the job that stand for nothing are a row and a job.         *)
LEMMA EmptyDays ==
    /\ AD!NoLog \in AD!Logs /\ AD!NoJob \in DayJobs /\ AD!NoJob.day = NoDay
    /\ AD!NoLog.hours = AD!NoHours /\ AD!NoLog.out = AD!Null
BY DEF AD!NoLog, AD!Logs, AD!NoJob, DayJobs, AD!NoHours, AD!Null, AD!Status

LEMMA DaysStart == AD!Init => DayTyped /\ DayCovered /\ DayCurrent /\ DayCounted
<1> SUFFICES ASSUME AD!Init PROVE DayTyped /\ DayCovered /\ DayCurrent /\ DayCounted
  OBVIOUS
<1>1. DayTyped
  BY EmptyDays DEF AD!Init, DayTyped, Sums, DayPlaces, Busy
<1>2. DayCovered /\ DayCounted
  BY DEF AD!Init, DayCovered, AD!TotalIsCovered, DayCounted
<1>3. DayCurrent
  BY EmptyDays DEF AD!Init, DayCurrent, Matched, Kept
<1> QED
  BY <1>1, <1>2, <1>3

(* A step of the requests in W, one or none, that writes the day d.        *)
DayWrite(W, d, r, o) ==
    /\ log' = [log EXCEPT ![d] = r] /\ od' = [od EXCEPT ![d] = o]
    /\ apc' \in [Workers -> DayPlaces] /\ ajob' \in [Workers -> DayJobs]
    /\ \A v \in Workers \ W : apc'[v] = apc[v] /\ ajob'[v] = ajob[v]
    /\ \A w \in W : Busy(apc'[w], ajob'[w])

LEMMA DayTypedKept ==
    ASSUME DayTyped, NEW W \in SUBSET Workers, NEW d \in Days, NEW r \in AD!Logs, NEW o \in Sums,
           DayWrite(W, d, r, o)
    PROVE  DayTyped'
<1>1. \A v \in Workers : Busy(apc'[v], ajob'[v])
  BY DEF DayTyped, DayWrite
<1> QED
  BY <1>1 DEF DayTyped, DayWrite

LEMMA DayCoveredKept ==
    ASSUME DayTyped, DayCovered, NEW W \in SUBSET Workers, NEW d \in Days, NEW r, NEW o \in Sums,
           DayWrite(W, d, r, o), o.total <= o.sum, od[d].sum <= o.sum,
           \A w \in W : apc'[w] = "total" => ajob'[w].sum <= od'[ajob'[w].day].sum
    PROVE  DayCovered'
<1>1. /\ od'[d] = o /\ \A e \in Days : e # d => od'[e] = od[e]
      /\ \A e \in Days : od[e] \in Sums /\ od'[e] \in Sums
  BY DEF DayTyped, DayWrite
<1>2. \A e \in Days : od[e].sum <= od'[e].sum
  <2>1. \A x \in Sums : x.sum <= x.sum
    BY DEF Sums
  <2> QED
    BY <1>1, <2>1
<1>3. AD!TotalIsCovered'
  BY <1>1 DEF AD!TotalIsCovered, DayCovered
<1>4. ASSUME NEW w \in Workers, apc'[w] = "total" PROVE ajob'[w].sum <= od'[ajob'[w].day].sum
  <2>1. CASE w \in W
    BY <1>4, <2>1
  <2>2. CASE w \notin W
    <3>1. apc[w] = "total" /\ ajob'[w] = ajob[w]
      BY <1>4, <2>2 DEF DayWrite
    <3>2. ajob[w].day \in Days /\ ajob[w] \in DayJobs
      BY <3>1 DEF DayTyped, Busy
    <3>3. ajob[w].sum <= od[ajob[w].day].sum
      BY <3>1 DEF DayCovered
    <3>4. ajob[w].sum \in Nat /\ od[ajob[w].day].sum \in Nat /\ od'[ajob[w].day].sum \in Nat
      BY <1>1, <3>2 DEF DayJobs, Sums
    <3> QED
      BY <1>2, <3>1, <3>2, <3>3, <3>4
  <2> QED
    BY <2>1, <2>2
<1> QED
  BY <1>3, <1>4 DEF DayCovered

(* The days of the requests that do not move are as they were.             *)
LEMMA DayCurrentKept ==
    ASSUME DayTyped, DayCurrent, NEW W \in SUBSET Workers, NEW d \in Days, NEW r, NEW o,
           DayWrite(W, d, r, o), ~AD!Overtaken, Matched(r),
           \A w \in W : Kept(apc'[w], ajob'[w], log', od')
    PROVE  DayCurrent'
<1>1. \A e \in Days : Matched(log'[e])
  BY DEF DayTyped, DayCurrent, DayWrite
<1>2. ASSUME NEW w \in Workers PROVE Kept(apc'[w], ajob'[w], log', od')
  <2>1. CASE w \in W
    BY <2>1
  <2>2. CASE w \notin W
    <3>1. apc'[w] = apc[w] /\ ajob'[w] = ajob[w]
      BY <2>2 DEF DayWrite
    <3>2. Kept(apc[w], ajob[w], log, od)
      BY DEF DayCurrent
    <3>3. CASE apc[w] = "idle"
      BY <3>1, <3>3 DEF Kept
    <3>4. CASE apc[w] # "idle"
      <4>1. ajob[w].day # NoDay
        BY <3>4, DayAssumption DEF DayTyped, Busy
      <4>2. log'[ajob[w].day] = log[ajob[w].day] /\ od'[ajob[w].day] = od[ajob[w].day]
        BY <3>1, <4>1 DEF AD!Overtaken
      <4> QED
        BY <3>1, <3>2, <4>2 DEF Kept
    <3> QED
      BY <3>3, <3>4
  <2> QED
    BY <2>1, <2>2
<1> QED
  BY <1>1, <1>2 DEF DayCurrent

(* Whoever was adding to a day still is, or has written the sum.           *)
LEMMA DayCountedKept ==
    ASSUME DayTyped, DayCounted, NEW W \in SUBSET Workers, NEW d \in Days, NEW r, NEW o,
           DayWrite(W, d, r, o),
           \/ o.total = o.sum
           \/ o = od[d]
           \/ \E w \in W : Adding(apc'[w], ajob'[w], d),
           \A w \in W, e \in Days :
               Adding(apc[w], ajob[w], e) =>
                   \/ Adding(apc'[w], ajob'[w], e)
                   \/ e = d /\ o.total = o.sum
    PROVE  DayCounted'
<1> SUFFICES ASSUME NEW e \in Days
             PROVE  \/ od'[e].total = od'[e].sum
                    \/ \E w \in Workers : Adding(apc'[w], ajob'[w], e)
  BY DEF DayCounted
<1>1. od'[d] = o /\ (e # d => od'[e] = od[e])
  BY DEF DayTyped, DayWrite
<1>2. CASE e = d /\ (o.total = o.sum \/ \E w \in W : Adding(apc'[w], ajob'[w], d))
  BY <1>1, <1>2
<1>3. CASE od'[e] = od[e] /\ ~(e = d /\ o.total = o.sum)
  <2>1. CASE od[e].total = od[e].sum
    BY <1>3, <2>1
  <2>2. CASE \E w \in Workers : Adding(apc[w], ajob[w], e)
    <3>1. PICK w \in Workers : Adding(apc[w], ajob[w], e)
      BY <2>2
    <3>2. Adding(apc'[w], ajob'[w], e)
      BY <1>3, <3>1 DEF DayWrite
    <3> QED
      BY <3>2
  <2> QED
    BY <2>1, <2>2 DEF DayCounted
<1> QED
  BY <1>1, <1>2, <1>3
(* What a step has to do for the days.                                     *)
LEMMA DayKept ==
    ASSUME DayInv, NEW W \in SUBSET Workers, NEW d \in Days, NEW r \in AD!Logs, NEW o \in Sums,
           DayWrite(W, d, r, o), o.total <= o.sum, od[d].sum <= o.sum,
           raced' = (raced \/ AD!Overtaken), died => died',
           \A w \in W : apc'[w] = "total" => ajob'[w].sum <= od'[ajob'[w].day].sum,
           ~raced => Matched(r) /\ \A w \in W : Kept(apc'[w], ajob'[w], log', od'),
           ~raced /\ ~died' =>
               /\ \/ o.total = o.sum
                  \/ o = od[d]
                  \/ \E w \in W : Adding(apc'[w], ajob'[w], d)
               /\ \A w \in W, e \in Days :
                     Adding(apc[w], ajob[w], e) =>
                         \/ Adding(apc'[w], ajob'[w], e)
                         \/ e = d /\ o.total = o.sum
    PROVE  DayInv'
<1>1. DayTyped' /\ DayCovered'
  BY DayTypedKept, DayCoveredKept DEF DayInv
<1>2. ~raced' => DayCurrent'
  BY DayCurrentKept DEF DayInv
<1>3. ~raced' /\ ~died' => DayCounted'
  BY DayCountedKept DEF DayInv
<1> QED
  BY <1>1, <1>2, <1>3 DEF DayInv

(* A step that moves one request, or none, and leaves the minutes alone.   *)
LEMMA DayRow ==
    ASSUME DayInv, NEW W \in SUBSET Workers, NEW d \in Days, NEW r \in AD!Logs,
           DayWrite(W, d, r, od[d]), raced' = (raced \/ AD!Overtaken), died => died',
           \A w \in W : apc[w] \notin {"sum", "total"} \/ died',
           \A w \in W : apc'[w] # "total",
           ~raced => Matched(r) /\ \A w \in W : Kept(apc'[w], ajob'[w], log', od')
    PROVE  DayInv'
<1>1. od[d] \in Sums /\ od[d].total <= od[d].sum /\ od[d].sum <= od[d].sum
  BY DEF DayInv, DayTyped, DayCovered, AD!TotalIsCovered, Sums
<1>2. ~raced /\ ~died' => \A w \in W, e \in Days : ~ Adding(apc[w], ajob[w], e)
  BY DEF Adding
<1> QED
  BY <1>1, <1>2, DayKept

(* A request goes on.                                                      *)
LEMMA DayGoes ==
    ASSUME DayInv, NEW w \in Workers, NEW to \in DayPlaces, NEW j \in DayJobs, Busy(to, j),
           AD!Goto(w, to, j)
    PROVE  /\ {w} \in SUBSET Workers
           /\ apc' \in [Workers -> DayPlaces] /\ ajob' \in [Workers -> DayJobs]
           /\ \A v \in Workers \ {w} : apc'[v] = apc[v] /\ ajob'[v] = ajob[v]
           /\ apc'[w] = to /\ ajob'[w] = j /\ Busy(apc'[w], ajob'[w])
BY DEF DayInv, DayTyped, AD!Goto

LEMMA DayEnds ==
    ASSUME DayInv, NEW w \in Workers, AD!Finish(w)
    PROVE  /\ {w} \in SUBSET Workers
           /\ apc' \in [Workers -> DayPlaces] /\ ajob' \in [Workers -> DayJobs]
           /\ \A v \in Workers \ {w} : apc'[v] = apc[v] /\ ajob'[v] = ajob[v]
           /\ apc'[w] = "idle" /\ ajob'[w] = AD!NoJob /\ Busy(apc'[w], ajob'[w])
<1>1. "idle" \in DayPlaces /\ Busy("idle", AD!NoJob)
  BY EmptyDays DEF DayPlaces, Busy
<1> QED
  BY <1>1, EmptyDays, DayGoes DEF AD!Finish

(* Writing a row as it is changes nothing.                                 *)
LEMMA SameDay ==
    ASSUME DayInv, NEW d \in Days
    PROVE  /\ log[d] \in AD!Logs /\ log = [log EXCEPT ![d] = log[d]]
           /\ od[d] \in Sums /\ od = [od EXCEPT ![d] = od[d]]
           /\ ~raced => Matched(log[d])
BY DEF DayInv, DayTyped, DayCurrent

-----------------------------------------------------------------------------
(* The steps of attendance. *)

(* checkIn, checkOut and approveCorrection read the row.                   *)
LEMMA DayReads ==
    ASSUME DayInv, NEW w \in Workers, NEW d \in Days,
           AD!CheckInRead(w, d) \/ AD!CheckOutRead(w, d) \/ AD!CorrectionRead(w, d),
           raced' = (raced \/ AD!Overtaken), died => died'
    PROVE  DayInv'
<1>1. PICK s \in {"in", "out", "correct"}, kept \in AD!Logs :
          /\ AD!Read(w, d, s, kept)
          /\ s = "out" => kept.in = log[d].in /\ kept.in # AD!Null
          /\ s = "correct" => kept = log[d]
  <2>1. log[d] \in AD!Logs
    BY SameDay
  <2>2. CASE AD!CheckInRead(w, d)
    BY <2>2, EmptyDays DEF AD!CheckInRead
  <2>3. CASE AD!CheckOutRead(w, d)
    <3>1. log[d].in \in Times \cup {AD!Null}
      BY <2>1 DEF AD!Logs
    <3>2. /\ [AD!NoLog EXCEPT !.in = log[d].in] \in AD!Logs
          /\ [AD!NoLog EXCEPT !.in = log[d].in].in = log[d].in
      BY <3>1, EmptyDays DEF AD!Logs
    <3> QED
      BY <2>3, <3>2 DEF AD!CheckOutRead
  <2>4. CASE AD!CorrectionRead(w, d)
    BY <2>1, <2>4 DEF AD!CorrectionRead
  <2> QED
    BY <2>2, <2>3, <2>4
<1> DEFINE j == [AD!NoJob EXCEPT !.day = d, !.log = kept]
<1>2. j \in DayJobs /\ j.day = d /\ j.log = kept
  BY EmptyDays DEF DayJobs
<1> HIDE DEF j
<1>3. Busy(s, j) /\ s \in DayPlaces
  BY <1>1, <1>2 DEF Busy, DayPlaces
<1>4. AD!Goto(w, s, j) /\ apc[w] = "idle" /\ UNCHANGED <<log, od>>
  BY <1>1 DEF AD!Read, j
<1>5. /\ {w} \in SUBSET Workers /\ DayWrite({w}, d, log[d], od[d])
      /\ apc'[w] = s /\ ajob'[w] = j
  BY <1>2, <1>3, <1>4, DayGoes, SameDay DEF DayWrite
<1>6. ~raced => Kept(s, j, log', od')
  BY <1>1, <1>2, <1>4, SameDay DEF Kept
<1> QED
  BY <1>1, <1>4, <1>5, <1>6, SameDay, DayRow

(* checkIn: the row is new, or the key refuses it.                         *)
LEMMA DayIn ==
    ASSUME DayInv, NEW w \in Workers, NEW t \in Times, AD!CheckInWrite(w, t),
           raced' = (raced \/ AD!Overtaken), died => died'
    PROVE  DayInv'
<1> DEFINE d == ajob[w].day
           n == [AD!NoLog EXCEPT !.status = "PRESENT", !.in = t]
           r == IF AD!Exists(d) THEN log[d] ELSE n
<1>1. apc[w] = "in" /\ d \in Days /\ AD!Finish(w)
  BY DEF AD!CheckInWrite, DayInv, DayTyped, Busy
<1>2. n \in AD!Logs /\ n.hours = AD!NoHours /\ n.out = AD!Null
  BY EmptyDays DEF AD!Logs, AD!Status
<1>3. Matched(n)
  BY <1>2 DEF Matched
<1> HIDE DEF n
<1>4. r \in AD!Logs /\ (~raced => Matched(r))
  BY <1>1, <1>2, <1>3, SameDay
<1>5. log' = [log EXCEPT ![d] = r] /\ od' = [od EXCEPT ![d] = od[d]]
  BY <1>1, SameDay DEF AD!CheckInWrite, n
<1> HIDE DEF d, r
<1>6. {w} \in SUBSET Workers /\ DayWrite({w}, d, r, od[d]) /\ apc'[w] = "idle"
  BY <1>1, <1>5, DayEnds DEF DayWrite
<1> QED
  BY <1>1, <1>4, <1>6, DayRow DEF Kept

(* checkOut: the time to subtract is that of the row.                      *)
LEMMA DayOut ==
    ASSUME DayInv, NEW w \in Workers, NEW t \in Times, AD!CheckOutWrite(w, t),
           raced' = (raced \/ AD!Overtaken), died => died'
    PROVE  DayInv'
<1> DEFINE d == ajob[w].day
           h == AD!Hours(ajob[w].log.in, t)
           r == [log[d] EXCEPT !.out = t, !.hours = h]
<1>1. apc[w] = "out" /\ d \in Days /\ AD!Finish(w)
  BY DEF AD!CheckOutWrite, DayInv, DayTyped, Busy
<1>2. log[d] \in AD!Logs /\ ajob[w].log \in AD!Logs
  BY <1>1, SameDay DEF DayInv, DayTyped, DayJobs
<1>3. t \in Int /\ t # AD!Null /\ \A u \in Times \cup {AD!Null} : u \in Int
  BY DayAssumption DEF AD!Null
<1>4. ajob[w].log.in \in Int
  BY <1>2, <1>3 DEF AD!Logs
<1>5. h \in [known : BOOLEAN, n : Int]
  BY <1>3, <1>4 DEF AD!Hours
<1> HIDE DEF h
<1>6. r \in AD!Logs /\ r.in = log[d].in /\ r.out = t /\ r.hours = h
  BY <1>2, <1>5 DEF AD!Logs
<1>7. ASSUME ~raced PROVE Matched(r)
  <2>1. ajob[w].log.in = log[d].in /\ log[d].in # AD!Null
    BY <1>1, <1>7 DEF DayInv, DayCurrent, Kept
  <2> QED
    BY <1>3, <1>6, <2>1 DEF Matched, h
<1>8. log' = [log EXCEPT ![d] = r] /\ od' = [od EXCEPT ![d] = od[d]]
  BY <1>1, SameDay DEF AD!CheckOutWrite, h
<1> HIDE DEF d, r
<1>9. {w} \in SUBSET Workers /\ DayWrite({w}, d, r, od[d]) /\ apc'[w] = "idle"
  BY <1>1, <1>8, DayEnds DEF DayWrite
<1> QED
  BY <1>1, <1>6, <1>7, <1>9, DayRow DEF Kept

(* approveCorrection: a time that stays unknown leaves the hours unknown.  *)
LEMMA DayCorrect ==
    ASSUME DayInv, NEW w \in Workers, NEW dtoIn \in AD!Given, NEW dtoOut \in AD!Given,
           NEW st \in Named, AD!CorrectionWrite(w, dtoIn, dtoOut, st),
           raced' = (raced \/ AD!Overtaken), died => died'
    PROVE  DayInv'
<1> DEFINE d == ajob[w].day
           old == ajob[w].log
           in == IF dtoIn = AD!Null THEN old.in ELSE dtoIn
           out == IF dtoOut = AD!Null THEN old.out ELSE dtoOut
           h == IF AD!Null \in {in, out} THEN old.hours ELSE AD!Hours(in, out)
           stat == IF st = "NONE" THEN old.status ELSE st
           r == [in |-> in, out |-> out, hours |-> h, status |-> stat]
<1>1. apc[w] = "correct" /\ d \in Days /\ AD!Finish(w) /\ old \in AD!Logs
  BY DEF AD!CorrectionWrite, DayInv, DayTyped, Busy, DayJobs
<1>2. \A u \in Times \cup {AD!Null} : u \in Int
  BY DayAssumption DEF AD!Null
<1>3. in \in Times \cup {AD!Null} /\ out \in Times \cup {AD!Null}
  BY <1>1 DEF AD!Logs, AD!Given
<1>4. h \in [known : BOOLEAN, n : Int]
  <2>1. AD!Hours(in, out) \in [known : BOOLEAN, n : Int]
    <3>1. in \in Int /\ out \in Int
      BY <1>2, <1>3
    <3> HIDE DEF in, out
    <3> QED
      BY <3>1 DEF AD!Hours
  <2> QED
    BY <1>1, <2>1 DEF AD!Logs
<1>5. stat \in AD!Status
  BY <1>1, DayAssumption DEF AD!Logs, AD!Status
<1>6. ASSUME ~raced PROVE Matched(r)
  <2>1. Matched(old)
    BY <1>1, <1>6 DEF DayInv, DayCurrent, Kept
  <2>2. CASE AD!Null \in {in, out}
    <3>1. AD!Null \in {old.in, old.out}
      BY <2>2
    <3> QED
      BY <2>1, <2>2, <3>1 DEF Matched
  <2>3. CASE AD!Null \notin {in, out}
    BY <2>3 DEF Matched
  <2> QED
    BY <2>2, <2>3
<1>7. log' = [log EXCEPT ![d] = r] /\ od' = [od EXCEPT ![d] = od[d]]
  BY <1>1, SameDay DEF AD!CorrectionWrite
<1> HIDE DEF in, out, h, stat
<1>8. r \in AD!Logs
  BY <1>3, <1>4, <1>5 DEF AD!Logs
<1> HIDE DEF d, r
<1>9. {w} \in SUBSET Workers /\ DayWrite({w}, d, r, od[d]) /\ apc'[w] = "idle"
  BY <1>1, <1>7, DayEnds DEF DayWrite
<1> QED
  BY <1>1, <1>6, <1>8, <1>9, DayRow DEF Kept
(* manualEntry and requestCorrection are statements of their own.          *)
LEMMA DayEntered ==
    ASSUME DayInv, NEW d \in Days,
           \/ AD!RequestCorrection(d)
           \/ \E in, out \in AD!Given, st \in Named : AD!ManualEntry(d, in, out, st),
           raced' = (raced \/ AD!Overtaken), died => died'
    PROVE  DayInv'
<1>1. /\ apc \in [Workers -> DayPlaces] /\ ajob \in [Workers -> DayJobs] /\ {} \in SUBSET Workers
      /\ log[d] \in AD!Logs
  BY SameDay DEF DayInv, DayTyped
<1>2. PICK r \in AD!Logs : /\ log' = [log EXCEPT ![d] = r]
                           /\ Matched(log[d]) => Matched(r)
                           /\ UNCHANGED <<od, apc, ajob>>
  <2>1. CASE AD!RequestCorrection(d)
    <3> DEFINE r == [log[d] EXCEPT !.status = "ABSENT"]
    <3>1. /\ r \in AD!Logs /\ r.hours = log[d].hours
          /\ r.in = log[d].in /\ r.out = log[d].out
      BY <1>1 DEF AD!Logs, AD!Status
    <3>2. log' = [log EXCEPT ![d] = r] /\ UNCHANGED <<od, apc, ajob>>
      BY <2>1 DEF AD!RequestCorrection
    <3> HIDE DEF r
    <3> QED
      BY <3>1, <3>2 DEF Matched
  <2>2. ASSUME NEW in \in AD!Given, NEW out \in AD!Given, NEW st \in Named,
               AD!ManualEntry(d, in, out, st)
        PROVE  \E r \in AD!Logs : /\ log' = [log EXCEPT ![d] = r] /\ Matched(r)
                                  /\ UNCHANGED <<od, apc, ajob>>
    <3> DEFINE h == IF AD!Null \in {in, out} THEN AD!NoHours ELSE AD!Hours(in, out)
               stat == IF st # "NONE" THEN st ELSE IF AD!Exists(d) THEN log[d].status ELSE "PRESENT"
               r == [in |-> in, out |-> out, hours |-> h, status |-> stat]
    <3>1. in \in Int /\ out \in Int
      BY DayAssumption DEF AD!Given, AD!Null
    <3>2. h \in [known : BOOLEAN, n : Int]
      BY <3>1 DEF AD!Hours, AD!NoHours
    <3>3. stat \in AD!Status
      BY <1>1, DayAssumption DEF AD!Logs, AD!Status
    <3>4. Matched(r)
      BY DEF Matched
    <3>5. log' = [log EXCEPT ![d] = r] /\ UNCHANGED <<od, apc, ajob>>
      BY <2>2 DEF AD!ManualEntry
    <3> HIDE DEF h, stat
    <3>6. r \in AD!Logs
      BY <3>2, <3>3 DEF AD!Logs, AD!Given
    <3> QED
      BY <3>4, <3>5, <3>6
  <2> QED
    BY <2>1, <2>2
<1>3. DayWrite({}, d, r, od[d])
  BY <1>1, <1>2, SameDay DEF DayWrite
<1> QED
  BY <1>1, <1>2, <1>3, SameDay, DayRow

(* The attendance of a day with an on-duty record.                         *)
LEMMA DayMarked ==
    ASSUME DayInv, NEW w \in Workers, AD!MarkOnDuty(w),
           raced' = (raced \/ AD!Overtaken), died => died'
    PROVE  DayInv'
<1> DEFINE d == ajob[w].day
           r == [log[d] EXCEPT !.status = "ON_DUTY"]
<1>1. apc[w] = "mark" /\ d \in Days /\ AD!Finish(w)
  BY DEF AD!MarkOnDuty, DayInv, DayTyped, Busy
<1>2. log[d] \in AD!Logs
  BY <1>1, SameDay
<1>3. r \in AD!Logs /\ r.hours = log[d].hours /\ r.in = log[d].in /\ r.out = log[d].out
  BY <1>2 DEF AD!Logs, AD!Status
<1>4. ~raced => Matched(r)
  BY <1>1, <1>3, SameDay DEF Matched
<1>5. log' = [log EXCEPT ![d] = r] /\ od' = [od EXCEPT ![d] = od[d]]
  BY <1>1, SameDay DEF AD!MarkOnDuty
<1> HIDE DEF d, r
<1>6. {w} \in SUBSET Workers /\ DayWrite({w}, d, r, od[d]) /\ apc'[w] = "idle"
  BY <1>1, <1>5, DayEnds DEF DayWrite
<1> QED
  BY <1>1, <1>3, <1>4, <1>6, DayRow DEF Kept

(* A request dies; one that was adding leaves the total behind.            *)
LEMMA DayDies ==
    ASSUME DayInv, NEW w \in Workers, AD!Crash(w),
           apc[w] \in {"sum", "total"} => died',
           raced' = (raced \/ AD!Overtaken), died => died'
    PROVE  DayInv'
<1> DEFINE d == ajob[w].day
<1>1. d \in Days /\ AD!Finish(w) /\ UNCHANGED <<log, od>>
  BY DEF AD!Crash, DayInv, DayTyped, Busy
<1>2. {w} \in SUBSET Workers /\ DayWrite({w}, d, log[d], od[d]) /\ apc'[w] = "idle"
  BY <1>1, DayEnds, SameDay DEF DayWrite
<1> QED
  BY <1>1, <1>2, SameDay, DayRow DEF Kept

(* create and addLocation: the entry.                                      *)
LEMMA DayAdds ==
    ASSUME DayInv, NEW w \in Workers, NEW d \in Days, NEW m \in Minutes, AD!AddEntry(w, d, m),
           raced' = (raced \/ AD!Overtaken), died => died'
    PROVE  DayInv'
<1> DEFINE j == [AD!NoJob EXCEPT !.day = d]
           o == [od[d] EXCEPT !.sum = @ + m]
<1>1. apc[w] = "idle" /\ AD!Goto(w, "sum", j) /\ UNCHANGED log /\ od' = [od EXCEPT ![d] = o]
  BY DEF AD!AddEntry
<1>2. j \in DayJobs /\ j.day = d
  BY EmptyDays DEF DayJobs
<1>3. od[d] \in Sums /\ od[d].total <= od[d].sum
  BY SameDay DEF DayInv, DayCovered, AD!TotalIsCovered
<1>4. m \in Nat
  BY DayAssumption
<1>5. o \in Sums /\ od[d].sum <= o.sum /\ o.total <= o.sum
  BY <1>3, <1>4 DEF Sums
<1>6. "sum" \in DayPlaces /\ Busy("sum", j)
  BY <1>2 DEF DayPlaces, Busy
<1> HIDE DEF j, o
<1>7. /\ {w} \in SUBSET Workers /\ DayWrite({w}, d, log[d], o)
      /\ apc'[w] = "sum" /\ ajob'[w] = j
  BY <1>1, <1>2, <1>6, DayGoes, SameDay DEF DayWrite
<1> QED
  BY <1>1, <1>2, <1>5, <1>7, SameDay, DayKept DEF Kept, Adding

(* ... the sum of the entries ...                                          *)
LEMMA DaySums ==
    ASSUME DayInv, NEW w \in Workers, AD!SumEntries(w),
           raced' = (raced \/ AD!Overtaken), died => died'
    PROVE  DayInv'
<1> DEFINE d == ajob[w].day
           j == [ajob[w] EXCEPT !.sum = od[d].sum]
<1>1. /\ apc[w] = "sum" /\ AD!Goto(w, "total", j) /\ UNCHANGED <<log, od>>
      /\ d \in Days /\ ajob[w] \in DayJobs
  BY DEF AD!SumEntries, DayInv, DayTyped, Busy
<1>2. od[d] \in Sums /\ od[d].total <= od[d].sum
  BY <1>1, SameDay DEF DayInv, DayCovered, AD!TotalIsCovered
<1>3. j \in DayJobs /\ j.day = d /\ j.sum = od[d].sum
  BY <1>1, <1>2 DEF DayJobs, Sums
<1>4. "total" \in DayPlaces /\ Busy("total", j)
  BY <1>1, <1>3 DEF DayPlaces, Busy
<1>5. od[d].sum <= od[d].sum
  BY <1>2 DEF Sums
<1> HIDE DEF j
<1>6. /\ {w} \in SUBSET Workers /\ DayWrite({w}, d, log[d], od[d])
      /\ apc'[w] = "total" /\ ajob'[w] = j
  BY <1>1, <1>3, <1>4, DayGoes, SameDay DEF DayWrite
<1>7. \A e \in Days : Adding(apc[w], ajob[w], e) => Adding(apc'[w], ajob'[w], e)
  BY <1>3, <1>6 DEF Adding
<1>8. Kept(apc'[w], ajob'[w], log', od')
  BY <1>1, <1>3, <1>6 DEF Kept
<1> HIDE DEF d
<1> QED
  BY <1>1, <1>2, <1>3, <1>5, <1>6, <1>7, <1>8, SameDay, DayKept

(* ... and the total.                                                      *)
LEMMA DayTotals ==
    ASSUME DayInv, NEW w \in Workers, AD!WriteTotal(w),
           raced' = (raced \/ AD!Overtaken), died => died'
    PROVE  DayInv'
<1> DEFINE d == ajob[w].day
           o == [od[d] EXCEPT !.total = ajob[w].sum]
<1>1. /\ apc[w] = "total" /\ AD!Goto(w, "mark", ajob[w]) /\ UNCHANGED log
      /\ od' = [od EXCEPT ![d] = o] /\ d \in Days /\ ajob[w] \in DayJobs
  BY DEF AD!WriteTotal, DayInv, DayTyped, Busy
<1>2. od[d] \in Sums /\ ajob[w].sum \in Nat /\ ajob[w].sum <= od[d].sum
  BY <1>1, SameDay DEF DayInv, DayCovered, DayJobs
<1>3. o \in Sums /\ o.sum = od[d].sum /\ o.total = ajob[w].sum /\ od[d].sum <= o.sum
  BY <1>2 DEF Sums
<1>4. ~raced => o.total = o.sum
  BY <1>1, <1>3 DEF DayInv, DayCurrent, Kept
<1>5. "mark" \in DayPlaces /\ Busy("mark", ajob[w])
  BY <1>1 DEF DayPlaces, Busy
<1> HIDE DEF o
<1>6. /\ {w} \in SUBSET Workers /\ DayWrite({w}, d, log[d], o)
      /\ apc'[w] = "mark" /\ ajob'[w] = ajob[w]
  BY <1>1, <1>5, DayGoes, SameDay DEF DayWrite
<1>7. \A e \in Days : Adding(apc[w], ajob[w], e) => e = d
  BY DEF Adding
<1> HIDE DEF d
<1> QED
  BY <1>1, <1>2, <1>3, <1>4, <1>6, <1>7, SameDay, DayKept DEF Kept

(* Every step of attendance.                                               *)
LEMMA DaysKeep ==
    ASSUME DayInv, AD!Next, raced' = (raced \/ AD!Overtaken),
           died' = (died \/ \E w \in Workers : apc[w] \in {"sum", "total"} /\ AD!Crash(w))
    PROVE  DayInv'
<1>1. ASSUME NEW w \in Workers, NEW d \in Days,
             \/ AD!CheckInRead(w, d) \/ AD!CheckOutRead(w, d) \/ AD!CorrectionRead(w, d)
             \/ \E m \in Minutes : AD!AddEntry(w, d, m)
      PROVE  DayInv'
  BY <1>1, DayReads, DayAdds
<1>2. ASSUME NEW w \in Workers, NEW t \in Times, AD!CheckInWrite(w, t) \/ AD!CheckOutWrite(w, t)
      PROVE  DayInv'
  BY <1>2, DayIn, DayOut
<1>3. ASSUME NEW w \in Workers, NEW in \in AD!Given, NEW out \in AD!Given, NEW st \in Named,
             AD!CorrectionWrite(w, in, out, st)
      PROVE  DayInv'
  BY <1>3, DayCorrect
<1>4. ASSUME NEW w \in Workers, AD!SumEntries(w) \/ AD!WriteTotal(w) \/ AD!MarkOnDuty(w)
      PROVE  DayInv'
  BY <1>4, DaySums, DayTotals, DayMarked
<1>5. ASSUME NEW w \in Workers, AD!Crash(w) PROVE DayInv'
  BY <1>5, DayDies
<1>6. ASSUME NEW d \in Days, \/ AD!RequestCorrection(d)
                             \/ \E in, out \in AD!Given, st \in Named : AD!ManualEntry(d, in, out, st)
      PROVE  DayInv'
  BY <1>6, DayEntered
<1> QED
  BY <1>1, <1>2, <1>3, <1>4, <1>5, <1>6 DEF AD!Next

-----------------------------------------------------------------------------
(* Joining and the days together. *)

PeopleInv == JoinInv /\ AloneInv /\ OnceInv /\ WelcomeInv /\ DayInv

LEMMA PeopleStart == MCInit => PeopleInv
<1> SUFFICES ASSUME MCInit PROVE PeopleInv
  OBVIOUS
<1>1. JoinInv
  BY Starts DEF MCInit
<1>2. DayInv
  BY DaysStart DEF MCInit, DayInv
<1>3. AloneInv /\ WelcomeInv
  <2> USE DEF MCInit, Init
  <2>1. RequestsDecided /\ RequestsCurrent
    BY DEF RequestsDecided, RequestsCurrent, Decided, Current, Readers
  <2>2. ~Racing
    BY DEF Racing, NoJob
  <2>3. ReviewedIsComplete /\ HiredIsWelcome
    BY Missing DEF ReviewedIsComplete, HiredIsWelcome, HiringInit, Nobody, NoRow
  <2> QED
    BY <2>1, <2>2, <2>3 DEF AloneInv, WelcomeInv
<1>4. OnceInv
  BY Missing DEF MCInit, Init, HiringInit, OnceInv, AtItsAddress, SpentOnce, Nobody, NoRow
<1> QED
  BY <1>1, <1>2, <1>3, <1>4 DEF PeopleInv

(* What only races and deaths of the other side can change.                *)
LEMMA PeopleApart ==
    ASSUME PeopleInv, raced => raced', died => died'
    PROVE  /\ UNCHANGED <<vars, moved>> => JoinInv' /\ AloneInv' /\ OnceInv' /\ WelcomeInv'
           /\ UNCHANGED <<log, od, apc, ajob>> => DayInv'
<1>1. ASSUME UNCHANGED <<vars, moved>> PROVE JoinInv' /\ AloneInv' /\ OnceInv' /\ WelcomeInv'
  <2>1. JoinInv'
    BY <1>1, JoiningKeeps DEF PeopleInv
  <2>2. RequestsDecided' /\ (RequestsCurrent => RequestsCurrent')
    BY <1>1 DEF PeopleInv, AloneInv, RequestsDecided, RequestsCurrent, vars
  <2>3. (~Racing => ~Racing') /\ (ReviewedIsComplete => ReviewedIsComplete')
    BY <1>1 DEF Racing, ReviewedIsComplete, vars
  <2>4. WelcomeInv'
    BY <1>1 DEF PeopleInv, WelcomeInv, HiredIsWelcome, Has, vars
  <2>5. OnceInv'
    BY <1>1, OnceKept DEF PeopleInv, vars
  <2> QED
    BY <2>1, <2>2, <2>3, <2>4, <2>5 DEF PeopleInv, AloneInv
<1>2. ASSUME UNCHANGED <<log, od, apc, ajob>> PROVE DayInv'
  <2>1. DayTyped' /\ DayCovered'
    BY <1>2 DEF PeopleInv, DayInv, DayTyped, DayCovered, AD!TotalIsCovered
  <2>2. (DayCurrent => DayCurrent') /\ (DayCounted => DayCounted')
    BY <1>2 DEF DayCurrent, DayCounted
  <2> QED
    BY <2>1, <2>2 DEF PeopleInv, DayInv
<1> QED
  BY <1>1, <1>2

LEMMA PeopleStep ==
    ASSUME PeopleInv, [MCNext]_<<vars, AD!vars, side, raced, moved, died>>
    PROVE  PeopleInv' /\ [~raced' => ChangesAreLogged]_vars
<1>1. CASE JoiningStep
  <2>1. JoinInv'
    BY <1>1, JoiningKeeps DEF JoiningStep, PeopleInv
  <2>2. AloneInv' /\ (~raced => ChangesAreLogged)
    BY <1>1, JoiningAlone DEF JoiningStep, PeopleInv
  <2>3. WelcomeInv'
    BY <1>1, JoiningWelcome DEF JoiningStep, PeopleInv
  <2>4. DayInv' /\ (raced => raced')
    BY <1>1, PeopleApart DEF JoiningStep
  <2>5. OnceInv'
    BY <1>1, <2>4, JoiningOnce DEF JoiningStep, PeopleInv
  <2> QED
    BY <2>1, <2>2, <2>3, <2>4, <2>5 DEF PeopleInv
<1>2. CASE DaysStep
  <2>1. DayInv'
    BY <1>2, DaysKeep DEF DaysStep, PeopleInv
  <2>2. UNCHANGED <<vars, moved>> /\ (raced => raced') /\ (died => died')
    BY <1>2 DEF DaysStep
  <2> QED
    BY <2>1, <2>2, PeopleApart DEF PeopleInv
<1>3. CASE UNCHANGED <<vars, AD!vars, side, raced, moved, died>>
  BY <1>3, PeopleApart DEF PeopleInv, AD!vars
<1> QED
  BY <1>1, <1>2, <1>3 DEF MCNext

(* Every row and every request of joining and of attendance is of its      *)
(* type.                                                                   *)
THEOREM PeopleTypes == MCSpec => []TypesAreOK
<1>1. PeopleInv => TypesAreOK
  BY DEF PeopleInv, JoinInv, DayInv, DayTyped, TypesAreOK, AD!TypeOK, DayPlaces, DayJobs, Sums
<1> QED
  BY <1>1, PeopleStart, PeopleStep, PTL DEF MCSpec

(* OnboardingService.approve, EmployeesService.create, update and          *)
(* updateSelf: whatever interleaves and wherever it dies, a link names an  *)
(* employee that came by it, an ACTIVATED link names one, and no two       *)
(* employees share a code; and the one it names is the only one, unless    *)
(* two requests of a link have met and an employee of this one has changed *)
(* the address.                                                            *)
THEOREM EachIsHiredOnce == MCSpec => []HiredOnce
<1>1. PeopleInv => HiredOnce
  BY DEF PeopleInv, JoinInv, OnceInv, HiredOnce
<1> QED
  BY <1>1, PeopleStart, PeopleStep, PTL DEF MCSpec

(* OnboardingService.approve: whoever is reviewed or activated has the     *)
(* details and the documents, if the requests of a link come one at a      *)
(* time; and whoever is hired by a link gets a balance for every leave     *)
(* type and the welcome mail, if approve is not cut off after its          *)
(* transaction.                                                            *)
THEOREM JoinedAreComplete == MCSpec => []JoinedIsComplete
<1>1. PeopleInv => JoinedIsComplete
  BY DEF PeopleInv, AloneInv, WelcomeInv, JoinedIsComplete
<1> QED
  BY <1>1, PeopleStart, PeopleStep, PTL DEF MCSpec

(* assertValidTransition and the row beside each change: as long as the    *)
(* requests of a link come one at a time, its status changes as the table  *)
(* of transitions says and the log tells the change as it was.             *)
THEOREM ChangesFollowTheTable == MCSpec => ChangesAreLoggedUnraced
BY PeopleStart, PeopleStep, PTL DEF MCSpec, ChangesAreLoggedUnraced

(* checkOut, manualEntry and approveCorrection, and recomputeTotalMinutes: *)
(* the hours of a day are those between its times unless a request is      *)
(* overtaken on its day, the minutes never exceed the entries, and are all *)
(* of them unless an addition is overtaken or dies.                        *)
THEOREM DaysAddUp == MCSpec => []DayAddsUp
<1>1. PeopleInv => DayAddsUp
  <2> SUFFICES ASSUME PeopleInv PROVE DayAddsUp
    OBVIOUS
  <2>1. AD!TotalIsCovered /\ (~raced => AD!HoursMatchTimes)
    BY DEF PeopleInv, DayInv, DayCovered, DayCurrent, Matched, AD!HoursMatchTimes
  <2>2. ~raced /\ ~died => AD!TotalIsSum
    BY DEF PeopleInv, DayInv, DayCounted, Adding, AD!TotalIsSum
  <2> QED
    BY <2>1, <2>2 DEF DayAddsUp
<1> QED
  BY <1>1, PeopleStart, PeopleStep, PTL DEF MCSpec
=============================================================================
