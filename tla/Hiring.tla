------------------------------- MODULE Hiring -------------------------------
(***************************************************************************)
(* How an employee comes to be: the employee code, which is derived from   *)
(* the last code in string order, and the transaction that creates the     *)
(* employee and its user.  EmployeesService.create is modelled here;       *)
(* Onboarding adds the candidate's way in.                                 *)
(*                                                                         *)
(* A code is a prefix and the number its digits make.  Codes sort by       *)
(* prefix first: "EMP" has rank 1, and a code somebody typed sorts before  *)
(* or after it.  Every code here has digits, and fewer than six.           *)
(***************************************************************************)
EXTENDS Integers, FiniteSets

CONSTANTS
    Emails,
    Links,              \* onboarding links, for the "by" of an employee
    Typed,              \* the codes HR types in, a subset of Codes
    MaxEmployees,       \* of the subscription plan; Unlimited is -1
    NoOne, NoCode

Codes == [rank : {0, 1, 2}, num : Nat]
Unlimited == -1
HR == "HR"              \* created without a link

ASSUME HiringAssumption ==
    /\ IsFiniteSet(Emails)
    /\ Typed \subseteq Codes /\ NoCode \notin Codes
    /\ HR \notin Links /\ NoOne \notin Links

(* The employee, with its user, that has an e-mail address by now: users   *)
(* are unique by (organization, email).  The code stays with an employee.  *)
VARIABLE hired

Nobody == [code |-> NoCode, by |-> NoOne]
HiringTypeOK == hired \in [Emails -> [code : Codes \cup {NoCode}, by : Links \cup {NoOne, HR}]]
HiringInit == hired = [e \in Emails |-> Nobody]

IsHired(e) == hired[e] # Nobody
Used == {hired[e].code : e \in {d \in Emails : IsHired(d)}}

-----------------------------------------------------------------------------
After(c, d) == c.rank > d.rank \/ (c.rank = d.rank /\ c.num >= d.num)
Last == CHOOSE c \in Used : \A d \in Used : After(c, d)
Emp(n) == [rank |-> 1, num |-> n]
Highest == IF Used = {} THEN 0 ELSE Last.num

(* OnboardingService.resolveEmpCode tries one code ... *)
NextCode == Emp(Highest + 1)

(* ... and the helper's three, the first one that is free. *)
Candidates == {n \in Highest + 1 .. Highest + 3 : Emp(n) \notin Used}
FirstFree == Emp(CHOOSE n \in Candidates : \A m \in Candidates : n <= m)

(* count, before the code is resolved: without a plan there is no limit. *)
BelowLimit ==
    \/ MaxEmployees = Unlimited
    \/ Cardinality({e \in Emails : IsHired(e)}) < MaxEmployees

(* The transaction: a second employee with the code, or a second user with *)
(* the address, violates a unique key and rolls it back.                   *)
CanHire(e, c) == ~IsHired(e) /\ c \notin Used
Hire(e, c, by) == hired' = [hired EXCEPT ![e] = [code |-> c, by |-> by]]

(* update and updateSelf write employee and user in one transaction, which *)
(* an address in use rolls back; the address of before is free again.      *)
ChangeEmail(e, to) ==
    /\ IsHired(e) /\ ~IsHired(to)
    /\ hired' = [hired EXCEPT ![e] = Nobody, ![to] = hired[e]]

-----------------------------------------------------------------------------
(* PROPERTIES *)

(* The code generated when HR types none is free, so that a request that   *)
(* leaves it out can be served.                                            *)
NextCodeIsFree == NextCode \notin Used
=============================================================================
