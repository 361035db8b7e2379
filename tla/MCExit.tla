------------------------------- MODULE MCExit -------------------------------
EXTENDS ExitSettlement, FiniteSets, TLC

CONSTANTS
    e1, x1, d1, d2,
    MaxServed       \* bound on the requests being served at one time

(* Requests that set or withdraw one thing and ask for CLEARED, and one    *)
(* that does not ask.                                                      *)
FewDtos ==
    {c \in Changes : c.advance /\ (c.transfer = "yes" <=> \A d \in Departments : c.dept[d] = "keep")
                     /\ c.transfer # "no"}
    \cup {[NoChange EXCEPT !.dept = [d \in Departments |-> "cleared"], !.advance = FALSE]}

Symmetry == Permutations(Officers) \cup Permutations(Clerks)

(* Whether two exit or status requests have been served at the same time,  *)
(* whether one has died half way, and whether two requests about one asset *)
(* have been served at the same time.                                      *)
VARIABLES raced, died, clashed

watched == <<vars, raced, died, clashed>>
Died == \E w \in Officers : Crash(w) /\ ~(UpdateWrite(w) \/ PatchRead(w) \/ Revoke(w))

WatchedInit == Init /\ raced = FALSE /\ died = FALSE /\ clashed = FALSE
WatchedNext ==
    /\ Next
    /\ raced' = (raced \/ Racing')
    /\ died' = (died \/ Died)
    /\ clashed' = (clashed \/ Clashing')
WatchedSpec == WatchedInit /\ [][WatchedNext]_watched

(* What is checked: asset requests without exits; exits that have a reason *)
(* beside requests that give and take back; and exits while employees are  *)
(* removed, restored and admitted to rooms.                                *)
VARIABLE scene

Served == {w \in Officers : xpc[w] # "idle"} \cup {c \in Clerks : apc[c] # "idle"}

MCInit == WatchedInit /\ scene \in {"assets", "clearance", "people"}
MCNext ==
    /\ WatchedNext
    /\ scene = "assets" => UNCHANGED exits
    /\ scene = "clearance" =>
          UNCHANGED <<gone, back, left>> /\ \A e \in Employees : exit'[e].reason
    /\ scene = "people" => UNCHANGED <<asset, log, apc>>
    /\ Cardinality(Served') <= MaxServed
    /\ UNCHANGED scene
MCSpec == MCInit /\ [][MCNext]_<<watched, scene>>

-----------------------------------------------------------------------------
(* While no two requests about one asset have overlapped, it has one holder *)
(* at most, however those about other assets, and exits, meet.             *)
OneHolderUnraced == ~clashed => OneHolder

(* updateClearance refuses a settled record, one request at a time.        *)
SettledIsFinalUnraced == [][~raced' => SettledStays]_vars

(* Every settled exit has had its NOC; and settle, run to its end and      *)
(* alone, deactivates the employee unless that is refused, whose chat      *)
(* memberships patchStatus revokes.                                        *)
SettlementIsWhole ==
    /\ SettledHasNoc
    /\ ~raced /\ ~died => SettledIsExited /\ ExitedIsRevoked
=============================================================================
