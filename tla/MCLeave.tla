------------------------------ MODULE MCLeave ------------------------------
EXTENDS LeaveManagement, TLC

CONSTANTS e1, t1

(* Two ranges that share the third day. *)
TwoSpans == {1..3, 3..4}
MCYearOf == [s \in Spans |-> ThisYear]

Symmetry == Permutations(Workers) \cup Permutations(Applications)

(* Whether two requests have ever been served at the same time. *)
VARIABLE raced

MCInit == Init /\ raced = FALSE
MCNext == Next /\ raced' = (raced \/ Racing')
MCSpec == MCInit /\ [][MCNext]_<<vars, raced>>

-----------------------------------------------------------------------------
(* What apply and grantSpecialLeave's overlap check promises when nothing  *)
(* interleaves.                                                            *)
NoOverlapUnraced == ~raced => NoOverlap

(* deductBalance and the special grant, one at a time, and killed or not,  *)
(* account for every day they take.                                        *)
TakenIsChargedUnraced == ~raced => TakenIsCharged
=============================================================================
