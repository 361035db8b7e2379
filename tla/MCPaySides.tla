---------------------------- MODULE MCPaySides ----------------------------
(***************************************************************************)
(* Payroll where only a part of the requests is made, the part being       *)
(* chosen at first.  No statement of a pass is ever kept out.              *)
(***************************************************************************)
EXTENDS MCPayroll

VARIABLE side

NoThanks == \A i \in Thanks : item'[i].state = "absent"
NoIncentives == \A i \in Incentives : item'[i].state = "absent"
NoEdits == \A w \in Workers : pc'[w] # "updateRead"
NoLoans == loan' = loan
OnePeriod == \A w \in Workers : pc'[w] = "create" => job'[w].period = p1

(* A loan is paid beside an incentive, or Green Thanks are paid. *)
PayNext ==
    /\ Next
    /\ IF side = "loans" THEN NoThanks ELSE NoLoans /\ NoIncentives
    /\ UNCHANGED side

PayInit == Init /\ side \in {"loans", "thanks"}

PaySpec == PayInit /\ [][PayNext]_<<vars, side>>

(* Either a loan is paid back in the passes of two periods, or the slips of *)
(* one period are edited and Green Thanks posted.                           *)
LiveNext ==
    /\ Next
    /\ IF side = "loans" THEN NoEdits /\ NoThanks ELSE NoLoans /\ OnePeriod
    /\ UNCHANGED side

LiveInit == Init /\ side \in {"loans", "edits"}

LiveSpec == LiveInit /\ [][LiveNext]_<<vars, side>> /\ Fairness
=============================================================================
