---------------------------- MODULE EmiSchedule ----------------------------
(***************************************************************************)
(* The reducing-balance schedule of loan-amortization.ts.  Money is in     *)
(* cents and the monthly rate a fraction, so a value is exact until it is  *)
(* rounded where the code rounds it.  A month is year * 12 + month.        *)
(***************************************************************************)
EXTENDS Integers, FiniteSetsExt

(* Math.round(n / d) of a fraction with d > 0: halves go up. *)
RoundMoney(n, d) == IF 2 * (n % d) >= d THEN n \div d + 1 ELSE n \div d

(* Math.pow(b, n) of natural numbers *)
Power(b, n) ==
    LET pow[k \in 0 .. n] == IF k = 0 THEN 1 ELSE b * pow[k - 1]
    IN pow[n]

(* P*r*(1+r)^n / ((1+r)^n - 1), with r = num / den *)
LevelEmi(principal, rate, tenure) ==
    LET grown == Power(rate.den + rate.num, tenure)
        flat == Power(rate.den, tenure)
    IN IF rate.num = 0 THEN RoundMoney(principal, tenure)
       ELSE RoundMoney(principal * rate.num * grown, rate.den * (grown - flat))

(* One turn of the loop, from the balance the turn before left. *)
Installment(outstanding, rate, emi, last) ==
    LET interest == RoundMoney(outstanding * rate.num, rate.den)
        paid == IF last THEN outstanding ELSE emi - interest
    IN [emi |-> IF last THEN paid + interest ELSE emi,
        principal |-> paid, interest |-> interest, balance |-> outstanding - paid]

(* The first instalment falls due in the month after start. *)
ComputeEmiSchedule(principal, rate, tenure, start) ==
    LET emi == LevelEmi(principal, rate, tenure)
        row[k \in 1..tenure] ==
            Installment(IF k = 1 THEN principal ELSE row[k - 1].balance,
                        rate, emi, k = tenure)
    IN [k \in 1..tenure |->
           [emi |-> row[k].emi, principal |-> row[k].principal,
            interest |-> row[k].interest, balance |-> row[k].balance,
            month |-> start + k, deducted |-> FALSE]]

-----------------------------------------------------------------------------
(* A principal is ample when the cent that each instalment may be rounded  *)
(* by, with the interest it gathers until the last one, cannot use it up:  *)
(* the instalment is more than the first month's interest, and the one     *)
(* before the last leaves something.  At 12 % a year that takes a loan of  *)
(* 2 rupees for one year, 6 for two, 160 for ten, the longest there is.    *)
Ample(principal, rate, tenure) ==
    LET base == rate.den + rate.num
        grown == Power(base, tenure)
        flat == Power(rate.den, tenure)
        grownBefore == Power(base, tenure - 1)
        flatBefore == Power(rate.den, tenure - 1)
    IN \/ tenure = 1 /\ principal > 0
       \/ rate.num = 0 /\ 2 * principal > tenure * (tenure - 1)
       \/ /\ rate.num > 0
          /\ principal * rate.num * flat > rate.den * (grown - flat)
          /\ principal * rate.num * rate.num * grownBefore * flatBefore >
                rate.den * (grownBefore - flatBefore) * (grown - flat)
=============================================================================
