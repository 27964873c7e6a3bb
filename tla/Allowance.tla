------------------------------- MODULE Allowance -------------------------------
(***************************************************************************)
(* What an account promises its user, without rows, counters or a ledger:   *)
(* purses of units, opened in a fixed order.  A job takes one unit from the  *)
(* first purse that may be opened and has one, and either spends it or gives *)
(* it back to the same purse, once.  The free unit is there from the start,  *)
(* the bonus comes with the first package or subscription, and a renewal     *)
(* replaces what was left of the last period.  Acceptance implements it.     *)
(***************************************************************************)
EXTENDS Integers, Sequences

CONSTANTS
    Jobs,
    Kinds,
    Priority,  \* the purses in the order they are spent
    Quota      \* units in a package or a billing period

VARIABLES
    left,      \* units that may still be taken from each purse
    unit,      \* the purse of the unit a job holds, or what became of it
    gifted     \* the bonus was given

vars == <<left, unit, gifted>>

Init ==
    /\ left = [k \in Kinds |-> IF k = "free" THEN 1 ELSE 0]
    /\ unit = [j \in Jobs |-> "none"]
    /\ gifted = FALSE

(* The purses before k in the order of spending are empty.                   *)
First(k) ==
    \E i \in 1..Len(Priority) :
        /\ Priority[i] = k
        /\ \A h \in 1..(i - 1) : left[Priority[h]] = 0

Take(j, k) ==
    /\ unit[j] = "none"
    /\ left[k] > 0
    /\ First(k)
    /\ left' = [left EXCEPT ![k] = @ - 1]
    /\ unit' = [unit EXCEPT ![j] = k]
    /\ UNCHANGED gifted

Spend(j, k) ==
    /\ unit[j] = k
    /\ unit' = [unit EXCEPT ![j] = "spent"]
    /\ UNCHANGED <<left, gifted>>

GiveBack(j, k) ==
    /\ unit[j] = k
    /\ left' = [left EXCEPT ![k] = @ + 1]
    /\ unit' = [unit EXCEPT ![j] = "returned"]
    /\ UNCHANGED gifted

Credit(k, units, gift) ==
    /\ left' = [x \in Kinds |-> left[x] + (IF x = k THEN units ELSE 0)
                                        + (IF x = "bonus" /\ gift THEN 2 ELSE 0)]
    /\ UNCHANGED unit

BuyIntro == Credit("intro", 1, FALSE) /\ UNCHANGED gifted

Buy(k) == Credit(k, Quota, ~gifted) /\ gifted' = TRUE

Renew ==
    /\ left' = [left EXCEPT !["monthly"] = Quota]
    /\ UNCHANGED <<unit, gifted>>

Next ==
    \/ \E j \in Jobs, k \in Kinds : Take(j, k) \/ Spend(j, k) \/ GiveBack(j, k)
    \/ BuyIntro \/ Buy("package") \/ Buy("monthly") \/ Renew

Spec == Init /\ [][Next]_vars
===============================================================================
