-------------------------------- MODULE Purchase --------------------------------
(***************************************************************************)
(* What the purchases of one user promise, without requests, answers, links, *)
(* cards or time.  A purchase is asked for once, paid once at most, and then  *)
(* granted, once and never before it is paid, or dropped, and dropped only    *)
(* unpaid.  A repeat purchase is charged on the authority of an introduction  *)
(* that was granted, one at a time; a renewal on that of a subscription that  *)
(* was granted, once for each period.  Payments implements it.               *)
(*                                                                         *)
(* The introduction is the exception: dropped, it may still be paid.          *)
(***************************************************************************)
EXTENDS Naturals

CONSTANTS
    Orders,
    NoOrder

VARIABLES
    sale,     \* what was asked for, and what became of it
    paid,     \* the orders the gateway has money for
    credit,   \* purchases granted into each balance
    period    \* the period each subscription is in

vars == <<sale, paid, credit, period>>

Checkouts == {"intro", "package", "monthly"}

Sale(kind, parent, of, status) ==
    [kind |-> kind, parent |-> parent, period |-> of, status |-> status]

Init ==
    /\ sale = [o \in Orders |-> Sale("none", NoOrder, 0, "none")]
    /\ paid = {}
    /\ credit = [intro |-> 0, package |-> 0, bonus |-> 0]
    /\ period = [s \in Orders |-> 0]

IsGranted(s, kind) == sale[s].kind = kind /\ sale[s].status = "confirmed"

Ask(o, kind, parent, of) ==
    /\ sale[o].status = "none"
    /\ sale' = [sale EXCEPT ![o] = Sale(kind, parent, of, "pending")]
    /\ UNCHANGED <<paid, credit, period>>

AskCheckout(o) == \E kind \in Checkouts : Ask(o, kind, NoOrder, 0)

AskRepeat(o, s) ==
    /\ IsGranted(s, "intro")
    /\ \A p \in Orders : sale[p].kind = "repeat" => sale[p].status # "pending"
    /\ Ask(o, "repeat", s, 0)

AskRenewal(o, s) ==
    /\ IsGranted(s, "monthly")
    /\ \A p \in Orders :
          ~(sale[p].kind = "renewal" /\ sale[p].parent = s /\ sale[p].period = period[s])
    /\ Ask(o, "renewal", s, period[s])

Pay(o) ==
    /\ o \notin paid
    /\ \/ sale[o].status = "pending"
       \/ sale[o].kind = "intro" /\ sale[o].status = "failed"
    /\ paid' = paid \cup {o}
    /\ UNCHANGED <<sale, credit, period>>

Grant(o) ==
    /\ sale[o].status = "pending"
    /\ o \in paid
    /\ sale' = [sale EXCEPT ![o].status = "confirmed"]
    /\ LET kind == sale[o].kind IN
       credit' = [intro   |-> credit.intro + IF kind \in {"intro", "repeat"} THEN 1 ELSE 0,
                  package |-> credit.package + IF kind = "package" THEN 1 ELSE 0,
                  bonus   |-> IF kind \in {"package", "monthly"} THEN 2 ELSE credit.bonus]
    /\ \/ /\ sale[o].kind = "renewal"
          /\ sale[o].period = period[sale[o].parent]
          /\ period' = [period EXCEPT ![sale[o].parent] = @ + 1]
       \/ sale[o].kind # "renewal" /\ UNCHANGED period
    /\ UNCHANGED paid

Drop(o) ==
    /\ sale[o].status = "pending"
    /\ sale[o].kind = "intro" \/ o \notin paid
    /\ sale' = [sale EXCEPT ![o].status = "failed"]
    /\ UNCHANGED <<paid, credit, period>>

Next == \E o \in Orders :
    \/ AskCheckout(o)
    \/ \E s \in Orders : AskRepeat(o, s) \/ AskRenewal(o, s)
    \/ Pay(o) \/ Grant(o) \/ Drop(o)

Spec == Init /\ [][Next]_vars
===============================================================================
