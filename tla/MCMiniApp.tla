------------------------------- MODULE MCMiniApp -------------------------------
(* A small instance of MiniApp for TLC.                                      *)
EXTENDS MiniApp, TLC

CONSTANTS l1, l2, e1, e2, p1, p2, f1, f2, a1, a2

TwoLaunches == {l1, l2}
TwoExchanges == {e1, e2}
TwoAdmins == {a1, a2}
TwoPreviews == {p1, p2}

(* At time 0 the first launch is from the future, within the skew.           *)
Launched == [l \in TwoLaunches |-> IF l = l1 THEN 1 ELSE 0]

(* The third message forwards the file of the first.                         *)
ThreeMessages == 1..3
Sent == [m \in ThreeMessages |-> IF m = 2 THEN f2 ELSE f1]

(* Sessions, photos and reports meet only where a preview asks for a session,  *)
(* and in the row of the user: so one exchange while photos are handled, and    *)
(* events without consequences while reports are sent.                       *)
Reporting == report # NoReport \/ marked # {} \/ \E d \in DOMAIN sent : sent[d] > 0
Photos == \E m \in Messages : message[m] # "unsent"

PartsApart ==
    LET eventsOnly == /\ issued = 0
                      /\ \A m \in Messages : message[m] # "accepted"
                      /\ message[3] = "unsent"
    IN  /\ Reporting \/ now > 3 => eventsOnly
        /\ Photos => issued <= 1

Symmetry == Permutations(TwoExchanges) \cup Permutations(TwoPreviews)
            \cup Permutations(TwoAdmins)
===============================================================================
