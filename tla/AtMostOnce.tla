------------------------------ MODULE AtMostOnce ------------------------------
(***************************************************************************)
(* One call to an outside service whose effect cannot be taken back, made   *)
(* at most once, and what its caller may conclude about it.  A verdict      *)
(* "done" or "not_done" is true for ever; after "unknown" the effect may     *)
(* still happen, once.  ExecutionCalls implements it twice: for the image    *)
(* request of an attempt and for the photo it delivers.                      *)
(***************************************************************************)
EXTENDS Naturals

VARIABLES effects, verdict

vars == <<effects, verdict>>

Init == effects = 0 /\ verdict = "pending"

(* The service acts.                                                         *)
Happen ==
    /\ effects = 0
    /\ verdict \in {"pending", "unknown"}
    /\ effects' = 1
    /\ UNCHANGED verdict

(* The caller makes up its mind.                                             *)
Conclude ==
    /\ verdict = "pending"
    /\ \/ effects = 1 /\ verdict' = "done"
       \/ effects = 0 /\ verdict' = "not_done"
       \/ verdict' = "unknown"
    /\ UNCHANGED effects

Next == Happen \/ Conclude

Spec == Init /\ [][Next]_vars
===============================================================================
