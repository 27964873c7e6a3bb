----------------------------- MODULE GenerationJob -----------------------------
(***************************************************************************)
(* What the system promises of one generation job, without workers, leases  *)
(* or attempts: an accepted job starts, the provider is asked at most once  *)
(* and only after the start, a photo follows a request and arrives at most  *)
(* once, the job succeeds only with the photo in the chat and then costs an *)
(* allowance, and a job that fails costs nothing.  A request or a photo     *)
(* already on its way may still arrive after the job was given up.          *)
(* JobExecution implements it.                                              *)
(***************************************************************************)
EXTENDS Naturals

CONSTANT Jobs

VARIABLES status, charge, requests, photos

vars == <<status, charge, requests, photos>>

Init ==
    /\ status = [j \in Jobs |-> "absent"]
    /\ charge = [j \in Jobs |-> "none"]
    /\ requests = [j \in Jobs |-> 0]
    /\ photos = [j \in Jobs |-> 0]

Accept(j) ==
    /\ status[j] = "absent"
    /\ status' = [status EXCEPT ![j] = "queued"]
    /\ \E c \in {"exempt", "reserved"} : charge' = [charge EXCEPT ![j] = c]
    /\ UNCHANGED <<requests, photos>>

Start(j) ==
    /\ status[j] = "queued"
    /\ status' = [status EXCEPT ![j] = "running"]
    /\ UNCHANGED <<charge, requests, photos>>

Request(j) ==
    /\ status[j] \in {"running", "failed"}
    /\ requests[j] = 0
    /\ requests' = [requests EXCEPT ![j] = 1]
    /\ UNCHANGED <<status, charge, photos>>

Deliver(j) ==
    /\ status[j] \in {"running", "failed"}
    /\ requests[j] = 1
    /\ photos[j] = 0
    /\ photos' = [photos EXCEPT ![j] = 1]
    /\ UNCHANGED <<status, charge, requests>>

Settled(c, settled) == IF c = "reserved" THEN settled ELSE c

Succeed(j) ==
    /\ status[j] = "running"
    /\ photos[j] = 1
    /\ status' = [status EXCEPT ![j] = "succeeded"]
    /\ charge' = [charge EXCEPT ![j] = Settled(@, "consumed")]
    /\ UNCHANGED <<requests, photos>>

(* Several jobs may be given up at once.                                     *)
GiveUp(S) ==
    /\ \A j \in S : status[j] = "running"
    /\ status' = [j \in Jobs |-> IF j \in S THEN "failed" ELSE status[j]]
    /\ charge' = [j \in Jobs |-> IF j \in S THEN Settled(charge[j], "released") ELSE charge[j]]
    /\ UNCHANGED <<requests, photos>>

Next ==
    \/ \E j \in Jobs : \/ Accept(j) \/ Start(j) \/ Request(j) \/ Deliver(j)
                       \/ Succeed(j)
    \/ \E S \in SUBSET Jobs : GiveUp(S)

Spec == Init /\ [][Next]_vars
===============================================================================
