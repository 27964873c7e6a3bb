----------------------------- MODULE MCAcceptance -----------------------------
(* Small instances of Acceptance for TLC.  Jobs and submissions are numbers,  *)
(* so that a state constraint can say in which order they are used.           *)
EXTENDS Acceptance

FourJobs == 1..4
FiveJobs == 1..5

Used == {j \in Jobs : job[j].status # "none"}

(* Ids and submissions carry no order: of the states that differ only in      *)
(* names, the one that takes them in order of first use is enough.  Jobs      *)
(* leave the window in the order in which they were created.                  *)
InOrder ==
    \A j \in Used :
        /\ job[j].submission <= j
        /\ \A i \in Jobs : i < j => i \in Used /\ (job[i].recent => job[j].recent)

Out == {j \in Used : ~job[j].recent}

(* Three jobs and three purchases, of which one job is exempt and one purchase *)
(* an introduction at most: both only pass by.                               *)
FewExtras ==
    /\ Cardinality(Used) <= 3
    /\ purchases <= 3
    /\ Cardinality({j \in Jobs : job[j].charge = "exempt"}) <= 1
    /\ ledger["intro"].grant <= 1

(* Five jobs that spend what comes first, the free unit and the two of the     *)
(* bonus, and then hold two monthly units at once; the window moves on only    *)
(* to let the next one in.  Four purchases are without a package.              *)
OnlyMonthly ==
    /\ purchases > 3 => ledger["package"].grant = 0
    /\ ledger["intro"].grant = 0
    /\ \A j \in Used : job[j].charge # "exempt"
    /\ Out # {} => Cardinality(Recent) >= MaxRecent - 1

ExtrasOrMonthly == FewExtras \/ OnlyMonthly

(* No introduction, no exempt job, and a window that holds every job.        *)
NoExtras ==
    /\ ledger["intro"].grant = 0
    /\ \A j \in Used : job[j].charge # "exempt" /\ job[j].recent
===============================================================================
