------------------------------ MODULE Acceptance ------------------------------
(***************************************************************************)
(* The account of one user: which submissions become jobs (jobs/service.py,  *)
(* jobs/repository.py) and what they cost (billing/allowances.py), with the  *)
(* end of each job as the worker settles it and the purchases that           *)
(* billing/payments.py credits.                                              *)
(*                                                                         *)
(* Every acceptance and every credit holds the user's advisory lock, and the *)
(* settlement of a job locks its reservation and balance rows, so each        *)
(* transaction is one action; what interleaves are submissions, retries,      *)
(* ends of jobs, purchases, renewals and the passage of time.                 *)
(*                                                                         *)
(* The choice of color is in CustomColors, the life of a job in JobExecution, *)
(* the orders behind a purchase in Payments.  The user has one subscription.  *)
(***************************************************************************)
EXTENDS Integers, FiniteSets, Sequences

CONSTANTS
    Jobs,          \* job ids
    Submissions,   \* client_submission_uuid of the Mini App
    NoSubmission,  \* a job id not in use
    MaxActive,     \* job_max_active_per_user
    MaxRecent,     \* job_max_accepted_per_window
    Quota,         \* units in a package or a billing period
    MaxPurchases   \* bound on purchases and renewals together

ASSUME ConstantsAssumption ==
    /\ NoSubmission \notin Submissions
    /\ MaxActive \in Nat \ {0}
    /\ MaxRecent \in Nat \ {0}
    /\ Quota \in Nat \ {0}
    /\ MaxPurchases \in Nat

VARIABLES
    job,         \* generation_jobs with the reservation of each
    source,      \* the user has an active source photo
    balance,     \* allowance_balances; a missing row is one of zeros
    ledger,      \* billing_ledger_entries: the sum of each kind of entry
    plan,        \* the subscription
    purchases    \* purchases and renewals so far

vars == <<job, source, balance, ledger, plan, purchases>>

(* In the order they are spent.                                              *)
Priority == <<"free", "intro", "package", "bonus", "monthly">>

Kinds == {"free", "intro", "package", "bonus", "monthly"}

Job == [submission : Submissions \cup {NoSubmission},
        status     : {"none", "active", "succeeded", "failed"},  \* active: queued or running
        recent     : BOOLEAN,                                    \* created in the window
        kind       : Kinds \cup {"none"},
        charge     : {"none", "exempt", "reserved", "consumed", "released"}]

Balance == [granted : Nat, reserved : Nat, consumed : Nat]

Entries == [grant : Nat, expire : Nat, reserve : Nat, consume : Nat, release : Nat]

TypeOK ==
    /\ job \in [Jobs -> Job]
    /\ source \in BOOLEAN
    /\ balance \in [Kinds -> Balance]
    /\ ledger \in [Kinds -> Entries]
    /\ plan \in [status : {"none", "active", "inactive"}, expired : BOOLEAN]
    /\ purchases \in 0..MaxPurchases

Init ==
    /\ job = [j \in Jobs |-> [submission |-> NoSubmission, status |-> "none",
                              recent |-> FALSE, kind |-> "none", charge |-> "none"]]
    /\ source = FALSE
    /\ balance = [k \in Kinds |-> [granted |-> 0, reserved |-> 0, consumed |-> 0]]
    /\ ledger = [k \in Kinds |-> [grant |-> 0, expire |-> 0, reserve |-> 0,
                                  consume |-> 0, release |-> 0]]
    /\ plan = [status |-> "none", expired |-> FALSE]
    /\ purchases = 0

-----------------------------------------------------------------------------
Active == {j \in Jobs : job[j].status = "active"}
Recent == {j \in Jobs : job[j].recent}

Available(b) == b.granted - b.reserved - b.consumed

Spendable(k, balances) ==
    /\ Available(balances[k]) > 0
    /\ k = "monthly" => plan.status = "active" /\ ~plan.expired

(* _ensure_account: the free unit is granted with the first reservation.     *)
Unopened == balance["free"].granted = 0

Opened ==
    IF Unopened THEN [balance EXCEPT !["free"] = [@ EXCEPT !.granted = 1]] ELSE balance

OpenedLedger ==
    IF Unopened THEN [ledger EXCEPT !["free"] = [@ EXCEPT !.grant = 1]] ELSE ledger

(* Mutant of Selected: any spendable kind, in no order.                      *)
MutantSelected(k) == Spendable(k, Opened)

(* select_candidate                                                          *)
Selected(k) ==
    \E i \in 1..Len(Priority) :
        /\ Priority[i] = k
        /\ Spendable(k, Opened)
        /\ \A h \in 1..(i - 1) : ~Spendable(Priority[h], Opened)

(* Mutant of MayAccept: both limits off by one.                              *)
MutantMayAccept(s) ==
    /\ \A j \in Jobs : job[j].submission # s
    /\ source
    /\ Cardinality(Active) <= MaxActive
    /\ Cardinality(Recent) <= MaxRecent

(* Mutant of MayAccept: a retry of an accepted submission is not recognised. *)
MutantMayAcceptAgain(s) ==
    /\ s \in Submissions
    /\ source
    /\ Cardinality(Active) < MaxActive
    /\ Cardinality(Recent) < MaxRecent

(* existing, source and enforce_limits.  A submission that is known is        *)
(* answered with its job and changes nothing.                                 *)
MayAccept(s) ==
    /\ \A j \in Jobs : job[j].submission # s
    /\ source
    /\ Cardinality(Active) < MaxActive
    /\ Cardinality(Recent) < MaxRecent

Created(j, s, kind, charge) ==
    job' = [job EXCEPT ![j] = [submission |-> s, status |-> "active", recent |-> TRUE,
                               kind |-> kind, charge |-> charge]]

(* JobAcceptanceService.accept with AllowanceService.reserve.                *)
Accept(j, s) ==
    /\ job[j].status = "none"
    /\ MayAccept(s)
    /\ \E k \in Kinds :
          /\ Selected(k)
          /\ Created(j, s, k, "reserved")
          /\ balance' = [Opened EXCEPT ![k].reserved = @ + 1]
          /\ ledger' = [OpenedLedger EXCEPT ![k].reserve = @ + 1]
    /\ UNCHANGED <<source, plan, purchases>>

(* The same for an exempt administrator; the list is a setting, and may       *)
(* change with a restart.                                                     *)
AcceptExempt(j, s) ==
    /\ job[j].status = "none"
    /\ MayAccept(s)
    /\ Created(j, s, "none", "exempt")
    /\ UNCHANGED <<source, balance, ledger, plan, purchases>>

(* consume_after_receipt in mark_succeeded.                                  *)
Succeed(j) ==
    /\ job[j].status = "active"
    /\ IF job[j].charge = "reserved"
       THEN /\ job' = [job EXCEPT ![j] = [@ EXCEPT !.status = "succeeded", !.charge = "consumed"]]
            /\ balance' = [balance EXCEPT ![job[j].kind].reserved = @ - 1,
                                         ![job[j].kind].consumed = @ + 1]
            /\ ledger' = [ledger EXCEPT ![job[j].kind].consume = @ + 1]
       ELSE /\ job' = [job EXCEPT ![j] = [@ EXCEPT !.status = "succeeded"]]
            /\ UNCHANGED <<balance, ledger>>
    /\ UNCHANGED <<source, plan, purchases>>

(* Mutant of Fail: the unit stays reserved.                                  *)
MutantFail(j) ==
    /\ job[j].status = "active"
    /\ job' = [job EXCEPT ![j] = [@ EXCEPT !.status = "failed",
                  !.charge = IF @ = "reserved" THEN "released" ELSE @]]
    /\ UNCHANGED <<source, balance, ledger, plan, purchases>>

(* release_terminal in mark_failed.                                          *)
Fail(j) ==
    /\ job[j].status = "active"
    /\ IF job[j].charge = "reserved"
       THEN /\ job' = [job EXCEPT ![j] = [@ EXCEPT !.status = "failed", !.charge = "released"]]
            /\ balance' = [balance EXCEPT ![job[j].kind].reserved = @ - 1]
            /\ ledger' = [ledger EXCEPT ![job[j].kind].release = @ + 1]
       ELSE /\ job' = [job EXCEPT ![j] = [@ EXCEPT !.status = "failed"]]
            /\ UNCHANGED <<balance, ledger>>
    /\ UNCHANGED <<source, plan, purchases>>

-----------------------------------------------------------------------------
(* The bonus comes with the first package or subscription.                   *)
Bonus == balance["bonus"].granted = 0

(* _grant_purchase: the units of the product, and perhaps the bonus.          *)
Grant(k, units, bonus) ==
    /\ purchases < MaxPurchases
    /\ purchases' = purchases + 1
    /\ balance' = [x \in Kinds |->
          IF x = k THEN [balance[x] EXCEPT !.granted = @ + units]
          ELSE IF x = "bonus" /\ bonus THEN [balance[x] EXCEPT !.granted = @ + 2]
          ELSE balance[x]]
    /\ ledger' = [x \in Kinds |->
          IF x = k THEN [ledger[x] EXCEPT !.grant = @ + units]
          ELSE IF x = "bonus" /\ bonus THEN [ledger[x] EXCEPT !.grant = @ + 2]
          ELSE ledger[x]]

BuyIntro == Grant("intro", 1, FALSE) /\ UNCHANGED <<job, source, plan>>

BuyPackage == Grant("package", Quota, Bonus) /\ UNCHANGED <<job, source, plan>>

Subscribe ==
    /\ plan.status = "none"
    /\ Grant("monthly", Quota, Bonus)
    /\ plan' = [status |-> "active", expired |-> FALSE]
    /\ UNCHANGED <<job, source>>

(* Mutant of Renew: what was not used expires without an entry.              *)
MutantRenew ==
    /\ plan.status # "none"
    /\ purchases < MaxPurchases
    /\ purchases' = purchases + 1
    /\ balance' = [balance EXCEPT !["monthly"] =
          [@ EXCEPT !.granted = balance["monthly"].reserved + balance["monthly"].consumed + Quota]]
    /\ ledger' = [ledger EXCEPT !["monthly"].grant = @ + Quota]
    /\ plan' = [plan EXCEPT !.expired = FALSE]
    /\ UNCHANGED <<job, source>>

(* Mutant of Renew: only what is reserved is kept beside the new quota.      *)
MutantRenewForgetsConsumed ==
    /\ plan.status # "none"
    /\ purchases < MaxPurchases
    /\ purchases' = purchases + 1
    /\ LET old == balance["monthly"] IN
          /\ balance' = [balance EXCEPT !["monthly"] = [old EXCEPT !.granted = old.reserved + Quota]]
          /\ ledger' = [ledger EXCEPT !["monthly"].expire = @ + Available(old),
                                       !["monthly"].grant = @ + Quota]
    /\ plan' = [plan EXCEPT !.expired = FALSE]
    /\ UNCHANGED <<job, source>>

(* Mutant of Renew: the old quota stays.                                     *)
MutantRenewKeeps ==
    /\ plan.status # "none"
    /\ purchases < MaxPurchases
    /\ purchases' = purchases + 1
    /\ balance' = [balance EXCEPT !["monthly"] = [@ EXCEPT !.granted = @ + Quota]]
    /\ ledger' = [ledger EXCEPT !["monthly"].grant = @ + Quota]
    /\ plan' = [plan EXCEPT !.expired = FALSE]
    /\ UNCHANGED <<job, source>>

(* _renew_subscription on the result of a renewal, which may come when the    *)
(* subscription is no longer active.                                          *)
Renew ==
    /\ plan.status # "none"
    /\ purchases < MaxPurchases
    /\ purchases' = purchases + 1
    /\ LET old == balance["monthly"] IN
          /\ balance' = [balance EXCEPT !["monthly"] =
                [old EXCEPT !.granted = old.reserved + old.consumed + Quota]]
          /\ ledger' = [ledger EXCEPT !["monthly"].expire = @ + Available(old),
                                       !["monthly"].grant = @ + Quota]
    /\ plan' = [plan EXCEPT !.expired = FALSE]
    /\ UNCHANGED <<job, source>>

(* The subscription is cancelled, or becomes past_due.                       *)
EndPlan ==
    /\ plan.status = "active"
    /\ plan' = [plan EXCEPT !.status = "inactive"]
    /\ UNCHANGED <<job, source, balance, ledger, purchases>>

(* set_active_source: the user sends a photo to the bot.                     *)
SendPhoto ==
    /\ ~source
    /\ source' = TRUE
    /\ UNCHANGED <<job, balance, ledger, plan, purchases>>

(* Time: a job leaves the window, or the billing period ends.                *)
LeaveWindow(j) ==
    /\ job[j].recent
    /\ job' = [job EXCEPT ![j] = [@ EXCEPT !.recent = FALSE]]
    /\ UNCHANGED <<source, balance, ledger, plan, purchases>>

PeriodEnds ==
    /\ plan.status # "none"
    /\ ~plan.expired
    /\ plan' = [plan EXCEPT !.expired = TRUE]
    /\ UNCHANGED <<job, source, balance, ledger, purchases>>

Next ==
    \/ \E j \in Jobs, s \in Submissions : Accept(j, s) \/ AcceptExempt(j, s)
    \/ \E j \in Jobs : Succeed(j) \/ Fail(j) \/ LeaveWindow(j)
    \/ BuyIntro \/ BuyPackage \/ Subscribe \/ Renew \/ EndPlan
    \/ SendPhoto \/ PeriodEnds

Spec == Init /\ [][Next]_vars

-----------------------------------------------------------------------------
(* Every balance is what the append-only ledger says, through reservations,   *)
(* settlements, purchases and renewals with jobs still running.               *)
LedgerExplainsBalances ==
    \A k \in Kinds :
        /\ balance[k].granted + ledger[k].expire = ledger[k].grant
        /\ balance[k].reserved + ledger[k].consume + ledger[k].release = ledger[k].reserve
        /\ balance[k].consumed = ledger[k].consume

(* A reserved unit belongs to exactly one active job, and each active job     *)
(* that is not exempt has one: none is lost and none is spent twice.          *)
ReservationsBacked ==
    /\ \A k \in Kinds : balance[k].reserved =
          Cardinality({j \in Active : job[j].charge = "reserved" /\ job[j].kind = k})
    /\ \A j \in Jobs : job[j].charge = "reserved" => j \in Active

(* CHECK counts_within_grant never fires: no balance is overspent, even when  *)
(* a renewal retires a quota that running jobs have reserved from.            *)
WithinGrant ==
    \A k \in Kinds : balance[k].reserved + balance[k].consumed <= balance[k].granted

(* The limits of active jobs and of jobs in the window hold for every order   *)
(* of submissions, ends and passing time.                                     *)
LimitsRespected == Cardinality(Active) <= MaxActive /\ Cardinality(Recent) <= MaxRecent

(* A submission becomes one job however often the Mini App retries it, before *)
(* or after that job has ended.                                               *)
OneJobPerSubmission ==
    \A i, j \in Jobs :
        (job[i].submission = job[j].submission /\ job[i].status # "none") => i = j

(* The free unit and the bonus are granted once per account.                 *)
GiftsOnce == balance["free"].granted <= 1 /\ balance["bonus"].granted \in {0, 2}

(* What a renewal can carry over is what running jobs had reserved: beside a  *)
(* fresh quota at most one unit for each job that may be active.              *)
OldQuotaIsBounded ==
    Available(balance["monthly"]) + balance["monthly"].reserved <= Quota + MaxActive

(* What became of the unit of a job.                                         *)
UnitOf(row) ==
    IF row.charge = "reserved" THEN row.kind
    ELSE IF row.charge = "consumed" THEN "spent"
    ELSE IF row.charge = "released" THEN "returned" ELSE "none"

(* Rows, counters and ledger keep the promise of Allowance: a job takes one   *)
(* unit of the first kind that has one and spends it or gives it back, once.  *)
Wallet == INSTANCE Allowance WITH
              left <- [k \in Kinds |-> Available(Opened[k])],
              unit <- [j \in Jobs |-> UnitOf(job[j])],
              gifted <- balance["bonus"].granted > 0

ImplementsAllowance == Wallet!Spec

(* After a renewal nothing of the old quota is left: never more than one      *)
(* period's units can be spent.                                               *)
OldQuotaIsRetired == Available(balance["monthly"]) <= Quota
===============================================================================
