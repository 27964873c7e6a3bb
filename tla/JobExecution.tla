----------------------------- MODULE JobExecution -----------------------------
(***************************************************************************)
(* The execution of accepted generation jobs: the worker processes of      *)
(* worker/main.py and worker/service.py, and the PostgreSQL rows through   *)
(* which jobs/worker_repository.py lets them claim a job, mark every        *)
(* external side effect before and after it happens, and terminalize what   *)
(* a lost process left behind.                                              *)
(*                                                                         *)
(* One transaction of the code is one action, except run_once, whose claim  *)
(* evaluates NOT EXISTS(provider start) on the statement's snapshot and     *)
(* locks the job row afterwards: Poll takes the snapshot, Claim the lock.   *)
(*                                                                         *)
(* Time is abstracted to what one transaction can tell.  A transaction      *)
(* reads its clock once, before it waits for the row lock, so while a lease *)
(* is "lapsing" some transactions still see it unexpired and others         *)
(* already see it expired; before that all see it "live", afterwards all    *)
(* see it "expired".                                                        *)
(***************************************************************************)
EXTENDS Naturals, FiniteSets

CONSTANTS
    Jobs,         \* the accepted submissions
    Workers,      \* worker processes; a restarted one is the same element, idle
    NoWorker,     \* lease_owner IS NULL
    NoJob,        \* a worker that holds no ClaimedAttempt
    MaxAttempts,  \* bound on attempt_count, for claims and for Recount
    MaxFaults     \* bound on crashes, stalls and database failures together

ASSUME ConstantsAssumption ==
    /\ NoWorker \notin Workers
    /\ NoJob \notin Jobs
    /\ MaxAttempts \in Nat \ {0}
    /\ MaxFaults \in Nat

VARIABLES
    job,       \* generation_jobs, with the reservation each job settles
    attempt,   \* generation_attempts by job and attempt_number
    worker,    \* what each worker process is doing
    requests,  \* image requests that reached the provider, per job
    photos,    \* result photos that reached the user's chat, per job
    faults     \* faults so far

vars == <<job, attempt, worker, requests, photos, faults>>

Numbers == 1..MaxAttempts

(* error_code, up to what the properties tell apart: "definite" stands for   *)
(* the codes of a failure known to have happened before or instead of the    *)
(* side effect, "internal" for INTERNAL_FAILURE.                             *)
Codes == {"none", "definite", "internal", "provider_ambiguous", "delivery_ambiguous"}

JobRow == [status    : {"absent", "queued", "running", "succeeded", "failed"},
           count     : 0..MaxAttempts,
           owner     : Workers \cup {NoWorker},
           lease     : {"none", "live", "lapsing", "expired"},
           error     : Codes,
           charge    : {"none", "exempt", "reserved", "consumed", "released"},
           reference : {"none", "held", "uncounted", "released"}]

AttemptStates == {"none", "claimed", "source_ready", "provider_started",
                  "provider_succeeded", "delivering", "succeeded", "failed", "ambiguous"}

AttemptRow == [worker     : Workers \cup {NoWorker},
               state      : AttemptStates,
               started    : BOOLEAN,   \* provider_started_at IS NOT NULL
               delivering : BOOLEAN,   \* delivery_started_at IS NOT NULL
               retries    : {0, 1},    \* safe_preupload_retries
               summary    : {"none", "lease expired before provider start", "other"}]

(* Where execute() stands.  "scanned" is inside run_once, between the claim's *)
(* snapshot and its lock; "connect" and "reconnect" are the two connection    *)
(* attempts of generate(); "failing" is inside _fail.                         *)
Steps == {"idle", "scanned", "claimed", "source_ready", "connect", "reconnect",
          "uploaded", "generated", "provider_succeeded", "delivering", "sent", "failing"}

Task == [job : Jobs \cup {NoJob}, number : 0..MaxAttempts]

WorkerState == [step      : Steps,
                task      : Task,
                scan      : SUBSET Jobs,
                heartbeat : {"off", "on", "raised"},
                code      : Codes]

NoTask == [job |-> NoJob, number |-> 0]

Idle == [step |-> "idle", task |-> NoTask, scan |-> {}, heartbeat |-> "off", code |-> "none"]

NoAttempt == [worker |-> NoWorker, state |-> "none", started |-> FALSE,
              delivering |-> FALSE, retries |-> 0, summary |-> "none"]

TypeOK ==
    /\ job \in [Jobs -> JobRow]
    /\ attempt \in [Jobs -> [Numbers -> AttemptRow]]
    /\ worker \in [Workers -> WorkerState]
    /\ requests \in [Jobs -> Nat]
    /\ photos \in [Jobs -> Nat]
    /\ faults \in 0..MaxFaults

Init ==
    /\ job = [j \in Jobs |-> [status |-> "absent", count |-> 0, owner |-> NoWorker,
                              lease |-> "none", error |-> "none", charge |-> "none",
                              reference |-> "none"]]
    /\ attempt = [j \in Jobs |-> [n \in Numbers |-> NoAttempt]]
    /\ worker = [w \in Workers |-> Idle]
    /\ requests = [j \in Jobs |-> 0]
    /\ photos = [j \in Jobs |-> 0]
    /\ faults = 0

-----------------------------------------------------------------------------
(* Rows as the repository reads them.                                        *)

Terminal(j) == job[j].status \in {"succeeded", "failed"}

(* The job holds a reference on a version whose retain_count is 0: release    *)
(* raises and takes the transaction that ends the job with it.               *)
Uncounted(j) == job[j].reference = "uncounted"

Started(j) == \E n \in Numbers : attempt[j][n].started

MayBeSeenExpired(j) == job[j].status = "running" /\ job[j].lease \in {"lapsing", "expired"}

MustBeSeenExpired(j) == job[j].status = "running" /\ job[j].lease = "expired"

MyJob(w) == worker[w].task.job
MyRow(w) == attempt[worker[w].task.job][worker[w].task.number]

(* _owned with allow_expired=True: the job is running under this attempt.    *)
Owned(w) ==
    LET j == MyJob(w) IN
    /\ j # NoJob
    /\ job[j].status = "running"
    /\ job[j].owner = w
    /\ job[j].count = worker[w].task.number
    /\ MyRow(w).worker = w

(* _owned: what the transaction may see, and what it must see.               *)
MayOwn(w)  == Owned(w) /\ job[MyJob(w)].lease \in {"live", "lapsing"}
MustOwn(w) == Owned(w) /\ job[MyJob(w)].lease = "live"

Executing(w) == worker[w].step \notin {"idle", "scanned"}

(* Mutant of Finished: the custom reference is not released.                 *)
MutantFinishedKeepsReference(row, status, error, settled) ==
    [row EXCEPT !.status = status, !.error = error, !.owner = NoWorker, !.lease = "none",
                !.charge = IF @ = "reserved" THEN settled ELSE @]

(* _finish_job and the settlement of the reservation: consume_after_receipt  *)
(* after a receipt, release_terminal after a failure.                        *)
Finished(row, status, error, settled) ==
    [row EXCEPT !.status = status, !.error = error,
                !.owner = NoWorker, !.lease = "none",
                !.charge = IF @ = "reserved" THEN settled ELSE @,
                !.reference = IF @ = "held" THEN "released" ELSE @]

GoTo(w, step) == worker' = [worker EXCEPT ![w] = [@ EXCEPT !.step = step]]

GoFail(w, code) ==
    worker' = [worker EXCEPT ![w] = [@ EXCEPT !.step = "failing", !.code = code]]

SetMyRow(w, row) ==
    attempt' = [attempt EXCEPT ![MyJob(w)] = [@ EXCEPT ![worker[w].task.number] = row]]

SetLease(j, lease) == job' = [job EXCEPT ![j] = [@ EXCEPT !.lease = lease]]

GoIdle(w) == worker' = [worker EXCEPT ![w] = Idle]

-----------------------------------------------------------------------------
(* JobAcceptanceService.accept, once its checks have passed: the queued row, *)
(* the reservation (none for an exempt administrator) and the retained       *)
(* custom reference commit together.                                         *)
Accept(j) ==
    /\ job[j].status = "absent"
    /\ \E charge \in {"exempt", "reserved"}, reference \in {"none", "held"} :
          job' = [job EXCEPT ![j] = [@ EXCEPT !.status = "queued", !.charge = charge,
                                              !.reference = reference]]
    /\ UNCHANGED <<attempt, worker, requests, photos, faults>>

(* Mutants of Reconciled: a lost delivery is reported as a lost generation;  *)
(* the attempt is closed but its job is not.                                 *)
MutantReconciledAsProvider(j) == Finished(job[j], "failed", "provider_ambiguous", "released")

MutantReconciledLeavesJob(j) == job[j]

(* reconcile_expired for one job of its batch.                               *)
Reconciled(j) ==
    LET row == attempt[j][job[j].count]
    IN Finished(job[j], "failed",
                IF row.delivering THEN "delivery_ambiguous" ELSE "provider_ambiguous",
                "released")

(* run_once up to the claim's snapshot: reconcile_expired terminalizes a     *)
(* batch of the expired jobs whose provider call had started (its limit and  *)
(* SKIP LOCKED may leave some for a later poll, not all), then claim's SELECT *)
(* sees the jobs that are queued, or expired and not started.  An Uncounted  *)
(* job in the batch would raise out of run_once: everything rolls back, the  *)
(* process ends and is restarted, as if it had not polled.  Only a row that  *)
(* another worker holds locked, for an end that rolls back, is passed over.  *)
Poll(w) ==
    /\ worker[w].step = "idle"
    /\ \E batch \in SUBSET {j \in Jobs : MayBeSeenExpired(j) /\ Started(j) /\ ~Uncounted(j)},
          seen \in SUBSET {j \in Jobs : MayBeSeenExpired(j) /\ ~Started(j)} :
          /\ batch = {} => \A j \in Jobs :
                MustBeSeenExpired(j) /\ Started(j) => Uncounted(j) /\ Workers # {w}
          /\ {j \in Jobs : MustBeSeenExpired(j) /\ ~Started(j)} \subseteq seen
          /\ job' = [j \in Jobs |-> IF j \in batch THEN Reconciled(j) ELSE job[j]]
          /\ attempt' = [j \in Jobs |->
                IF j \in batch
                THEN [attempt[j] EXCEPT ![job[j].count] =
                         [@ EXCEPT !.state = "ambiguous", !.summary = "other"]]
                ELSE attempt[j]]
          /\ worker' = [worker EXCEPT
                ![w] = [@ EXCEPT !.step = "scanned",
                                 !.scan = seen \cup {j \in Jobs : job[j].status = "queued"}]]
    /\ UNCHANGED <<requests, photos, faults>>

(* Mutants of Claimable: the locked row is not rechecked; expired jobs are   *)
(* forgotten.                                                                *)
MutantClaimableUnchecked(j) == TRUE

MutantClaimableQueuedOnly(j) == job[j].status = "queued"

(* The locked row is rechecked against its newest version, but NOT EXISTS is *)
(* still that of the snapshot.                                               *)
Claimable(j) == job[j].status = "queued" \/ MayBeSeenExpired(j)

ExpiredAttempt(row) ==
    [row EXCEPT !.state = "failed", !.summary = "lease expired before provider start"]

(* claim, from the row lock to the commit.  ORDER BY prefers the oldest job, *)
(* SKIP LOCKED and the relay's hint may pick another.                        *)
Claim(w) ==
    /\ worker[w].step = "scanned"
    /\ \E j \in worker[w].scan :
          LET n == job[j].count + 1
              old == IF job[j].status = "running"
                     THEN [attempt[j] EXCEPT ![job[j].count] = ExpiredAttempt(@)]
                     ELSE attempt[j]
          IN /\ Claimable(j)
             /\ n \in Numbers
             /\ job' = [job EXCEPT ![j] = [@ EXCEPT !.status = "running", !.count = n,
                                                    !.owner = w, !.lease = "live"]]
             /\ attempt' = [attempt EXCEPT
                   ![j] = [old EXCEPT ![n] = [NoAttempt EXCEPT !.worker = w,
                                                               !.state = "claimed"]]]
             /\ worker' = [worker EXCEPT
                   ![w] = [@ EXCEPT !.step = "claimed", !.scan = {}, !.heartbeat = "on",
                                    !.task = [job |-> j, number |-> n]]]
    /\ UNCHANGED <<requests, photos, faults>>

(* (A claim beyond the bound counts as none.)                                *)
ClaimNothing(w) ==
    /\ worker[w].step = "scanned"
    /\ \A j \in worker[w].scan : Claimable(j) => job[j].count = MaxAttempts
    /\ GoIdle(w)
    /\ UNCHANGED <<job, attempt, requests, photos, faults>>

-----------------------------------------------------------------------------
(* execute, in the order of its transactions and external calls.             *)

(* The intent and the source resolved; mark_source_ready (which checks       *)
(* ownership only) commits.                                                  *)
MarkSourceReady(w) ==
    /\ worker[w].step = "claimed"
    /\ MayOwn(w)
    /\ SetMyRow(w, [MyRow(w) EXCEPT !.state = "source_ready"])
    /\ GoTo(w, "source_ready")
    /\ UNCHANGED <<job, requests, photos, faults>>

(* MediaRejection or CustomReferenceError before anything was marked.        *)
InputRejected(w) ==
    /\ worker[w].step = "claimed"
    /\ GoFail(w, "definite")
    /\ UNCHANGED <<job, attempt, requests, photos, faults>>

(* Mutant of StartIsUnique: no unique index.                                 *)
MutantStartUnconstrained(w) == TRUE

(* uq_generation_attempts_one_provider_start: a job has one attempt with     *)
(* provider_started_at.                                                      *)
StartIsUnique(w) ==
    \A n \in Numbers \ {worker[w].task.number} : ~attempt[MyJob(w)][n].started

MarkProviderStarted(w) ==
    /\ worker[w].step = "source_ready"
    /\ MayOwn(w)
    /\ MyRow(w).state = "source_ready"
    /\ StartIsUnique(w)
    /\ SetMyRow(w, [MyRow(w) EXCEPT !.state = "provider_started", !.started = TRUE])
    /\ GoTo(w, "connect")
    /\ UNCHANGED <<job, requests, photos, faults>>

(* Mutant of ConnectFails: the safe retry is not limited to one.             *)
MutantConnectRetries(w) ==
    /\ worker[w].step \in {"connect", "reconnect"}
    /\ MayOwn(w)
    /\ MyRow(w).state = "provider_started"
    /\ SetMyRow(w, [MyRow(w) EXCEPT !.retries = @ + 1])
    /\ GoTo(w, "reconnect")
    /\ UNCHANGED <<job, requests, photos, faults>>

(* generate could not connect, so nothing was sent: the first time it asks   *)
(* the hook to record the one safe retry.                                    *)
ConnectFails(w) ==
    /\ worker[w].step = "connect"
    /\ MayOwn(w)
    /\ MyRow(w).state = "provider_started"
    /\ MyRow(w).retries = 0
    /\ SetMyRow(w, [MyRow(w) EXCEPT !.retries = 1])
    /\ GoTo(w, "reconnect")
    /\ UNCHANGED <<job, requests, photos, faults>>

(* generate gives up without sending: it failed to connect a second time, or *)
(* has no key.                                                               *)
ProviderUnavailable(w) ==
    /\ worker[w].step \in {"connect", "reconnect"}
    /\ GoFail(w, "definite")
    /\ UNCHANGED <<job, attempt, requests, photos, faults>>

(* The request reaches the provider.                                         *)
Upload(w) ==
    /\ worker[w].step \in {"connect", "reconnect"}
    /\ requests' = [requests EXCEPT ![MyJob(w)] = @ + 1]
    /\ GoTo(w, "uploaded")
    /\ UNCHANGED <<job, attempt, photos, faults>>

(* The provider answers with an image, answers with an error or an invalid   *)
(* image, or the answer is lost.                                             *)
ProviderAnswers(w) ==
    /\ worker[w].step = "uploaded"
    /\ \/ GoTo(w, "generated")
       \/ GoFail(w, "definite")
       \/ GoFail(w, "provider_ambiguous")
    /\ UNCHANGED <<job, attempt, requests, photos, faults>>

MarkProviderSucceeded(w) ==
    /\ worker[w].step = "generated"
    /\ MayOwn(w)
    /\ MyRow(w).state = "provider_started"
    /\ SetMyRow(w, [MyRow(w) EXCEPT !.state = "provider_succeeded"])
    /\ GoTo(w, "provider_succeeded")
    /\ UNCHANGED <<job, requests, photos, faults>>

NormalizationFails(w) ==
    /\ worker[w].step = "provider_succeeded"
    /\ GoFail(w, "definite")
    /\ UNCHANGED <<job, attempt, requests, photos, faults>>

MarkDelivering(w) ==
    /\ worker[w].step = "provider_succeeded"
    /\ MayOwn(w)
    /\ MyRow(w).state = "provider_succeeded"
    /\ SetMyRow(w, [MyRow(w) EXCEPT !.state = "delivering", !.delivering = TRUE])
    /\ GoTo(w, "delivering")
    /\ UNCHANGED <<job, requests, photos, faults>>

(* send_result: a receipt; a network error or an unusable receipt, after     *)
(* which the photo may or may not have arrived; or a definite refusal.  Its  *)
(* one retry follows a TelegramRetryAfter, which delivers nothing.           *)
SendResult(w) ==
    /\ worker[w].step = "delivering"
    /\ \E arrived \in {0, 1} :
          /\ photos' = [photos EXCEPT ![MyJob(w)] = @ + arrived]
          /\ \/ arrived = 1 /\ GoTo(w, "sent")
             \/ GoFail(w, "delivery_ambiguous")
             \/ arrived = 0 /\ GoFail(w, "definite")
    /\ UNCHANGED <<job, attempt, requests, faults>>

(* Mutant of MarkSucceeded: it commits before the result is sent.            *)
MutantSucceedsEarly(w) ==
    /\ worker[w].step = "delivering"
    /\ MayOwn(w)
    /\ SetMyRow(w, [MyRow(w) EXCEPT !.state = "succeeded"])
    /\ job' = [job EXCEPT ![MyJob(w)] = Finished(@, "succeeded", "none", "consumed")]
    /\ GoIdle(w)
    /\ UNCHANGED <<requests, photos, faults>>

(* The heartbeat task is awaited, then mark_succeeded commits.               *)
MarkSucceeded(w) ==
    /\ worker[w].step = "sent"
    /\ worker[w].heartbeat = "on"
    /\ MayOwn(w)
    /\ ~Uncounted(MyJob(w))
    /\ MyRow(w).state = "delivering"
    /\ SetMyRow(w, [MyRow(w) EXCEPT !.state = "succeeded"])
    /\ job' = [job EXCEPT ![MyJob(w)] = Finished(@, "succeeded", "none", "consumed")]
    /\ GoIdle(w)
    /\ UNCHANGED <<requests, photos, faults>>

(* Any other exception in the body of execute: that of the unique index, and *)
(* that of a mark_succeeded whose release is refused, among them.            *)
UnexpectedError(w) ==
    /\ Executing(w)
    /\ worker[w].step # "failing"
    /\ GoFail(w, "internal")
    /\ UNCHANGED <<job, attempt, requests, photos, faults>>

(* _fail: the heartbeat is awaited, then mark_failed commits even if the     *)
(* lease has expired, as long as nobody else took or ended the job.          *)
Fail(w) ==
    /\ worker[w].step = "failing"
    /\ worker[w].heartbeat = "on"
    /\ Owned(w)
    /\ ~Uncounted(MyJob(w))
    /\ LET ambiguous == worker[w].code \in {"provider_ambiguous", "delivery_ambiguous"}
       IN SetMyRow(w, [MyRow(w) EXCEPT !.state = IF ambiguous THEN "ambiguous" ELSE "failed",
                                       !.summary = "other"])
    /\ job' = [job EXCEPT ![MyJob(w)] = Finished(@, "failed", worker[w].code, "released")]
    /\ GoIdle(w)
    /\ UNCHANGED <<requests, photos, faults>>

-----------------------------------------------------------------------------
(* The attempt is given up without a word in the database.                   *)

(* A transaction raises LostLeaseError, which execute re-raises.             *)
LoseLease(w) ==
    /\ \/ /\ worker[w].step \in {"claimed", "source_ready", "connect", "generated",
                                 "provider_succeeded"}
          /\ ~MustOwn(w)
       \/ worker[w].step = "sent" /\ worker[w].heartbeat = "on" /\ ~MustOwn(w)
       \/ worker[w].step = "failing" /\ worker[w].heartbeat = "on" /\ ~Owned(w)
    /\ GoIdle(w)
    /\ UNCHANGED <<job, attempt, requests, photos, faults>>

(* release raises inside mark_failed: the failure is rolled back, and the    *)
(* exception ends the execution.                                             *)
ReleaseRefused(w) ==
    /\ worker[w].step = "failing"
    /\ worker[w].heartbeat = "on"
    /\ Owned(w)
    /\ Uncounted(MyJob(w))
    /\ GoIdle(w)
    /\ UNCHANGED <<job, attempt, requests, photos, faults>>

(* Awaiting a heartbeat task that died re-raises its exception, from the     *)
(* success path and from _fail alike.                                        *)
HeartbeatRaises(w) ==
    /\ worker[w].step \in {"sent", "failing"}
    /\ worker[w].heartbeat = "raised"
    /\ GoIdle(w)
    /\ UNCHANGED <<job, attempt, requests, photos, faults>>

(* The process dies, or the transaction of run_once or of mark_failed does.  *)
Crash(w) ==
    /\ worker[w].step # "idle"
    /\ faults < MaxFaults
    /\ faults' = faults + 1
    /\ GoIdle(w)
    /\ UNCHANGED <<job, attempt, requests, photos>>

(* heartbeat extends the lease it still sees.                                *)
Heartbeat(w) ==
    /\ worker[w].heartbeat = "on"
    /\ MayOwn(w)
    /\ SetLease(MyJob(w), "live")
    /\ UNCHANGED <<attempt, worker, requests, photos, faults>>

(* The heartbeat task ends with LostLeaseError, or with a database failure;  *)
(* execute goes on and learns of it when it awaits the task.                 *)
HeartbeatDies(w) ==
    /\ worker[w].heartbeat = "on"
    /\ \/ ~MustOwn(w) /\ UNCHANGED faults
       \/ faults < MaxFaults /\ faults' = faults + 1
    /\ worker' = [worker EXCEPT ![w] = [@ EXCEPT !.heartbeat = "raised"]]
    /\ UNCHANGED <<job, attempt, requests, photos>>

(* Nobody renews the job's lease.                                            *)
Unattended(j) == ~ \E w \in Workers : worker[w].heartbeat = "on" /\ MyJob(w) = j /\ Owned(w)

(* A lease runs out: because nobody renews it, or because its owner stalls.  *)
LeaseLapses(j) ==
    /\ job[j].status = "running"
    /\ job[j].lease = "live"
    /\ \/ Unattended(j) /\ UNCHANGED faults
       \/ ~Unattended(j) /\ faults < MaxFaults /\ faults' = faults + 1
    /\ SetLease(j, "lapsing")
    /\ UNCHANGED <<attempt, worker, requests, photos>>

LeaseExpires(j) ==
    /\ job[j].status = "running"
    /\ job[j].lease = "lapsing"
    /\ SetLease(j, "expired")
    /\ UNCHANGED <<attempt, worker, requests, photos, faults>>

(* Other jobs on the color: retain counted two of them once (CustomColors    *)
(* shows how), so the end of one takes the count of the other; a later       *)
(* acceptance counts again.  The bound leaves the job an attempt for itself  *)
(* and one for each fault to come.                                           *)
SetReference(j, reference) == job' = [job EXCEPT ![j] = [@ EXCEPT !.reference = reference]]

Uncount(j) ==
    /\ job[j].reference = "held"
    /\ SetReference(j, "uncounted")
    /\ UNCHANGED <<attempt, worker, requests, photos, faults>>

Recount(j) ==
    /\ Uncounted(j)
    /\ job[j].count + (MaxFaults - faults) < MaxAttempts
    /\ SetReference(j, "held")
    /\ UNCHANGED <<attempt, worker, requests, photos, faults>>

-----------------------------------------------------------------------------

(* What execute does next when nothing interrupts it.                        *)
Proceed(w) ==
    \/ MarkSourceReady(w) \/ InputRejected(w)
    \/ MarkProviderStarted(w)
    \/ ConnectFails(w) \/ ProviderUnavailable(w) \/ Upload(w) \/ ProviderAnswers(w)
    \/ MarkProviderSucceeded(w) \/ NormalizationFails(w)
    \/ MarkDelivering(w) \/ SendResult(w)
    \/ MarkSucceeded(w) \/ UnexpectedError(w) \/ Fail(w)
    \/ ReleaseRefused(w) \/ LoseLease(w) \/ HeartbeatRaises(w)

Next ==
    \/ \E j \in Jobs :
          \/ Accept(j) \/ LeaseLapses(j) \/ LeaseExpires(j)
          \/ Uncount(j) \/ Recount(j)
    \/ \E w \in Workers :
          \/ Poll(w) \/ Claim(w) \/ ClaimNothing(w)
          \/ Proceed(w)
          \/ Crash(w) \/ Heartbeat(w) \/ HeartbeatDies(w)

Spec == Init /\ [][Next]_vars

(* A worker's loop keeps polling and an execution keeps going (its external  *)
(* calls carry timeouts, compose restarts a dead process); time passes.      *)
(* Nothing is assumed of users or other jobs, and faults are never forced.   *)
Fairness ==
    /\ \A w \in Workers : /\ WF_vars(Poll(w))
                          /\ WF_vars(Claim(w) \/ ClaimNothing(w))
                          /\ WF_vars(Proceed(w))
    /\ \A j \in Jobs : WF_vars(Unattended(j) /\ LeaseLapses(j)) /\ WF_vars(LeaseExpires(j))

FairSpec == Spec /\ Fairness

-----------------------------------------------------------------------------
(***************************************************************************)
(* Properties.                                                             *)
(***************************************************************************)

(* A job costs at most one image request, whatever crashes, expired leases   *)
(* and reclaims happen to it: "never regenerate automatically".              *)
AtMostOneRequest == \A j \in Jobs : requests[j] <= 1

(* The user receives the result of a job at most once.                       *)
AtMostOnePhoto == \A j \in Jobs : photos[j] <= 1

(* Every job settles what it holds exactly when it ends: its reservation is  *)
(* consumed only if its photo arrived, released if it failed, and untouched  *)
(* before; its custom reference is held until then and no longer.            *)
Settlement ==
    \A j \in Jobs :
        /\ job[j].status \in {"queued", "running"} =>
              job[j].charge \in {"exempt", "reserved"}
        /\ job[j].status = "succeeded" =>
              photos[j] = 1 /\ job[j].charge \in {"exempt", "consumed"}
        /\ job[j].status = "failed" => job[j].charge \in {"exempt", "released"}
        /\ Terminal(j) => job[j].reference \in {"none", "released"}
        /\ job[j].reference = "released" => Terminal(j)

(* The lease owner of a running job is the worker of its current attempt,    *)
(* and that attempt is not over: otherwise reconcile_expired would raise     *)
(* LostLeaseError out of run_once and end the worker process.                *)
OwnerHoldsCurrentAttempt ==
    \A j \in Jobs : job[j].status = "running" =>
        /\ job[j].count \in Numbers
        /\ job[j].owner \in Workers
        /\ attempt[j][job[j].count].worker = job[j].owner
        /\ attempt[j][job[j].count].state \notin {"none", "succeeded", "failed", "ambiguous"}

(* A job that ends leaves no way back: its row never changes again.          *)
TerminalIsFinal == [][\A j \in Jobs : Terminal(j) => job'[j] = job[j]]_vars

(* Every accepted job ends, through worker crashes, stalls and lost leases,  *)
(* and without any hint of the relay, provided that the references of the    *)
(* jobs stay counted from some time on: however late, that is enough.        *)
EveryJobEnds ==
    <>[](\A j \in Jobs : ~Uncounted(j)) =>
        \A j \in Jobs : job[j].status = "queued" ~> Terminal(j)

(* A failure after the photo arrived is never reported as one before the     *)
(* delivery: reconcile_expired and the worker tell the two apart by the      *)
(* attempt in force, which is the one that called the provider unless a      *)
(* claim raced with it (ExpiredBeforeStartIsTrue).                           *)
HonestFailure ==
    \A j \in Jobs :
        /\ job[j].status = "failed"
        /\ photos[j] = 1
        /\ attempt[j][job[j].count].started
        => job[j].error \in {"internal", "delivery_ambiguous"}

(* Workers, leases, attempts and their crashes implement the promise of      *)
(* GenerationJob.                                                            *)
Promise == INSTANCE GenerationJob WITH
               status <- [j \in Jobs |-> job[j].status],
               charge <- [j \in Jobs |-> job[j].charge]

ImplementsPromise == Promise!Spec

(* What claim writes into error_summary of the attempt it supersedes.        *)
ExpiredBeforeStartIsTrue ==
    \A j \in Jobs, n \in Numbers :
        attempt[j][n].summary = "lease expired before provider start" =>
            ~attempt[j][n].started

-----------------------------------------------------------------------------
(***************************************************************************)
(* The inductive invariant behind the safety properties.                   *)
(***************************************************************************)

(* A worker that executes holds an attempt it created; any other holds none. *)
TaskInv ==
    \A w \in Workers :
        /\ Executing(w) =>
              /\ MyJob(w) \in Jobs
              /\ worker[w].task.number \in 1..job[MyJob(w)].count
              /\ MyRow(w).worker = w
        /\ ~Executing(w) => worker[w].task = NoTask /\ worker[w].heartbeat = "off"

(* A job has attempts 1..count and no others, and none before its claim.     *)
CountInv ==
    \A j \in Jobs :
        /\ job[j].status \in {"absent", "queued"} => job[j].count = 0
        /\ \A n \in Numbers : n > job[j].count => attempt[j][n] = NoAttempt

(* One attempt of a job at most has started the provider, and its worker     *)
(* knows whether it is its own.                                              *)
StartInv ==
    /\ \A j \in Jobs, m, n \in Numbers :
          attempt[j][m].started /\ attempt[j][n].started => m = n
    /\ \A w \in Workers :
          /\ worker[w].step \in {"claimed", "source_ready"} => ~MyRow(w).started
          /\ worker[w].step \in {"connect", "reconnect", "uploaded", "generated",
                                 "provider_succeeded", "delivering", "sent"} =>
                MyRow(w).started

(* A request belongs to a started attempt, and is not repeated by it.        *)
RequestInv ==
    /\ \A j \in Jobs : requests[j] \in {0, 1} /\ (requests[j] = 1 => Started(j))
    /\ \A w \in Workers :
          /\ worker[w].step \in {"connect", "reconnect"} => requests[MyJob(w)] = 0
          /\ worker[w].step \in {"uploaded", "generated", "provider_succeeded",
                                 "delivering", "sent"} => requests[MyJob(w)] = 1

(* A photo belongs to a started attempt, and is not repeated by it.          *)
PhotoInv ==
    /\ \A j \in Jobs : photos[j] \in {0, 1} /\ (photos[j] = 1 => Started(j))
    /\ \A w \in Workers :
          /\ worker[w].step \in {"connect", "reconnect", "uploaded", "generated",
                                 "provider_succeeded", "delivering"} =>
                photos[MyJob(w)] = 0
          /\ worker[w].step = "sent" => photos[MyJob(w)] = 1

IInv ==
    /\ TypeOK
    /\ TaskInv
    /\ CountInv
    /\ OwnerHoldsCurrentAttempt
    /\ StartInv
    /\ RequestInv
    /\ PhotoInv
    /\ Settlement

-----------------------------------------------------------------------------
(* What HonestFailure needs beyond IInv: a job that failed had an attempt;   *)
(* a photo arrived only through a row marked as delivering; a worker that    *)
(* reports a failure after its photo arrived says so; and a job that was     *)
(* given up while its photo is being sent was given up as a delivery.        *)
DeliveryCodes == {"internal", "delivery_ambiguous"}

EndedInv == \A j \in Jobs : job[j].status = "failed" => job[j].count \in Numbers

DeliveringInv ==
    /\ \A j \in Jobs, n \in Numbers :
          photos[j] = 1 /\ attempt[j][n].started => attempt[j][n].delivering
    /\ \A w \in Workers :
          worker[w].step \in {"delivering", "sent"} => MyRow(w).delivering

ReportInv ==
    \A w \in Workers :
        worker[w].step = "failing" /\ MyRow(w).started /\ photos[MyJob(w)] = 1 =>
            worker[w].code \in DeliveryCodes

LateInv ==
    \A w \in Workers :
        /\ worker[w].step = "delivering"
        /\ job[MyJob(w)].status = "failed"
        /\ attempt[MyJob(w)][job[MyJob(w)].count].started
        => job[MyJob(w)].error \in DeliveryCodes

HonestInv ==
    /\ EndedInv
    /\ DeliveringInv
    /\ ReportInv
    /\ LateInv
    /\ HonestFailure
===============================================================================
