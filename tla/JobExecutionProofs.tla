-------------------------- MODULE JobExecutionProofs --------------------------
(***************************************************************************)
(* Proofs that the safety properties of JobExecution hold for every set of  *)
(* jobs and workers and every bound on attempts and faults: first those that *)
(* follow from one inductive invariant; then, with it, that a job keeps its   *)
(* end for good, that the worker protocol implements the promise stated in   *)
(* GenerationJob, and that it never hides a delivered photo behind another   *)
(* failure.                                                                  *)
(***************************************************************************)
EXTENDS JobExecution, TLAPS

-----------------------------------------------------------------------------
(* The shape of rows and worker states under the updates the actions make.   *)

(* An update with a value of the range keeps a function's type.              *)
LEMMA Update ==
    ASSUME NEW S, NEW T, NEW f \in [S -> T], NEW a, NEW b \in T
    PROVE  [f EXCEPT ![a] = b] \in [S -> T]
  OBVIOUS

(* What claim and accept write into a job's row.                             *)
LEMMA JobUpdates ==
    ASSUME NEW row \in JobRow
    PROVE  /\ \A charge \in {"exempt", "reserved"}, reference \in {"none", "held"} :
                 [row EXCEPT !.status = "queued", !.charge = charge,
                             !.reference = reference] \in JobRow
           /\ \A n \in 0..MaxAttempts, w \in Workers :
                 [row EXCEPT !.status = "running", !.count = n, !.owner = w,
                             !.lease = "live"] \in JobRow
  <1>1. ASSUME NEW charge \in {"exempt", "reserved"}, NEW reference \in {"none", "held"}
        PROVE  [row EXCEPT !.status = "queued", !.charge = charge,
                           !.reference = reference] \in JobRow
    BY DEF JobRow
  <1>2. ASSUME NEW n \in 0..MaxAttempts, NEW w \in Workers
        PROVE  [row EXCEPT !.status = "running", !.count = n, !.owner = w,
                           !.lease = "live"] \in JobRow
    BY DEF JobRow
  <1> QED BY <1>1, <1>2

(* _finish_job changes the status, the error and what the job holds, and     *)
(* keeps the row a row.                                                      *)
LEMMA FinishedType ==
    ASSUME NEW row \in JobRow, NEW status \in {"succeeded", "failed"},
           NEW error \in Codes, NEW settled \in {"consumed", "released"}
    PROVE  /\ Finished(row, status, error, settled) \in JobRow
           /\ Finished(row, status, error, settled).status = status
           /\ Finished(row, status, error, settled).count = row.count
           /\ Finished(row, status, error, settled).error = error
           /\ Finished(row, status, error, settled).charge =
                 IF row.charge = "reserved" THEN settled ELSE row.charge
           /\ Finished(row, status, error, settled).reference =
                 IF row.reference = "held" THEN "released" ELSE row.reference
  BY DEF Finished, JobRow

(* A lease update keeps every row a row.                                     *)
LEMMA SetLeaseType ==
    ASSUME TypeOK, NEW j \in Jobs, NEW lease \in {"live", "lapsing", "expired"},
           SetLease(j, lease)
    PROVE  job' \in [Jobs -> JobRow]
  <1>1. ASSUME NEW row \in JobRow PROVE [row EXCEPT !.lease = lease] \in JobRow
    BY DEF JobRow
  <1> QED BY <1>1 DEF SetLease, TypeOK

(* Writing one attempt's row keeps the table a table.                        *)
LEMMA SetMyRowType ==
    ASSUME TypeOK, NEW w \in Workers, NEW row \in AttemptRow, SetMyRow(w, row)
    PROVE  attempt' \in [Jobs -> [Numbers -> AttemptRow]]
  BY DEF TypeOK, SetMyRow, Numbers

(* An idle worker's state, and the row of an attempt nobody created.         *)
LEMMA IdleType == Idle \in WorkerState /\ NoAttempt \in AttemptRow
  <1>1. NoTask \in Task
    BY ConstantsAssumption DEF ConstantsAssumption, Task, NoTask
  <1> QED BY <1>1 DEF WorkerState, Idle, Steps, Codes, NoAttempt, AttemptRow, AttemptStates

(* Moving to another step of execute, into _fail, or back to the loop keeps  *)
(* a worker's state a worker's state.                                        *)
LEMMA WorkerType ==
    ASSUME TypeOK, NEW w \in Workers
    PROVE  /\ \A step \in Steps : GoTo(w, step) => worker' \in [Workers -> WorkerState]
           /\ \A code \in Codes : GoFail(w, code) => worker' \in [Workers -> WorkerState]
           /\ GoIdle(w) => worker' \in [Workers -> WorkerState]
  <1>1. ASSUME NEW state \in WorkerState, NEW step \in Steps
        PROVE  [state EXCEPT !.step = step] \in WorkerState
    BY DEF WorkerState
  <1>2. ASSUME NEW state \in WorkerState, NEW code \in Codes
        PROVE  [state EXCEPT !.step = "failing", !.code = code] \in WorkerState
    BY DEF WorkerState, Steps
  <1>3. worker \in [Workers -> WorkerState] BY DEF TypeOK
  <1>4. ASSUME NEW step \in Steps, GoTo(w, step) PROVE worker' \in [Workers -> WorkerState]
    BY <1>1, <1>3, <1>4 DEF GoTo
  <1>5. ASSUME NEW code \in Codes, GoFail(w, code) PROVE worker' \in [Workers -> WorkerState]
    BY <1>2, <1>3, <1>5 DEF GoFail
  <1>6. ASSUME GoIdle(w) PROVE worker' \in [Workers -> WorkerState]
    BY <1>3, <1>6, IdleType DEF GoIdle
  <1> QED BY <1>4, <1>5, <1>6

-----------------------------------------------------------------------------
(* What an executing worker holds.                                           *)
LEMMA Holding ==
    ASSUME TypeOK, TaskInv, NEW w \in Workers, Executing(w)
    PROVE  /\ MyJob(w) \in Jobs
           /\ worker[w].task.number \in Numbers
           /\ worker[w].task.number \in 1..job[MyJob(w)].count
           /\ job[MyJob(w)].count \in 0..MaxAttempts
           /\ job[MyJob(w)] \in JobRow
           /\ MyRow(w) \in AttemptRow
           /\ MyRow(w).worker = w
  BY ConstantsAssumption
     DEF ConstantsAssumption, TaskInv, TypeOK, MyJob, MyRow, Numbers, JobRow

(* Where an action says that the worker stands at a step of execute, it      *)
(* executes.                                                                 *)
LEMMA StepExecutes ==
    ASSUME NEW w \in Workers,
           \/ worker[w].step \in Steps \ {"idle", "scanned"}
           \/ TypeOK /\ TaskInv /\ (worker[w].heartbeat = "on" \/ MyJob(w) # NoJob)
    PROVE  Executing(w)
  BY DEF Executing, TaskInv, TypeOK, MyJob, NoTask, Steps

(* The row SetMyRow writes keeps the attempt's worker.                       *)
LEMMA RowUpdates ==
    ASSUME NEW row \in AttemptRow
    PROVE  /\ \A state \in AttemptStates : [row EXCEPT !.state = state] \in AttemptRow
           /\ [row EXCEPT !.state = "provider_started", !.started = TRUE] \in AttemptRow
           /\ [row EXCEPT !.retries = 1] \in AttemptRow
           /\ [row EXCEPT !.state = "delivering", !.delivering = TRUE] \in AttemptRow
           /\ \A state \in AttemptStates :
                 [row EXCEPT !.state = state, !.summary = "other"] \in AttemptRow
           /\ ExpiredAttempt(row) \in AttemptRow
           /\ \A w \in Workers : [NoAttempt EXCEPT !.worker = w, !.state = "claimed"] \in AttemptRow
  <1> USE DEF AttemptRow
  <1>1. ASSUME NEW state \in AttemptStates PROVE [row EXCEPT !.state = state] \in AttemptRow
    OBVIOUS
  <1>2. [row EXCEPT !.state = "provider_started", !.started = TRUE] \in AttemptRow
    BY DEF AttemptStates
  <1>3. [row EXCEPT !.retries = 1] \in AttemptRow
    OBVIOUS
  <1>4. [row EXCEPT !.state = "delivering", !.delivering = TRUE] \in AttemptRow
    BY DEF AttemptStates
  <1>5. ASSUME NEW state \in AttemptStates
        PROVE  [row EXCEPT !.state = state, !.summary = "other"] \in AttemptRow
    OBVIOUS
  <1>6. ExpiredAttempt(row) \in AttemptRow
    BY DEF AttemptStates, ExpiredAttempt
  <1>7. ASSUME NEW w \in Workers
        PROVE  [NoAttempt EXCEPT !.worker = w, !.state = "claimed"] \in AttemptRow
    BY DEF AttemptStates, NoAttempt
  <1> HIDE DEF AttemptRow
  <1> QED BY <1>1, <1>2, <1>3, <1>4, <1>5, <1>6, <1>7

(* The count under a reference comes and goes without a job ending: nothing  *)
(* else of any job changes.                                                  *)
LEMMA CountEffect ==
    ASSUME TypeOK, NEW j \in Jobs, Uncount(j) \/ Recount(j)
    PROVE  /\ job' \in [Jobs -> JobRow]
           /\ \A i \in Jobs \ {j} : job'[i] = job[i]
           /\ job[j].reference \in {"held", "uncounted"}
           /\ job'[j].reference \in {"held", "uncounted"}
           /\ \A i \in Jobs :
                 /\ job'[i].status = job[i].status
                 /\ job'[i].count = job[i].count
                 /\ job'[i].owner = job[i].owner
                 /\ job'[i].charge = job[i].charge
                 /\ job'[i].error = job[i].error
  <1>1. job \in [Jobs -> JobRow] BY DEF TypeOK
  <1>2. PICK reference \in {"held", "uncounted"} :
           job' = [job EXCEPT ![j] = [@ EXCEPT !.reference = reference]]
    BY DEF Uncount, Recount, SetReference
  <1>3. ASSUME NEW row \in JobRow
        PROVE  /\ [row EXCEPT !.reference = reference] \in JobRow
               /\ [row EXCEPT !.reference = reference].reference = reference
               /\ [row EXCEPT !.reference = reference].status = row.status
               /\ [row EXCEPT !.reference = reference].count = row.count
               /\ [row EXCEPT !.reference = reference].owner = row.owner
               /\ [row EXCEPT !.reference = reference].charge = row.charge
               /\ [row EXCEPT !.reference = reference].error = row.error
    BY DEF JobRow
  <1>4. job[j] \in JobRow BY <1>1
  <1>5. /\ job'[j] = [job[j] EXCEPT !.reference = reference]
        /\ \A i \in Jobs \ {j} : job'[i] = job[i]
    BY <1>1, <1>2
  <1>6. job[j].reference \in {"held", "uncounted"} BY DEF Uncount, Recount, Uncounted
  <1>7. job' \in [Jobs -> JobRow]
    <2>1. [job[j] EXCEPT !.reference = reference] \in JobRow BY <1>3, <1>4
    <2> QED BY <1>1, <1>2, <2>1, Update
  <1>8. /\ job'[j].reference = reference
        /\ job'[j].status = job[j].status
        /\ job'[j].count = job[j].count
        /\ job'[j].owner = job[j].owner
        /\ job'[j].charge = job[j].charge
        /\ job'[j].error = job[j].error
    <2>1. job'[j] = [job[j] EXCEPT !.reference = reference] BY <1>5
    <2> QED BY <1>3, <1>4, <2>1
  <1> QED BY <1>5, <1>6, <1>7, <1>8

(* Every step keeps the types.                                               *)
LEMMA TypeStep ==
    ASSUME IInv, [Next]_vars
    PROVE  TypeOK'
  <1> USE ConstantsAssumption DEF ConstantsAssumption
  <1>t. TypeOK /\ TaskInv BY DEF IInv
  <1>c. ASSUME NEW j \in Jobs, job[j].status = "running"
        PROVE  job[j].count \in Numbers
    BY <1>c DEF IInv, OwnerHoldsCurrentAttempt
  <1>1. ASSUME NEW j \in Jobs, Accept(j) PROVE TypeOK'
    <2>1. job \in [Jobs -> JobRow] BY <1>t DEF TypeOK
    <2>2. PICK charge \in {"exempt", "reserved"}, reference \in {"none", "held"} :
             job' = [job EXCEPT ![j] = [@ EXCEPT !.status = "queued", !.charge = charge,
                                                 !.reference = reference]]
      BY <1>1 DEF Accept
    <2>3. [job[j] EXCEPT !.status = "queued", !.charge = charge,
                         !.reference = reference] \in JobRow
      BY <2>1, JobUpdates
    <2>4. job' \in [Jobs -> JobRow]
      BY <2>1, <2>2, <2>3, Update
    <2> QED BY <1>t, <1>1, <2>4 DEF Accept, TypeOK
  <1>2. ASSUME NEW j \in Jobs, LeaseLapses(j) PROVE TypeOK'
    <2>1. job' \in [Jobs -> JobRow]
      BY <1>t, <1>2, SetLeaseType DEF LeaseLapses
    <2>2. faults' \in 0..MaxFaults
      BY <1>t, <1>2 DEF LeaseLapses, TypeOK
    <2> QED BY <1>t, <1>2, <2>1, <2>2 DEF LeaseLapses, TypeOK
  <1>3. ASSUME NEW j \in Jobs, LeaseExpires(j) PROVE TypeOK'
    <2>1. job' \in [Jobs -> JobRow]
      BY <1>t, <1>3, SetLeaseType DEF LeaseExpires
    <2> QED BY <1>t, <1>3, <2>1 DEF LeaseExpires, TypeOK
  <1>4. ASSUME NEW w \in Workers, Poll(w) PROVE TypeOK'
    <2> PICK batch \in SUBSET {j \in Jobs : MayBeSeenExpired(j) /\ Started(j) /\ ~Uncounted(j)},
             seen \in SUBSET {j \in Jobs : MayBeSeenExpired(j) /\ ~Started(j)} :
          /\ job' = [j \in Jobs |-> IF j \in batch THEN Reconciled(j) ELSE job[j]]
          /\ attempt' = [j \in Jobs |->
                IF j \in batch
                THEN [attempt[j] EXCEPT ![job[j].count] =
                         [@ EXCEPT !.state = "ambiguous", !.summary = "other"]]
                ELSE attempt[j]]
          /\ worker' = [worker EXCEPT
                ![w] = [@ EXCEPT !.step = "scanned",
                                 !.scan = seen \cup {j \in Jobs : job[j].status = "queued"}]]
      BY <1>4 DEF Poll
    <2>1. job' \in [Jobs -> JobRow]
      BY <1>t, FinishedType DEF TypeOK, Reconciled, Codes
    <2>2. attempt' \in [Jobs -> [Numbers -> AttemptRow]]
      <3>0. attempt \in [Jobs -> [Numbers -> AttemptRow]] BY <1>t DEF TypeOK
      <3>1. ASSUME NEW j \in batch
            PROVE  [attempt[j][job[j].count] EXCEPT !.state = "ambiguous", !.summary = "other"]
                   \in AttemptRow
        <4>1. j \in Jobs /\ job[j].count \in Numbers
          BY <1>c DEF MayBeSeenExpired
        <4>2. attempt[j][job[j].count] \in AttemptRow
          BY <3>0, <4>1
        <4> QED BY <4>2, RowUpdates DEF AttemptStates
      <3>2. ASSUME NEW j \in batch
            PROVE  [attempt[j] EXCEPT ![job[j].count] =
                       [@ EXCEPT !.state = "ambiguous", !.summary = "other"]]
                   \in [Numbers -> AttemptRow]
        BY <3>0, <3>1, Update
      <3> QED BY <3>0, <3>2
    <2>3. worker' \in [Workers -> WorkerState]
      <3>1. ASSUME NEW state \in WorkerState, NEW scan \in SUBSET Jobs
            PROVE  [state EXCEPT !.step = "scanned", !.scan = scan] \in WorkerState
        BY DEF WorkerState, Steps
      <3>2. seen \cup {j \in Jobs : job[j].status = "queued"} \in SUBSET Jobs
        OBVIOUS
      <3> QED BY <1>t, <3>1, <3>2 DEF TypeOK
    <2> QED BY <1>t, <1>4, <2>1, <2>2, <2>3 DEF Poll, TypeOK
  <1>5. ASSUME NEW w \in Workers, Claim(w) PROVE TypeOK'
    <2> PICK j \in worker[w].scan :
          LET n == job[j].count + 1
              old == IF job[j].status = "running"
                     THEN [attempt[j] EXCEPT ![job[j].count] = ExpiredAttempt(@)]
                     ELSE attempt[j]
          IN /\ n \in Numbers
             /\ job' = [job EXCEPT ![j] = [@ EXCEPT !.status = "running", !.count = n,
                                                    !.owner = w, !.lease = "live"]]
             /\ attempt' = [attempt EXCEPT
                   ![j] = [old EXCEPT ![n] = [NoAttempt EXCEPT !.worker = w,
                                                               !.state = "claimed"]]]
             /\ worker' = [worker EXCEPT
                   ![w] = [@ EXCEPT !.step = "claimed", !.scan = {}, !.heartbeat = "on",
                                    !.task = [job |-> j, number |-> n]]]
      BY <1>5 DEF Claim
    <2>j. j \in Jobs BY <1>t DEF TypeOK, WorkerState
    <2>1. job' \in [Jobs -> JobRow]
      <3>1. job \in [Jobs -> JobRow] BY <1>t DEF TypeOK
      <3>2. job[j].count + 1 \in 0..MaxAttempts
        BY DEF Numbers
      <3>3. [job[j] EXCEPT !.status = "running", !.count = job[j].count + 1, !.owner = w,
                           !.lease = "live"] \in JobRow
        BY <2>j, <3>1, <3>2, JobUpdates
      <3> QED BY <3>1, <3>3, Update
    <2>2. attempt' \in [Jobs -> [Numbers -> AttemptRow]]
      <3> DEFINE old == IF job[j].status = "running"
                        THEN [attempt[j] EXCEPT ![job[j].count] = ExpiredAttempt(@)]
                        ELSE attempt[j]
                 new == [NoAttempt EXCEPT !.worker = w, !.state = "claimed"]
      <3>0. attempt \in [Jobs -> [Numbers -> AttemptRow]] BY <1>t DEF TypeOK
      <3>1. new \in AttemptRow
        BY IdleType, RowUpdates
      <3>2. ASSUME job[j].status = "running"
            PROVE  ExpiredAttempt(attempt[j][job[j].count]) \in AttemptRow
        BY <1>c, <2>j, <3>0, <3>2, RowUpdates
      <3>3. old \in [Numbers -> AttemptRow]
        BY <2>j, <3>0, <3>2, Update
      <3>4. [old EXCEPT ![job[j].count + 1] = new] \in [Numbers -> AttemptRow]
        BY <3>1, <3>3, Update
      <3>5. attempt' = [attempt EXCEPT ![j] = [old EXCEPT ![job[j].count + 1] = new]]
        OBVIOUS
      <3> HIDE DEF old, new
      <3> QED BY <3>0, <3>4, <3>5, Update
    <2>3. worker' \in [Workers -> WorkerState]
      <3>1. ASSUME NEW state \in WorkerState, NEW task \in Task
            PROVE  [state EXCEPT !.step = "claimed", !.scan = {}, !.heartbeat = "on",
                                 !.task = task] \in WorkerState
        BY DEF WorkerState, Steps
      <3>2. [job |-> j, number |-> job[j].count + 1] \in Task
        BY <2>j DEF Task, Numbers
      <3> QED BY <1>t, <3>1, <3>2 DEF TypeOK
    <2> QED BY <1>t, <1>5, <2>1, <2>2, <2>3 DEF Claim, TypeOK
  <1>6. ASSUME NEW w \in Workers, ClaimNothing(w) PROVE TypeOK'
    BY <1>t, <1>6, WorkerType DEF ClaimNothing, TypeOK
  <1>7. ASSUME NEW w \in Workers, MarkSourceReady(w) PROVE TypeOK'
    <2>1. MyRow(w) \in AttemptRow
      BY <1>t, <1>7, StepExecutes, Holding DEF MarkSourceReady, Steps
    <2> QED BY <1>t, <1>7, <2>1, RowUpdates, SetMyRowType, WorkerType
            DEF MarkSourceReady, TypeOK, Steps, AttemptStates
  <1>8. ASSUME NEW w \in Workers, InputRejected(w) PROVE TypeOK'
    BY <1>t, <1>8, WorkerType DEF InputRejected, TypeOK, Codes
  <1>9. ASSUME NEW w \in Workers, MarkProviderStarted(w) PROVE TypeOK'
    <2>1. MyRow(w) \in AttemptRow
      BY <1>t, <1>9, StepExecutes, Holding DEF MarkProviderStarted, Steps
    <2> QED BY <1>t, <1>9, <2>1, RowUpdates, SetMyRowType, WorkerType
            DEF MarkProviderStarted, TypeOK, Steps
  <1>10. ASSUME NEW w \in Workers, ConnectFails(w) PROVE TypeOK'
    <2>1. MyRow(w) \in AttemptRow
      BY <1>t, <1>10, StepExecutes, Holding DEF ConnectFails, Steps
    <2> QED BY <1>t, <1>10, <2>1, RowUpdates, SetMyRowType, WorkerType
            DEF ConnectFails, TypeOK, Steps, Codes
  <1>11. ASSUME NEW w \in Workers, Upload(w) PROVE TypeOK'
    <2>1. MyJob(w) \in Jobs
      BY <1>t, <1>11, StepExecutes, Holding DEF Upload, Steps
    <2> QED BY <1>t, <1>11, <2>1, WorkerType DEF Upload, TypeOK, Steps
  <1>12. ASSUME NEW w \in Workers, ProviderAnswers(w) PROVE TypeOK'
    BY <1>t, <1>12, WorkerType DEF ProviderAnswers, TypeOK, Steps, Codes
  <1>13. ASSUME NEW w \in Workers, MarkProviderSucceeded(w) PROVE TypeOK'
    <2>1. MyRow(w) \in AttemptRow
      BY <1>t, <1>13, StepExecutes, Holding DEF MarkProviderSucceeded, Steps
    <2> QED BY <1>t, <1>13, <2>1, RowUpdates, SetMyRowType, WorkerType
            DEF MarkProviderSucceeded, TypeOK, Steps, AttemptStates
  <1>14. ASSUME NEW w \in Workers, NormalizationFails(w) PROVE TypeOK'
    BY <1>t, <1>14, WorkerType DEF NormalizationFails, TypeOK, Codes
  <1>15. ASSUME NEW w \in Workers, MarkDelivering(w) PROVE TypeOK'
    <2>1. MyRow(w) \in AttemptRow
      BY <1>t, <1>15, StepExecutes, Holding DEF MarkDelivering, Steps
    <2> QED BY <1>t, <1>15, <2>1, RowUpdates, SetMyRowType, WorkerType
            DEF MarkDelivering, TypeOK, Steps
  <1>16. ASSUME NEW w \in Workers, SendResult(w) PROVE TypeOK'
    <2>1. MyJob(w) \in Jobs
      BY <1>t, <1>16, StepExecutes, Holding DEF SendResult, Steps
    <2>2. photos' \in [Jobs -> Nat]
      BY <1>t, <1>16, <2>1 DEF SendResult, TypeOK
    <2>3. worker' \in [Workers -> WorkerState]
      BY <1>t, <1>16, WorkerType DEF SendResult, Steps, Codes
    <2> QED BY <1>t, <1>16, <2>2, <2>3 DEF SendResult, TypeOK
  <1>17. ASSUME NEW w \in Workers, MarkSucceeded(w) PROVE TypeOK'
    <2>1. MyRow(w) \in AttemptRow /\ MyJob(w) \in Jobs /\ job[MyJob(w)] \in JobRow
      BY <1>t, <1>17, StepExecutes, Holding DEF MarkSucceeded, Steps
    <2>2. job' \in [Jobs -> JobRow]
      BY <1>t, <1>17, <2>1, FinishedType DEF MarkSucceeded, TypeOK, Codes
    <2>3. attempt' \in [Jobs -> [Numbers -> AttemptRow]]
      BY <1>t, <1>17, <2>1, RowUpdates, SetMyRowType DEF MarkSucceeded, AttemptStates
    <2> QED BY <1>t, <1>17, <2>2, <2>3, WorkerType DEF MarkSucceeded, TypeOK
  <1>18. ASSUME NEW w \in Workers, UnexpectedError(w) PROVE TypeOK'
    BY <1>t, <1>18, WorkerType DEF UnexpectedError, TypeOK, Codes
  <1>19. ASSUME NEW w \in Workers, Fail(w) PROVE TypeOK'
    <2>1. MyRow(w) \in AttemptRow /\ MyJob(w) \in Jobs /\ job[MyJob(w)] \in JobRow
      BY <1>t, <1>19, StepExecutes, Holding DEF Fail, Steps
    <2>2. worker[w].code \in Codes
      BY <1>t DEF TypeOK, WorkerState
    <2>3. job' \in [Jobs -> JobRow]
      BY <1>t, <1>19, <2>1, <2>2, FinishedType DEF Fail, TypeOK
    <2>4. attempt' \in [Jobs -> [Numbers -> AttemptRow]]
      BY <1>t, <1>19, <2>1, RowUpdates, SetMyRowType DEF Fail, AttemptStates
    <2> QED BY <1>t, <1>19, <2>3, <2>4, WorkerType DEF Fail, TypeOK
  <1>20. ASSUME NEW w \in Workers, ReleaseRefused(w) \/ LoseLease(w) \/ HeartbeatRaises(w)
         PROVE  TypeOK'
    BY <1>t, <1>20, WorkerType DEF ReleaseRefused, LoseLease, HeartbeatRaises, TypeOK
  <1>21. ASSUME NEW w \in Workers, Crash(w) PROVE TypeOK'
    <2>1. faults' \in 0..MaxFaults
      BY <1>t, <1>21 DEF Crash, TypeOK
    <2> QED BY <1>t, <1>21, <2>1, WorkerType DEF Crash, TypeOK
  <1>22. ASSUME NEW w \in Workers, Heartbeat(w) PROVE TypeOK'
    <2>1. MyJob(w) \in Jobs
      BY <1>t, <1>22, StepExecutes, Holding DEF Heartbeat
    <2>2. job' \in [Jobs -> JobRow]
      BY <1>t, <1>22, <2>1, SetLeaseType DEF Heartbeat
    <2> QED BY <1>t, <1>22, <2>2 DEF Heartbeat, TypeOK
  <1>23. ASSUME NEW w \in Workers, HeartbeatDies(w) PROVE TypeOK'
    <2>1. faults' \in 0..MaxFaults
      BY <1>t, <1>23 DEF HeartbeatDies, TypeOK
    <2>2. ASSUME NEW state \in WorkerState
          PROVE  [state EXCEPT !.heartbeat = "raised"] \in WorkerState
      BY DEF WorkerState
    <2>3. worker' \in [Workers -> WorkerState]
      BY <1>t, <1>23, <2>2 DEF HeartbeatDies, TypeOK
    <2> QED BY <1>t, <1>23, <2>1, <2>3 DEF HeartbeatDies, TypeOK
  <1>24. CASE UNCHANGED vars
    BY <1>t, <1>24 DEF vars, TypeOK
  <1>25. ASSUME NEW w \in Workers, ProviderUnavailable(w) PROVE TypeOK'
    BY <1>t, <1>25, WorkerType DEF ProviderUnavailable, TypeOK, Codes
  <1>26. ASSUME NEW j \in Jobs, Uncount(j) \/ Recount(j) PROVE TypeOK'
    <2>1. job' \in [Jobs -> JobRow] BY <1>t, <1>26, CountEffect
    <2> QED BY <1>t, <1>26, <2>1 DEF Uncount, Recount, TypeOK
  <1> QED
    BY <1>1, <1>2, <1>3, <1>4, <1>5, <1>6, <1>7, <1>8, <1>9, <1>10, <1>11, <1>12,
       <1>13, <1>14, <1>15, <1>16, <1>17, <1>18, <1>19, <1>20, <1>21, <1>22, <1>23,
       <1>24, <1>25, <1>26 DEF Next, Proceed

-----------------------------------------------------------------------------
(* What the updates of the actions do, field by field.                       *)

(* A move of worker w leaves the others alone; inside execute it keeps the   *)
(* task and the heartbeat, back in the loop it holds nothing.                *)
LEMMA MoveEffect ==
    ASSUME TypeOK, NEW w \in Workers
    PROVE  /\ \A step \in Steps : GoTo(w, step) =>
                 /\ worker'[w].step = step
                 /\ worker'[w].task = worker[w].task
                 /\ worker'[w].heartbeat = worker[w].heartbeat
                 /\ \A u \in Workers \ {w} : worker'[u] = worker[u]
           /\ \A code \in Codes : GoFail(w, code) =>
                 /\ worker'[w].step = "failing"
                 /\ worker'[w].task = worker[w].task
                 /\ worker'[w].heartbeat = worker[w].heartbeat
                 /\ \A u \in Workers \ {w} : worker'[u] = worker[u]
           /\ GoIdle(w) =>
                 /\ worker'[w].step = "idle"
                 /\ worker'[w].task = NoTask
                 /\ worker'[w].heartbeat = "off"
                 /\ \A u \in Workers \ {w} : worker'[u] = worker[u]
  <1>1. worker \in [Workers -> WorkerState] BY DEF TypeOK
  <1>2. ASSUME NEW step \in Steps, GoTo(w, step)
        PROVE  /\ worker'[w] = [worker[w] EXCEPT !.step = step]
               /\ \A u \in Workers \ {w} : worker'[u] = worker[u]
    BY <1>1, <1>2 DEF GoTo
  <1>3. ASSUME NEW code \in Codes, GoFail(w, code)
        PROVE  /\ worker'[w] = [worker[w] EXCEPT !.step = "failing", !.code = code]
               /\ \A u \in Workers \ {w} : worker'[u] = worker[u]
    BY <1>1, <1>3 DEF GoFail
  <1>4. ASSUME GoIdle(w)
        PROVE  /\ worker'[w] = Idle
               /\ \A u \in Workers \ {w} : worker'[u] = worker[u]
    BY <1>1, <1>4 DEF GoIdle
  <1>5. worker[w] \in WorkerState BY <1>1
  <1>6. ASSUME NEW code
        PROVE  /\ [worker[w] EXCEPT !.step = "failing", !.code = code].step = "failing"
               /\ [worker[w] EXCEPT !.step = "failing", !.code = code].task = worker[w].task
               /\ [worker[w] EXCEPT !.step = "failing", !.code = code].heartbeat =
                     worker[w].heartbeat
    BY <1>5 DEF WorkerState
  <1>7. ASSUME NEW step \in Steps, GoTo(w, step)
        PROVE  /\ worker'[w].step = step
               /\ worker'[w].task = worker[w].task
               /\ worker'[w].heartbeat = worker[w].heartbeat
               /\ \A u \in Workers \ {w} : worker'[u] = worker[u]
    <2>1. /\ worker'[w] = [worker[w] EXCEPT !.step = step]
          /\ \A u \in Workers \ {w} : worker'[u] = worker[u]
      BY <1>2, <1>7
    <2>2. /\ [worker[w] EXCEPT !.step = step].step = step
          /\ [worker[w] EXCEPT !.step = step].task = worker[w].task
          /\ [worker[w] EXCEPT !.step = step].heartbeat = worker[w].heartbeat
      BY <1>5 DEF WorkerState
    <2> QED BY <2>1, <2>2
  <1>8. ASSUME NEW code \in Codes, GoFail(w, code)
        PROVE  /\ worker'[w].step = "failing"
               /\ worker'[w].task = worker[w].task
               /\ worker'[w].heartbeat = worker[w].heartbeat
               /\ \A u \in Workers \ {w} : worker'[u] = worker[u]
    BY <1>3, <1>6, <1>8
  <1>9. ASSUME GoIdle(w)
        PROVE  /\ worker'[w].step = "idle"
               /\ worker'[w].task = NoTask
               /\ worker'[w].heartbeat = "off"
               /\ \A u \in Workers \ {w} : worker'[u] = worker[u]
    BY <1>4, <1>9 DEF Idle
  <1> QED BY <1>7, <1>8, <1>9

(* SetMyRow writes the row of w's own attempt and no other.                  *)
LEMMA SetMyRowEffect ==
    ASSUME TypeOK, TaskInv, NEW w \in Workers, Executing(w), NEW row, SetMyRow(w, row)
    PROVE  /\ attempt'[MyJob(w)][worker[w].task.number] = row
           /\ \A j \in Jobs, n \in Numbers :
                 j # MyJob(w) \/ n # worker[w].task.number => attempt'[j][n] = attempt[j][n]
  <1>1. attempt \in [Jobs -> [Numbers -> AttemptRow]] BY DEF TypeOK
  <1>2. MyJob(w) \in Jobs /\ worker[w].task.number \in Numbers BY Holding
  <1> QED BY <1>1, <1>2 DEF SetMyRow

(* A lease update changes nothing else of a job.                             *)
LEMMA SetLeaseEffect ==
    ASSUME TypeOK, NEW j \in Jobs, NEW lease, SetLease(j, lease)
    PROVE  \A i \in Jobs :
              /\ job'[i].status = job[i].status
              /\ job'[i].count = job[i].count
              /\ job'[i].owner = job[i].owner
              /\ job'[i].charge = job[i].charge
              /\ job'[i].reference = job[i].reference
  <1>1. job \in [Jobs -> JobRow] BY DEF TypeOK
  <1> QED BY <1>1 DEF SetLease, JobRow

(* Finishing a job keeps its attempts, leaves the others alone, and settles  *)
(* what it holds.                                                            *)
LEMMA FinishEffect ==
    ASSUME TypeOK, NEW j \in Jobs, NEW status \in {"succeeded", "failed"},
           NEW error \in Codes, NEW settled \in {"consumed", "released"},
           job' = [job EXCEPT ![j] = Finished(@, status, error, settled)]
    PROVE  /\ \A i \in Jobs \ {j} : job'[i] = job[i]
           /\ job'[j].status = status
           /\ job'[j].count = job[j].count
           /\ job'[j].charge = IF job[j].charge = "reserved" THEN settled ELSE job[j].charge
           /\ job'[j].reference =
                 IF job[j].reference = "held" THEN "released" ELSE job[j].reference
  <1>1. job \in [Jobs -> JobRow] BY DEF TypeOK
  <1>2. job'[j] = Finished(job[j], status, error, settled) /\ job[j] \in JobRow
    BY <1>1
  <1>3. \A i \in Jobs \ {j} : job'[i] = job[i]
    BY <1>1
  <1>4. /\ Finished(job[j], status, error, settled).status = status
        /\ Finished(job[j], status, error, settled).count = job[j].count
        /\ Finished(job[j], status, error, settled).charge =
              IF job[j].charge = "reserved" THEN settled ELSE job[j].charge
        /\ Finished(job[j], status, error, settled).reference =
              IF job[j].reference = "held" THEN "released" ELSE job[j].reference
    BY <1>2 DEF Finished, JobRow
  <1> QED BY <1>2, <1>3, <1>4

-----------------------------------------------------------------------------
(* The invariant under each kind of step.  The types come from TypeStep.     *)

(* A step that only renews or loses a lease.                                 *)
LEMMA LeaseStep ==
    ASSUME IInv, TypeOK', NEW j \in Jobs, NEW lease, SetLease(j, lease),
           UNCHANGED <<attempt, worker, requests, photos>>
    PROVE  IInv'
  <1>e. \A i \in Jobs :
           /\ job'[i].status = job[i].status
           /\ job'[i].count = job[i].count
           /\ job'[i].owner = job[i].owner
           /\ job'[i].charge = job[i].charge
           /\ job'[i].reference = job[i].reference
    BY SetLeaseEffect DEF IInv
  <1>1. TaskInv' BY <1>e DEF IInv, TaskInv, Executing, MyJob, MyRow
  <1>2. CountInv' BY <1>e DEF IInv, CountInv
  <1>3. OwnerHoldsCurrentAttempt' BY <1>e DEF IInv, OwnerHoldsCurrentAttempt
  <1>4. StartInv' BY DEF IInv, StartInv, MyRow
  <1>5. RequestInv' BY DEF IInv, RequestInv, Started, MyJob
  <1>6. PhotoInv' BY DEF IInv, PhotoInv, Started, MyJob
  <1>7. Settlement' BY <1>e DEF IInv, Settlement, Terminal
  <1> QED BY <1>1, <1>2, <1>3, <1>4, <1>5, <1>6, <1>7 DEF IInv

(* A step that only takes or restores the count under a reference.           *)
LEMMA CountStep ==
    ASSUME IInv, TypeOK', NEW j \in Jobs, Uncount(j) \/ Recount(j)
    PROVE  IInv'
  <1>u. UNCHANGED <<attempt, worker, requests, photos>> BY DEF Uncount, Recount
  <1>r. /\ \A i \in Jobs \ {j} : job'[i] = job[i]
        /\ job[j].reference \in {"held", "uncounted"}
        /\ job'[j].reference \in {"held", "uncounted"}
    BY CountEffect DEF IInv
  <1>e. \A i \in Jobs :
           /\ job'[i].status = job[i].status
           /\ job'[i].count = job[i].count
           /\ job'[i].owner = job[i].owner
           /\ job'[i].charge = job[i].charge
    BY CountEffect DEF IInv
  <1>1. TaskInv' BY <1>u, <1>e DEF IInv, TaskInv, Executing, MyJob, MyRow
  <1>2. CountInv' BY <1>u, <1>e DEF IInv, CountInv
  <1>3. OwnerHoldsCurrentAttempt' BY <1>u, <1>e DEF IInv, OwnerHoldsCurrentAttempt
  <1>4. StartInv' BY <1>u DEF IInv, StartInv, MyRow
  <1>5. RequestInv' BY <1>u DEF IInv, RequestInv, Started, MyJob
  <1>6. PhotoInv' BY <1>u DEF IInv, PhotoInv, Started, MyJob
  <1>7. Settlement'
    <2>1. ~Terminal(j) BY <1>r DEF IInv, Settlement
    <2> QED BY <1>u, <1>e, <1>r, <2>1 DEF IInv, Settlement, Terminal
  <1> QED BY <1>1, <1>2, <1>3, <1>4, <1>5, <1>6, <1>7 DEF IInv

(* A step of worker w that touches no row: it goes idle, fails, loses its    *)
(* heartbeat or has its answer.                                              *)
LEMMA MoveStep ==
    ASSUME IInv, TypeOK', NEW w \in Workers,
           UNCHANGED <<job, attempt, requests, photos>>,
           \A u \in Workers \ {w} : worker'[u] = worker[u],
           \/ /\ worker'[w].step = "idle"
              /\ worker'[w].task = NoTask
              /\ worker'[w].heartbeat = "off"
           \/ /\ Executing(w)
              /\ worker'[w].task = worker[w].task
              /\ \/ worker'[w].step \in {"failing", worker[w].step}
                 \/ worker[w].step = "uploaded" /\ worker'[w].step = "generated"
    PROVE  IInv'
  <1>1. TaskInv' BY DEF IInv, TaskInv, Executing, MyJob, MyRow
  <1>2. CountInv' BY DEF IInv, CountInv
  <1>3. OwnerHoldsCurrentAttempt' BY DEF IInv, OwnerHoldsCurrentAttempt
  <1>4. StartInv' BY DEF IInv, StartInv, MyRow
  <1>5. RequestInv' BY DEF IInv, RequestInv, Started, MyJob
  <1>6. PhotoInv' BY DEF IInv, PhotoInv, Started, MyJob
  <1>7. Settlement' BY DEF IInv, Settlement, Terminal
  <1> QED BY <1>1, <1>2, <1>3, <1>4, <1>5, <1>6, <1>7 DEF IInv

(* A step of execute that updates the row of its attempt and keeps its       *)
(* worker and its start.                                                     *)
LEMMA RowStep ==
    ASSUME IInv, TypeOK', NEW w \in Workers, Executing(w), NEW row,
           row.worker = w,
           row.started = MyRow(w).started,
           row.state \notin {"none", "succeeded", "failed", "ambiguous"},
           SetMyRow(w, row),
           UNCHANGED <<job, requests, photos>>,
           \A u \in Workers \ {w} : worker'[u] = worker[u],
           worker'[w].task = worker[w].task,
           <<worker[w].step, worker'[w].step>> \in
               {<<"claimed", "source_ready">>, <<"connect", "reconnect">>,
                <<"generated", "provider_succeeded">>,
                <<"provider_succeeded", "delivering">>}
    PROVE  IInv'
  <1>h. /\ MyJob(w) \in Jobs
        /\ worker[w].task.number \in Numbers
        /\ worker[w].task.number \in 1..job[MyJob(w)].count
        /\ MyRow(w).worker = w
    BY Holding DEF IInv
  <1>e. /\ attempt'[MyJob(w)][worker[w].task.number] = row
        /\ \A j \in Jobs, n \in Numbers :
              j # MyJob(w) \/ n # worker[w].task.number => attempt'[j][n] = attempt[j][n]
    BY SetMyRowEffect DEF IInv
  <1>s. \A j \in Jobs, n \in Numbers :
           /\ attempt'[j][n].started = attempt[j][n].started
           /\ attempt'[j][n].worker = attempt[j][n].worker
    BY <1>h, <1>e DEF MyRow, MyJob
  <1>m. \A u \in Workers : MyJob(u)' = MyJob(u) /\ worker'[u].task = worker[u].task
    BY DEF MyJob
  <1>x. \A u \in Workers : Executing(u) <=> Executing(u)'
    BY DEF Executing
  <1>r. ASSUME NEW u \in Workers, Executing(u)
        PROVE  /\ MyRow(u)'.worker = u
               /\ MyRow(u)'.started = MyRow(u).started
    <2>1. /\ MyJob(u) \in Jobs /\ worker[u].task.number \in Numbers
          /\ MyRow(u).worker = u
      BY <1>r, Holding DEF IInv
    <2> QED BY <1>m, <1>s, <2>1 DEF MyRow, MyJob
  <1>1. TaskInv' BY <1>m, <1>x, <1>r DEF IInv, TaskInv, Executing
  <1>2. CountInv'
    <2>1. \A n \in Numbers : n > job[MyJob(w)].count => n # worker[w].task.number
      <3>1. job[MyJob(w)].count \in Nat /\ MaxAttempts \in Nat
        BY <1>h, ConstantsAssumption DEF IInv, TypeOK, JobRow, ConstantsAssumption
      <3> QED BY <1>h, <3>1 DEF Numbers
    <2> QED BY <1>e, <2>1 DEF IInv, CountInv
  <1>3. OwnerHoldsCurrentAttempt'
    BY <1>h, <1>e, <1>s DEF IInv, OwnerHoldsCurrentAttempt
  <1>4. StartInv' BY <1>s, <1>r DEF IInv, StartInv, Executing
  <1>5. RequestInv' BY <1>m, <1>s DEF IInv, RequestInv, Started
  <1>6. PhotoInv' BY <1>m, <1>s DEF IInv, PhotoInv, Started
  <1>7. Settlement' BY DEF IInv, Settlement, Terminal
  <1> QED BY <1>1, <1>2, <1>3, <1>4, <1>5, <1>6, <1>7 DEF IInv

(* Of all the workers, one at most stands past the provider start of a job.  *)
LEMMA Alone ==
    ASSUME IInv, NEW u \in Workers, NEW w \in Workers, Executing(u), Executing(w),
           MyJob(u) = MyJob(w), MyRow(u).started, MyRow(w).started
    PROVE  u = w
  <1>1. /\ MyJob(u) \in Jobs
        /\ worker[u].task.number \in Numbers /\ worker[w].task.number \in Numbers
        /\ MyRow(u).worker = u /\ MyRow(w).worker = w
    BY Holding DEF IInv
  <1>2. worker[u].task.number = worker[w].task.number
    BY <1>1 DEF IInv, StartInv, MyRow, MyJob
  <1> QED BY <1>1, <1>2 DEF MyRow, MyJob

(* mark_provider_started: the unique index admits one start of the job, so   *)
(* nothing was requested or delivered before.                                *)
LEMMA StartStep ==
    ASSUME IInv, TypeOK', NEW w \in Workers, MarkProviderStarted(w)
    PROVE  IInv'
  <1> DEFINE row == [MyRow(w) EXCEPT !.state = "provider_started", !.started = TRUE]
  <1>a. Executing(w) /\ worker[w].step = "source_ready"
    BY DEF MarkProviderStarted, Executing
  <1>h. /\ MyJob(w) \in Jobs
        /\ worker[w].task.number \in Numbers
        /\ worker[w].task.number \in 1..job[MyJob(w)].count
        /\ MyRow(w).worker = w
        /\ MyRow(w) \in AttemptRow
    BY <1>a, Holding DEF IInv
  <1>g. /\ worker'[w].step = "connect"
        /\ worker'[w].task = worker[w].task
        /\ worker'[w].heartbeat = worker[w].heartbeat
        /\ \A u \in Workers \ {w} : worker'[u] = worker[u]
    BY MoveEffect DEF MarkProviderStarted, IInv, Steps
  <1>p. row.worker = w /\ row.started /\ row.state = "provider_started"
    BY <1>h DEF AttemptRow
  <1>e. /\ attempt'[MyJob(w)][worker[w].task.number] = row
        /\ \A j \in Jobs, n \in Numbers :
              j # MyJob(w) \/ n # worker[w].task.number => attempt'[j][n] = attempt[j][n]
    BY <1>a, SetMyRowEffect DEF MarkProviderStarted, IInv
  <1> HIDE DEF row
  <1>w. \A j \in Jobs, n \in Numbers : attempt'[j][n].worker = attempt[j][n].worker
    BY <1>h, <1>e, <1>p DEF MyRow, MyJob
  <1>o. /\ \A n \in Numbers : ~attempt[MyJob(w)][n].started
        /\ \A j \in Jobs, n \in Numbers :
              attempt'[j][n].started <=>
                 (attempt[j][n].started \/ (j = MyJob(w) /\ n = worker[w].task.number))
    <2>1. ~MyRow(w).started BY <1>a DEF IInv, StartInv
    <2>2. \A n \in Numbers : ~attempt[MyJob(w)][n].started
      BY <2>1 DEF MarkProviderStarted, StartIsUnique, MyRow, MyJob
    <2> QED BY <1>h, <1>e, <1>p, <2>2
  <1>z. requests[MyJob(w)] = 0 /\ photos[MyJob(w)] = 0
    BY <1>h, <1>o DEF IInv, RequestInv, PhotoInv, Started
  <1>m. \A u \in Workers : MyJob(u)' = MyJob(u) /\ worker'[u].task = worker[u].task
    BY <1>g DEF MyJob
  <1>u. UNCHANGED <<job, requests, photos>> BY DEF MarkProviderStarted
  <1>r. ASSUME NEW u \in Workers, Executing(u)
        PROVE  /\ MyJob(u) \in Jobs
               /\ MyRow(u)'.worker = u
               /\ u # w => MyRow(u)'.started = MyRow(u).started
               /\ u = w => MyRow(u)'.started
    <2>1. /\ MyJob(u) \in Jobs /\ worker[u].task.number \in Numbers
          /\ MyRow(u).worker = u
      BY <1>r, Holding DEF IInv
    <2>2. u # w => MyJob(u) # MyJob(w) \/ worker[u].task.number # worker[w].task.number
      BY <1>h, <2>1 DEF MyRow, MyJob
    <2>3. MyRow(u)' = attempt'[MyJob(u)][worker[u].task.number]
      BY <1>m DEF MyRow, MyJob
    <2>4. MyRow(u)'.worker = u
      BY <1>w, <2>1, <2>3 DEF MyRow, MyJob
    <2>5. u # w => MyRow(u)'.started = MyRow(u).started
      BY <1>e, <2>1, <2>2, <2>3 DEF MyRow, MyJob
    <2>6. u = w => MyRow(u)'.started
      BY <1>e, <1>p, <2>3
    <2> QED BY <2>1, <2>4, <2>5, <2>6
  <1>x. \A u \in Workers : Executing(u) <=> Executing(u)'
    BY <1>a, <1>g DEF Executing
  <1>1. TaskInv'
    <2>1. ASSUME NEW u \in Workers, Executing(u)'
          PROVE  /\ MyJob(u)' \in Jobs
                 /\ worker'[u].task.number \in 1..job'[MyJob(u)'].count
                 /\ MyRow(u)'.worker = u
      BY <1>u, <1>m, <1>x, <1>r, <2>1 DEF IInv, TaskInv
    <2>2. ASSUME NEW u \in Workers, ~Executing(u)'
          PROVE  worker'[u].task = NoTask /\ worker'[u].heartbeat = "off"
      BY <1>a, <1>g, <1>x, <2>2 DEF IInv, TaskInv
    <2> QED BY <2>1, <2>2 DEF TaskInv
  <1>2. CountInv'
    <2>1. \A n \in Numbers : n > job[MyJob(w)].count => n # worker[w].task.number
      <3>1. job[MyJob(w)].count \in Nat /\ MaxAttempts \in Nat
        BY <1>h, ConstantsAssumption DEF IInv, TypeOK, JobRow, ConstantsAssumption
      <3> QED BY <1>h, <3>1 DEF Numbers
    <2> QED BY <1>e, <1>u, <2>1 DEF IInv, CountInv
  <1>3. OwnerHoldsCurrentAttempt'
    BY <1>h, <1>e, <1>w, <1>p, <1>u DEF IInv, OwnerHoldsCurrentAttempt
  <1>4. StartInv'
    <2>1. \A j \in Jobs, m, n \in Numbers :
             attempt'[j][m].started /\ attempt'[j][n].started => m = n
      BY <1>o DEF IInv, StartInv
    <2> QED BY <1>a, <1>g, <1>r, <2>1 DEF IInv, StartInv, Executing
  <1>5. RequestInv'
    BY <1>g, <1>m, <1>o, <1>z, <1>u DEF IInv, RequestInv, Started
  <1>6. PhotoInv'
    BY <1>g, <1>m, <1>o, <1>z, <1>u DEF IInv, PhotoInv, Started
  <1>7. Settlement' BY <1>u DEF IInv, Settlement, Terminal
  <1> QED BY <1>1, <1>2, <1>3, <1>4, <1>5, <1>6, <1>7 DEF IInv

(* The request reaches the provider, or the photo the chat: the worker is    *)
(* the only one past the job's provider start.                               *)
LEMMA SideEffectStep ==
    ASSUME IInv, TypeOK', NEW w \in Workers, Upload(w) \/ SendResult(w)
    PROVE  IInv'
  <1>a. Executing(w) /\ MyRow(w).started
    BY DEF Upload, SendResult, Executing, IInv, StartInv
  <1>h. MyJob(w) \in Jobs BY <1>a, Holding DEF IInv
  <1>g. /\ worker'[w].step \in {"uploaded", "sent", "failing"}
        /\ worker'[w].task = worker[w].task
        /\ worker'[w].heartbeat = worker[w].heartbeat
        /\ \A u \in Workers \ {w} : worker'[u] = worker[u]
    BY MoveEffect DEF Upload, SendResult, IInv, Steps, Codes
  <1>m. \A u \in Workers : MyJob(u)' = MyJob(u) /\ worker'[u].task = worker[u].task
    BY <1>g DEF MyJob
  <1>u. UNCHANGED <<job, attempt>> BY DEF Upload, SendResult
  <1>r. \A u \in Workers : MyRow(u)' = MyRow(u) BY <1>m, <1>u DEF MyRow, MyJob
  <1>x. \A u \in Workers : Executing(u) <=> Executing(u)'
    BY <1>a, <1>g DEF Executing
  <1>o. \A u \in Workers \ {w} :
           worker[u].step \in {"connect", "reconnect", "uploaded", "generated",
                               "provider_succeeded", "delivering", "sent"} =>
              MyJob(u) # MyJob(w)
    BY <1>a, Alone DEF IInv, StartInv, Executing
  <1>1. TaskInv' BY <1>a, <1>g, <1>u, <1>m, <1>x, <1>r DEF IInv, TaskInv
  <1>2. CountInv' BY <1>u DEF IInv, CountInv
  <1>3. OwnerHoldsCurrentAttempt' BY <1>u DEF IInv, OwnerHoldsCurrentAttempt
  <1>4. StartInv' BY <1>a, <1>g, <1>u, <1>r DEF IInv, StartInv
  <1>s. Started(MyJob(w))
    <2>1. worker[w].task.number \in Numbers BY <1>a, Holding DEF IInv
    <2> QED BY <1>a, <2>1 DEF Started, MyRow, MyJob
  <1>5. CASE Upload(w)
    <2>1. /\ requests[MyJob(w)] = 0
          /\ requests' = [requests EXCEPT ![MyJob(w)] = 1]
          /\ worker'[w].step = "uploaded"
          /\ photos[MyJob(w)] = 0
          /\ photos' = photos
      <3>1. requests[MyJob(w)] = 0 /\ photos[MyJob(w)] = 0 /\ photos' = photos
        BY <1>5 DEF Upload, IInv, RequestInv, PhotoInv
      <3>2. requests' = [requests EXCEPT ![MyJob(w)] = 1]
        BY <1>5, <3>1 DEF Upload
      <3>3. worker'[w].step = "uploaded"
        BY <1>5, MoveEffect DEF Upload, IInv, Steps
      <3> QED BY <3>1, <3>2, <3>3
    <2>2. \A j \in Jobs : requests'[j] = IF j = MyJob(w) THEN 1 ELSE requests[j]
      BY <2>1 DEF IInv, TypeOK
    <2>3. RequestInv'
      <3>1. \A j \in Jobs : requests'[j] \in {0, 1} /\ (requests'[j] = 1 => Started(j)')
        BY <1>s, <1>u, <2>2 DEF IInv, RequestInv, Started
      <3>2. \A u \in Workers :
              /\ worker'[u].step \in {"connect", "reconnect"} => requests'[MyJob(u)'] = 0
              /\ worker'[u].step \in {"uploaded", "generated", "provider_succeeded",
                                      "delivering", "sent"} => requests'[MyJob(u)'] = 1
        BY <1>g, <1>h, <1>m, <1>o, <2>1 DEF IInv, RequestInv, TypeOK
      <3> QED BY <3>1, <3>2 DEF RequestInv
    <2>4. PhotoInv'
      BY <1>g, <1>m, <1>u, <2>1 DEF IInv, PhotoInv, Started
    <2>5. Settlement' BY <1>u, <2>1 DEF IInv, Settlement, Terminal
    <2> QED BY <1>1, <1>2, <1>3, <1>4, <2>3, <2>4, <2>5 DEF IInv
  <1>6. CASE SendResult(w)
    <2>1. /\ photos[MyJob(w)] = 0
          /\ requests[MyJob(w)] = 1
          /\ requests' = requests
          /\ worker[w].step = "delivering"
      BY <1>6 DEF SendResult, IInv, RequestInv, PhotoInv
    <2>2. PICK arrived \in {0, 1} :
             /\ photos' = [photos EXCEPT ![MyJob(w)] = arrived]
             /\ (arrived = 1 /\ worker'[w].step = "sent") \/ worker'[w].step = "failing"
      <3>1. PICK arrived \in {0, 1} :
               /\ photos' = [photos EXCEPT ![MyJob(w)] = @ + arrived]
               /\ (arrived = 1 /\ GoTo(w, "sent")) \/ (\E code \in Codes : GoFail(w, code))
        BY <1>6 DEF SendResult, Codes
      <3>2. photos' = [photos EXCEPT ![MyJob(w)] = arrived]
        <4>1. photos[MyJob(w)] + arrived = arrived BY <2>1
        <4> QED BY <3>1, <4>1
      <3>3. (arrived = 1 /\ worker'[w].step = "sent") \/ worker'[w].step = "failing"
        BY <3>1, MoveEffect DEF IInv, Steps
      <3> QED BY <3>2, <3>3
    <2>3. \A j \in Jobs : photos'[j] = IF j = MyJob(w) THEN arrived ELSE photos[j]
      BY <2>2 DEF IInv, TypeOK
    <2>4. PhotoInv'
      <3>1. \A j \in Jobs : photos'[j] \in {0, 1} /\ (photos'[j] = 1 => Started(j)')
        BY <1>s, <1>u, <2>3 DEF IInv, PhotoInv, Started
      <3>2. \A u \in Workers :
              /\ worker'[u].step \in {"connect", "reconnect", "uploaded", "generated",
                                      "provider_succeeded", "delivering"} =>
                    photos'[MyJob(u)'] = 0
              /\ worker'[u].step = "sent" => photos'[MyJob(u)'] = 1
        BY <1>g, <1>h, <1>m, <1>o, <2>2 DEF IInv, PhotoInv, TypeOK
      <3> QED BY <3>1, <3>2 DEF PhotoInv
    <2>5. RequestInv'
      BY <1>g, <1>m, <1>u, <2>1 DEF IInv, RequestInv, Started
    <2>6. Settlement'
      <3>1. \A j \in Jobs : photos[j] = 1 => photos'[j] = 1
        BY <2>1, <2>3
      <3> QED BY <1>u, <3>1 DEF IInv, Settlement, Terminal
    <2> QED BY <1>1, <1>2, <1>3, <1>4, <2>4, <2>5, <2>6 DEF IInv
  <1> QED BY <1>5, <1>6

(* mark_succeeded and mark_failed end the job and settle what it holds.      *)
LEMMA EndStep ==
    ASSUME IInv, TypeOK', NEW w \in Workers, MarkSucceeded(w) \/ Fail(w)
    PROVE  IInv'
  <1>a. Executing(w) /\ job[MyJob(w)].status = "running"
    BY DEF MarkSucceeded, Fail, Executing, MayOwn, Owned
  <1>h. /\ MyJob(w) \in Jobs
        /\ worker[w].task.number \in Numbers
        /\ worker[w].task.number \in 1..job[MyJob(w)].count
        /\ job[MyJob(w)].count \in 0..MaxAttempts
        /\ job[MyJob(w)] \in JobRow
        /\ MyRow(w) \in AttemptRow
    BY <1>a, Holding DEF IInv
  <1>g. /\ worker'[w].step = "idle"
        /\ worker'[w].task = NoTask
        /\ worker'[w].heartbeat = "off"
        /\ \A u \in Workers \ {w} : worker'[u] = worker[u]
    BY MoveEffect DEF MarkSucceeded, Fail, IInv
  <1>u. UNCHANGED <<requests, photos>> BY DEF MarkSucceeded, Fail
  <1>e. \A j \in Jobs, n \in Numbers :
           /\ attempt'[j][n].started = attempt[j][n].started
           /\ attempt'[j][n].worker = attempt[j][n].worker
           /\ j # MyJob(w) \/ n # worker[w].task.number => attempt'[j][n] = attempt[j][n]
    <2>1. PICK row : /\ row.started = MyRow(w).started
                     /\ row.worker = MyRow(w).worker
                     /\ SetMyRow(w, row)
      <3>1. CASE MarkSucceeded(w)
        <4> DEFINE row == [MyRow(w) EXCEPT !.state = "succeeded"]
        <4>1. row.started = MyRow(w).started /\ row.worker = MyRow(w).worker
          BY <1>h DEF AttemptRow
        <4>2. SetMyRow(w, row) BY <3>1 DEF MarkSucceeded
        <4> QED BY <4>1, <4>2
      <3>2. CASE Fail(w)
        <4> DEFINE state == IF worker[w].code \in {"provider_ambiguous", "delivery_ambiguous"}
                            THEN "ambiguous" ELSE "failed"
                   row == [MyRow(w) EXCEPT !.state = state, !.summary = "other"]
        <4>1. row.started = MyRow(w).started /\ row.worker = MyRow(w).worker
          BY <1>h DEF AttemptRow
        <4>2. SetMyRow(w, row) BY <3>2 DEF Fail
        <4> QED BY <4>1, <4>2
      <3> QED BY <3>1, <3>2
    <2>2. /\ attempt'[MyJob(w)][worker[w].task.number] = row
          /\ \A j \in Jobs, n \in Numbers :
                j # MyJob(w) \/ n # worker[w].task.number => attempt'[j][n] = attempt[j][n]
      BY <1>a, <2>1, SetMyRowEffect DEF IInv
    <2> QED BY <1>h, <2>1, <2>2 DEF MyRow, MyJob
  <1>j. /\ \A j \in Jobs \ {MyJob(w)} : job'[j] = job[j]
        /\ job'[MyJob(w)].status \in {"succeeded", "failed"}
        /\ job'[MyJob(w)].count = job[MyJob(w)].count
        /\ job'[MyJob(w)].reference =
              IF job[MyJob(w)].reference = "held" THEN "released" ELSE job[MyJob(w)].reference
        /\ job'[MyJob(w)].charge =
              IF job[MyJob(w)].charge = "reserved"
              THEN IF job'[MyJob(w)].status = "succeeded" THEN "consumed" ELSE "released"
              ELSE job[MyJob(w)].charge
        /\ job'[MyJob(w)].status = "succeeded" => photos[MyJob(w)] = 1
    <2>1. CASE MarkSucceeded(w)
      <3>1. job' = [job EXCEPT ![MyJob(w)] = Finished(@, "succeeded", "none", "consumed")]
        BY <2>1 DEF MarkSucceeded
      <3>2. photos[MyJob(w)] = 1 BY <2>1 DEF MarkSucceeded, IInv, PhotoInv
      <3>3. /\ \A i \in Jobs \ {MyJob(w)} : job'[i] = job[i]
            /\ job'[MyJob(w)].status = "succeeded"
            /\ job'[MyJob(w)].count = job[MyJob(w)].count
            /\ job'[MyJob(w)].charge =
                  IF job[MyJob(w)].charge = "reserved" THEN "consumed" ELSE job[MyJob(w)].charge
            /\ job'[MyJob(w)].reference =
                  IF job[MyJob(w)].reference = "held" THEN "released"
                  ELSE job[MyJob(w)].reference
        <4>1. "succeeded" \in {"succeeded", "failed"} /\ "none" \in Codes
              /\ "consumed" \in {"consumed", "released"} /\ TypeOK
          BY DEF Codes, IInv
        <4> QED BY <1>h, <3>1, <4>1, FinishEffect
      <3> QED BY <3>2, <3>3
    <2>2. CASE Fail(w)
      <3>1. job' = [job EXCEPT ![MyJob(w)] = Finished(@, "failed", worker[w].code, "released")]
        BY <2>2 DEF Fail
      <3>2. worker[w].code \in Codes BY DEF IInv, TypeOK, WorkerState
      <3> QED BY <1>h, <3>1, <3>2, FinishEffect DEF IInv
    <2> QED BY <2>1, <2>2
  <1>c. \A j \in Jobs : job'[j].count = job[j].count BY <1>j
  <1>r. ASSUME NEW u \in Workers \ {w}
        PROVE  /\ Executing(u) <=> Executing(u)'
               /\ MyJob(u)' = MyJob(u)
               /\ Executing(u) => /\ MyJob(u) \in Jobs
                                  /\ MyRow(u)'.worker = MyRow(u).worker
                                  /\ MyRow(u)'.started = MyRow(u).started
    <2>1. worker'[u] = worker[u] BY <1>g
    <2>2. Executing(u) => MyJob(u) \in Jobs /\ worker[u].task.number \in Numbers
      BY Holding DEF IInv
    <2> QED BY <1>e, <2>1, <2>2 DEF MyRow, MyJob, Executing
  <1>i. ~Executing(w)' BY <1>g DEF Executing
  <1>1. TaskInv' BY <1>g, <1>i, <1>r, <1>c DEF IInv, TaskInv
  <1>2. CountInv'
    <2>1. \A n \in Numbers : n > job[MyJob(w)].count => n # worker[w].task.number
      <3>1. job[MyJob(w)].count \in Nat /\ MaxAttempts \in Nat
        BY <1>h, ConstantsAssumption DEF ConstantsAssumption
      <3> QED BY <1>h, <3>1 DEF Numbers
    <2> QED BY <1>e, <1>j, <2>1 DEF IInv, CountInv
  <1>3. OwnerHoldsCurrentAttempt'
    <2>1. ASSUME NEW j \in Jobs, job'[j].status = "running"
          PROVE  j # MyJob(w) /\ job'[j] = job[j]
      BY <1>j, <2>1
    <2> QED BY <1>e, <2>1 DEF IInv, OwnerHoldsCurrentAttempt
  <1>4. StartInv' BY <1>e, <1>g, <1>r DEF IInv, StartInv, Executing
  <1>s. \A j \in Jobs : Started(j)' <=> Started(j) BY <1>e DEF Started
  <1>5. RequestInv' BY <1>g, <1>s, <1>u, <1>r DEF IInv, RequestInv
  <1>6. PhotoInv' BY <1>g, <1>s, <1>u, <1>r DEF IInv, PhotoInv
  <1>7. Settlement'
    <2>1. job[MyJob(w)].charge \in {"exempt", "reserved"} BY <1>a, <1>h DEF IInv, Settlement
    <2>2. job[MyJob(w)].reference \in {"none", "held", "released"}
      <3>1. ~Uncounted(MyJob(w)) BY DEF MarkSucceeded, Fail
      <3> QED BY <1>h, <3>1 DEF JobRow, Uncounted
    <2>3. ASSUME NEW j \in Jobs, j = MyJob(w)
          PROVE  /\ job'[j].status = "succeeded" =>
                       photos'[j] = 1 /\ job'[j].charge \in {"exempt", "consumed"}
                 /\ job'[j].status = "failed" => job'[j].charge \in {"exempt", "released"}
                 /\ job'[j].status \in {"succeeded", "failed"}
                 /\ job'[j].reference \in {"none", "released"}
      BY <1>j, <1>u, <2>1, <2>2, <2>3
    <2>4. ASSUME NEW j \in Jobs, j # MyJob(w)
          PROVE  job'[j] = job[j] /\ photos'[j] = photos[j]
      BY <1>j, <1>u, <2>4
    <2> QED BY <2>3, <2>4 DEF IInv, Settlement, Terminal
  <1> QED BY <1>1, <1>2, <1>3, <1>4, <1>5, <1>6, <1>7 DEF IInv

(* accept creates a job that nobody works on yet.                            *)
LEMMA AcceptStep ==
    ASSUME IInv, TypeOK', NEW j \in Jobs, Accept(j)
    PROVE  IInv'
  <1>u. UNCHANGED <<attempt, worker, requests, photos>> BY DEF Accept
  <1>e. /\ job[j].status = "absent"
        /\ \A i \in Jobs \ {j} : job'[i] = job[i]
        /\ job'[j].status = "queued"
        /\ job'[j].count = job[j].count
        /\ job'[j].charge \in {"exempt", "reserved"}
        /\ job'[j].reference \in {"none", "held"}
    <2>1. job \in [Jobs -> JobRow] BY DEF IInv, TypeOK
    <2>2. PICK charge \in {"exempt", "reserved"}, reference \in {"none", "held"} :
             job' = [job EXCEPT ![j] = [@ EXCEPT !.status = "queued", !.charge = charge,
                                                 !.reference = reference]]
      BY DEF Accept
    <2>3. /\ job'[j] = [job[j] EXCEPT !.status = "queued", !.charge = charge,
                                      !.reference = reference]
          /\ job[j] \in JobRow
          /\ \A i \in Jobs \ {j} : job'[i] = job[i]
      BY <2>1, <2>2
    <2>4. /\ job'[j].status = "queued"
          /\ job'[j].count = job[j].count
          /\ job'[j].charge = charge
          /\ job'[j].reference = reference
      BY <2>3 DEF JobRow
    <2>5. job[j].status = "absent" BY DEF Accept
    <2> QED BY <2>3, <2>4, <2>5
  <1>c. \A i \in Jobs : job'[i].count = job[i].count BY <1>e
  <1>1. TaskInv' BY <1>u, <1>c DEF IInv, TaskInv, Executing, MyJob, MyRow
  <1>2. CountInv' BY <1>u, <1>e DEF IInv, CountInv
  <1>3. OwnerHoldsCurrentAttempt'
    <2>1. ASSUME NEW i \in Jobs, job'[i].status = "running"
          PROVE  i # j /\ job'[i] = job[i]
      BY <1>e, <2>1
    <2> QED BY <1>u, <2>1 DEF IInv, OwnerHoldsCurrentAttempt
  <1>4. StartInv' BY <1>u DEF IInv, StartInv, MyRow
  <1>5. RequestInv' BY <1>u DEF IInv, RequestInv, Started, MyJob
  <1>6. PhotoInv' BY <1>u DEF IInv, PhotoInv, Started, MyJob
  <1>7. Settlement'
    <2>1. job[j].reference # "released" BY <1>e DEF IInv, Settlement, Terminal
    <2> QED BY <1>u, <1>e, <2>1 DEF IInv, Settlement, Terminal
  <1> QED BY <1>1, <1>2, <1>3, <1>4, <1>5, <1>6, <1>7 DEF IInv

(* claim gives the job a fresh attempt, whoever held the one before.         *)
LEMMA ClaimStep ==
    ASSUME IInv, TypeOK', NEW w \in Workers, Claim(w)
    PROVE  IInv'
  <1>u. UNCHANGED <<requests, photos>> BY DEF Claim
  <1>k. PICK j \in worker[w].scan :
        LET n == job[j].count + 1
            old == IF job[j].status = "running"
                   THEN [attempt[j] EXCEPT ![job[j].count] = ExpiredAttempt(@)]
                   ELSE attempt[j]
        IN /\ Claimable(j)
           /\ n \in Numbers
           /\ job' = [job EXCEPT ![j] = [@ EXCEPT !.status = "running", !.count = n,
                                                  !.owner = w, !.lease = "live"]]
           /\ attempt' = [attempt EXCEPT
                 ![j] = [old EXCEPT ![n] = [NoAttempt EXCEPT !.worker = w,
                                                             !.state = "claimed"]]]
           /\ worker' = [worker EXCEPT
                 ![w] = [@ EXCEPT !.step = "claimed", !.scan = {}, !.heartbeat = "on",
                                  !.task = [job |-> j, number |-> n]]]
    BY DEF Claim
  <1> DEFINE n == job[j].count + 1
             fresh == [NoAttempt EXCEPT !.worker = w, !.state = "claimed"]
             old == IF job[j].status = "running"
                    THEN [attempt[j] EXCEPT ![job[j].count] = ExpiredAttempt(@)]
                    ELSE attempt[j]
  <1>t. /\ job \in [Jobs -> JobRow]
        /\ attempt \in [Jobs -> [Numbers -> AttemptRow]]
        /\ worker \in [Workers -> WorkerState]
    BY DEF IInv, TypeOK
  <1>h. j \in Jobs /\ n \in Numbers /\ job[j].count \in 0..MaxAttempts
    <2>1. j \in Jobs BY <1>t DEF WorkerState
    <2> QED BY <1>k, <1>t, <2>1 DEF JobRow
  <1>q. job[j].status \in {"queued", "running"}
    BY <1>k DEF Claimable, MayBeSeenExpired
  <1>j. /\ \A i \in Jobs \ {j} : job'[i] = job[i]
        /\ job'[j].status = "running"
        /\ job'[j].count = n
        /\ job'[j].owner = w
        /\ job'[j].charge = job[j].charge
        /\ job'[j].reference = job[j].reference
    <2>1. /\ job'[j] = [job[j] EXCEPT !.status = "running", !.count = n,
                                      !.owner = w, !.lease = "live"]
          /\ job[j] \in JobRow
          /\ \A i \in Jobs \ {j} : job'[i] = job[i]
      BY <1>k, <1>t, <1>h
    <2> HIDE DEF n
    <2>2. /\ job'[j].status = "running"
          /\ job'[j].count = n
          /\ job'[j].owner = w
          /\ job'[j].charge = job[j].charge
          /\ job'[j].reference = job[j].reference
      BY <2>1 DEF JobRow
    <2> QED BY <2>1, <2>2
  <1>f. fresh.worker = w /\ fresh.state = "claimed" /\ ~fresh.started
    BY DEF NoAttempt
  <1>o. \A row \in AttemptRow : /\ ExpiredAttempt(row).worker = row.worker
                                /\ ExpiredAttempt(row).started = row.started
    BY DEF ExpiredAttempt, AttemptRow
  <1>e. /\ \A i \in Jobs \ {j} : attempt'[i] = attempt[i]
        /\ attempt'[j][n] = fresh
        /\ \A m \in Numbers \ {n} :
              /\ attempt'[j][m].worker = attempt[j][m].worker
              /\ attempt'[j][m].started = attempt[j][m].started
              /\ m > n => attempt'[j][m] = attempt[j][m]
    <2>1. attempt'[j] = [old EXCEPT ![n] = fresh] /\ attempt[j] \in [Numbers -> AttemptRow]
          /\ \A i \in Jobs \ {j} : attempt'[i] = attempt[i]
      BY <1>k, <1>t, <1>h
    <2>2. old \in [Numbers -> AttemptRow]
      <3>1. CASE job[j].status = "running"
        <4>1. attempt[j][job[j].count] \in AttemptRow
          BY <1>h, <2>1, <3>1 DEF IInv, OwnerHoldsCurrentAttempt
        <4> QED BY <2>1, <3>1, <4>1, RowUpdates, Update
      <3>2. CASE job[j].status # "running"
        BY <2>1, <3>2
      <3> QED BY <3>1, <3>2
    <2>3. attempt'[j][n] = fresh /\ \A m \in Numbers \ {n} : attempt'[j][m] = old[m]
      BY <1>h, <2>1, <2>2
    <2>4. \A m \in Numbers \ {n} :
             \/ old[m] = attempt[j][m]
             \/ m = job[j].count /\ old[m] = ExpiredAttempt(attempt[j][m])
      BY <2>1
    <2>5. \A m \in Numbers : m > n => m # job[j].count
      BY <1>h, ConstantsAssumption DEF Numbers, ConstantsAssumption
    <2> QED BY <1>o, <2>1, <2>3, <2>4, <2>5
  <1>g. /\ worker'[w].step = "claimed"
        /\ worker'[w].task.job = j
        /\ worker'[w].task.number = n
        /\ \A v \in Workers \ {w} : worker'[v] = worker[v]
    <2>1. /\ worker'[w] = [worker[w] EXCEPT !.step = "claimed", !.scan = {},
                                             !.heartbeat = "on",
                                             !.task = [job |-> j, number |-> n]]
          /\ worker[w] \in WorkerState
          /\ \A v \in Workers \ {w} : worker'[v] = worker[v]
      BY <1>k, <1>t
    <2> HIDE DEF n
    <2>2. worker'[w].step = "claimed" /\ worker'[w].task = [job |-> j, number |-> n]
      BY <2>1 DEF WorkerState
    <2> QED BY <2>1, <2>2
  <1> HIDE DEF fresh, old
  <1>z. \A m \in Numbers : m >= n => attempt[j][m] = NoAttempt
    <2>1. \A m \in Numbers : m >= n => m > job[j].count
      BY <1>h, ConstantsAssumption DEF Numbers, ConstantsAssumption
    <2> QED BY <1>h, <2>1 DEF IInv, CountInv
  <1>s. /\ \A i \in Jobs, m \in Numbers : attempt'[i][m].started <=> attempt[i][m].started
        /\ \A i \in Jobs, m \in Numbers : attempt[i][m].started => i # j \/ m # n
    <2>1. ~attempt[j][n].started
      <3>1. attempt[j][n] = NoAttempt
        BY <1>h, <1>z DEF Numbers
      <3> QED BY <3>1 DEF NoAttempt
    <2> QED BY <1>h, <1>e, <1>f, <2>1
  <1>r. ASSUME NEW v \in Workers \ {w}, Executing(v)
        PROVE  /\ MyJob(v)' = MyJob(v) /\ MyJob(v) \in Jobs
               /\ worker'[v].task.number \in 1..job'[MyJob(v)'].count
               /\ MyRow(v)'.worker = v
               /\ MyRow(v)'.started = MyRow(v).started
    <2>1. /\ MyJob(v) \in Jobs /\ worker[v].task.number \in Numbers
          /\ worker[v].task.number \in 1..job[MyJob(v)].count
          /\ MyRow(v).worker = v
      BY <1>r, Holding DEF IInv
    <2>2. MyJob(v)' = MyJob(v) /\ worker'[v] = worker[v]
      BY <1>g DEF MyJob
    <2>3. /\ worker[v].task.number \in 1..job'[MyJob(v)].count
          /\ MyJob(v) # j \/ worker[v].task.number # n
      BY <1>h, <1>j, <2>1
    <2>4. MyRow(v)' = attempt'[MyJob(v)][worker[v].task.number]
      BY <2>2 DEF MyRow, MyJob
    <2>5. /\ attempt'[MyJob(v)][worker[v].task.number].worker = MyRow(v).worker
          /\ attempt'[MyJob(v)][worker[v].task.number].started = MyRow(v).started
      BY <1>e, <2>1, <2>3 DEF MyRow, MyJob
    <2> QED BY <2>1, <2>2, <2>3, <2>4, <2>5
  <1>x. \A v \in Workers \ {w} : (Executing(v)' <=> Executing(v)) /\ worker'[v] = worker[v]
    BY <1>g DEF Executing
  <1>m. Executing(w)' /\ MyJob(w)' = j /\ MyRow(w)' = attempt'[j][n]
    BY <1>g DEF Executing, MyJob, MyRow
  <1>1. TaskInv'
    <2>1. n \in 1..job'[j].count
      BY <1>h, <1>j, ConstantsAssumption DEF Numbers, ConstantsAssumption
    <2> QED BY <1>e, <1>f, <1>g, <1>h, <1>m, <1>r, <1>x, <2>1 DEF IInv, TaskInv
  <1>2. CountInv'
    <2>1. \A m \in Numbers : m > n => attempt'[j][m] = NoAttempt
      <3>1. ASSUME NEW m \in Numbers, m > n
            PROVE  m # n /\ m >= n
        BY <1>h, <3>1 DEF Numbers
      <3> QED BY <1>e, <1>z, <3>1
    <2> QED BY <1>j, <1>e, <2>1 DEF IInv, CountInv
  <1>3. OwnerHoldsCurrentAttempt'
    BY <1>h, <1>j, <1>e, <1>f DEF IInv, OwnerHoldsCurrentAttempt
  <1>4. StartInv'
    BY <1>g, <1>e, <1>f, <1>m, <1>r, <1>s, <1>x DEF IInv, StartInv, Executing
  <1>p. \A i \in Jobs : Started(i)' <=> Started(i) BY <1>s DEF Started
  <1>5. RequestInv' BY <1>g, <1>p, <1>r, <1>u, <1>x DEF IInv, RequestInv, Executing
  <1>6. PhotoInv' BY <1>g, <1>p, <1>r, <1>u, <1>x DEF IInv, PhotoInv, Executing
  <1>7. Settlement'
    <2>1. job[j].charge \in {"exempt", "reserved"} /\ job[j].reference # "released"
      BY <1>h, <1>q DEF IInv, Settlement, Terminal
    <2> QED BY <1>h, <1>j, <1>u, <2>1 DEF IInv, Settlement, Terminal
  <1> QED BY <1>1, <1>2, <1>3, <1>4, <1>5, <1>6, <1>7 DEF IInv

(* run_once terminalizes a batch of expired jobs and takes its snapshot.     *)
LEMMA PollStep ==
    ASSUME IInv, TypeOK', NEW w \in Workers, Poll(w)
    PROVE  IInv'
  <1>u. UNCHANGED <<requests, photos>> BY DEF Poll
  <1>k. PICK batch \in SUBSET {j \in Jobs : MayBeSeenExpired(j) /\ Started(j) /\ ~Uncounted(j)},
             scan \in SUBSET Jobs :
          /\ job' = [j \in Jobs |-> IF j \in batch THEN Reconciled(j) ELSE job[j]]
          /\ attempt' = [j \in Jobs |->
                IF j \in batch
                THEN [attempt[j] EXCEPT ![job[j].count] =
                         [@ EXCEPT !.state = "ambiguous", !.summary = "other"]]
                ELSE attempt[j]]
          /\ worker' = [worker EXCEPT ![w] = [@ EXCEPT !.step = "scanned", !.scan = scan]]
    BY DEF Poll
  <1>t. /\ job \in [Jobs -> JobRow]
        /\ attempt \in [Jobs -> [Numbers -> AttemptRow]]
        /\ worker \in [Workers -> WorkerState]
    BY DEF IInv, TypeOK
  <1>b. ASSUME NEW j \in batch
        PROVE  /\ j \in Jobs /\ job[j].status = "running" /\ job[j].count \in Numbers
               /\ job[j] \in JobRow /\ job[j].reference \in {"none", "held", "released"}
    <2>1. job[j] \in JobRow BY <1>t
    <2> QED BY <2>1 DEF MayBeSeenExpired, Uncounted, IInv, OwnerHoldsCurrentAttempt, JobRow
  <1>j. /\ \A j \in Jobs \ batch : job'[j] = job[j]
        /\ \A j \in batch :
              /\ job'[j].status = "failed"
              /\ job'[j].count = job[j].count
              /\ job'[j].charge = IF job[j].charge = "reserved" THEN "released"
                                  ELSE job[j].charge
              /\ job'[j].reference = IF job[j].reference = "held" THEN "released"
                                     ELSE job[j].reference
    <2>1. \A j \in Jobs \ batch : job'[j] = job[j] BY <1>k
    <2>2. ASSUME NEW j \in batch
          PROVE  /\ job'[j].status = "failed"
                 /\ job'[j].count = job[j].count
                 /\ job'[j].charge = IF job[j].charge = "reserved" THEN "released"
                                     ELSE job[j].charge
                 /\ job'[j].reference = IF job[j].reference = "held" THEN "released"
                                        ELSE job[j].reference
      <3>1. job'[j] = Reconciled(j) /\ job[j] \in JobRow BY <1>k, <1>b
      <3> QED BY <3>1 DEF Reconciled, Finished, JobRow
    <2> QED BY <2>1, <2>2
  <1>e. /\ \A j \in Jobs \ batch : attempt'[j] = attempt[j]
        /\ \A j \in Jobs, n \in Numbers :
              /\ attempt'[j][n].worker = attempt[j][n].worker
              /\ attempt'[j][n].started = attempt[j][n].started
              /\ n > job[j].count => attempt'[j][n] = attempt[j][n]
    <2>1. \A j \in Jobs \ batch : attempt'[j] = attempt[j] BY <1>k
    <2>2. ASSUME NEW j \in batch, NEW n \in Numbers
          PROVE  /\ attempt'[j][n].worker = attempt[j][n].worker
                 /\ attempt'[j][n].started = attempt[j][n].started
                 /\ n > job[j].count => attempt'[j][n] = attempt[j][n]
      <3>1. attempt[j] \in [Numbers -> AttemptRow] BY <1>t, <1>b
      <3>2. attempt'[j] = [attempt[j] EXCEPT ![job[j].count] =
                 [@ EXCEPT !.state = "ambiguous", !.summary = "other"]]
        BY <1>k, <1>b
      <3>3. \/ attempt'[j][n] = attempt[j][n]
            \/ n = job[j].count
               /\ attempt'[j][n] = [attempt[j][n] EXCEPT !.state = "ambiguous",
                                                         !.summary = "other"]
        BY <3>1, <3>2
      <3>4. n > job[j].count => n # job[j].count
        BY <1>b, ConstantsAssumption DEF Numbers, ConstantsAssumption
      <3>5. attempt[j][n] \in AttemptRow BY <3>1
      <3>6. ASSUME NEW row \in AttemptRow
            PROVE  /\ [row EXCEPT !.state = "ambiguous", !.summary = "other"].worker = row.worker
                   /\ [row EXCEPT !.state = "ambiguous", !.summary = "other"].started = row.started
        BY DEF AttemptRow
      <3> QED BY <3>3, <3>4, <3>5, <3>6
    <2> QED BY <2>1, <2>2
  <1>g. /\ worker'[w].step = "scanned"
        /\ worker'[w].task = worker[w].task
        /\ worker'[w].heartbeat = worker[w].heartbeat
        /\ \A v \in Workers \ {w} : worker'[v] = worker[v]
    <2>1. /\ worker'[w] = [worker[w] EXCEPT !.step = "scanned", !.scan = scan]
          /\ worker[w] \in WorkerState
          /\ \A v \in Workers \ {w} : worker'[v] = worker[v]
      BY <1>k, <1>t
    <2> QED BY <2>1 DEF WorkerState
  <1>w. ~Executing(w) BY DEF Poll, Executing
  <1>x. /\ ~Executing(w)'
        /\ \A v \in Workers \ {w} : (Executing(v)' <=> Executing(v)) /\ worker'[v] = worker[v]
    BY <1>g DEF Executing
  <1>c. \A j \in Jobs : job'[j].count = job[j].count BY <1>j
  <1>r. ASSUME NEW v \in Workers \ {w}, Executing(v)
        PROVE  /\ MyJob(v)' = MyJob(v) /\ MyJob(v) \in Jobs
               /\ MyRow(v)'.worker = v
               /\ MyRow(v)'.started = MyRow(v).started
    <2>1. /\ MyJob(v) \in Jobs /\ worker[v].task.number \in Numbers
          /\ MyRow(v).worker = v
      BY <1>r, Holding DEF IInv
    <2>2. MyJob(v)' = MyJob(v) /\ MyRow(v)' = attempt'[MyJob(v)][worker[v].task.number]
      BY <1>g DEF MyJob, MyRow
    <2> QED BY <1>e, <2>1, <2>2 DEF MyRow, MyJob
  <1>1. TaskInv' BY <1>c, <1>g, <1>r, <1>w, <1>x DEF IInv, TaskInv
  <1>2. CountInv' BY <1>b, <1>e, <1>j DEF IInv, CountInv
  <1>3. OwnerHoldsCurrentAttempt'
    <2>1. ASSUME NEW j \in Jobs, job'[j].status = "running"
          PROVE  j \notin batch /\ job'[j] = job[j] /\ attempt'[j] = attempt[j]
      BY <1>j, <1>e, <2>1
    <2> QED BY <2>1 DEF IInv, OwnerHoldsCurrentAttempt
  <1>4. StartInv' BY <1>e, <1>g, <1>r, <1>x DEF IInv, StartInv, Executing
  <1>s. \A j \in Jobs : Started(j)' <=> Started(j) BY <1>e DEF Started
  <1>5. RequestInv' BY <1>g, <1>r, <1>s, <1>u, <1>x DEF IInv, RequestInv, Executing
  <1>6. PhotoInv' BY <1>g, <1>r, <1>s, <1>u, <1>x DEF IInv, PhotoInv, Executing
  <1>7. Settlement'
    <2>1. ASSUME NEW j \in batch
          PROVE  job[j].charge \in {"exempt", "reserved"}
      BY <1>b DEF IInv, Settlement
    <2> QED BY <1>b, <1>j, <1>u, <2>1 DEF IInv, Settlement, Terminal
  <1> QED BY <1>1, <1>2, <1>3, <1>4, <1>5, <1>6, <1>7 DEF IInv

-----------------------------------------------------------------------------
(* The invariant holds initially.                                            *)
LEMMA InitInv == Init => IInv
  <1> SUFFICES ASSUME Init PROVE IInv
    OBVIOUS
  <1> USE DEF Init
  <1>1. TypeOK
    <2>1. job \in [Jobs -> JobRow]
      BY ConstantsAssumption DEF ConstantsAssumption, JobRow, Codes
    <2>2. attempt \in [Jobs -> [Numbers -> AttemptRow]] /\ worker \in [Workers -> WorkerState]
      BY IdleType
    <2>3. requests \in [Jobs -> Nat] /\ photos \in [Jobs -> Nat]
      OBVIOUS
    <2>4. faults \in 0..MaxFaults
      BY ConstantsAssumption DEF ConstantsAssumption
    <2> QED BY <2>1, <2>2, <2>3, <2>4 DEF TypeOK
  <1>2. TaskInv BY DEF TaskInv, Executing, Idle
  <1>3. CountInv BY DEF CountInv
  <1>4. OwnerHoldsCurrentAttempt BY DEF OwnerHoldsCurrentAttempt
  <1>5. StartInv BY DEF StartInv, NoAttempt, Idle
  <1>6. RequestInv BY DEF RequestInv, Idle
  <1>7. PhotoInv BY DEF PhotoInv, Idle
  <1>8. Settlement BY DEF Settlement, Terminal
  <1> QED BY <1>1, <1>2, <1>3, <1>4, <1>5, <1>6, <1>7, <1>8 DEF IInv

(* Every step keeps the invariant.                                           *)
LEMMA NextInv == IInv /\ [Next]_vars => IInv'
  <1> SUFFICES ASSUME IInv, [Next]_vars PROVE IInv'
    OBVIOUS
  <1>t. TypeOK' BY TypeStep
  <1>i. TypeOK /\ TaskInv BY DEF IInv
  <1>1. ASSUME NEW j \in Jobs, Accept(j) PROVE IInv'
    BY <1>t, <1>1, AcceptStep
  <1>2. ASSUME NEW j \in Jobs, LeaseLapses(j) \/ LeaseExpires(j) PROVE IInv'
    BY <1>t, <1>2, LeaseStep DEF LeaseLapses, LeaseExpires
  <1>3. ASSUME NEW w \in Workers, Poll(w) PROVE IInv'
    BY <1>t, <1>3, PollStep
  <1>4. ASSUME NEW w \in Workers, Claim(w) PROVE IInv'
    BY <1>t, <1>4, ClaimStep
  <1>5. ASSUME NEW w \in Workers,
               \/ ClaimNothing(w) \/ ReleaseRefused(w) \/ LoseLease(w)
               \/ HeartbeatRaises(w) \/ Crash(w)
        PROVE  IInv'
    <2>1. GoIdle(w) /\ UNCHANGED <<job, attempt, requests, photos>>
      BY <1>5 DEF ClaimNothing, ReleaseRefused, LoseLease, HeartbeatRaises, Crash
    <2>2. /\ worker'[w].step = "idle" /\ worker'[w].task = NoTask
          /\ worker'[w].heartbeat = "off"
          /\ \A u \in Workers \ {w} : worker'[u] = worker[u]
      BY <1>i, <2>1, MoveEffect
    <2> QED BY <1>t, <2>1, <2>2, MoveStep
  <1>6. ASSUME NEW w \in Workers,
               InputRejected(w) \/ NormalizationFails(w) \/ UnexpectedError(w)
                  \/ ProviderAnswers(w)
                  \/ ProviderUnavailable(w)
        PROVE  IInv'
    <2>1. Executing(w) /\ UNCHANGED <<job, attempt, requests, photos>>
      BY <1>6 DEF InputRejected, NormalizationFails, UnexpectedError, ProviderAnswers,
                  ProviderUnavailable, Executing
    <2>2. \/ \E code \in Codes : GoFail(w, code)
          \/ worker[w].step = "uploaded" /\ GoTo(w, "generated")
      BY <1>6 DEF InputRejected, NormalizationFails, UnexpectedError, ProviderAnswers,
                  ProviderUnavailable, Codes
    <2>3. /\ worker'[w].task = worker[w].task
          /\ \A u \in Workers \ {w} : worker'[u] = worker[u]
          /\ \/ worker'[w].step = "failing"
             \/ worker[w].step = "uploaded" /\ worker'[w].step = "generated"
      <3>1. CASE \E code \in Codes : GoFail(w, code)
        BY <1>i, <3>1, MoveEffect
      <3>2. CASE worker[w].step = "uploaded" /\ GoTo(w, "generated")
        BY <1>i, <3>2, MoveEffect DEF Steps
      <3> QED BY <2>2, <3>1, <3>2
    <2> QED BY <1>t, <2>1, <2>3, MoveStep
  <1>7. ASSUME NEW w \in Workers, HeartbeatDies(w) PROVE IInv'
    <2>1. /\ worker'[w].step = worker[w].step
          /\ worker'[w].task = worker[w].task
          /\ \A u \in Workers \ {w} : worker'[u] = worker[u]
      <3>1. /\ worker'[w] = [worker[w] EXCEPT !.heartbeat = "raised"]
            /\ worker[w] \in WorkerState
            /\ \A u \in Workers \ {w} : worker'[u] = worker[u]
        BY <1>i, <1>7 DEF HeartbeatDies, TypeOK
      <3> QED BY <3>1 DEF WorkerState
    <2>2. Executing(w) BY <1>i, <1>7, StepExecutes DEF HeartbeatDies
    <2>3. UNCHANGED <<job, attempt, requests, photos>> BY <1>7 DEF HeartbeatDies
    <2> QED BY <1>t, <2>1, <2>2, <2>3, MoveStep
  <1>8. ASSUME NEW w \in Workers,
               MarkSourceReady(w) \/ ConnectFails(w) \/ MarkProviderSucceeded(w)
                  \/ MarkDelivering(w)
        PROVE  IInv'
    <2>1. Executing(w) /\ UNCHANGED <<job, requests, photos>>
      BY <1>8 DEF MarkSourceReady, ConnectFails, MarkProviderSucceeded, MarkDelivering,
                  Executing
    <2>2. MyRow(w) \in AttemptRow /\ MyRow(w).worker = w
      BY <1>i, <2>1, Holding
    <2>3. PICK row : /\ row.worker = w
                     /\ row.started = MyRow(w).started
                     /\ row.state \notin {"none", "succeeded", "failed", "ambiguous"}
                     /\ SetMyRow(w, row)
      <3>1. ASSUME NEW state \in {"source_ready", "provider_succeeded"}
            PROVE  /\ [MyRow(w) EXCEPT !.state = state].worker = w
                   /\ [MyRow(w) EXCEPT !.state = state].started = MyRow(w).started
                   /\ [MyRow(w) EXCEPT !.state = state].state = state
        BY <2>2 DEF AttemptRow
      <3>2. /\ [MyRow(w) EXCEPT !.retries = 1].worker = w
            /\ [MyRow(w) EXCEPT !.retries = 1].started = MyRow(w).started
            /\ [MyRow(w) EXCEPT !.retries = 1].state = MyRow(w).state
        BY <2>2 DEF AttemptRow
      <3>3. /\ [MyRow(w) EXCEPT !.state = "delivering", !.delivering = TRUE].worker = w
            /\ [MyRow(w) EXCEPT !.state = "delivering", !.delivering = TRUE].started =
                  MyRow(w).started
            /\ [MyRow(w) EXCEPT !.state = "delivering", !.delivering = TRUE].state = "delivering"
        BY <2>2 DEF AttemptRow
      <3>4. CASE MarkSourceReady(w) BY <3>1, <3>4 DEF MarkSourceReady
      <3>5. CASE ConnectFails(w)
        BY <3>2, <3>5 DEF ConnectFails
      <3>6. CASE MarkProviderSucceeded(w) BY <3>1, <3>6 DEF MarkProviderSucceeded
      <3>7. CASE MarkDelivering(w) BY <3>3, <3>7 DEF MarkDelivering
      <3> QED BY <1>8, <3>4, <3>5, <3>6, <3>7
    <2>4. /\ worker'[w].task = worker[w].task
          /\ \A u \in Workers \ {w} : worker'[u] = worker[u]
          /\ <<worker[w].step, worker'[w].step>> \in
                {<<"claimed", "source_ready">>, <<"connect", "reconnect">>,
                 <<"generated", "provider_succeeded">>,
                 <<"provider_succeeded", "delivering">>}
      BY <1>8, <1>i, MoveEffect
         DEF MarkSourceReady, ConnectFails, MarkProviderSucceeded, MarkDelivering, Steps
    <2> QED BY <1>t, <2>1, <2>3, <2>4, RowStep
  <1>9. ASSUME NEW w \in Workers, MarkProviderStarted(w) PROVE IInv'
    BY <1>t, <1>9, StartStep
  <1>10. ASSUME NEW w \in Workers, Upload(w) \/ SendResult(w) PROVE IInv'
    BY <1>t, <1>10, SideEffectStep
  <1>11. ASSUME NEW w \in Workers, MarkSucceeded(w) \/ Fail(w) PROVE IInv'
    BY <1>t, <1>11, EndStep
  <1>12. ASSUME NEW w \in Workers, Heartbeat(w) PROVE IInv'
    <2>1. MyJob(w) \in Jobs
      BY <1>i, <1>12, StepExecutes, Holding DEF Heartbeat
    <2> QED BY <1>t, <1>12, <2>1, LeaseStep DEF Heartbeat
  <1>14. ASSUME NEW j \in Jobs, Uncount(j) \/ Recount(j) PROVE IInv'
    BY <1>t, <1>14, CountStep
  <1>13. CASE UNCHANGED vars
    BY <1>13 DEF vars, IInv, TypeOK, TaskInv, CountInv, OwnerHoldsCurrentAttempt, StartInv,
                 RequestInv, PhotoInv, Settlement, Executing, MyJob, MyRow, Started, Terminal
  <1> QED
    BY <1>1, <1>2, <1>3, <1>4, <1>5, <1>6, <1>7, <1>8, <1>9, <1>10, <1>11, <1>12, <1>13,
       <1>14
       DEF Next, Proceed

-----------------------------------------------------------------------------
(* The inductive invariant holds in every reachable state, for every set of  *)
(* jobs and workers and every bound on attempts and faults.                  *)
THEOREM Invariance == Spec => []IInv
  BY InitInv, NextInv, PTL DEF Spec

(* Every row, task and counter keeps its type.                               *)
THEOREM TypeCorrect == Spec => []TypeOK
  <1>1. IInv => TypeOK BY DEF IInv
  <1> QED BY <1>1, Invariance, PTL

(* No crash, lost lease, reclaim or reconciliation makes a job cost a second *)
(* image request.                                                            *)
THEOREM OneRequest == Spec => []AtMostOneRequest
  <1>1. IInv => AtMostOneRequest BY DEF IInv, RequestInv, AtMostOneRequest
  <1> QED BY <1>1, Invariance, PTL

(* No crash, lost lease, reclaim or reconciliation delivers a result twice.  *)
THEOREM OnePhoto == Spec => []AtMostOnePhoto
  <1>1. IInv => AtMostOnePhoto BY DEF IInv, PhotoInv, AtMostOnePhoto
  <1> QED BY <1>1, Invariance, PTL

(* Reservations and custom references are settled when the job ends, and an  *)
(* allowance is consumed only if the photo is in the chat.                   *)
THEOREM SettledOnce == Spec => []Settlement
  <1>1. IInv => Settlement BY DEF IInv
  <1> QED BY <1>1, Invariance, PTL

(* The owner of a running job is always the worker of its current attempt,   *)
(* so that reconcile_expired never raises on a job it locked.                *)
THEOREM OwnerIsCurrent == Spec => []OwnerHoldsCurrentAttempt
  <1>1. IInv => OwnerHoldsCurrentAttempt BY DEF IInv
  <1> QED BY <1>1, Invariance, PTL


-----------------------------------------------------------------------------
(* Every write to a job's row is guarded by its status: only rows that are   *)
(* absent, queued or running are written, and only they hold a reference.    *)
LEMMA TerminalStep ==
    ASSUME IInv, Next, NEW j \in Jobs, Terminal(j)
    PROVE  job'[j] = job[j]
  <1>1. job \in [Jobs -> JobRow] BY DEF IInv, TypeOK
  <1>2. ASSUME NEW i \in Jobs, Accept(i) \/ LeaseLapses(i) \/ LeaseExpires(i)
        PROVE  job'[j] = job[j]
    <2>1. job[i].status \in {"absent", "running"}
      BY <1>2 DEF Accept, LeaseLapses, LeaseExpires
    <2>2. i # j BY <2>1 DEF Terminal
    <2> QED BY <1>1, <1>2, <2>2 DEF Accept, LeaseLapses, LeaseExpires, SetLease
  <1>3. ASSUME NEW w \in Workers, Poll(w) PROVE job'[j] = job[j]
    BY <1>1, <1>3 DEF Poll, MayBeSeenExpired, Terminal
  <1>4. ASSUME NEW w \in Workers, Claim(w) PROVE job'[j] = job[j]
    <2>1. PICK i \in worker[w].scan :
             /\ Claimable(i)
             /\ \E n : job' = [job EXCEPT ![i] = [@ EXCEPT !.status = "running", !.count = n,
                                                    !.owner = w, !.lease = "live"]]
      BY <1>4 DEF Claim
    <2>2. i # j BY <2>1 DEF Claimable, MayBeSeenExpired, Terminal
    <2> QED BY <1>1, <2>1, <2>2
  <1>5. ASSUME NEW w \in Workers, MarkSucceeded(w) \/ Fail(w) \/ Heartbeat(w)
        PROVE  job'[j] = job[j]
    <2>1. Owned(w) BY <1>5 DEF MarkSucceeded, Fail, Heartbeat, MayOwn
    <2>2. MyJob(w) # j BY <2>1 DEF Owned, Terminal
    <2> QED BY <1>1, <1>5, <2>2 DEF MarkSucceeded, Fail, Heartbeat, SetLease
  <1>6. ASSUME NEW w \in Workers,
               \/ ClaimNothing(w) \/ Crash(w) \/ HeartbeatDies(w)
               \/ MarkSourceReady(w) \/ InputRejected(w) \/ MarkProviderStarted(w)
               \/ ConnectFails(w) \/ ProviderUnavailable(w) \/ Upload(w)
               \/ ProviderAnswers(w) \/ MarkProviderSucceeded(w) \/ NormalizationFails(w)
               \/ MarkDelivering(w) \/ SendResult(w) \/ UnexpectedError(w)
               \/ ReleaseRefused(w) \/ LoseLease(w) \/ HeartbeatRaises(w)
        PROVE  job'[j] = job[j]
    BY <1>6 DEF ClaimNothing, Crash, HeartbeatDies, MarkSourceReady, InputRejected,
                MarkProviderStarted, ConnectFails, ProviderUnavailable, Upload,
                ProviderAnswers, MarkProviderSucceeded, NormalizationFails,
                MarkDelivering, SendResult, UnexpectedError,
                ReleaseRefused, LoseLease, HeartbeatRaises
  <1>7. ASSUME NEW i \in Jobs, Uncount(i) \/ Recount(i) PROVE job'[j] = job[j]
    <2>1. /\ \A k \in Jobs \ {i} : job'[k] = job[k]
          /\ job[i].reference \in {"held", "uncounted"}
      BY <1>7, CountEffect DEF IInv
    <2>2. i # j BY <2>1 DEF IInv, Settlement
    <2> QED BY <2>1, <2>2
  <1> QED BY <1>2, <1>3, <1>4, <1>5, <1>6, <1>7 DEF Next, Proceed

(* A job that has succeeded or failed keeps its row whatever its old workers *)
(* and the reconciliation still do.                                          *)
THEOREM TerminalStays == Spec => TerminalIsFinal
  <1>1. IInv /\ [Next]_vars => [\A j \in Jobs : Terminal(j) => job'[j] = job[j]]_vars
    BY TerminalStep
  <1> QED BY <1>1, Invariance, PTL DEF Spec, TerminalIsFinal

-----------------------------------------------------------------------------
(* What each kind of step does to the promise.                               *)

(* A step that changes neither a status nor a charge, a request nor a photo, *)
(* is not seen by the promise.                                               *)
LEMMA Unseen ==
    ASSUME \A j \in Jobs : job'[j].status = job[j].status /\ job'[j].charge = job[j].charge,
           UNCHANGED <<requests, photos>>
    PROVE  UNCHANGED Promise!vars
  BY DEF Promise!vars

(* A claim starts a queued job, and supersedes an attempt of a running one   *)
(* without being seen.                                                       *)
LEMMA ClaimKept ==
    ASSUME TypeOK, NEW w \in Workers, Claim(w)
    PROVE  Promise!Next \/ UNCHANGED Promise!vars
  <1>1. PICK i \in Jobs, n \in Numbers :
           /\ Claimable(i)
           /\ job' = [job EXCEPT ![i] = [@ EXCEPT !.status = "running", !.count = n,
                                                  !.owner = w, !.lease = "live"]]
    <2>1. worker[w].scan \subseteq Jobs BY DEF TypeOK, WorkerState
    <2> QED BY <2>1 DEF Claim
  <1>2. job[i] \in JobRow /\ job \in [Jobs -> JobRow] BY DEF TypeOK
  <1>3. /\ [job[i] EXCEPT !.status = "running", !.count = n,
                          !.owner = w, !.lease = "live"].status = "running"
        /\ [job[i] EXCEPT !.status = "running", !.count = n,
                          !.owner = w, !.lease = "live"].charge = job[i].charge
    BY <1>2 DEF JobRow
  <1>4. /\ job'[i].status = "running" /\ job'[i].charge = job[i].charge
        /\ \A j \in Jobs \ {i} : job'[j] = job[j]
    BY <1>1, <1>2, <1>3
  <1>5. UNCHANGED <<requests, photos>> BY DEF Claim
  <1>6. CASE job[i].status = "queued"
    <2>1. Promise!Start(i) BY <1>4, <1>5, <1>6 DEF Promise!Start
    <2> QED BY <2>1 DEF Promise!Next
  <1>7. CASE job[i].status = "running"
    BY <1>4, <1>5, <1>7, Unseen
  <1> QED BY <1>1, <1>6, <1>7 DEF Claimable, MayBeSeenExpired

(* A poll gives up the batch of jobs that it reconciles.                     *)
LEMMA PollKept ==
    ASSUME TypeOK, NEW w \in Workers, Poll(w)
    PROVE  Promise!Next
  <1>1. PICK batch \in SUBSET {j \in Jobs : MayBeSeenExpired(j) /\ Started(j) /\ ~Uncounted(j)} :
           job' = [j \in Jobs |-> IF j \in batch THEN Reconciled(j) ELSE job[j]]
    BY DEF Poll
  <1>2. \A j \in batch : j \in Jobs /\ job[j].status = "running"
    BY DEF MayBeSeenExpired
  <1>3. ASSUME NEW j \in batch
        PROVE  /\ job'[j].status = "failed"
               /\ job'[j].charge = Promise!Settled(job[j].charge, "released")
    <2>1. job[j] \in JobRow BY <1>2 DEF TypeOK
    <2>2. PICK error \in Codes : Reconciled(j) = Finished(job[j], "failed", error, "released")
      BY DEF Reconciled, Codes
    <2>3. job'[j] = Finished(job[j], "failed", error, "released") BY <1>1, <1>2, <2>2
    <2>4. /\ Finished(job[j], "failed", error, "released").status = "failed"
          /\ Finished(job[j], "failed", error, "released").charge =
                IF job[j].charge = "reserved" THEN "released" ELSE job[j].charge
      <3>1. "failed" \in {"succeeded", "failed"} /\ "released" \in {"consumed", "released"}
        OBVIOUS
      <3>2. \A row \in JobRow :
               /\ Finished(row, "failed", error, "released").status = "failed"
               /\ Finished(row, "failed", error, "released").charge =
                     IF row.charge = "reserved" THEN "released" ELSE row.charge
        BY <3>1, FinishedType
      <3> QED BY <2>1, <3>2
    <2> QED BY <2>3, <2>4 DEF Promise!Settled
  <1>4. \A j \in Jobs \ batch : job'[j] = job[j] BY <1>1
  <1>5. Promise!GiveUp(batch)
    BY <1>2, <1>3, <1>4 DEF Poll, Promise!GiveUp
  <1> QED BY <1>2, <1>5 DEF Promise!Next

(* The end of an execution: the promise's success, if the photo was sent, or *)
(* giving up one job.                                                        *)
LEMMA EndKept ==
    ASSUME IInv, NEW w \in Workers, MarkSucceeded(w) \/ Fail(w)
    PROVE  Promise!Next
  <1>1. TypeOK BY DEF IInv
  <1>2. Owned(w) BY DEF MarkSucceeded, Fail, MayOwn
  <1>3. Executing(w) BY DEF MarkSucceeded, Fail, Executing
  <1>4. PICK mine \in Jobs : mine = MyJob(w) BY <1>3 DEF IInv, TaskInv
  <1>5. job[mine].status = "running" BY <1>2, <1>4 DEF Owned
  <1>6. UNCHANGED <<requests, photos>> BY DEF MarkSucceeded, Fail
  <1>7. CASE MarkSucceeded(w)
    <2>1. job' = [job EXCEPT ![mine] = Finished(@, "succeeded", "none", "consumed")]
      BY <1>4, <1>7 DEF MarkSucceeded
    <2>2. /\ \A i \in Jobs \ {mine} : job'[i] = job[i]
          /\ job'[mine].status = "succeeded"
          /\ job'[mine].charge = Promise!Settled(job[mine].charge, "consumed")
      BY <1>1, <1>4, <2>1, FinishEffect DEF Codes, Promise!Settled
    <2>3. photos[mine] = 1 BY <1>4, <1>7 DEF IInv, PhotoInv, MarkSucceeded
    <2>4. Promise!Succeed(mine) BY <1>4, <1>5, <1>6, <2>2, <2>3 DEF Promise!Succeed
    <2> QED BY <1>4, <2>4 DEF Promise!Next
  <1>8. CASE Fail(w)
    <2>1. job' = [job EXCEPT ![mine] = Finished(@, "failed", worker[w].code, "released")]
      BY <1>4, <1>8 DEF Fail
    <2>2. worker[w].code \in Codes BY <1>1 DEF TypeOK, WorkerState
    <2>3. /\ \A i \in Jobs \ {mine} : job'[i] = job[i]
          /\ job'[mine].status = "failed"
          /\ job'[mine].charge = Promise!Settled(job[mine].charge, "released")
      BY <1>1, <1>4, <2>1, <2>2, FinishEffect DEF Promise!Settled
    <2>4. Promise!GiveUp({mine}) BY <1>4, <1>5, <1>6, <2>3 DEF Promise!GiveUp
    <2> QED BY <1>4, <2>4 DEF Promise!Next
  <1> QED BY <1>7, <1>8

(* A request or a photo leaves the worker of a job that is running, or that  *)
(* was given up meanwhile; never of one that succeeded.                      *)
LEMMA EffectKept ==
    ASSUME IInv, NEW w \in Workers, Upload(w) \/ SendResult(w)
    PROVE  Promise!Next \/ UNCHANGED Promise!vars
  <1> DEFINE j == MyJob(w)
  <1>1. Executing(w) BY DEF Upload, SendResult, Executing
  <1>2. j \in Jobs /\ job[j].count # 0
    <2>1. j \in Jobs /\ worker[w].task.number \in 1..job[j].count
      BY <1>1 DEF IInv, TaskInv
    <2>2. job[j].count \in Nat BY <2>1, ConstantsAssumption DEF IInv, TypeOK, JobRow
    <2> QED BY <2>1, <2>2
  <1>3. photos[j] = 0 BY DEF Upload, SendResult, IInv, PhotoInv
  <1>4. job[j].status \in {"running", "failed"}
    <2>1. job[j].status \notin {"absent", "queued"} BY <1>2 DEF IInv, CountInv
    <2>2. job[j].status # "succeeded" BY <1>2, <1>3 DEF IInv, Settlement
    <2> QED BY <1>2, <2>1, <2>2 DEF IInv, TypeOK, JobRow
  <1>5. UNCHANGED job BY DEF Upload, SendResult
  <1>6. requests \in [Jobs -> Nat] /\ photos \in [Jobs -> Nat] BY DEF IInv, TypeOK
  <1>7. CASE Upload(w)
    <2>1. requests[j] = 0 BY <1>7 DEF IInv, RequestInv, Upload
    <2>2. requests' = [requests EXCEPT ![j] = 1] /\ UNCHANGED photos
      BY <1>2, <1>6, <1>7, <2>1 DEF Upload
    <2>3. Promise!Request(j) BY <1>2, <1>4, <1>5, <2>1, <2>2 DEF Promise!Request
    <2> QED BY <1>2, <2>3 DEF Promise!Next
  <1>8. CASE SendResult(w)
    <2>1. requests[j] = 1 BY <1>8 DEF IInv, RequestInv, SendResult
    <2>2. PICK arrived \in {0, 1} : photos' = [photos EXCEPT ![j] = @ + arrived]
      BY <1>8 DEF SendResult
    <2>3. UNCHANGED requests BY <1>8 DEF SendResult
    <2>4. CASE arrived = 1
      <3>1. photos' = [photos EXCEPT ![j] = 1] BY <1>2, <1>3, <1>6, <2>2, <2>4
      <3>2. Promise!Deliver(j)
        BY <1>2, <1>3, <1>4, <1>5, <2>1, <2>3, <3>1 DEF Promise!Deliver
      <3> QED BY <1>2, <3>2 DEF Promise!Next
    <2>5. CASE arrived = 0
      <3>1. photos' = photos BY <1>2, <1>3, <1>6, <2>2, <2>5
      <3> QED BY <1>5, <2>3, <3>1, Unseen
    <2> QED BY <2>4, <2>5
  <1> QED BY <1>7, <1>8

LEMMA PromiseInit == Init => Promise!Init
  BY DEF Init, Promise!Init

(* Every step of the workers is a step of the promise or is not seen by it.  *)
LEMMA PromiseStep ==
    ASSUME IInv, [Next]_vars
    PROVE  [Promise!Next]_(Promise!vars)
  <1>1. job \in [Jobs -> JobRow] /\ TypeOK BY DEF IInv, TypeOK
  <1>2. ASSUME NEW j \in Jobs, Accept(j) PROVE Promise!Next
    <2>1. PICK charge \in {"exempt", "reserved"}, reference \in {"none", "held"} :
             job' = [job EXCEPT ![j] = [@ EXCEPT !.status = "queued", !.charge = charge,
                                                 !.reference = reference]]
      BY <1>2 DEF Accept
    <2>2. /\ [job[j] EXCEPT !.status = "queued", !.charge = charge,
                            !.reference = reference].status = "queued"
          /\ [job[j] EXCEPT !.status = "queued", !.charge = charge,
                            !.reference = reference].charge = charge
      BY <1>1 DEF JobRow
    <2>3. /\ job'[j].status = "queued" /\ job'[j].charge = charge
          /\ \A i \in Jobs \ {j} : job'[i] = job[i]
      BY <1>1, <2>1, <2>2
    <2>4. Promise!Accept(j) BY <1>2, <2>3 DEF Accept, Promise!Accept
    <2> QED BY <2>4 DEF Promise!Next
  <1>3. ASSUME NEW j \in Jobs, LeaseLapses(j) \/ LeaseExpires(j)
        PROVE  UNCHANGED Promise!vars
    <2>1. PICK lease : SetLease(j, lease) BY <1>3 DEF LeaseLapses, LeaseExpires
    <2>2. UNCHANGED <<requests, photos>> BY <1>3 DEF LeaseLapses, LeaseExpires
    <2> QED BY <1>1, <2>1, <2>2, SetLeaseEffect, Unseen
  <1>4. ASSUME NEW w \in Workers, Heartbeat(w) PROVE UNCHANGED Promise!vars
    <2>1. MyJob(w) \in Jobs
      BY <1>1, <1>4, StepExecutes, Holding DEF IInv, Heartbeat
    <2>2. SetLease(MyJob(w), "live") /\ UNCHANGED <<requests, photos>>
      BY <1>4 DEF Heartbeat
    <2> QED BY <1>1, <2>1, <2>2, SetLeaseEffect, Unseen
  <1>5. ASSUME NEW w \in Workers,
               \/ ClaimNothing(w) \/ Crash(w) \/ HeartbeatDies(w)
               \/ MarkSourceReady(w) \/ InputRejected(w) \/ MarkProviderStarted(w)
               \/ ConnectFails(w) \/ ProviderUnavailable(w)
               \/ ProviderAnswers(w) \/ MarkProviderSucceeded(w) \/ NormalizationFails(w)
               \/ MarkDelivering(w) \/ UnexpectedError(w)
               \/ ReleaseRefused(w) \/ LoseLease(w) \/ HeartbeatRaises(w)
        PROVE  UNCHANGED Promise!vars
    <2>1. UNCHANGED <<job, requests, photos>>
      BY <1>5 DEF ClaimNothing, Crash, HeartbeatDies, MarkSourceReady, InputRejected,
                  MarkProviderStarted, ConnectFails, ProviderUnavailable,
                  ProviderAnswers, MarkProviderSucceeded, NormalizationFails,
                  MarkDelivering, UnexpectedError,
                ReleaseRefused, LoseLease, HeartbeatRaises
    <2> QED BY <2>1, Unseen
  <1>6. CASE UNCHANGED vars BY <1>6, Unseen DEF vars
  <1>7. ASSUME NEW j \in Jobs, Uncount(j) \/ Recount(j) PROVE UNCHANGED Promise!vars
    <2>1. UNCHANGED <<requests, photos>> BY <1>7 DEF Uncount, Recount
    <2> QED BY <1>1, <1>7, <2>1, CountEffect, Unseen
  <1> QED
    BY <1>1, <1>2, <1>3, <1>4, <1>5, <1>6, <1>7, ClaimKept, PollKept, EndKept, EffectKept
       DEF Next, Proceed

(* Workers, leases, attempts, crashes and reconciliation implement the       *)
(* promise of GenerationJob: no interleaving shows the user or the account   *)
(* anything it does not allow.                                               *)
THEOREM KeepsPromise == Spec => ImplementsPromise
  BY Invariance, PromiseInit, PromiseStep, PTL DEF Spec, ImplementsPromise, Promise!Spec

-----------------------------------------------------------------------------
(* What HonestInv reads of a step: rows, codes and errors.                   *)

(* Ending a job as failed writes the code it is given.                       *)
LEMMA ErrorEffect ==
    ASSUME TypeOK, NEW j \in Jobs, NEW status \in {"succeeded", "failed"},
           NEW error \in Codes, NEW settled \in {"consumed", "released"}
    PROVE  /\ Finished(job[j], status, error, settled).status = status
           /\ Finished(job[j], status, error, settled).count = job[j].count
           /\ Finished(job[j], status, error, settled).error = error
  <1>1. job[j] \in JobRow BY DEF TypeOK
  <1> QED BY <1>1 DEF Finished, JobRow

(* Going into _fail writes the code it is given.                             *)
LEMMA CodeEffect ==
    ASSUME TypeOK, NEW w \in Workers, NEW code \in Codes, GoFail(w, code)
    PROVE  worker'[w].code = code
  <1>1. worker \in [Workers -> WorkerState] BY DEF TypeOK
  <1>2. worker'[w] = [worker[w] EXCEPT !.step = "failing", !.code = code]
        /\ worker[w] \in WorkerState
    BY <1>1 DEF GoFail
  <1> QED BY <1>2 DEF WorkerState

(* A step that delivers no photo keeps the invariant if it starts no attempt *)
(* of a job with a photo, unmarks no delivery, fails no job against what its *)
(* delivery did, and moves each worker in one of the ways listed.            *)
LEMMA HonestStep ==
    ASSUME IInv, IInv', HonestInv, UNCHANGED photos,
           \A j \in Jobs, n \in Numbers :
              /\ attempt'[j][n].started =>
                    attempt[j][n].started \/ (photos[j] = 0 /\ job'[j].status # "failed")
              /\ attempt[j][n].delivering /\ attempt'[j][n].started =>
                    attempt'[j][n].delivering,
           \A j \in Jobs : job'[j].status = "failed" =>
              \/ /\ job[j].status = "failed"
                 /\ job'[j].count = job[j].count
                 /\ job'[j].error = job[j].error
              \/ /\ job'[j].count \in Numbers
                 /\ attempt[j][job'[j].count].started =>
                       \/ job'[j].error \in DeliveryCodes
                       \/ /\ photos[j] = 0
                          /\ \A u \in Workers :
                                worker'[u].step = "delivering" => worker'[u].task.job # j,
           \A u \in Workers :
              \/ /\ worker'[u].step = worker[u].step
                 /\ worker'[u].task = worker[u].task
                 /\ worker'[u].code = worker[u].code
              \/ worker'[u].step \notin {"delivering", "sent", "failing"}
              \/ /\ worker'[u].step = "failing"
                 /\ Executing(u)
                 /\ worker'[u].task = worker[u].task
                 /\ \/ worker'[u].code \in DeliveryCodes
                    \/ photos[MyJob(u)] = 0
                    \/ ~MyRow(u).started
              \/ /\ worker'[u].step = "delivering"
                 /\ Executing(u)
                 /\ worker'[u].task = worker[u].task
                 /\ attempt'[MyJob(u)][worker[u].task.number].delivering
                 /\ job'[MyJob(u)].status = "running"
    PROVE  HonestInv'
  <1>p. \A j \in Jobs : photos[j] \in {0, 1} BY DEF IInv, PhotoInv
  <1>h. ASSUME NEW u \in Workers, Executing(u)
        PROVE  MyJob(u) \in Jobs /\ worker[u].task.number \in Numbers
    BY <1>h, Holding DEF IInv
  <1>s. ASSUME NEW u \in Workers, worker[u].step \in {"delivering", "sent"}
        PROVE  Executing(u) /\ MyRow(u).started
    BY <1>s DEF Executing, IInv, StartInv
  <1>f. ASSUME NEW j \in Jobs, job'[j].status = "failed"
        PROVE  job'[j].count \in Numbers
    BY <1>f DEF HonestInv, EndedInv
  <1>1. EndedInv' BY <1>f DEF EndedInv
  <1>2. DeliveringInv'
    <2>1. ASSUME NEW j \in Jobs, NEW n \in Numbers, photos'[j] = 1, attempt'[j][n].started
          PROVE  attempt'[j][n].delivering
      <3>1. attempt[j][n].started BY <2>1
      <3> QED BY <2>1, <3>1 DEF HonestInv, DeliveringInv
    <2>2. ASSUME NEW u \in Workers, worker'[u].step \in {"delivering", "sent"}
          PROVE  MyRow(u)'.delivering
      <3>1. CASE /\ worker'[u].step = "delivering"
                 /\ Executing(u)
                 /\ worker'[u].task = worker[u].task
                 /\ attempt'[MyJob(u)][worker[u].task.number].delivering
        BY <3>1 DEF MyRow, MyJob
      <3>2. CASE /\ worker'[u].step = worker[u].step
                 /\ worker'[u].task = worker[u].task
        <4>1. Executing(u) /\ MyRow(u).delivering
          BY <1>s, <2>2, <3>2 DEF HonestInv, DeliveringInv
        <4>2. MyRow(u)'.started
          <5>1. worker'[u].step \in {"delivering", "sent"} => MyRow(u)'.started
            BY DEF IInv, StartInv
          <5> QED BY <2>2, <5>1
        <4>3. MyJob(u) \in Jobs /\ worker[u].task.number \in Numbers BY <1>h, <4>1
        <4>4. MyRow(u)' = attempt'[MyJob(u)][worker[u].task.number]
              /\ MyRow(u) = attempt[MyJob(u)][worker[u].task.number]
          BY <3>2 DEF MyRow, MyJob
        <4> QED BY <4>1, <4>2, <4>3, <4>4
      <3> QED BY <2>2, <3>1, <3>2
    <2> QED BY <2>1, <2>2 DEF DeliveringInv
  <1>3. ReportInv'
    <2> SUFFICES ASSUME NEW u \in Workers, worker'[u].step = "failing", MyRow(u)'.started,
                        photos'[MyJob(u)'] = 1
                 PROVE  worker'[u].code \in DeliveryCodes
      BY DEF ReportInv
    <2>1. /\ worker'[u].task = worker[u].task
          /\ Executing(u)
          /\ \/ worker[u].step = "failing" /\ worker'[u].code = worker[u].code
             \/ worker'[u].code \in DeliveryCodes
             \/ photos[MyJob(u)] = 0
             \/ ~MyRow(u).started
      BY DEF Executing
    <2>2. MyJob(u) \in Jobs /\ worker[u].task.number \in Numbers BY <1>h, <2>1
    <2>3. MyJob(u)' = MyJob(u)
          /\ MyRow(u)' = attempt'[MyJob(u)][worker[u].task.number]
          /\ MyRow(u) = attempt[MyJob(u)][worker[u].task.number]
      BY <2>1 DEF MyRow, MyJob
    <2>4. MyRow(u).started /\ photos[MyJob(u)] = 1 BY <2>2, <2>3
    <2> QED BY <2>1, <2>4 DEF HonestInv, ReportInv
  <1>4. LateInv'
    <2> SUFFICES ASSUME NEW u \in Workers, worker'[u].step = "delivering",
                        job'[MyJob(u)'].status = "failed",
                        attempt'[MyJob(u)'][job'[MyJob(u)'].count].started
                 PROVE  job'[MyJob(u)'].error \in DeliveryCodes
      BY DEF LateInv
    <2>1. worker'[u].task = worker[u].task /\ Executing(u)
      BY DEF Executing
    <2>2. MyJob(u)' = MyJob(u) /\ MyJob(u) \in Jobs BY <1>h, <2>1 DEF MyJob
    <2>3. worker[u].step = "delivering" BY <2>2
    <2>4. job'[MyJob(u)].count \in Numbers BY <1>f, <2>2
    <2>5. attempt[MyJob(u)][job'[MyJob(u)].count].started BY <2>2, <2>4
    <2>6. worker'[u].task.job = MyJob(u) BY <2>1 DEF MyJob
    <2>7. CASE /\ job[MyJob(u)].status = "failed"
               /\ job'[MyJob(u)].count = job[MyJob(u)].count
               /\ job'[MyJob(u)].error = job[MyJob(u)].error
      BY <2>2, <2>3, <2>5, <2>7 DEF HonestInv, LateInv
    <2>8. CASE job'[MyJob(u)].error \in DeliveryCodes
      BY <2>2, <2>8
    <2> QED BY <2>2, <2>5, <2>6, <2>7, <2>8
  <1>5. HonestFailure'
    <2> SUFFICES ASSUME NEW j \in Jobs, job'[j].status = "failed", photos'[j] = 1,
                        attempt'[j][job'[j].count].started
                 PROVE  job'[j].error \in DeliveryCodes
      BY DEF HonestFailure, DeliveryCodes
    <2>1. job'[j].count \in Numbers BY <1>f
    <2>2. attempt[j][job'[j].count].started BY <2>1
    <2>3. CASE /\ job[j].status = "failed"
               /\ job'[j].count = job[j].count
               /\ job'[j].error = job[j].error
      BY <2>2, <2>3 DEF HonestInv, HonestFailure, DeliveryCodes
    <2> QED BY <2>2, <2>3
  <1> QED BY <1>1, <1>2, <1>3, <1>4, <1>5 DEF HonestInv

(* send_result: the photo arrives through the one started attempt of its     *)
(* job, which is marked as delivering; if the receipt is lost the worker     *)
(* reports the delivery, and so did whoever gave the job up meanwhile.       *)
LEMMA HonestSend ==
    ASSUME IInv, IInv', HonestInv, NEW w \in Workers, SendResult(w)
    PROVE  HonestInv'
  <1> DEFINE mine == MyJob(w)
  <1>t. TypeOK /\ TaskInv /\ PhotoInv BY DEF IInv
  <1>u. UNCHANGED <<job, attempt>> BY DEF SendResult
  <1>x. Executing(w) /\ worker[w].step = "delivering" BY DEF SendResult, Executing
  <1>h. mine \in Jobs /\ worker[w].task.number \in Numbers /\ MyRow(w).worker = w
    BY <1>t, <1>x, Holding
  <1>r. MyRow(w).started /\ MyRow(w).delivering /\ photos[mine] = 0
    BY <1>x DEF IInv, StartInv, PhotoInv, HonestInv, DeliveringInv
  <1>o. \A n \in Numbers : attempt[mine][n].started => n = worker[w].task.number
    BY <1>h, <1>r DEF IInv, StartInv, MyRow, MyJob
  <1>a. PICK arrived \in {0, 1} :
           /\ photos' = [photos EXCEPT ![mine] = @ + arrived]
           /\ \/ arrived = 1 /\ GoTo(w, "sent")
              \/ GoFail(w, "delivery_ambiguous")
              \/ arrived = 0 /\ GoFail(w, "definite")
    BY DEF SendResult
  <1>b. \A j \in Jobs \ {mine} : photos'[j] = photos[j]
    BY <1>a, <1>t DEF TypeOK
  <1>c. photos'[mine] = arrived
    BY <1>a, <1>h, <1>r, <1>t DEF TypeOK
  <1>d. /\ worker'[w].task = worker[w].task
        /\ \A u \in Workers \ {w} : worker'[u] = worker[u]
        /\ \/ worker'[w].step = "sent"
           \/ worker'[w].step = "failing" /\ worker'[w].code = "delivery_ambiguous"
           \/ worker'[w].step = "failing" /\ arrived = 0
    <2>1. CASE GoTo(w, "sent") BY <1>t, <2>1, MoveEffect DEF Steps
    <2>2. CASE GoFail(w, "delivery_ambiguous")
      BY <1>t, <2>2, MoveEffect, CodeEffect DEF Codes
    <2>3. CASE arrived = 0 /\ GoFail(w, "definite")
      BY <1>t, <2>3, MoveEffect DEF Codes
    <2> QED BY <1>a, <2>1, <2>2, <2>3
  <1>m. \A u \in Workers :
           /\ MyJob(u)' = MyJob(u)
           /\ MyRow(u)' = MyRow(u)
           /\ Executing(u)' <=> Executing(u)
    BY <1>d, <1>u, <1>x DEF MyJob, MyRow, Executing
  <1>1. EndedInv' BY <1>u DEF HonestInv, EndedInv
  <1>2. DeliveringInv'
    <2>1. ASSUME NEW j \in Jobs, NEW n \in Numbers, photos'[j] = 1, attempt[j][n].started
          PROVE  attempt[j][n].delivering
      <3>1. CASE j = mine BY <1>o, <1>r, <2>1, <3>1 DEF MyRow, MyJob
      <3>2. CASE j # mine BY <1>b, <2>1, <3>2 DEF HonestInv, DeliveringInv
      <3> QED BY <3>1, <3>2
    <2>2. ASSUME NEW u \in Workers, worker'[u].step \in {"delivering", "sent"}
          PROVE  MyRow(u).delivering
      <3>1. CASE u = w BY <1>r, <3>1
      <3>2. CASE u # w BY <1>d, <2>2, <3>2 DEF HonestInv, DeliveringInv
      <3> QED BY <3>1, <3>2
    <2> QED BY <1>u, <1>m, <2>1, <2>2 DEF DeliveringInv
  <1>3. ReportInv'
    <2> SUFFICES ASSUME NEW u \in Workers, worker'[u].step = "failing", MyRow(u).started,
                        photos'[MyJob(u)] = 1
                 PROVE  worker'[u].code \in DeliveryCodes
      BY <1>m DEF ReportInv
    <2>1. CASE u = w BY <1>c, <1>d, <2>1 DEF DeliveryCodes
    <2>2. CASE u # w
      <3>1. worker[u].step = "failing" /\ worker'[u].code = worker[u].code /\ Executing(u)
        BY <1>d, <2>2 DEF Executing
      <3>2. MyJob(u) # mine BY <1>x, <1>r, <2>2, <3>1, Alone
      <3>3. MyJob(u) \in Jobs BY <1>t, <3>1, Holding
      <3> QED BY <1>b, <3>1, <3>2, <3>3 DEF HonestInv, ReportInv
    <2> QED BY <2>1, <2>2
  <1>4. LateInv'
    <2>1. ASSUME NEW u \in Workers, worker'[u].step = "delivering"
          PROVE  worker[u].step = "delivering"
      BY <1>d, <1>x, <2>1
    <2> QED BY <1>u, <1>m, <2>1 DEF HonestInv, LateInv
  <1>5. HonestFailure'
    <2> SUFFICES ASSUME NEW j \in Jobs, job[j].status = "failed", photos'[j] = 1,
                        attempt[j][job[j].count].started
                 PROVE  job[j].error \in DeliveryCodes
      BY <1>u DEF HonestFailure, DeliveryCodes
    <2>1. CASE j = mine BY <1>x, <2>1 DEF HonestInv, LateInv
    <2>2. CASE j # mine BY <1>b, <2>2 DEF HonestInv, HonestFailure, DeliveryCodes
    <2> QED BY <2>1, <2>2
  <1> QED BY <1>1, <1>2, <1>3, <1>4, <1>5 DEF HonestInv

(* A poll gives a job up as a lost delivery if its attempt was marked as     *)
(* delivering, which it was if its photo arrived or is on its way.           *)
LEMMA HonestPoll ==
    ASSUME IInv, IInv', HonestInv, NEW w \in Workers, Poll(w)
    PROVE  HonestInv'
  <1>t. TypeOK /\ TaskInv BY DEF IInv
  <1>u. UNCHANGED photos BY DEF Poll
  <1>k. PICK batch \in SUBSET {j \in Jobs : MayBeSeenExpired(j) /\ Started(j) /\ ~Uncounted(j)},
             scan \in SUBSET Jobs :
          /\ job' = [j \in Jobs |-> IF j \in batch THEN Reconciled(j) ELSE job[j]]
          /\ attempt' = [j \in Jobs |->
                IF j \in batch
                THEN [attempt[j] EXCEPT ![job[j].count] =
                         [@ EXCEPT !.state = "ambiguous", !.summary = "other"]]
                ELSE attempt[j]]
          /\ worker' = [worker EXCEPT ![w] = [@ EXCEPT !.step = "scanned", !.scan = scan]]
    BY DEF Poll
  <1>y. attempt \in [Jobs -> [Numbers -> AttemptRow]] BY <1>t DEF TypeOK
  <1>1. ASSUME NEW j \in Jobs, NEW n \in Numbers
        PROVE  /\ attempt'[j][n].started = attempt[j][n].started
               /\ attempt'[j][n].delivering = attempt[j][n].delivering
    <2>1. attempt[j][n] \in AttemptRow BY <1>y
    <2>2. /\ [attempt[j][n] EXCEPT !.state = "ambiguous", !.summary = "other"].started =
                attempt[j][n].started
          /\ [attempt[j][n] EXCEPT !.state = "ambiguous", !.summary = "other"].delivering =
                attempt[j][n].delivering
      BY <2>1 DEF AttemptRow
    <2>3. attempt'[j][n] \in {attempt[j][n],
                  [attempt[j][n] EXCEPT !.state = "ambiguous", !.summary = "other"]}
      BY <1>k, <1>y
    <2> QED BY <2>2, <2>3
  <1>2. \A u \in Workers :
           \/ worker'[u] = worker[u]
           \/ worker'[u].step \notin {"delivering", "sent", "failing"}
    <2>1. worker[w] \in WorkerState /\ worker \in [Workers -> WorkerState]
      BY <1>t DEF TypeOK
    <2>2. [worker[w] EXCEPT !.step = "scanned", !.scan = scan].step = "scanned"
      BY <2>1 DEF WorkerState
    <2>3. worker'[w].step = "scanned" /\ \A u \in Workers \ {w} : worker'[u] = worker[u]
      BY <1>k, <2>1, <2>2
    <2> QED BY <2>3
  <1>3. ASSUME NEW j \in Jobs, job'[j].status = "failed"
        PROVE  \/ job'[j] = job[j]
               \/ /\ job'[j].count \in Numbers
                  /\ attempt[j][job'[j].count].started =>
                       \/ job'[j].error \in DeliveryCodes
                       \/ /\ photos[j] = 0
                          /\ \A u \in Workers :
                                worker'[u].step = "delivering" => worker'[u].task.job # j
    <2>1. CASE j \notin batch BY <1>k, <2>1
    <2>2. CASE j \in batch
      <3> DEFINE n == job[j].count
                 code == IF attempt[j][n].delivering THEN "delivery_ambiguous"
                                                     ELSE "provider_ambiguous"
      <3>1. job[j].status = "running" BY <2>2 DEF MayBeSeenExpired
      <3>2. n \in Numbers BY <3>1 DEF IInv, OwnerHoldsCurrentAttempt
      <3>3. job'[j] = Finished(job[j], "failed", code, "released")
        BY <1>k, <2>2 DEF Reconciled
      <3>4. job'[j].count = n /\ job'[j].error = code
        <4>1. code \in Codes BY DEF Codes
        <4> HIDE DEF code
        <4> QED BY <1>t, <3>3, <4>1, ErrorEffect
      <3>5. CASE attempt[j][n].delivering
        BY <3>2, <3>4, <3>5 DEF DeliveryCodes
      <3>6. CASE ~attempt[j][n].delivering
        <4> SUFFICES ASSUME attempt[j][n].started
                     PROVE  /\ photos[j] = 0
                            /\ \A u \in Workers :
                                  worker'[u].step = "delivering" => worker'[u].task.job # j
          BY <3>2, <3>4
        <4>1. photos[j] = 0
          BY <3>2, <3>6 DEF HonestInv, DeliveringInv, IInv, PhotoInv
        <4>2. ASSUME NEW u \in Workers, worker'[u].step = "delivering",
                     worker'[u].task.job = j
              PROVE  FALSE
          <5>1. worker[u].step = "delivering" /\ MyJob(u) = j
            BY <1>2, <4>2 DEF MyJob
          <5>2. /\ Executing(u)
                /\ MyRow(u).started
                /\ MyRow(u).delivering
            BY <5>1 DEF Executing, IInv, StartInv, HonestInv, DeliveringInv
          <5>3. worker[u].task.number \in Numbers BY <1>t, <5>2, Holding
          <5>4. worker[u].task.number = n
            BY <3>2, <5>1, <5>2, <5>3 DEF IInv, StartInv, MyRow, MyJob
          <5> QED BY <3>6, <5>1, <5>2, <5>4 DEF MyRow, MyJob
        <4> QED BY <4>1, <4>2
      <3> QED BY <3>5, <3>6
    <2> QED BY <2>1, <2>2
  <1> QED BY <1>u, <1>1, <1>2, <1>3, HonestStep

(* _fail reports the photo that its own attempt delivered.                   *)
LEMMA HonestFail ==
    ASSUME IInv, IInv', HonestInv, NEW w \in Workers, MarkSucceeded(w) \/ Fail(w)
    PROVE  HonestInv'
  <1> DEFINE mine == MyJob(w)
             number == worker[w].task.number
  <1>t. TypeOK /\ TaskInv BY DEF IInv
  <1>u. UNCHANGED photos BY DEF MarkSucceeded, Fail
  <1>x. Executing(w) /\ Owned(w) BY DEF MarkSucceeded, Fail, Executing, MayOwn
  <1>h. mine \in Jobs /\ number \in Numbers /\ MyRow(w) \in AttemptRow
    BY <1>t, <1>x, Holding
  <1>n. job[mine].count = number BY <1>x DEF Owned
  <1>c. worker[w].code \in Codes BY <1>t DEF TypeOK, WorkerState
  <1>1. \A j \in Jobs, n \in Numbers :
           /\ attempt'[j][n].started = attempt[j][n].started
           /\ attempt'[j][n].delivering = attempt[j][n].delivering
    <2>1. PICK row : /\ SetMyRow(w, row)
                     /\ row.started = MyRow(w).started
                     /\ row.delivering = MyRow(w).delivering
      <3>1. ASSUME NEW state
            PROVE  /\ [MyRow(w) EXCEPT !.state = state].started = MyRow(w).started
                   /\ [MyRow(w) EXCEPT !.state = state].delivering = MyRow(w).delivering
                   /\ [MyRow(w) EXCEPT !.state = state, !.summary = "other"].started =
                         MyRow(w).started
                   /\ [MyRow(w) EXCEPT !.state = state, !.summary = "other"].delivering =
                         MyRow(w).delivering
        BY <1>h DEF AttemptRow
      <3>2. CASE MarkSucceeded(w) BY <3>1, <3>2 DEF MarkSucceeded
      <3>3. CASE Fail(w) BY <3>1, <3>3 DEF Fail
      <3> QED BY <3>2, <3>3
    <2>2. /\ attempt'[mine][number] = row
          /\ \A j \in Jobs, n \in Numbers :
                j # mine \/ n # number => attempt'[j][n] = attempt[j][n]
      BY <1>t, <1>x, <2>1, SetMyRowEffect
    <2>3. MyRow(w) = attempt[mine][number] BY DEF MyRow, MyJob
    <2> QED BY <2>1, <2>2, <2>3
  <1>2. \A u \in Workers :
           \/ worker'[u] = worker[u]
           \/ worker'[u].step \notin {"delivering", "sent", "failing"}
    <2>1. GoIdle(w) BY DEF MarkSucceeded, Fail
    <2> QED BY <1>t, <2>1, MoveEffect
  <1>3. ASSUME NEW j \in Jobs, job'[j].status = "failed"
        PROVE  \/ job'[j] = job[j]
               \/ /\ job'[j].count \in Numbers
                  /\ attempt[j][job'[j].count].started =>
                       \/ job'[j].error \in DeliveryCodes
                       \/ /\ photos[j] = 0
                          /\ \A u \in Workers :
                                worker'[u].step = "delivering" => worker'[u].task.job # j
    <2>1. CASE j # mine
      <3>1. job'[j] = job[j]
        BY <1>t, <2>1 DEF MarkSucceeded, Fail, TypeOK
      <3> QED BY <3>1
    <2>2. CASE j = mine /\ MarkSucceeded(w)
      <3>1. job'[mine] = Finished(job[mine], "succeeded", "none", "consumed")
        BY <1>t, <1>h, <2>2 DEF MarkSucceeded, TypeOK
      <3>2. job'[mine].status = "succeeded"
        BY <1>t, <1>h, <3>1, ErrorEffect DEF Codes
      <3> QED BY <1>3, <2>2, <3>2
    <2>3. CASE j = mine /\ Fail(w)
      <3>1. job'[mine] = Finished(job[mine], "failed", worker[w].code, "released")
        BY <1>t, <1>h, <2>3 DEF Fail, TypeOK
      <3>2. job'[mine].count = number /\ job'[mine].error = worker[w].code
        BY <1>t, <1>h, <1>c, <1>n, <3>1, ErrorEffect
      <3> SUFFICES ASSUME MyRow(w).started, worker[w].code \notin DeliveryCodes
                   PROVE  /\ photos[mine] = 0
                          /\ \A u \in Workers :
                                worker'[u].step = "delivering" => worker'[u].task.job # mine
        BY <1>h, <2>3, <3>2 DEF MyRow, MyJob
      <3>3. photos[mine] = 0
        BY <1>h, <2>3 DEF Fail, HonestInv, ReportInv, IInv, PhotoInv
      <3>4. ASSUME NEW u \in Workers, worker'[u].step = "delivering",
                   worker'[u].task.job = mine
            PROVE  FALSE
        <4>1. worker[u].step = "delivering" /\ MyJob(u) = mine
          BY <1>2, <3>4 DEF MyJob
        <4>2. Executing(u) /\ MyRow(u).started
          BY <4>1 DEF Executing, IInv, StartInv
        <4>3. u = w BY <1>x, <4>1, <4>2, Alone
        <4> QED BY <2>3, <4>1, <4>3 DEF Fail
      <3> QED BY <3>3, <3>4
    <2> QED BY <2>1, <2>2, <2>3
  <1> QED BY <1>u, <1>1, <1>2, <1>3, HonestStep

(* A claim opens a row that has neither started nor delivered anything.      *)
LEMMA HonestClaim ==
    ASSUME IInv, IInv', HonestInv, NEW w \in Workers, Claim(w)
    PROVE  HonestInv'
  <1>t. TypeOK /\ TaskInv BY DEF IInv
  <1>u. UNCHANGED photos BY DEF Claim
  <1>k. PICK j \in worker[w].scan :
        LET n == job[j].count + 1
            old == IF job[j].status = "running"
                   THEN [attempt[j] EXCEPT ![job[j].count] = ExpiredAttempt(@)]
                   ELSE attempt[j]
        IN /\ n \in Numbers
           /\ job' = [job EXCEPT ![j] = [@ EXCEPT !.status = "running", !.count = n,
                                                  !.owner = w, !.lease = "live"]]
           /\ attempt' = [attempt EXCEPT
                 ![j] = [old EXCEPT ![n] = [NoAttempt EXCEPT !.worker = w,
                                                             !.state = "claimed"]]]
           /\ worker' = [worker EXCEPT
                 ![w] = [@ EXCEPT !.step = "claimed", !.scan = {}, !.heartbeat = "on",
                                  !.task = [job |-> j, number |-> n]]]
    BY DEF Claim
  <1> DEFINE n == job[j].count + 1
             new == [NoAttempt EXCEPT !.worker = w, !.state = "claimed"]
  <1>j. j \in Jobs BY <1>t DEF TypeOK, WorkerState
  <1>y. attempt \in [Jobs -> [Numbers -> AttemptRow]] /\ job[j] \in JobRow
        /\ job \in [Jobs -> JobRow]
    BY <1>j, <1>t DEF TypeOK
  <1>1. ASSUME NEW i \in Jobs, NEW m \in Numbers
        PROVE  /\ attempt'[i][m].started => attempt[i][m].started
               /\ attempt[i][m].delivering /\ attempt'[i][m].started =>
                     attempt'[i][m].delivering
    <2>1. ~new.started BY DEF NoAttempt
    <2>2. attempt[i][m] \in AttemptRow BY <1>y
    <2>3. /\ ExpiredAttempt(attempt[i][m]).started = attempt[i][m].started
          /\ ExpiredAttempt(attempt[i][m]).delivering = attempt[i][m].delivering
      BY <2>2 DEF ExpiredAttempt, AttemptRow
    <2>4. attempt'[i][m] \in {attempt[i][m], ExpiredAttempt(attempt[i][m]), new}
      BY <1>k, <1>j, <1>y
    <2> HIDE DEF new
    <2> QED BY <2>1, <2>3, <2>4
  <1>2. ASSUME NEW i \in Jobs, job'[i].status = "failed" PROVE job'[i] = job[i]
    <2>1. [job[j] EXCEPT !.status = "running", !.count = n, !.owner = w,
                         !.lease = "live"].status = "running"
      BY <1>y DEF JobRow
    <2>2. job'[j].status = "running" /\ (i # j => job'[i] = job[i])
      BY <1>k, <1>j, <1>y, <2>1
    <2> QED BY <1>2, <2>2
  <1>3. \A u \in Workers :
           worker'[u] = worker[u] \/ worker'[u].step \notin {"delivering", "sent", "failing"}
    <2>1. worker[w] \in WorkerState /\ worker \in [Workers -> WorkerState]
      BY <1>t DEF TypeOK
    <2>2. [worker[w] EXCEPT !.step = "claimed", !.scan = {}, !.heartbeat = "on",
                            !.task = [job |-> j, number |-> n]].step = "claimed"
      BY <2>1 DEF WorkerState
    <2>3. worker'[w].step = "claimed" /\ \A u \in Workers \ {w} : worker'[u] = worker[u]
      BY <1>k, <2>1, <2>2
    <2> QED BY <2>3
  <1> QED BY <1>u, <1>1, <1>2, <1>3, HonestStep

(* Every other step keeps jobs that failed as they are, photos, starts and   *)
(* delivery marks, or marks the delivery of a running job.                   *)
LEMMA HonestMove ==
    ASSUME IInv, IInv', HonestInv, NEW w \in Workers, UNCHANGED <<job, attempt, photos>>,
           \/ InputRejected(w) \/ ProviderUnavailable(w) \/ Upload(w) \/ ProviderAnswers(w)
           \/ NormalizationFails(w) \/ UnexpectedError(w)
           \/ GoIdle(w)
           \/ HeartbeatDies(w)
    PROVE  HonestInv'
  <1>t. TypeOK /\ TaskInv BY DEF IInv
  <1>1. \A u \in Workers :
           \/ /\ worker'[u].step = worker[u].step
              /\ worker'[u].task = worker[u].task
              /\ worker'[u].code = worker[u].code
           \/ worker'[u].step \notin {"delivering", "sent", "failing"}
           \/ /\ worker'[u].step = "failing"
              /\ Executing(u)
              /\ worker'[u].task = worker[u].task
              /\ \/ worker'[u].code \in DeliveryCodes
                 \/ photos[MyJob(u)] = 0
                 \/ ~MyRow(u).started
    <2>1. CASE InputRejected(w)
      <3>1. Executing(w) /\ ~MyRow(w).started /\ GoFail(w, "definite")
        BY <2>1 DEF InputRejected, Executing, IInv, StartInv
      <3> QED BY <1>t, <3>1, MoveEffect DEF Codes
    <2>2. CASE ProviderUnavailable(w) \/ NormalizationFails(w)
      <3>1. Executing(w) /\ photos[MyJob(w)] = 0 /\ GoFail(w, "definite")
        BY <2>2 DEF ProviderUnavailable, NormalizationFails, Executing, IInv, PhotoInv
      <3> QED BY <1>t, <3>1, MoveEffect DEF Codes
    <2>3. CASE ProviderAnswers(w)
      <3>1. Executing(w) /\ photos[MyJob(w)] = 0
        BY <2>3 DEF ProviderAnswers, Executing, IInv, PhotoInv
      <3>2. CASE GoTo(w, "generated") BY <1>t, <3>2, MoveEffect DEF Steps
      <3>3. CASE GoFail(w, "definite") BY <1>t, <3>1, <3>3, MoveEffect DEF Codes
      <3>4. CASE GoFail(w, "provider_ambiguous") BY <1>t, <3>1, <3>4, MoveEffect DEF Codes
      <3> QED BY <2>3, <3>2, <3>3, <3>4 DEF ProviderAnswers
    <2>4. CASE Upload(w)
      <3>1. GoTo(w, "uploaded") BY <2>4 DEF Upload
      <3> QED BY <1>t, <3>1, MoveEffect DEF Steps
    <2>5. CASE UnexpectedError(w)
      <3>1. Executing(w) /\ GoFail(w, "internal") BY <2>5 DEF UnexpectedError
      <3>2. worker'[w].code = "internal" BY <1>t, <3>1, CodeEffect DEF Codes
      <3> QED BY <1>t, <3>1, <3>2, MoveEffect DEF Codes, DeliveryCodes
    <2>6. CASE GoIdle(w) BY <1>t, <2>6, MoveEffect
    <2>7. CASE HeartbeatDies(w)
      <3>1. /\ worker'[w] = [worker[w] EXCEPT !.heartbeat = "raised"]
            /\ worker[w] \in WorkerState
            /\ \A u \in Workers \ {w} : worker'[u] = worker[u]
        BY <1>t, <2>7 DEF HeartbeatDies, TypeOK
      <3>2. /\ worker'[w].step = worker[w].step
            /\ worker'[w].task = worker[w].task
            /\ worker'[w].code = worker[w].code
        BY <3>1 DEF WorkerState
      <3> QED BY <3>1, <3>2
    <2> QED BY <2>1, <2>2, <2>3, <2>4, <2>5, <2>6, <2>7
  <1>2. \A j \in Jobs : job'[j].status = "failed" =>
           /\ job[j].status = "failed"
           /\ job'[j].count = job[j].count
           /\ job'[j].error = job[j].error
    OBVIOUS
  <1>3. \A j \in Jobs, n \in Numbers :
           /\ attempt'[j][n].started => attempt[j][n].started
           /\ attempt[j][n].delivering => attempt'[j][n].delivering
    OBVIOUS
  <1> QED BY <1>1, <1>2, <1>3, HonestStep

(* The steps of execute that write their own row.                            *)
LEMMA HonestRow ==
    ASSUME IInv, IInv', HonestInv, NEW w \in Workers,
           \/ MarkSourceReady(w) \/ ConnectFails(w) \/ MarkProviderSucceeded(w)
           \/ MarkProviderStarted(w) \/ MarkDelivering(w)
    PROVE  HonestInv'
  <1> DEFINE mine == MyJob(w)
             number == worker[w].task.number
  <1>t. TypeOK /\ TaskInv BY DEF IInv
  <1>u. UNCHANGED <<job, photos>>
    BY DEF MarkSourceReady, ConnectFails, MarkProviderSucceeded, MarkProviderStarted,
           MarkDelivering
  <1>x. Executing(w) /\ Owned(w)
    BY DEF MarkSourceReady, ConnectFails, MarkProviderSucceeded, MarkProviderStarted,
           MarkDelivering, Executing, MayOwn
  <1>h. mine \in Jobs /\ number \in Numbers /\ MyRow(w) \in AttemptRow
    BY <1>t, <1>x, Holding
  <1>o. job[mine].status = "running" BY <1>x DEF Owned
  <1>r. PICK row, step :
           /\ step \in Steps
           /\ SetMyRow(w, row)
           /\ GoTo(w, step)
           /\ MyRow(w).delivering => row.delivering
           /\ step \notin {"sent", "failing"}
           /\ row.started => MyRow(w).started \/ photos[mine] = 0
           /\ step = "delivering" => row.delivering
    <2>1. ASSUME NEW state
          PROVE  /\ [MyRow(w) EXCEPT !.state = state].started = MyRow(w).started
                 /\ [MyRow(w) EXCEPT !.state = state].delivering = MyRow(w).delivering
      BY <1>h DEF AttemptRow
    <2>2. /\ [MyRow(w) EXCEPT !.retries = 1].started = MyRow(w).started
          /\ [MyRow(w) EXCEPT !.retries = 1].delivering = MyRow(w).delivering
      BY <1>h DEF AttemptRow
    <2>3. [MyRow(w) EXCEPT !.state = "provider_started", !.started = TRUE].delivering =
             MyRow(w).delivering
      BY <1>h DEF AttemptRow
    <2>4. /\ [MyRow(w) EXCEPT !.state = "delivering", !.delivering = TRUE].started =
                MyRow(w).started
          /\ [MyRow(w) EXCEPT !.state = "delivering", !.delivering = TRUE].delivering
      BY <1>h DEF AttemptRow
    <2>5. CASE MarkSourceReady(w)
      <3> DEFINE new == [MyRow(w) EXCEPT !.state = "source_ready"]
      <3>1. SetMyRow(w, new) /\ GoTo(w, "source_ready") BY <2>5 DEF MarkSourceReady
      <3>2. new.started = MyRow(w).started /\ new.delivering = MyRow(w).delivering BY <2>1
      <3> HIDE DEF new
      <3> QED BY <3>1, <3>2 DEF Steps
    <2>6. CASE ConnectFails(w)
      <3> DEFINE new == [MyRow(w) EXCEPT !.retries = 1]
      <3>1. SetMyRow(w, new) /\ GoTo(w, "reconnect") BY <2>6 DEF ConnectFails
      <3>2. new.started = MyRow(w).started /\ new.delivering = MyRow(w).delivering BY <2>2
      <3> HIDE DEF new
      <3> QED BY <3>1, <3>2 DEF Steps
    <2>7. CASE MarkProviderSucceeded(w)
      <3> DEFINE new == [MyRow(w) EXCEPT !.state = "provider_succeeded"]
      <3>1. SetMyRow(w, new) /\ GoTo(w, "provider_succeeded") BY <2>7 DEF MarkProviderSucceeded
      <3>2. new.started = MyRow(w).started /\ new.delivering = MyRow(w).delivering BY <2>1
      <3> HIDE DEF new
      <3> QED BY <3>1, <3>2 DEF Steps
    <2>8. CASE MarkProviderStarted(w)
      <3> DEFINE new == [MyRow(w) EXCEPT !.state = "provider_started", !.started = TRUE]
      <3>1. SetMyRow(w, new) /\ GoTo(w, "connect") BY <2>8 DEF MarkProviderStarted
      <3>2. new.delivering = MyRow(w).delivering BY <2>3
      <3>3. photos[mine] = 0
        <4>1. ~Started(mine)
          <5>1. ~MyRow(w).started BY <2>8 DEF MarkProviderStarted, IInv, StartInv
          <5> QED BY <2>8, <5>1 DEF MarkProviderStarted, StartIsUnique, Started, MyRow, MyJob
        <4> QED BY <1>h, <4>1 DEF IInv, PhotoInv
      <3> HIDE DEF new
      <3> QED BY <3>1, <3>2, <3>3 DEF Steps
    <2>9. CASE MarkDelivering(w)
      <3> DEFINE new == [MyRow(w) EXCEPT !.state = "delivering", !.delivering = TRUE]
      <3>1. SetMyRow(w, new) /\ GoTo(w, "delivering") BY <2>9 DEF MarkDelivering
      <3>2. new.started = MyRow(w).started /\ new.delivering BY <2>4
      <3> HIDE DEF new
      <3> QED BY <3>1, <3>2 DEF Steps
    <2> QED BY <2>5, <2>6, <2>7, <2>8, <2>9
  <1>e. /\ attempt'[mine][number] = row
        /\ \A j \in Jobs, n \in Numbers :
              j # mine \/ n # number => attempt'[j][n] = attempt[j][n]
    BY <1>t, <1>x, <1>r, SetMyRowEffect
  <1>m. MyRow(w) = attempt[mine][number] BY DEF MyRow, MyJob
  <1>1. \A j \in Jobs, n \in Numbers :
           /\ attempt'[j][n].started =>
                 attempt[j][n].started \/ (photos[j] = 0 /\ job'[j].status # "failed")
           /\ attempt[j][n].delivering => attempt'[j][n].delivering
    BY <1>u, <1>o, <1>r, <1>e, <1>m
  <1>2. /\ worker'[w].step = step /\ worker'[w].task = worker[w].task
        /\ \A u \in Workers \ {w} : worker'[u] = worker[u]
    BY <1>t, <1>r, MoveEffect
  <1>3. \A u \in Workers :
           \/ worker'[u] = worker[u]
           \/ worker'[u].step \notin {"delivering", "sent", "failing"}
           \/ /\ worker'[u].step = "delivering"
              /\ Executing(u)
              /\ worker'[u].task = worker[u].task
              /\ attempt'[MyJob(u)][worker[u].task.number].delivering
              /\ job'[MyJob(u)].status = "running"
    BY <1>u, <1>x, <1>o, <1>r, <1>e, <1>2
  <1> QED BY <1>u, <1>1, <1>3, HonestStep

LEMMA HonestNext == IInv /\ IInv' /\ HonestInv /\ [Next]_vars => HonestInv'
  <1> SUFFICES ASSUME IInv, IInv', HonestInv, [Next]_vars PROVE HonestInv'
    OBVIOUS
  <1>t. TypeOK /\ TaskInv BY DEF IInv
  <1>1. ASSUME NEW j \in Jobs, Accept(j) PROVE HonestInv'
    <2>1. /\ job[j] \in JobRow
          /\ \E charge, reference :
                job'[j] = [job[j] EXCEPT !.status = "queued", !.charge = charge,
                                         !.reference = reference]
          /\ \A i \in Jobs \ {j} : job'[i] = job[i]
      BY <1>t, <1>1 DEF Accept, TypeOK
    <2>2. job'[j].status = "queued" BY <2>1 DEF JobRow
    <2>3. \A i \in Jobs : job'[i].status = "failed" => job'[i] = job[i] BY <2>1, <2>2
    <2>4. UNCHANGED <<attempt, worker, photos>> BY <1>1 DEF Accept
    <2> QED BY <2>3, <2>4, HonestStep
  <1>2. ASSUME NEW j \in Jobs, NEW lease, SetLease(j, lease),
               UNCHANGED <<attempt, worker, photos>>
        PROVE  HonestInv'
    <2>1. job \in [Jobs -> JobRow] BY <1>t DEF TypeOK
    <2>2. \A i \in Jobs : /\ job'[i].status = job[i].status
                          /\ job'[i].count = job[i].count
                          /\ job'[i].error = job[i].error
      BY <1>2, <2>1 DEF SetLease, JobRow
    <2> QED BY <1>2, <2>2, HonestStep
  <1>3. ASSUME NEW j \in Jobs, LeaseLapses(j) \/ LeaseExpires(j) PROVE HonestInv'
    BY <1>2, <1>3 DEF LeaseLapses, LeaseExpires
  <1>4. ASSUME NEW w \in Workers, Heartbeat(w) PROVE HonestInv'
    <2>1. MyJob(w) \in Jobs BY <1>t, <1>4, StepExecutes, Holding DEF Heartbeat
    <2> QED BY <1>2, <1>4, <2>1 DEF Heartbeat
  <1>5. ASSUME NEW w \in Workers,
               \/ ClaimNothing(w) \/ ReleaseRefused(w) \/ LoseLease(w)
               \/ HeartbeatRaises(w) \/ Crash(w)
               \/ InputRejected(w) \/ ProviderUnavailable(w) \/ Upload(w)
               \/ ProviderAnswers(w) \/ NormalizationFails(w) \/ UnexpectedError(w)
        PROVE  HonestInv'
    <2>1. UNCHANGED <<job, attempt, photos>>
      BY <1>5 DEF ClaimNothing, ReleaseRefused, LoseLease, HeartbeatRaises, Crash, InputRejected,
                  ProviderUnavailable, Upload, ProviderAnswers, NormalizationFails,
                  UnexpectedError
    <2>2. ClaimNothing(w) \/ ReleaseRefused(w) \/ LoseLease(w) \/ HeartbeatRaises(w)
             \/ Crash(w) => GoIdle(w)
      BY DEF ClaimNothing, ReleaseRefused, LoseLease, HeartbeatRaises, Crash
    <2> QED BY <1>5, <2>1, <2>2, HonestMove
  <1>6. ASSUME NEW w \in Workers, HeartbeatDies(w) PROVE HonestInv'
    <2>1. UNCHANGED <<job, attempt, photos>> BY <1>6 DEF HeartbeatDies
    <2> QED BY <1>6, <2>1, HonestMove
  <1>7. CASE UNCHANGED vars
    BY <1>7, HonestStep DEF vars
  <1>8. ASSUME NEW j \in Jobs, Uncount(j) \/ Recount(j) PROVE HonestInv'
    <2>1. UNCHANGED <<attempt, worker, photos>> BY <1>8 DEF Uncount, Recount
    <2> QED BY <1>t, <1>8, <2>1, CountEffect, HonestStep
  <1> QED
    BY <1>1, <1>8, <1>3, <1>4, <1>5, <1>6, <1>7, HonestPoll, HonestClaim, HonestRow, HonestSend,
       HonestFail
       DEF Next, Proceed

LEMMA HonestInit == Init => HonestInv
  BY DEF Init, HonestInv, EndedInv, DeliveringInv, ReportInv, LateInv, HonestFailure, Idle

(* A job whose photo arrived is never reported as failed before its          *)
(* delivery, whatever crashed, lapsed or raced.                              *)
THEOREM FailureIsHonest == Spec => []HonestFailure
  <1>1. HonestInv => HonestFailure BY DEF HonestInv
  <1> QED BY <1>1, Invariance, HonestInit, HonestNext, PTL DEF Spec
===============================================================================
