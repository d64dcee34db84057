----------------------- MODULE CollectionWorkerProofs -----------------------
(***************************************************************************)
(* What the Workers keep for every set of endpoints, jobs, runs, tasks and *)
(* recovery loops, and every lease and delay.  The two tables are used     *)
(* only through their statements, so that all that is proved of either     *)
(* table holds of the Workers too; what relates the two tables to each     *)
(* other and to the executions needs an invariant of its own.              *)
(***************************************************************************)
EXTENDS CollectionWorker, WorkerTablesProofs

-----------------------------------------------------------------------------
(* Tasks and recovery loops, one assignment at a time.                     *)

\* A task that is not idle has a run, and a job until it is admitted and
\* after it is done: only direct runs skip the job's steps.
TaskHasRun(t) ==
  /\ (task[t].pc # "idle") => (task[t].run \in Runs)
  /\ (task[t].pc \in {"claimed", "done"}) => (task[t].run \in Jobs)

TasksHaveRuns == \A t \in Tasks : TaskHasRun(t)

RecoveriesHaveJobs ==
  \A r \in Recoverers : recovery[r].pc = "finalizing" => recovery[r].job \in Jobs

\* The invariants of the two tables hold as long as only their statements
\* are used, and that they are needs the shapes above.
ShapeInv == /\ WorkerTypeOK /\ QueueInv /\ RuntimeInv
            /\ TasksHaveRuns /\ RecoveriesHaveJobs

OthersKept(t) == \A u \in Tasks \ {t} : task'[u] = task[u]

SameClaim(t) == /\ task'[t].run = task[t].run /\ task'[t].token = task[t].token
                /\ task'[t].endpoint = task[t].endpoint

LEMMA IdleTaskType == IdleTask \in TaskState
<1>1. (CHOOSE e \in Endpoints : TRUE) \in Endpoints
  BY EndpointsAssumption
<1> QED
  BY <1>1 DEF IdleTask, TaskState, Result, NoToken

LEMMA WaitingType == Waiting \in RecoveryState
BY DEF Waiting, RecoveryState, Result, NoToken

LEMMA GotoEffect ==
  ASSUME task \in [Tasks -> TaskState], NEW t \in Tasks,
         NEW pc \in {"admitted", "locked", "collecting", "released"}, Goto(t, pc)
  PROVE  /\ task' \in [Tasks -> TaskState]
         /\ task'[t].pc = pc /\ SameClaim(t)
         /\ task'[t].result = task[t].result
         /\ OthersKept(t)
BY DEF Goto, TaskState, SameClaim, OthersKept

LEMMA AbandonEffect ==
  ASSUME task \in [Tasks -> TaskState], NEW t \in Tasks, Abandon(t)
  PROVE  /\ task' \in [Tasks -> TaskState]
         /\ task'[t].pc = "idle" /\ task'[t].run = NoRun
         /\ OthersKept(t)
<1>1. IdleTask.pc = "idle" /\ IdleTask.run = NoRun
  BY DEF IdleTask
<1> QED
  BY <1>1, IdleTaskType DEF Abandon, OthersKept

LEMMA ResolveEffect ==
  ASSUME task \in [Tasks -> TaskState], NEW t \in Tasks, now \in Nat,
         NEW res \in Result, Resolve(t, res)
  PROVE  /\ task' \in [Tasks -> TaskState]
         /\ task'[t].pc = "done" /\ SameClaim(t) /\ task'[t].result = res
         /\ OthersKept(t)
<1>1. task' = [task EXCEPT ![t].pc = "done", ![t].result = res, ![t].at = now]
  BY DEF Resolve
<1>2. task[t] \in TaskState
  OBVIOUS
<1>3. task' \in [Tasks -> TaskState]
  BY <1>1, <1>2 DEF TaskState
<1> QED
  BY <1>1, <1>2, <1>3 DEF TaskState, SameClaim, OthersKept

-----------------------------------------------------------------------------
(* The tables are used through their statements only.                      *)

LEMMA ClockType ==
  ASSUME WorkerTypeOK
  PROVE  /\ now \in Nat /\ now + Lease \in Nat
         /\ \A t \in Tasks : task[t].at \in Nat /\ task[t].token \in Nat
         /\ \A r \in Recoverers : /\ recovery[r].at \in Nat /\ recovery[r].token \in Nat
                                  /\ recovery[r].expiredAt \in Nat
BY WorkerAssumption DEF WorkerTypeOK, RuntimeTypeOK, TaskState, RecoveryState

LEMMA FinalStatusType ==
  ASSUME NEW res
  PROVE  /\ FinalStatus(res) \in TerminalStatus
         /\ (FinalStatus(res) = "succeeded") <=> (res \in SuccessKind)
         /\ (FinalStatus(res) = "skipped") <=> (res = "refused")
         /\ (FinalStatus(res) = "abandoned") <=> (res = "interrupted")
BY DEF FinalStatus, TerminalStatus, SuccessKind

\* Delays are numbers, whatever the policy makes of its nominal values.
LEMMA DelaysType ==
  /\ \A d \in ContentionDelays : d \in Nat
  /\ \A n : \A d \in RetryDelays(n) : d \in Nat
  /\ \A d \in Jitters : d \in Nat
<1>1. ASSUME NEW nominal, NEW d \in EqualJitter(nominal)
      PROVE  d \in Nat
  BY <1>1 DEF EqualJitter
<1> QED
  BY <1>1, WorkerAssumption DEF ContentionDelays, RetryDelays, Jitters

\* Finalization is a deferral, a retry or an end of the job, and cools the
\* endpoint of its run or leaves the columns alone.
LEMMA FinalizeJobEffect ==
  ASSUME NEW j \in Jobs, NEW k \in Nat, NEW t \in Nat, NEW res, FinalizeJob(j, k, t, res)
  PROVE  QueueNext /\ (runtime' = runtime \/ runtime' = Cooled(j))
<1>1. /\ \A d \in ContentionDelays : t + d \in Nat
      /\ \A d \in RetryDelays(jobs[j].attempt) : t + d \in Nat
  BY DelaysType
<1>2. FinalStatus(res) \in TerminalStatus
  BY FinalStatusType
<1>3. CASE (\E d \in ContentionDelays : Defer(j, k, t, t + d)) /\ UNCHANGED runtime
  BY <1>1, <1>3 DEF QueueNext
<1>4. CASE /\ \E d \in RetryDelays(jobs[j].attempt) :
                FinalizeRetry(j, k, t, FinalStatus(res), t + d)
           /\ UNCHANGED runtime
  BY <1>1, <1>2, <1>4 DEF QueueNext
<1>5. CASE /\ FinalizeTerminal(j, k, t, FinalStatus(res))
           /\ runtime' = IF FinalStatus(res) \in {"failed", "abandoned"}
                         THEN Cooled(j) ELSE runtime
  BY <1>2, <1>5 DEF QueueNext
<1> QED
  BY <1>3, <1>4, <1>5 DEF FinalizeJob

\* A cooldown is a step of the endpoint's columns.
LEMMA CooledStep ==
  ASSUME NEW j \in Runs, runtime' = runtime \/ runtime' = Cooled(j),
         UNCHANGED <<runs, now>>
  PROVE  [RuntimeNext]_runtimeVars
<1>1. CASE runtime' = runtime
  BY <1>1 DEF runtimeVars
<1>2. CASE runtime' = Cooled(j) /\ runs[j].status = "failed"
  BY <1>2 DEF ApplyCooldown, RuntimeNext
<1>3. CASE runtime' = Cooled(j) /\ runs[j].status # "failed"
  BY <1>3 DEF Cooled, DeservesCooldown, runtimeVars
<1> QED
  BY <1>1, <1>2, <1>3

\* An execution's job, when it has one.
LEMMA JobOfTask ==
  ASSUME ShapeInv, NEW t \in Tasks, task[t].pc # "idle"
  PROVE  /\ task[t].run \in Runs
         /\ ~Direct(t) => task[t].run \in Jobs
         /\ task[t].pc = "done" => task[t].run \in Jobs
BY DEF ShapeInv, TasksHaveRuns, TaskHasRun, Direct

\* Every step of the Workers is a statement on the job table or none.
LEMMA WorkerStepOnQueue ==
  ASSUME ShapeInv, [WorkerNext]_workerVars
  PROVE  [QueueNext]_queueVars
<1> USE DEF tableVars, queueVars
<1>t. WorkerTypeOK
  BY DEF ShapeInv
<1>c. /\ now \in Nat /\ now + Lease \in Nat
      /\ \A t \in Tasks : task[t].at \in Nat /\ task[t].token \in Nat
      /\ \A r \in Recoverers : /\ recovery[r].at \in Nat /\ recovery[r].token \in Nat
                               /\ recovery[r].expiredAt \in Nat
  BY <1>t, ClockType
<1>1. CASE Tick \/ ListDue
  BY <1>1 DEF Tick, ListDue
<1>2. ASSUME NEW e \in Endpoints, EnqueueDue(e) \/ CheckNow(e)
      PROVE  [QueueNext]_queueVars
  <2>1. ASSUME NEW d \in Jitters, Enqueue(e, "scheduled", now + d)
        PROVE  QueueNext
    <3>1. now + d \in Nat /\ "scheduled" \in Triggers
      BY <1>c, DelaysType DEF Triggers
    <3> QED
      BY <2>1, <3>1 DEF QueueNext
  <2>2. ASSUME Enqueue(e, "manual", now)
        PROVE  QueueNext
    BY <1>c, <2>2 DEF QueueNext, Triggers
  <2> QED
    BY <1>2, <2>1, <2>2 DEF EnqueueDue, CheckNow
<1>3. ASSUME NEW t \in Tasks, NEW j \in Jobs, ClaimJob(t, j)
      PROVE  QueueNext
  BY <1>c, <1>3 DEF ClaimJob, QueueNext
<1>4. ASSUME NEW t \in Tasks, NEW d \in Runs \ Jobs, NEW e \in Endpoints,
             StartDirect(t, d, e)
      PROVE  UNCHANGED queueVars
  BY <1>4 DEF StartDirect
<1>5. ASSUME NEW t \in Tasks,
             \/ Admit(t) \/ TryLock(t) \/ Finish(t) \/ Unlock(t) \/ Apply(t)
             \/ GiveUp(t) \/ LoseOwnership(t) \/ Crash(t) \/ LoseSession(t)
      PROVE  UNCHANGED queueVars
  BY <1>5 DEF Admit, TryLock, Finish, Unlock, Apply, GiveUp, LoseOwnership, Crash, LoseSession
<1>6. ASSUME NEW t \in Tasks, Start(t)
      PROVE  [QueueNext]_queueVars
  <2>1. task[t].pc # "idle"
    BY <1>6 DEF Start
  <2>2. ASSUME ~Direct(t), Attach(task[t].run, task[t].token, now)
        PROVE  QueueNext
    BY <1>c, <2>1, <2>2, JobOfTask DEF QueueNext
  <2> QED
    BY <1>6, <2>2 DEF Start
<1>7. ASSUME NEW t \in Tasks, Finalize(t)
      PROVE  QueueNext
  <2>1. task[t].run \in Jobs
    BY <1>7, JobOfTask DEF Finalize
  <2> QED
    BY <1>c, <1>7, <2>1, FinalizeJobEffect DEF Finalize
<1>8. ASSUME NEW t \in Tasks, RenewLease(t)
      PROVE  QueueNext
  <2>1. task[t].run \in Jobs
    BY <1>8, JobOfTask DEF RenewLease, InFlight
  <2> QED
    BY <1>c, <1>8, <2>1 DEF RenewLease, QueueNext
<1>9. ASSUME NEW r \in Recoverers, ListExpired(r) \/ AbandonRecovery(r)
      PROVE  UNCHANGED queueVars
  BY <1>9 DEF ListExpired, AbandonRecovery
<1>10. ASSUME NEW r \in Recoverers, NEW j \in Jobs, Reconcile(r, j)
       PROVE  [QueueNext]_queueVars
  <2>1. ASSUME RequeueExpired(j, recovery[r].expiredAt, now)
        PROVE  QueueNext
    BY <1>c, <2>1 DEF QueueNext
  <2>2. ASSUME RecoverExpired(j, recovery[r].expiredAt, now, now + Lease)
        PROVE  QueueNext
    BY <1>c, <2>2 DEF QueueNext
  <2> QED
    BY <1>10, <2>1, <2>2 DEF Reconcile
<1>11. ASSUME NEW r \in Recoverers, FinalizeRecovered(r)
       PROVE  [QueueNext]_queueVars
  <2>1. recovery[r].job \in Jobs
    BY <1>11 DEF FinalizeRecovered, ShapeInv, RecoveriesHaveJobs
  <2> QED
    BY <1>c, <1>11, <2>1, FinalizeJobEffect DEF FinalizeRecovered
<1>12. CASE UNCHANGED workerVars
  BY <1>12 DEF workerVars
<1> QED
  BY <1>1, <1>2, <1>3, <1>4, <1>5, <1>6, <1>7, <1>8, <1>9, <1>10, <1>11, <1>12
     DEF WorkerNext, Step, Recover

\* ... and a statement on the runs and the endpoints' columns or none.
LEMMA WorkerStepOnRuntime ==
  ASSUME ShapeInv, [WorkerNext]_workerVars
  PROVE  [RuntimeNext]_runtimeVars
<1> USE DEF tableVars, queueVars, runtimeVars
<1>1. CASE Tick
  BY <1>1 DEF Tick, RuntimeNext
<1>2. CASE ListDue
  BY <1>2 DEF ListDue
<1>3. ASSUME NEW e \in Endpoints, EnqueueDue(e) \/ CheckNow(e)
      PROVE  UNCHANGED runtimeVars
  BY <1>3 DEF EnqueueDue, CheckNow
<1>4. ASSUME NEW t \in Tasks,
             \/ \E j \in Jobs : ClaimJob(t, j)
             \/ \E d \in Runs \ Jobs, e \in Endpoints : StartDirect(t, d, e)
             \/ Admit(t) \/ TryLock(t) \/ Unlock(t) \/ GiveUp(t)
             \/ RenewLease(t) \/ LoseOwnership(t) \/ Crash(t) \/ LoseSession(t)
      PROVE  UNCHANGED runtimeVars
  BY <1>4 DEF ClaimJob, StartDirect, Admit, TryLock, Unlock, GiveUp, RenewLease,
              LoseOwnership, Crash, LoseSession
<1>5. ASSUME NEW t \in Tasks, Start(t)
      PROVE  [RuntimeNext]_runtimeVars
  <2>1. task[t].run \in Runs
    BY <1>5, JobOfTask DEF Start
  <2>2. task[t].endpoint \in Endpoints
    BY DEF ShapeInv, WorkerTypeOK, TaskState
  <2>3. ASSUME StartRun(task[t].run, task[t].endpoint)
        PROVE  RuntimeNext
    BY <2>1, <2>2, <2>3 DEF RuntimeNext
  <2> QED
    BY <1>5, <2>3 DEF Start
<1>6. ASSUME NEW t \in Tasks, Finish(t)
      PROVE  [RuntimeNext]_runtimeVars
  <2>1. task[t].run \in Runs
    BY <1>6, JobOfTask DEF Finish
  <2>2. ASSUME NEW k \in AttemptKind, NEW tagged \in BOOLEAN,
               FinalizeRun(task[t].run, k, tagged)
        PROVE  RuntimeNext
    BY <2>1, <2>2 DEF RuntimeNext
  <2> QED
    BY <1>6, <2>2 DEF Finish
<1>7. ASSUME NEW t \in Tasks, Apply(t)
      PROVE  RuntimeNext
  <2>1. task[t].run \in Runs
    BY <1>7, JobOfTask DEF Apply
  <2> QED
    BY <1>7, <2>1 DEF Apply, RuntimeNext
<1>8. ASSUME NEW t \in Tasks, Finalize(t)
      PROVE  [RuntimeNext]_runtimeVars
  <2>1. task[t].run \in Jobs /\ task[t].run \in Runs
    BY <1>8, JobOfTask DEF Finalize
  <2>2. task[t].at \in Nat /\ task[t].token \in Nat
    BY ClockType DEF ShapeInv
  <2>3. runtime' = runtime \/ runtime' = Cooled(task[t].run)
    BY <1>8, <2>1, <2>2, FinalizeJobEffect DEF Finalize
  <2> QED
    BY <1>8, <2>1, <2>3, CooledStep DEF Finalize
<1>9. ASSUME NEW r \in Recoverers, ListExpired(r) \/ AbandonRecovery(r)
      PROVE  UNCHANGED runtimeVars
  BY <1>9 DEF ListExpired, AbandonRecovery
<1>10. ASSUME NEW r \in Recoverers, NEW j \in Jobs, Reconcile(r, j)
       PROVE  [RuntimeNext]_runtimeVars
  <2>1. j \in Runs
    BY WorkerAssumption
  <2>2. RecoverRun(j) => RuntimeNext
    BY <2>1 DEF RuntimeNext
  <2> QED
    BY <1>10, <2>2 DEF Reconcile
<1>11. ASSUME NEW r \in Recoverers, FinalizeRecovered(r)
       PROVE  [RuntimeNext]_runtimeVars
  <2>1. recovery[r].job \in Jobs /\ recovery[r].job \in Runs
    BY <1>11, WorkerAssumption DEF FinalizeRecovered, ShapeInv, RecoveriesHaveJobs
  <2>2. recovery[r].at \in Nat /\ recovery[r].token \in Nat
    BY ClockType DEF ShapeInv
  <2>3. runtime' = runtime \/ runtime' = Cooled(recovery[r].job)
    BY <1>11, <2>1, <2>2, FinalizeJobEffect DEF FinalizeRecovered
  <2> QED
    BY <1>11, <2>1, <2>3, CooledStep DEF FinalizeRecovered
<1>12. CASE UNCHANGED workerVars
  BY <1>12 DEF workerVars
<1> QED
  BY <1>1, <1>2, <1>3, <1>4, <1>5, <1>6, <1>7, <1>8, <1>9, <1>10, <1>11, <1>12
     DEF WorkerNext, Step, Recover

-----------------------------------------------------------------------------
(* Types, and the runs and jobs of executions and recovery loops.          *)

LEMMA ClaimEffect ==
  ASSUME WorkerTypeOK, NEW t \in Tasks, NEW j \in Jobs, ClaimJob(t, j)
  PROVE  /\ task' \in [Tasks -> TaskState]
         /\ task'[t].pc = "claimed" /\ task'[t].run = j
         /\ task'[t].endpoint = jobs[j].endpoint /\ task'[t].result = "none"
         /\ OthersKept(t)
<1> DEFINE new == [IdleTask EXCEPT !.pc = "claimed", !.run = j, !.at = now,
                                   !.endpoint = jobs[j].endpoint,
                                   !.token = NextToken(j)]
<1>1. task' = [task EXCEPT ![t] = new]
  BY DEF ClaimJob
<1>2. /\ jobs[j].endpoint \in Endpoints /\ NextToken(j) \in Nat /\ now \in Nat
      /\ j \in Runs
  BY ClockType, WorkerAssumption DEF WorkerTypeOK, QueueTypeOK, JobRow, NextToken
<1>3. /\ new \in TaskState /\ new.pc = "claimed" /\ new.run = j
      /\ new.endpoint = jobs[j].endpoint /\ new.result = "none"
  BY <1>2 DEF IdleTask, TaskState, Result
<1> HIDE DEF new
<1> QED
  BY <1>1, <1>3 DEF WorkerTypeOK, OthersKept

LEMMA StartDirectEffect ==
  ASSUME WorkerTypeOK, NEW t \in Tasks, NEW d \in Runs \ Jobs, NEW e \in Endpoints,
         StartDirect(t, d, e)
  PROVE  /\ task' \in [Tasks -> TaskState]
         /\ task'[t].pc = "admitted" /\ task'[t].run = d
         /\ OthersKept(t)
<1> DEFINE new == [IdleTask EXCEPT !.pc = "admitted", !.run = d, !.endpoint = e]
<1>1. task' = [task EXCEPT ![t] = new]
  BY DEF StartDirect
<1>2. /\ new \in TaskState /\ new.pc = "admitted" /\ new.run = d
  BY DEF IdleTask, TaskState, Result, NoToken
<1> HIDE DEF new
<1> QED
  BY <1>1, <1>2 DEF WorkerTypeOK, OthersKept

\* What a step does to an execution whose task moves.
Idled(t) == task'[t].pc = "idle"

Advanced(t, from, to) ==
  /\ task[t].pc = from /\ task'[t].pc = to /\ SameClaim(t)
  /\ task'[t].result = task[t].result

Resolved(t, res) ==
  /\ task'[t].pc = "done" /\ SameClaim(t) /\ task'[t].result = res

FinishEffect(t) ==
  /\ task[t].pc = "collecting" /\ task'[t].pc = "finished" /\ SameClaim(t)
  /\ \E k \in AttemptKind, tagged \in BOOLEAN :
       FinalizeRun(task[t].run, k, tagged) /\ task'[t].result = k

LEMMA FinishMoves ==
  ASSUME WorkerTypeOK, NEW t \in Tasks, Finish(t)
  PROVE  /\ task' \in [Tasks -> TaskState] /\ OthersKept(t)
         /\ Idled(t) \/ FinishEffect(t)
<1>1. task \in [Tasks -> TaskState]
  BY DEF WorkerTypeOK
<1>2. ASSUME NEW k \in AttemptKind, NEW tagged \in BOOLEAN,
             FinalizeRun(task[t].run, k, tagged),
             task' = [task EXCEPT ![t].pc = "finished", ![t].result = k]
      PROVE  /\ task' \in [Tasks -> TaskState] /\ OthersKept(t)
             /\ FinishEffect(t)
  <2>1. k \in Result
    BY DEF Result
  <2>2. /\ task' \in [Tasks -> TaskState] /\ OthersKept(t) /\ SameClaim(t)
        /\ task'[t].pc = "finished" /\ task'[t].result = k
    BY <1>1, <1>2, <2>1 DEF TaskState, SameClaim, OthersKept
  <2> QED
    BY <1>2, <2>2 DEF FinishEffect, Finish
<1> QED
  BY <1>1, <1>2, AbandonEffect DEF Finish, Idled

\* An execution's outcome is for its job when it has one; a direct run ends
\* with it.
LEMMA ConcludeMoves ==
  ASSUME ShapeInv, NEW t \in Tasks, task[t].pc # "idle", NEW res \in Result,
         Conclude(t, res)
  PROVE  /\ task' \in [Tasks -> TaskState] /\ OthersKept(t)
         /\ Idled(t) \/ (task[t].run \in Jobs /\ Resolved(t, res))
<1>1. task \in [Tasks -> TaskState] /\ now \in Nat
  BY ClockType DEF ShapeInv, WorkerTypeOK
<1>2. CASE Direct(t)
  BY <1>1, <1>2, AbandonEffect DEF Conclude, EndDirect, Idled
<1>3. CASE ~Direct(t)
  BY <1>1, <1>3, ResolveEffect, JobOfTask DEF Conclude, Resolved
<1> QED
  BY <1>2, <1>3

LEMMA AdmitMoves ==
  ASSUME ShapeInv, NEW t \in Tasks, Admit(t)
  PROVE  /\ task' \in [Tasks -> TaskState] /\ OthersKept(t)
         /\ \/ Idled(t) \/ Advanced(t, "claimed", "admitted")
            \/ task[t].run \in Jobs /\ \E res \in {"refused", "contention"} : Resolved(t, res)
<1>1. task \in [Tasks -> TaskState] /\ now \in Nat
  BY ClockType DEF ShapeInv, WorkerTypeOK
<1>2. task[t].pc = "claimed" /\ task[t].run \in Jobs
  BY DEF Admit, ShapeInv, TasksHaveRuns, TaskHasRun
<1>3. CASE Abandon(t)
  BY <1>1, <1>3, AbandonEffect DEF Idled
<1>4. CASE Goto(t, "admitted")
  BY <1>1, <1>2, <1>4, GotoEffect DEF Advanced
<1>5. ASSUME NEW res \in {"refused", "contention"}, Resolve(t, res)
      PROVE  /\ task' \in [Tasks -> TaskState] /\ OthersKept(t)
             /\ Resolved(t, res)
  <2>1. res \in Result
    BY DEF Result
  <2> QED
    BY <1>1, <1>5, <2>1, ResolveEffect DEF Resolved
<1> QED
  BY <1>2, <1>3, <1>4, <1>5 DEF Admit

LEMMA TryLockMoves ==
  ASSUME ShapeInv, NEW t \in Tasks, TryLock(t)
  PROVE  /\ task' \in [Tasks -> TaskState] /\ OthersKept(t)
         /\ \/ Idled(t) \/ Advanced(t, "admitted", "locked")
            \/ task[t].run \in Jobs /\ Resolved(t, "contention")
<1>1. task \in [Tasks -> TaskState]
  BY DEF ShapeInv, WorkerTypeOK
<1>2. task[t].pc = "admitted" /\ "contention" \in Result
  BY DEF TryLock, Result
<1>3. CASE Goto(t, "locked")
  BY <1>1, <1>2, <1>3, GotoEffect DEF Advanced
<1>4. CASE Conclude(t, "contention")
  BY <1>2, <1>4, ConcludeMoves
<1> QED
  BY <1>3, <1>4 DEF TryLock

LEMMA StartMoves ==
  ASSUME ShapeInv, NEW t \in Tasks, Start(t)
  PROVE  /\ task' \in [Tasks -> TaskState] /\ OthersKept(t)
         /\ Idled(t) \/ Advanced(t, "locked", "collecting")
<1>1. task \in [Tasks -> TaskState] /\ task[t].pc = "locked"
  BY DEF ShapeInv, WorkerTypeOK, Start
<1>2. CASE Goto(t, "collecting")
  BY <1>1, <1>2, GotoEffect DEF Advanced
<1>3. CASE Abandon(t)
  BY <1>1, <1>3, AbandonEffect DEF Idled
<1> QED
  BY <1>2, <1>3 DEF Start

LEMMA UnlockMoves ==
  ASSUME ShapeInv, NEW t \in Tasks, Unlock(t)
  PROVE  /\ task' \in [Tasks -> TaskState] /\ OthersKept(t)
         /\ Idled(t) \/ Advanced(t, "finished", "released")
<1>1. task \in [Tasks -> TaskState] /\ task[t].pc = "finished"
  BY DEF ShapeInv, WorkerTypeOK, Unlock
<1>2. CASE Goto(t, "released")
  BY <1>1, <1>2, GotoEffect DEF Advanced
<1>3. CASE Abandon(t)
  BY <1>1, <1>3, AbandonEffect DEF Idled
<1> QED
  BY <1>2, <1>3 DEF Unlock

LEMMA ApplyMoves ==
  ASSUME ShapeInv, NEW t \in Tasks, Apply(t)
  PROVE  /\ task' \in [Tasks -> TaskState] /\ OthersKept(t)
         /\ Idled(t) \/ (task[t].run \in Jobs /\ Resolved(t, task[t].result))
<1>1. task[t].pc = "released" /\ task[t].result \in Result
  BY DEF Apply, ShapeInv, WorkerTypeOK, TaskState
<1> QED
  BY <1>1, ConcludeMoves DEF Apply

\* Ending a task, in whatever way, and losing its claim.
LEMMA EndMoves ==
  ASSUME ShapeInv, NEW t \in Tasks, Finalize(t) \/ GiveUp(t) \/ Crash(t)
  PROVE  task' \in [Tasks -> TaskState] /\ OthersKept(t) /\ Idled(t)
<1>1. task \in [Tasks -> TaskState] /\ Abandon(t)
  BY DEF ShapeInv, WorkerTypeOK, Finalize, GiveUp, Crash
<1> QED
  BY <1>1, AbandonEffect DEF Idled

Marked(t) == /\ task'[t].pc = task[t].pc /\ SameClaim(t)
             /\ task'[t].result = task[t].result

LEMMA LoseOwnershipMoves ==
  ASSUME ShapeInv, NEW t \in Tasks, LoseOwnership(t)
  PROVE  task' \in [Tasks -> TaskState] /\ OthersKept(t) /\ Marked(t)
<1>1. /\ task \in [Tasks -> TaskState]
      /\ task' = [task EXCEPT ![t].lost = TRUE]
  BY DEF ShapeInv, WorkerTypeOK, LoseOwnership
<1> QED
  BY <1>1 DEF TaskState, OthersKept, Marked, SameClaim

\* The tasks of a step that moves none.
LEMMA TasksStay ==
  ASSUME \/ Tick \/ ListDue \/ \E e \in Endpoints : EnqueueDue(e) \/ CheckNow(e)
         \/ \E t \in Tasks : RenewLease(t) \/ LoseSession(t)
         \/ \E r \in Recoverers :
              \/ ListExpired(r) \/ FinalizeRecovered(r) \/ AbandonRecovery(r)
              \/ \E j \in Jobs : Reconcile(r, j)
         \/ UNCHANGED workerVars
  PROVE  task' = task
BY DEF Tick, ListDue, EnqueueDue, CheckNow, RenewLease, LoseSession, ListExpired,
       FinalizeRecovered, AbandonRecovery, Reconcile, workerVars

LEMMA TaskStep ==
  ASSUME ShapeInv, [WorkerNext]_workerVars
  PROVE  task' \in [Tasks -> TaskState] /\ TasksHaveRuns'
<1>t. task \in [Tasks -> TaskState] /\ WorkerTypeOK /\ TasksHaveRuns
  BY DEF ShapeInv, WorkerTypeOK
<1>1. ASSUME NEW t \in Tasks, task' \in [Tasks -> TaskState], OthersKept(t),
             TaskHasRun(t)'
      PROVE  task' \in [Tasks -> TaskState] /\ TasksHaveRuns'
  BY <1>t, <1>1 DEF TasksHaveRuns, TaskHasRun, OthersKept
<1>2. ASSUME NEW t \in Tasks, Idled(t)
      PROVE  TaskHasRun(t)'
  BY <1>2 DEF Idled, TaskHasRun
<1>3. ASSUME NEW t \in Tasks, NEW from \in {"claimed", "admitted", "locked", "finished"},
             NEW to \in {"admitted", "locked", "collecting", "released"},
             Advanced(t, from, to)
      PROVE  TaskHasRun(t)'
  BY <1>t, <1>3 DEF Advanced, SameClaim, TaskHasRun, TasksHaveRuns
<1>4. ASSUME NEW t \in Tasks, NEW res, task[t].run \in Jobs, Resolved(t, res)
      PROVE  TaskHasRun(t)'
  BY <1>4, WorkerAssumption DEF Resolved, SameClaim, TaskHasRun
<1>5. ASSUME NEW t \in Tasks, NEW j \in Jobs, ClaimJob(t, j)
      PROVE  task' \in [Tasks -> TaskState] /\ TasksHaveRuns'
  <2>1. /\ task' \in [Tasks -> TaskState] /\ OthersKept(t)
        /\ task'[t].run \in Jobs
    BY <1>t, <1>5, ClaimEffect
  <2>2. TaskHasRun(t)'
    BY <2>1, WorkerAssumption DEF TaskHasRun
  <2> QED
    BY <1>1, <2>1, <2>2
<1>6. ASSUME NEW t \in Tasks, NEW d \in Runs \ Jobs, NEW e \in Endpoints,
             StartDirect(t, d, e)
      PROVE  task' \in [Tasks -> TaskState] /\ TasksHaveRuns'
  <2>1. /\ task' \in [Tasks -> TaskState] /\ OthersKept(t)
        /\ task'[t].run = d /\ task'[t].pc = "admitted"
    BY <1>t, <1>6, StartDirectEffect
  <2>2. TaskHasRun(t)'
    BY <2>1 DEF TaskHasRun
  <2> QED
    BY <1>1, <2>1, <2>2
<1>7. ASSUME NEW t \in Tasks, Step(t)
      PROVE  task' \in [Tasks -> TaskState] /\ TasksHaveRuns'
  <2>1. CASE Admit(t)
    BY <1>1, <1>2, <1>3, <1>4, <2>1, AdmitMoves
  <2>2. CASE TryLock(t)
    BY <1>1, <1>2, <1>3, <1>4, <2>2, TryLockMoves
  <2>3. CASE Start(t)
    BY <1>1, <1>2, <1>3, <2>3, StartMoves
  <2>4. CASE Finish(t)
    <3>1. FinishEffect(t) => TaskHasRun(t)'
      BY <1>t DEF FinishEffect, SameClaim, TaskHasRun, TasksHaveRuns
    <3> QED
      BY <1>t, <1>1, <1>2, <2>4, <3>1, FinishMoves
  <2>5. CASE Unlock(t)
    BY <1>1, <1>2, <1>3, <2>5, UnlockMoves
  <2>6. CASE Apply(t)
    BY <1>1, <1>2, <1>4, <2>6, ApplyMoves
  <2>7. CASE Finalize(t) \/ GiveUp(t)
    BY <1>1, <1>2, <2>7, EndMoves
  <2> QED
    BY <1>7, <2>1, <2>2, <2>3, <2>4, <2>5, <2>6, <2>7 DEF Step
<1>8. ASSUME NEW t \in Tasks, LoseOwnership(t)
      PROVE  task' \in [Tasks -> TaskState] /\ TasksHaveRuns'
  <2>1. task' \in [Tasks -> TaskState] /\ OthersKept(t) /\ Marked(t)
    BY <1>8, LoseOwnershipMoves
  <2>2. TaskHasRun(t)'
    BY <1>t, <2>1 DEF Marked, SameClaim, TaskHasRun, TasksHaveRuns
  <2> QED
    BY <1>1, <2>1, <2>2
<1>9. ASSUME NEW t \in Tasks, Crash(t)
      PROVE  task' \in [Tasks -> TaskState] /\ TasksHaveRuns'
  BY <1>1, <1>2, <1>9, EndMoves
<1>10. ASSUME task' = task
       PROVE  task' \in [Tasks -> TaskState] /\ TasksHaveRuns'
  BY <1>t, <1>10 DEF TasksHaveRuns, TaskHasRun
<1> QED
  BY <1>5, <1>6, <1>7, <1>8, <1>9, <1>10, TasksStay DEF WorkerNext, Recover

LEMMA LockStep ==
  ASSUME WorkerTypeOK, [WorkerNext]_workerVars
  PROVE  /\ lock' \in [Endpoints -> Tasks \union {NoTask}]
         /\ due' \in SUBSET Endpoints
<1>1. /\ lock \in [Endpoints -> Tasks \union {NoTask}] /\ due \in SUBSET Endpoints
      /\ \A t \in Tasks : task[t].endpoint \in Endpoints
  BY DEF WorkerTypeOK, TaskState
<1>2. \A t \in Tasks : Unlocked(t) \in [Endpoints -> Tasks \union {NoTask}]
  BY <1>1 DEF Unlocked
<1>3. ASSUME NEW t \in Tasks, Step(t) \/ Crash(t) \/ LoseSession(t)
      PROVE  /\ lock' \in [Endpoints -> Tasks \union {NoTask}] /\ due' = due
  BY <1>1, <1>2, <1>3 DEF Step, Admit, TryLock, Start, Finish, Unlock, Apply, Finalize,
                          GiveUp, Crash, LoseSession, tableVars
<1>4. ASSUME NEW t \in Tasks,
             \/ \E j \in Jobs : ClaimJob(t, j)
             \/ \E d \in Runs \ Jobs, e \in Endpoints : StartDirect(t, d, e)
             \/ RenewLease(t) \/ LoseOwnership(t)
      PROVE  lock' = lock /\ due' = due
  BY <1>4 DEF ClaimJob, StartDirect, RenewLease, LoseOwnership
<1>5. ASSUME NEW r \in Recoverers, Recover(r) \/ AbandonRecovery(r)
      PROVE  lock' = lock /\ due' = due
  BY <1>5 DEF Recover, ListExpired, FinalizeRecovered, Reconcile, AbandonRecovery
<1>6. ASSUME NEW e \in Endpoints, EnqueueDue(e) \/ CheckNow(e)
      PROVE  lock' = lock /\ due' \in SUBSET Endpoints
  BY <1>1, <1>6 DEF EnqueueDue, CheckNow
<1>7. CASE Tick \/ ListDue \/ UNCHANGED workerVars
  BY <1>1, <1>7 DEF Tick, ListDue, workerVars
<1> QED
  BY <1>1, <1>3, <1>4, <1>5, <1>6, <1>7 DEF WorkerNext

OtherLoopsKept(r) == \A q \in Recoverers \ {r} : recovery'[q] = recovery[q]

LEMMA PassOverEffect ==
  ASSUME recovery \in [Recoverers -> RecoveryState], NEW r \in Recoverers, NEW j,
         PassOver(r, j)
  PROVE  /\ recovery' \in [Recoverers -> RecoveryState]
         /\ recovery'[r].pc # "finalizing" /\ OtherLoopsKept(r)
<1> DEFINE rest == recovery[r].listed \ {j}
           new == IF rest = {} THEN Waiting
                  ELSE [Waiting EXCEPT !.pc = "passing", !.listed = rest,
                                       !.expiredAt = recovery[r].expiredAt]
<1>1. recovery' = [recovery EXCEPT ![r] = new]
  BY DEF PassOver
<1>2. new \in RecoveryState /\ new.pc # "finalizing"
  BY DEF Waiting, RecoveryState, Result, NoToken
<1> HIDE DEF new
<1> QED
  BY <1>1, <1>2 DEF OtherLoopsKept

LEMMA ListExpiredEffect ==
  ASSUME recovery \in [Recoverers -> RecoveryState], now \in Nat,
         NEW r \in Recoverers, ListExpired(r)
  PROVE  /\ recovery' \in [Recoverers -> RecoveryState]
         /\ recovery'[r].pc # "finalizing" /\ OtherLoopsKept(r)
<1> DEFINE new == [Waiting EXCEPT !.pc = "passing", !.expiredAt = now,
                                  !.listed = {j \in Jobs : Expired(j, now)}]
<1>1. recovery' = [recovery EXCEPT ![r] = new]
  BY DEF ListExpired
<1>2. new \in RecoveryState /\ new.pc # "finalizing"
  BY DEF Waiting, RecoveryState, Result, NoToken
<1> HIDE DEF new
<1> QED
  BY <1>1, <1>2 DEF OtherLoopsKept

\* Recovering a job makes the loop its owner, with the run as it is now.
Taken(r, j) ==
  /\ recovery'[r].pc = "finalizing" /\ recovery'[r].job = j
  /\ recovery'[r].result = runs'[j].kind

LEMMA ReconcileMoves ==
  ASSUME WorkerTypeOK, NEW r \in Recoverers, NEW j \in Jobs, Reconcile(r, j)
  PROVE  /\ recovery' \in [Recoverers -> RecoveryState] /\ OtherLoopsKept(r)
         /\ \/ recovery'[r].pc # "finalizing"
            \/ /\ Taken(r, j) /\ RecoverRun(j)
               /\ RecoverExpired(j, recovery[r].expiredAt, now, now + Lease)
<1>1. /\ recovery \in [Recoverers -> RecoveryState] /\ now \in Nat
      /\ NextToken(j) \in Nat /\ j \in Runs
  BY ClockType, WorkerAssumption DEF WorkerTypeOK, QueueTypeOK, NextToken
<1>2. CASE PassOver(r, j)
  BY <1>1, <1>2, PassOverEffect
<1>3. CASE /\ RecoverExpired(j, recovery[r].expiredAt, now, now + Lease)
           /\ RecoverRun(j)
           /\ recovery' = [recovery EXCEPT ![r].pc = "finalizing", ![r].job = j,
                ![r].token = NextToken(j), ![r].at = now,
                ![r].result = Reconciled(j)[j].kind]
  <2>1. runs' = Reconciled(j)
    BY <1>3 DEF RecoverRun
  <2>2. Reconciled(j)[j].kind \in Result
    <3>1. RuntimeTypeOK
      BY DEF WorkerTypeOK
    <3>2. CASE runs[j].status = "running"
      BY <1>1, <3>1, <3>2, EndedRow DEF Reconciled, Result
    <3>3. CASE runs[j].status # "running"
      BY <1>1, <3>1, <3>3 DEF Reconciled, Result, RuntimeTypeOK, RunRow
    <3> QED
      BY <3>2, <3>3
  <2> DEFINE kind == Reconciled(j)[j].kind
             token == NextToken(j)
             new == [recovery[r] EXCEPT !.pc = "finalizing", !.job = j, !.token = token,
                                        !.at = now, !.result = kind]
  <2>3. recovery' = [recovery EXCEPT ![r] = new]
    BY <1>1, <1>3
  <2>4. kind \in Result /\ token \in Nat /\ kind = runs'[j].kind
    BY <1>1, <2>1, <2>2
  <2> HIDE DEF kind, token
  <2>5. /\ new \in RecoveryState
        /\ new.pc = "finalizing" /\ new.job = j /\ new.result = kind
    BY <1>1, <2>4 DEF RecoveryState
  <2> HIDE DEF new
  <2>6. recovery' \in [Recoverers -> RecoveryState] /\ OtherLoopsKept(r)
    BY <1>1, <2>3, <2>5 DEF OtherLoopsKept
  <2>7. Taken(r, j)
    BY <1>1, <2>3, <2>4, <2>5 DEF Taken
  <2> QED
    BY <1>3, <2>6, <2>7
<1> QED
  BY <1>2, <1>3 DEF Reconcile

\* The recovery loops of a step that moves none.
LEMMA LoopsStay ==
  ASSUME \/ Tick \/ ListDue \/ \E e \in Endpoints : EnqueueDue(e) \/ CheckNow(e)
         \/ \E t \in Tasks :
              \/ \E j \in Jobs : ClaimJob(t, j)
              \/ \E d \in Runs \ Jobs, e \in Endpoints : StartDirect(t, d, e)
              \/ Step(t)
              \/ RenewLease(t) \/ LoseOwnership(t) \/ Crash(t) \/ LoseSession(t)
         \/ UNCHANGED workerVars
  PROVE  recovery' = recovery
<1>1. ASSUME NEW t \in Tasks, Step(t) PROVE recovery' = recovery
  BY <1>1 DEF Step, Admit, TryLock, Start, Finish, Unlock, Apply, Finalize, GiveUp
<1>2. ASSUME NEW t \in Tasks,
             \/ \E j \in Jobs : ClaimJob(t, j)
             \/ \E d \in Runs \ Jobs, e \in Endpoints : StartDirect(t, d, e)
             \/ RenewLease(t) \/ LoseOwnership(t) \/ Crash(t) \/ LoseSession(t)
      PROVE  recovery' = recovery
  BY <1>2 DEF ClaimJob, StartDirect, RenewLease, LoseOwnership, Crash, LoseSession
<1>3. CASE \/ Tick \/ ListDue \/ \E e \in Endpoints : EnqueueDue(e) \/ CheckNow(e)
           \/ UNCHANGED workerVars
  BY <1>3 DEF Tick, ListDue, EnqueueDue, CheckNow, workerVars
<1> QED
  BY <1>1, <1>2, <1>3

\* A loop is finalizing a job only as the one that has just taken it, or as
\* it was before.
LEMMA RecoveryStep ==
  ASSUME WorkerTypeOK, [WorkerNext]_workerVars
  PROVE  /\ recovery' \in [Recoverers -> RecoveryState]
         /\ \A r \in Recoverers : recovery'[r].pc = "finalizing" =>
              \/ recovery'[r] = recovery[r]
              \/ \E j \in Jobs :
                   /\ Taken(r, j) /\ RecoverRun(j)
                   /\ RecoverExpired(j, recovery[r].expiredAt, now, now + Lease)
<1> DEFINE Took(r) ==
      \E j \in Jobs : /\ Taken(r, j) /\ RecoverRun(j)
                      /\ RecoverExpired(j, recovery[r].expiredAt, now, now + Lease)
           Good == /\ recovery' \in [Recoverers -> RecoveryState]
                   /\ \A r \in Recoverers : recovery'[r].pc = "finalizing" =>
                        recovery'[r] = recovery[r] \/ Took(r)
<1>t. recovery \in [Recoverers -> RecoveryState] /\ now \in Nat
  BY ClockType DEF WorkerTypeOK
<1>1. ASSUME NEW r \in Recoverers, recovery' \in [Recoverers -> RecoveryState],
             OtherLoopsKept(r), recovery'[r].pc # "finalizing" \/ Took(r)
      PROVE  Good
  <2> HIDE DEF Took
  <2> QED
    BY <1>1 DEF OtherLoopsKept
<1>2. ASSUME NEW r \in Recoverers, ListExpired(r)
      PROVE  Good
  BY <1>t, <1>1, <1>2, ListExpiredEffect
<1>3. ASSUME NEW r \in Recoverers, NEW j \in Jobs, Reconcile(r, j)
      PROVE  Good
  BY <1>1, <1>3, ReconcileMoves
<1>4. ASSUME NEW r \in Recoverers, FinalizeRecovered(r)
      PROVE  Good
  <2>1. PassOver(r, recovery[r].job)
    BY <1>4 DEF FinalizeRecovered
  <2>2. /\ recovery' \in [Recoverers -> RecoveryState]
        /\ recovery'[r].pc # "finalizing" /\ OtherLoopsKept(r)
    BY <1>t, <2>1, PassOverEffect
  <2> QED
    BY <1>1, <2>2
<1>5. ASSUME NEW r \in Recoverers, AbandonRecovery(r)
      PROVE  Good
  <2>1. recovery' = [recovery EXCEPT ![r] = Waiting] /\ Waiting.pc # "finalizing"
    BY <1>5 DEF AbandonRecovery, Waiting
  <2>2. /\ recovery' \in [Recoverers -> RecoveryState]
        /\ recovery'[r].pc # "finalizing" /\ OtherLoopsKept(r)
    BY <1>t, <2>1, WaitingType DEF OtherLoopsKept
  <2> QED
    BY <1>1, <2>2
<1>6. ASSUME recovery' = recovery
      PROVE  Good
  BY <1>t, <1>6
<1> HIDE DEF Good
<1>7. Good
  BY <1>2, <1>3, <1>4, <1>5, <1>6, LoopsStay DEF WorkerNext, Recover
<1> QED
  BY <1>7 DEF Good

LEMMA ShapeInit == WorkerInit => ShapeInv
<1> SUFFICES ASSUME WorkerInit PROVE ShapeInv
  OBVIOUS
<1>1. QueueInv /\ RuntimeInv /\ QueueTypeOK /\ RuntimeTypeOK
  BY QueueInitInv, RuntimeInitInv DEF WorkerInit, QueueInv, RuntimeInv
<1>2. task \in [Tasks -> TaskState] /\ recovery \in [Recoverers -> RecoveryState]
  BY IdleTaskType, WaitingType DEF WorkerInit
<1>3. /\ \A t \in Tasks : task[t].pc = "idle"
      /\ \A r \in Recoverers : recovery[r].pc = "waiting"
  BY DEF WorkerInit, IdleTask, Waiting
<1>4. lock \in [Endpoints -> Tasks \union {NoTask}] /\ due \in SUBSET Endpoints
  BY DEF WorkerInit
<1> QED
  BY <1>1, <1>2, <1>3, <1>4
     DEF ShapeInv, WorkerTypeOK, TasksHaveRuns, TaskHasRun, RecoveriesHaveJobs

LEMMA ShapeStep ==
  ASSUME ShapeInv, [WorkerNext]_workerVars
  PROVE  ShapeInv'
<1>1. QueueInv' /\ QueueTypeOK'
  BY WorkerStepOnQueue, QueueInvStep DEF ShapeInv, QueueInv
<1>2. RuntimeInv' /\ RuntimeTypeOK'
  BY WorkerStepOnRuntime, RuntimeInvStep DEF ShapeInv, RuntimeInv
<1>3. task' \in [Tasks -> TaskState] /\ TasksHaveRuns'
  BY TaskStep
<1>4. lock' \in [Endpoints -> Tasks \union {NoTask}] /\ due' \in SUBSET Endpoints
  BY LockStep DEF ShapeInv
<1>5. recovery' \in [Recoverers -> RecoveryState] /\ RecoveriesHaveJobs'
  BY RecoveryStep DEF ShapeInv, RecoveriesHaveJobs, Taken
<1> QED
  BY <1>1, <1>2, <1>3, <1>4, <1>5 DEF ShapeInv, WorkerTypeOK

LEMMA ShapeInvariant == WorkerSpec => []ShapeInv
<1>1. WorkerInit => ShapeInv
  BY ShapeInit
<1>2. ShapeInv /\ [WorkerNext]_workerVars => ShapeInv'
  BY ShapeStep
<1> QED
  BY <1>1, <1>2, PTL DEF WorkerSpec

\* Tables, executions, locks and recovery loops keep their types whatever
\* fails between any two of their steps.
THEOREM WorkerTypeCorrect == WorkerSpec => []WorkerTypeOK
<1>1. ShapeInv => WorkerTypeOK
  BY DEF ShapeInv
<1> QED
  BY <1>1, ShapeInvariant, PTL

-----------------------------------------------------------------------------
(* What is proved of the tables holds of the Workers.                      *)

\* All that the Workers do to the two tables they do through the tables'
\* own statements and transactions.
THEOREM WorkersKeepToTheTables == WorkerSpec => QueueSpec /\ RuntimeSpec
<1>1. WorkerInit => QueueInit /\ RuntimeInit
  BY DEF WorkerInit
<1>2. ShapeInv /\ [WorkerNext]_workerVars =>
        [QueueNext]_queueVars /\ [RuntimeNext]_runtimeVars
  BY WorkerStepOnQueue, WorkerStepOnRuntime
<1> QED
  BY <1>1, <1>2, ShapeInvariant, PTL DEF WorkerSpec, QueueSpec, RuntimeSpec

\* Across every interleaving and failure of the Workers an endpoint has one
\* slot, chains of retries never branch, and a lost claim stays lost.
THEOREM WorkersKeepTheQueue ==
  WorkerSpec => SlotSpec /\ []RetryChain /\ []RowShape /\ DeadTokensStayDead
BY WorkersKeepToTheTables, QueueImplementsSlot, RetriesFormChains,
   RowsKeepTheirShape, LostClaimsStayLost, PTL

\* ... and what an endpoint is told by its runs does not depend on which
\* Worker applies them or when.
THEOREM WorkersKeepTheRuntime ==
  WorkerSpec => /\ []RuntimeFollowsHistory /\ []ValidatorsWereCollected
                /\ NoStepBack
BY WorkersKeepToTheTables, ColumnsFollowHistory, ValidatorsAreOfContent,
   NoEndpointStepsBack, PTL

-----------------------------------------------------------------------------
(* The advisory lock.                                                      *)

HoldingPc == {"locked", "collecting", "finished"}

HoldsLock(t) == task[t].pc \in HoldingPc => lock[task[t].endpoint] = t

LocksHeld == \A t \in Tasks : HoldsLock(t)

\* A step that takes no lock and releases one task's at most.
LEMMA ReleaseKeepsLocks ==
  ASSUME WorkerTypeOK, LocksHeld, NEW t \in Tasks, OthersKept(t), HoldsLock(t)',
         lock' = lock \/ lock' = Unlocked(t)
  PROVE  LocksHeld'
BY DEF WorkerTypeOK, TaskState, LocksHeld, HoldsLock, OthersKept, Unlocked

LEMMA LocksHeldStep ==
  ASSUME ShapeInv, LocksHeld, ~SessionsMayDie, [WorkerNext]_workerVars
  PROVE  LocksHeld'
<1> USE DEF tableVars
<1>t. WorkerTypeOK /\ task \in [Tasks -> TaskState]
  BY DEF ShapeInv, WorkerTypeOK
<1>1. ASSUME NEW t \in Tasks, Idled(t) \/ \E res : Resolved(t, res)
      PROVE  HoldsLock(t)'
  BY <1>1 DEF Idled, Resolved, HoldsLock, HoldingPc
<1>2. ASSUME task' = task, lock' = lock
      PROVE  LocksHeld'
  BY <1>2 DEF LocksHeld, HoldsLock
<1>3. ASSUME NEW t \in Tasks, NEW j \in Jobs, ClaimJob(t, j)
      PROVE  LocksHeld'
  <2>1. OthersKept(t) /\ task'[t].pc = "claimed" /\ lock' = lock
    BY <1>t, <1>3, ClaimEffect DEF ClaimJob
  <2>2. HoldsLock(t)'
    BY <2>1 DEF HoldsLock, HoldingPc
  <2> QED
    BY <1>t, <2>1, <2>2, ReleaseKeepsLocks
<1>4. ASSUME NEW t \in Tasks, NEW d \in Runs \ Jobs, NEW e \in Endpoints,
             StartDirect(t, d, e)
      PROVE  LocksHeld'
  <2>1. OthersKept(t) /\ task'[t].pc = "admitted" /\ lock' = lock
    BY <1>t, <1>4, StartDirectEffect DEF StartDirect
  <2>2. HoldsLock(t)'
    BY <2>1 DEF HoldsLock, HoldingPc
  <2> QED
    BY <1>t, <2>1, <2>2, ReleaseKeepsLocks
<1>5. ASSUME NEW t \in Tasks, Admit(t)
      PROVE  LocksHeld'
  <2>1. Advanced(t, "claimed", "admitted") => HoldsLock(t)'
    BY DEF Advanced, HoldsLock, HoldingPc
  <2>2. OthersKept(t) /\ HoldsLock(t)' /\ lock' = lock
    BY <1>1, <1>5, <2>1, AdmitMoves DEF Admit
  <2> QED
    BY <1>t, <2>2, ReleaseKeepsLocks
<1>6. ASSUME NEW t \in Tasks, TryLock(t)
      PROVE  LocksHeld'
  <2>1. CASE /\ lock[task[t].endpoint] = NoTask
             /\ lock' = [lock EXCEPT ![task[t].endpoint] = t]
             /\ Goto(t, "locked")
    <3>1. /\ OthersKept(t) /\ SameClaim(t)
          /\ \A u \in Tasks : task[u].endpoint \in Endpoints
      BY <1>t, <2>1, GotoEffect DEF TaskState
    <3>2. HoldsLock(t)'
      BY <1>t, <2>1, <3>1 DEF HoldsLock, SameClaim, WorkerTypeOK
    <3>3. ASSUME NEW u \in Tasks \ {t}
          PROVE  HoldsLock(u)'
      BY <1>t, <2>1, <3>1, WorkerAssumption
         DEF OthersKept, HoldsLock, LocksHeld, WorkerTypeOK
    <3> QED
      BY <3>2, <3>3 DEF LocksHeld
  <2>2. CASE Conclude(t, "contention") /\ UNCHANGED lock
    <3>1. task[t].pc # "idle" /\ "contention" \in Result
      BY <1>6 DEF TryLock, Result
    <3>2. OthersKept(t) /\ HoldsLock(t)'
      BY <1>1, <2>2, <3>1, ConcludeMoves
    <3> QED
      BY <1>t, <2>2, <3>2, ReleaseKeepsLocks
  <2> QED
    BY <1>6, <2>1, <2>2 DEF TryLock
<1>7. ASSUME NEW t \in Tasks, Start(t)
      PROVE  LocksHeld'
  <2>1. CASE Goto(t, "collecting") /\ UNCHANGED lock
    <3>1. OthersKept(t) /\ SameClaim(t) /\ task[t].pc = "locked"
      BY <1>t, <1>7, <2>1, GotoEffect DEF Start
    <3>2. HoldsLock(t)'
      BY <2>1, <3>1 DEF SameClaim, LocksHeld, HoldsLock, HoldingPc
    <3> QED
      BY <1>t, <2>1, <3>1, <3>2, ReleaseKeepsLocks
  <2>2. CASE Abandon(t) /\ lock' = Unlocked(t)
    BY <1>t, <1>1, <2>2, AbandonEffect, ReleaseKeepsLocks DEF Idled
  <2> QED
    BY <1>7, <2>1, <2>2 DEF Start
<1>8. ASSUME NEW t \in Tasks, Finish(t)
      PROVE  LocksHeld'
  <2>1. CASE UNCHANGED lock
    <3>1. FinishEffect(t) => HoldsLock(t)'
      BY <2>1 DEF FinishEffect, SameClaim, LocksHeld, HoldsLock, HoldingPc
    <3>2. OthersKept(t) /\ HoldsLock(t)'
      BY <1>t, <1>1, <1>8, <3>1, FinishMoves
    <3> QED
      BY <1>t, <2>1, <3>2, ReleaseKeepsLocks
  <2>2. CASE Abandon(t) /\ lock' = Unlocked(t)
    BY <1>t, <1>1, <2>2, AbandonEffect, ReleaseKeepsLocks DEF Idled
  <2> QED
    BY <1>8, <2>1, <2>2 DEF Finish
<1>9. ASSUME NEW t \in Tasks, Unlock(t)
      PROVE  LocksHeld'
  <2>1. Advanced(t, "finished", "released") => HoldsLock(t)'
    BY DEF Advanced, HoldsLock, HoldingPc
  <2>2. OthersKept(t) /\ HoldsLock(t)' /\ lock' = Unlocked(t)
    BY <1>1, <1>9, <2>1, UnlockMoves DEF Unlock
  <2> QED
    BY <1>t, <2>2, ReleaseKeepsLocks
<1>10. ASSUME NEW t \in Tasks, Apply(t)
       PROVE  LocksHeld'
  <2>1. OthersKept(t) /\ HoldsLock(t)' /\ lock' = lock
    BY <1>1, <1>10, ApplyMoves DEF Apply
  <2> QED
    BY <1>t, <2>1, ReleaseKeepsLocks
<1>11. ASSUME NEW t \in Tasks, Finalize(t) \/ GiveUp(t) \/ Crash(t)
       PROVE  LocksHeld'
  <2>1. OthersKept(t) /\ HoldsLock(t)'
    BY <1>1, <1>11, EndMoves
  <2>2. lock' = lock \/ lock' = Unlocked(t)
    BY <1>11 DEF Finalize, GiveUp, Crash
  <2> QED
    BY <1>t, <2>1, <2>2, ReleaseKeepsLocks
<1>12. ASSUME NEW t \in Tasks, LoseOwnership(t)
       PROVE  LocksHeld'
  <2>1. OthersKept(t) /\ Marked(t) /\ lock' = lock
    BY <1>12, LoseOwnershipMoves DEF LoseOwnership
  <2>2. HoldsLock(t)'
    BY <2>1 DEF Marked, SameClaim, LocksHeld, HoldsLock
  <2> QED
    BY <1>t, <2>1, <2>2, ReleaseKeepsLocks
<1>13. ASSUME \/ Tick \/ ListDue \/ \E e \in Endpoints : EnqueueDue(e) \/ CheckNow(e)
              \/ \E t \in Tasks : RenewLease(t)
              \/ \E r \in Recoverers : Recover(r) \/ AbandonRecovery(r)
              \/ UNCHANGED workerVars
       PROVE  LocksHeld'
  <2>1. task' = task
    BY <1>13, TasksStay DEF Recover
  <2>2. lock' = lock
    BY <1>13 DEF Tick, ListDue, EnqueueDue, CheckNow, RenewLease, Recover, ListExpired,
                 FinalizeRecovered, Reconcile, AbandonRecovery, workerVars
  <2> QED
    BY <1>2, <2>1, <2>2
<1>14. \A t \in Tasks : ~LoseSession(t)
  BY DEF LoseSession
<1> QED
  BY <1>3, <1>4, <1>5, <1>6, <1>7, <1>8, <1>9, <1>10, <1>11, <1>12, <1>13, <1>14
     DEF WorkerNext, Step

\* While sessions live, two executions never collect one endpoint, whoever
\* crashes, is late or was started by hand: the lock a task took before its
\* run is its own until it has finished.
THEOREM OneTaskCollectsAnEndpoint ==
  ASSUME ~SessionsMayDie
  PROVE  WorkerSpec => []OneCollectorPerEndpoint
<1>1. WorkerInit => LocksHeld
  BY DEF WorkerInit, IdleTask, LocksHeld, HoldsLock, HoldingPc
<1>2. ShapeInv /\ LocksHeld /\ [WorkerNext]_workerVars => LocksHeld'
  BY LocksHeldStep
<1>3. LocksHeld => OneCollectorPerEndpoint
  BY DEF LocksHeld, HoldsLock, HoldingPc, OneCollectorPerEndpoint
<1> QED
  BY <1>1, <1>2, <1>3, ShapeInvariant, PTL DEF WorkerSpec

-----------------------------------------------------------------------------
(* Late executions.                                                        *)

\* Finalization is refused to whoever does not hold the claim.
LEMMA FinalizeJobNeedsClaim ==
  ASSUME NEW j, NEW k, NEW t, NEW res, FinalizeJob(j, k, t, res)
  PROVE  HoldsToken(j, k)
BY DEF FinalizeJob, Defer, FinalizeRetry, FinalizeTerminal, Owns

LEMMA LateTaskStep ==
  ASSUME ShapeInv, [WorkerNext]_workerVars,
         NEW t \in Tasks, task[t].pc # "idle", ~Direct(t), task'[t] # task[t],
         ~HoldsToken(task[t].run, task[t].token)
  PROVE  jobs' = jobs
<1>1. ASSUME NEW u \in Tasks, OthersKept(u) PROVE u = t
  BY <1>1 DEF OthersKept
<1>2. ASSUME NEW u \in Tasks, NEW j \in Jobs, ClaimJob(u, j) PROVE FALSE
  BY <1>1, <1>2, ClaimEffect DEF ShapeInv, ClaimJob
<1>3. ASSUME NEW u \in Tasks, Start(u) PROVE jobs' = jobs
  <2>1. u = t
    BY <1>1, <1>3, StartMoves
  <2> QED
    BY <1>3, <2>1 DEF Start, Attach, Owns, queueVars, tableVars
<1>4. ASSUME NEW u \in Tasks, Finalize(u) PROVE FALSE
  <2>1. u = t
    BY <1>1, <1>4, EndMoves
  <2> QED
    BY <1>4, <2>1, FinalizeJobNeedsClaim DEF Finalize
<1>5. ASSUME NEW u \in Tasks,
             \/ Admit(u) \/ TryLock(u) \/ Finish(u) \/ Unlock(u) \/ Apply(u)
             \/ GiveUp(u) \/ LoseOwnership(u) \/ Crash(u)
             \/ \E d \in Runs \ Jobs, e \in Endpoints : StartDirect(u, d, e)
      PROVE  jobs' = jobs
  BY <1>5 DEF Admit, TryLock, Finish, Unlock, Apply, GiveUp, LoseOwnership, Crash,
              StartDirect, tableVars
<1>6. task' # task
  OBVIOUS
<1> QED
  BY <1>2, <1>3, <1>4, <1>5, <1>6, TasksStay DEF WorkerNext, Step, Recover

\* A Worker that comes too late moves no job: neither the one it lost nor,
\* in the same step, any other.
THEOREM LateTasksMoveNothing == WorkerSpec => LateTasksLeaveJobsAlone
<1>1. ShapeInv /\ [WorkerNext]_workerVars =>
        [\A t \in Tasks :
           /\ task[t].pc # "idle" /\ ~Direct(t) /\ task'[t] # task[t]
           /\ ~HoldsToken(task[t].run, task[t].token)
           => jobs'[task[t].run] = jobs[task[t].run]]_workerVars
  BY LateTaskStep
<1> QED
  BY <1>1, ShapeInvariant, PTL DEF WorkerSpec, LateTasksLeaveJobsAlone

-----------------------------------------------------------------------------
(* Jobs and their runs.  What makes them agree is spread over a table row,  *)
(* a run row, the endpoint's columns and whoever holds the job: a task or a *)
(* recovery loop must know how the run ended, and the endpoint must have    *)
(* been told, before the job may be ended.                                  *)

AppliedRun(r) ==
  Finished(r) /\ runtime[runs[r].endpoint].lastAttempt >= runs[r].finishedAt

\* A finished execution knows how its run ended; one that is done has told
\* the endpoint, or never ran.
TaskKnows(t) ==
  LET r == task[t].run
      res == task[t].result IN
  /\ task[t].pc \in {"finished", "released"} =>
       res \in AttemptKind /\ Finished(r) /\ runs[r].kind = res
  /\ task[t].pc = "done" =>
       \/ res \in {"contention", "refused"}
       \/ res \in AttemptKind /\ AppliedRun(r) /\ runs[r].kind = res

\* The task's endpoint is its job's.
TaskHasJobRow(t) ==
  LET j == task[t].run IN
  (task[t].pc # "idle" /\ j \in Jobs) =>
    (jobs[j].status # "absent" /\ jobs[j].endpoint = task[t].endpoint)

LoopKnows(r) ==
  LET j == recovery[r].job IN
  recovery[r].pc = "finalizing" =>
    (AppliedRun(j) /\ runs[j].kind = recovery[r].result)

JobAgrees(j) ==
  /\ (jobs[j].hasRun) <=> (runs[j].status # "absent")
  /\ jobs[j].hasRun => (runs[j].endpoint = jobs[j].endpoint)
  /\ (Terminal(j) /\ jobs[j].hasRun) => AppliedRun(j)
  /\ (jobs[j].status = "succeeded") => (runs[j].status = "succeeded")
  /\ (jobs[j].status = "failed") => (runs[j].kind \in {"transient", "permanent"})
  /\ (jobs[j].status = "abandoned") => (runs[j].kind = "interrupted")

BookInv == /\ ShapeInv
           /\ \A t \in Tasks : TaskKnows(t) /\ TaskHasJobRow(t)
           /\ \A r \in Recoverers : LoopKnows(r)
           /\ \A j \in Jobs : JobAgrees(j)

\* A run that the endpoint has been told of stays told.
LEMMA AppliedRunStays ==
  ASSUME RuntimeInv, [RuntimeNext]_runtimeVars, NEW r \in Runs
  PROVE  /\ Finished(r) => Finished(r)' /\ runs'[r] = runs[r]
         /\ AppliedRun(r) => AppliedRun(r)'
<1>1. Finished(r) => Finished(r)' /\ runs'[r] = runs[r]
  BY RuntimeStepFacts DEF HistoryKept, Finished
<1>2. ASSUME AppliedRun(r) PROVE AppliedRun(r)'
  <2>1. runs'[r] = runs[r] /\ Finished(r)' /\ runs[r].endpoint \in Endpoints
    BY <1>1, <1>2 DEF AppliedRun, RuntimeInv, RuntimeTypeOK, RunRow
  <2>2. /\ runtime[runs[r].endpoint].lastAttempt \in Nat
        /\ runtime'[runs[r].endpoint].lastAttempt \in Nat /\ runs[r].finishedAt \in Nat
    BY <2>1, RuntimeStepFacts DEF RuntimeInv, RuntimeTypeOK, RuntimeRow, RunRow
  <2>3. runtime'[runs[r].endpoint].lastAttempt >= runtime[runs[r].endpoint].lastAttempt
    BY <2>1, NoStepBackStep
  <2> QED
    BY <1>2, <2>1, <2>2, <2>3 DEF AppliedRun
<1> QED
  BY <1>1, <1>2

\* A run keeps its endpoint, and starts only where it is started.
LEMMA RunsStayPresent ==
  ASSUME RuntimeTypeOK, [RuntimeNext]_runtimeVars, NEW r \in Runs, runs[r].status # "absent"
  PROVE  runs'[r].status # "absent" /\ runs'[r].endpoint = runs[r].endpoint
<1>1. CASE RowsStay
  BY <1>1 DEF RowsStay
<1>2. CASE RunStarts
  BY <1>2 DEF RunStarts, RunStarted, RuntimeTypeOK
<1>3. CASE RunEnds
  <2>1. PICK q \in Runs, k \in AttemptKind \union {"interrupted"}, tagged \in BOOLEAN :
          runs[q].status = "running" /\ runs' = EndedAs(q, k, tagged)
    BY <1>3 DEF RunEnds
  <2>2. /\ runs'[q].status \in {"succeeded", "failed"}
        /\ runs'[q].endpoint = runs[q].endpoint
        /\ \A h \in Runs \ {q} : runs'[h] = runs[h]
    BY <2>1, EndedRow
  <2> QED
    BY <2>2
<1> QED
  BY <1>1, <1>2, <1>3, RunRowCases

\* Applying a finished run tells the endpoint, or it has been told more.
LEMMA ApplyingTells ==
  ASSUME RuntimeTypeOK, runs' \in [Runs -> RunRow], NEW r \in Runs, Finished(r)',
         runtime' = Applied(runs', r)
  PROVE  AppliedRun(r)'
<1> DEFINE e == runs'[r].endpoint
<1>1. e \in Endpoints /\ runs'[r].finishedAt \in Nat /\ runtime[e].lastAttempt \in Nat
  BY DEF RuntimeTypeOK, RunRow, RuntimeRow
<1>2. CASE runtime[e].lastAttempt <= runs'[r].finishedAt
  <2>1. runtime' = [runtime EXCEPT ![e] = RowAfter(runtime[e], runs', r)]
    BY <1>2 DEF Applied, Finished
  <2>2. runtime'[e].lastAttempt = runs'[r].finishedAt
    BY <1>1, <2>1, AppliedColumns DEF RuntimeTypeOK
  <2> QED
    BY <1>1, <2>2 DEF AppliedRun
<1>3. CASE ~(runtime[e].lastAttempt <= runs'[r].finishedAt)
  BY <1>1, <1>3 DEF Applied, AppliedRun
<1> QED
  BY <1>2, <1>3

\* Recovery ends a run that is running, and tells the endpoint.
LEMMA RecoveringTells ==
  ASSUME RuntimeTypeOK, runs' \in [Runs -> RunRow], NEW r \in Runs, RecoverRun(r)
  PROVE  AppliedRun(r)'
<1>1. runs' = Reconciled(r) /\ runtime' = Applied(runs', r) /\ runs[r].status # "absent"
  BY DEF RecoverRun, RecoveredRuntime
<1>2. CASE runs[r].status = "running"
  <2>1. runs'[r].status \in {"succeeded", "failed"}
    <3>1. runs' = EndedAs(r, "interrupted", FALSE)
      BY <1>1, <1>2 DEF Reconciled
    <3>2. "interrupted" \in AttemptKind \union {"interrupted"} /\ FALSE \in BOOLEAN
      OBVIOUS
    <3>3. EndedAs(r, "interrupted", FALSE)[r].status
            = IF "interrupted" \in SuccessKind THEN "succeeded" ELSE "failed"
      BY <1>2, <3>2, EndedRow
    <3> QED
      BY <3>1, <3>3
  <2> QED
    BY <1>1, <2>1, ApplyingTells DEF Finished
<1>3. CASE runs[r].status # "running"
  <2>1. runs' = runs /\ runs[r].status \in {"succeeded", "failed"}
    BY <1>1, <1>3 DEF Reconciled, RuntimeTypeOK, RunRow
  <2> QED
    BY <1>1, <2>1, ApplyingTells DEF Finished
<1> QED
  BY <1>2, <1>3

-----------------------------------------------------------------------------
(* What executions and recovery loops know.                                *)

LEMMA FinishKnows ==
  ASSUME RuntimeTypeOK, NEW t \in Tasks, task[t].run \in Runs, FinishEffect(t)
  PROVE  TaskKnows(t)'
<1>1. PICK k \in AttemptKind, tagged \in BOOLEAN :
        FinalizeRun(task[t].run, k, tagged) /\ task'[t].result = k
  BY DEF FinishEffect
<1>2. /\ runs'[task[t].run].kind = k
      /\ runs'[task[t].run].status \in {"succeeded", "failed"}
  BY <1>1, EndedRow DEF FinalizeRun
<1> QED
  BY <1>1, <1>2 DEF FinishEffect, SameClaim, TaskKnows, Finished

LEMMA TaskKnowsStep ==
  ASSUME ShapeInv, \A t \in Tasks : TaskKnows(t), [WorkerNext]_workerVars
  PROVE  \A t \in Tasks : TaskKnows(t)'
<1>t. WorkerTypeOK /\ RuntimeInv /\ RuntimeTypeOK
  BY DEF ShapeInv, WorkerTypeOK
<1>r. [RuntimeNext]_runtimeVars /\ runs' \in [Runs -> RunRow]
  BY <1>t, WorkerStepOnRuntime, RuntimeStepFacts DEF RuntimeTypeOK
<1>s. \A r \in Runs : /\ Finished(r) => Finished(r)' /\ runs'[r] = runs[r]
                      /\ AppliedRun(r) => AppliedRun(r)'
  BY <1>t, <1>r, AppliedRunStays
<1>0. ASSUME NEW t \in Tasks,
             \/ task'[t] = task[t]
             \/ Marked(t)
             \/ Advanced(t, "finished", "released")
      PROVE  TaskKnows(t)'
  <2>1. task[t].pc # "idle" => task[t].run \in Runs
    BY DEF ShapeInv, TasksHaveRuns, TaskHasRun
  <2> QED
    BY <1>0, <1>s, <2>1 DEF TaskKnows, Marked, Advanced, SameClaim, AppliedRun
<1>1. ASSUME NEW t \in Tasks, OthersKept(t), TaskKnows(t)'
      PROVE  \A u \in Tasks : TaskKnows(u)'
  BY <1>0, <1>1 DEF OthersKept
<1>2. ASSUME NEW t \in Tasks,
             \/ Idled(t)
             \/ \E res \in {"refused", "contention"} : Resolved(t, res)
             \/ \E from : \E to \in {"admitted", "locked", "collecting"} : Advanced(t, from, to)
      PROVE  TaskKnows(t)'
  BY <1>2 DEF Idled, Resolved, Advanced, TaskKnows
<1>3. ASSUME NEW t \in Tasks, NEW j \in Jobs, ClaimJob(t, j)
      PROVE  \A u \in Tasks : TaskKnows(u)'
  <2>1. OthersKept(t) /\ task'[t].pc = "claimed"
    BY <1>t, <1>3, ClaimEffect
  <2>2. TaskKnows(t)'
    BY <2>1 DEF TaskKnows
  <2> QED
    BY <1>1, <2>1, <2>2
<1>4. ASSUME NEW t \in Tasks, NEW d \in Runs \ Jobs, NEW e \in Endpoints,
             StartDirect(t, d, e)
      PROVE  \A u \in Tasks : TaskKnows(u)'
  <2>1. OthersKept(t) /\ task'[t].pc = "admitted"
    BY <1>t, <1>4, StartDirectEffect
  <2>2. TaskKnows(t)'
    BY <2>1 DEF TaskKnows
  <2> QED
    BY <1>1, <2>1, <2>2
<1>5. ASSUME NEW t \in Tasks, Admit(t) \/ TryLock(t) \/ Start(t)
      PROVE  \A u \in Tasks : TaskKnows(u)'
  BY <1>1, <1>2, <1>5, AdmitMoves, TryLockMoves, StartMoves
<1>6. ASSUME NEW t \in Tasks, Finish(t)
      PROVE  \A u \in Tasks : TaskKnows(u)'
  <2>1. task[t].run \in Runs
    BY <1>6, JobOfTask DEF Finish
  <2> QED
    BY <1>t, <1>1, <1>2, <1>6, <2>1, FinishMoves, FinishKnows
<1>7. ASSUME NEW t \in Tasks, Unlock(t)
      PROVE  \A u \in Tasks : TaskKnows(u)'
  BY <1>0, <1>1, <1>2, <1>7, UnlockMoves
<1>8. ASSUME NEW t \in Tasks, Apply(t)
      PROVE  \A u \in Tasks : TaskKnows(u)'
  <2>1. /\ task[t].run \in Runs /\ task[t].pc = "released"
        /\ ApplyTerminalRun(task[t].run)
    BY <1>8, JobOfTask DEF Apply
  <2>2. ASSUME NEW r \in Runs, r = task[t].run
        PROVE  Finished(r)' /\ runs' = runs /\ AppliedRun(r)'
    BY <1>t, <1>r, <2>1, <2>2, ApplyingTells DEF ApplyTerminalRun, Finished
  <2>3. Resolved(t, task[t].result) => TaskKnows(t)'
    BY <2>1, <2>2 DEF Resolved, SameClaim, TaskKnows, AppliedRun
  <2> QED
    BY <1>1, <1>2, <1>8, <2>3, ApplyMoves
<1>9. ASSUME NEW t \in Tasks, Finalize(t) \/ GiveUp(t) \/ Crash(t)
      PROVE  \A u \in Tasks : TaskKnows(u)'
  BY <1>1, <1>2, <1>9, EndMoves
<1>10. ASSUME NEW t \in Tasks, LoseOwnership(t)
       PROVE  \A u \in Tasks : TaskKnows(u)'
  BY <1>0, <1>1, <1>10, LoseOwnershipMoves
<1>11. ASSUME task' = task
       PROVE  \A u \in Tasks : TaskKnows(u)'
  BY <1>0, <1>11
<1> QED
  BY <1>3, <1>4, <1>5, <1>6, <1>7, <1>8, <1>9, <1>10, <1>11, TasksStay
     DEF WorkerNext, Step, Recover

LEMMA LoopKnowsStep ==
  ASSUME ShapeInv, \A r \in Recoverers : LoopKnows(r), [WorkerNext]_workerVars
  PROVE  \A r \in Recoverers : LoopKnows(r)'
<1>t. WorkerTypeOK /\ RuntimeInv /\ RuntimeTypeOK
  BY DEF ShapeInv, WorkerTypeOK
<1>r. [RuntimeNext]_runtimeVars /\ runs' \in [Runs -> RunRow]
  BY <1>t, WorkerStepOnRuntime, RuntimeStepFacts DEF RuntimeTypeOK
<1> SUFFICES ASSUME NEW r \in Recoverers, recovery'[r].pc = "finalizing"
             PROVE  /\ AppliedRun(recovery[r].job)'
                    /\ runs'[recovery'[r].job].kind = recovery'[r].result
  BY DEF LoopKnows
<1>1. CASE recovery'[r] = recovery[r]
  <2>1. recovery[r].job \in Runs /\ AppliedRun(recovery[r].job)
    BY <1>1, WorkerAssumption DEF ShapeInv, RecoveriesHaveJobs, LoopKnows
  <2> DEFINE j == recovery[r].job
  <2>2. \A h \in Runs : AppliedRun(h) => AppliedRun(h)' /\ runs'[h] = runs[h]
    BY <1>t, <1>r, AppliedRunStays DEF AppliedRun
  <2>3. recovery'[r].job = j /\ runs'[j] = runs[j]
    BY <1>1, <2>1, <2>2
  <2>4. AppliedRun(recovery[r].job)'
    BY <2>1, <2>2, <2>3 DEF AppliedRun, Finished
  <2> QED
    BY <1>1, <2>3, <2>4 DEF LoopKnows
<1>2. ASSUME NEW j \in Jobs, Taken(r, j), RecoverRun(j)
      PROVE  /\ AppliedRun(recovery[r].job)'
             /\ runs'[recovery'[r].job].kind = recovery'[r].result
  <2>1. j \in Runs
    BY WorkerAssumption
  <2>2. AppliedRun(j)'
    BY <1>t, <1>r, <1>2, <2>1, RecoveringTells
  <2>3. recovery'[r].job = j /\ recovery'[r].result = runs'[j].kind
    BY <1>2 DEF Taken
  <2> QED
    BY <2>2, <2>3 DEF AppliedRun, Finished
<1> QED
  BY <1>t, <1>1, <1>2, RecoveryStep

-----------------------------------------------------------------------------
(* What statements do to the rows of other jobs.                           *)

\* A statement about a claim changes the claim's row, if any.
LEMMA ClaimRow ==
  ASSUME QueueTypeOK, NEW i \in Jobs, NEW t, NEW l, NEW r, NEW k, NEW at,
         \/ Claim(i, t, l) \/ RequeueExpired(i, t, at) \/ RecoverExpired(i, t, r, l)
         \/ Renew(i, k, t, l) \/ Defer(i, k, t, at)
  PROVE  /\ jobs'[i].status \in OutstandingStatus
         /\ jobs'[i].endpoint = jobs[i].endpoint
         /\ (jobs'[i].hasRun) <=> (jobs[i].hasRun)
         /\ \A j \in Jobs \ {i} : jobs'[j] = jobs[j]
<1> USE DEF QueueTypeOK, OutstandingStatus, JobRow
<1>1. CASE Claim(i, t, l)
  BY <1>1 DEF Claim, Claimed
<1>2. CASE RequeueExpired(i, t, at)
  BY <1>2 DEF RequeueExpired, Unclaimed
<1>3. CASE RecoverExpired(i, t, r, l)
  BY <1>3 DEF RecoverExpired, Claimed
<1>4. CASE Renew(i, k, t, l)
  BY <1>4 DEF Renew, Owns, HoldsToken
<1>5. CASE Defer(i, k, t, at)
  BY <1>5 DEF Defer, Unclaimed
<1> QED
  BY <1>1, <1>2, <1>3, <1>4, <1>5

\* A row that is there stays there, with its endpoint.
LEMMA RowsStayPresent ==
  ASSUME QueueInv, [QueueNext]_queueVars, NEW j \in Jobs, jobs[j].status # "absent"
  PROVE  jobs'[j].status # "absent" /\ jobs'[j].endpoint = jobs[j].endpoint
<1>t. QueueTypeOK
  BY DEF QueueInv
<1>1. ASSUME NEW e \in Endpoints, NEW k \in Triggers, NEW at \in Nat, Enqueue(e, k, at)
      PROVE  jobs'[j] = jobs[j]
  BY <1>t, <1>1 DEF Enqueue, QueueTypeOK
<1>2. ASSUME NEW i \in Jobs, NEW t, NEW l, NEW r, NEW k, NEW at,
             \/ Claim(i, t, l) \/ RequeueExpired(i, t, at) \/ RecoverExpired(i, t, r, l)
             \/ Renew(i, k, t, l) \/ Defer(i, k, t, at)
      PROVE  jobs'[j].status # "absent" /\ jobs'[j].endpoint = jobs[j].endpoint
  BY <1>t, <1>2, ClaimRow DEF OutstandingStatus
<1>3. ASSUME NEW i \in Jobs, NEW t, NEW k, Attach(i, k, t)
      PROVE  jobs'[j].status # "absent" /\ jobs'[j].endpoint = jobs[j].endpoint
  BY <1>t, <1>3 DEF Attach, QueueTypeOK, JobRow
<1>4. ASSUME NEW i \in Jobs, NEW t, NEW k, NEW s \in TerminalStatus,
             FinalizeTerminal(i, k, t, s)
      PROVE  jobs'[j].status # "absent" /\ jobs'[j].endpoint = jobs[j].endpoint
  BY <1>t, <1>4 DEF FinalizeTerminal, Terminalized, QueueTypeOK, JobRow, TerminalStatus
<1>5. ASSUME NEW i \in Jobs, NEW t, NEW k, NEW s \in TerminalStatus, NEW at,
             FinalizeRetry(i, k, t, s, at)
      PROVE  jobs'[j].status # "absent" /\ jobs'[j].endpoint = jobs[j].endpoint
  <2>1. PICK m \in Jobs : /\ m # i /\ jobs[m].status = "absent"
                          /\ jobs'[i] = Terminalized(jobs[i], s)
                          /\ \A n \in Jobs \ {m, i} : jobs'[n] = jobs[n]
    BY <1>t, <1>5, RetryEffect
  <2>2. jobs'[i].status = s /\ jobs'[i].endpoint = jobs[i].endpoint
    BY <1>t, <2>1 DEF Terminalized, JobRow, QueueTypeOK
  <2> QED
    BY <2>1, <2>2 DEF TerminalStatus
<1>6. CASE UNCHANGED queueVars
  BY <1>6 DEF queueVars
<1> QED
  BY <1>1, <1>2, <1>3, <1>4, <1>5, <1>6 DEF QueueNext

\* Of job j nothing that its run has to agree with changes.
Quiet(j) == /\ (jobs'[j].hasRun) <=> (jobs[j].hasRun)
            /\ jobs[j].hasRun => (jobs'[j].endpoint = jobs[j].endpoint)
            /\ Terminal(j)' => (jobs'[j] = jobs[j])

LEMMA QuietClaims ==
  ASSUME QueueTypeOK, NEW i \in Jobs, NEW t, NEW l, NEW r, NEW k, NEW at,
         \/ Claim(i, t, l) \/ RequeueExpired(i, t, at) \/ RecoverExpired(i, t, r, l)
         \/ Renew(i, k, t, l) \/ Defer(i, k, t, at)
  PROVE  \A j \in Jobs : Quiet(j)
BY ClaimRow DEF Quiet, Terminal, TerminalStatus, OutstandingStatus

LEMMA QuietEnqueue ==
  ASSUME QueueInv, NEW e, NEW k, NEW at, Enqueue(e, k, at)
  PROVE  \A j \in Jobs : Quiet(j)
<1>1. PICK i \in Jobs : /\ jobs[i].status = "absent"
                        /\ jobs' = [jobs EXCEPT ![i] = NewRow(e, k, 1, NoJob, at)]
  BY DEF Enqueue
<1>2. /\ jobs'[i] = NewRow(e, k, 1, NoJob, at)
      /\ \A j \in Jobs \ {i} : jobs'[j] = jobs[j]
  BY <1>1 DEF QueueInv, QueueTypeOK
<1>3. ~jobs[i].hasRun /\ jobs'[i].status = "queued" /\ ~jobs'[i].hasRun
  BY <1>1, <1>2 DEF QueueInv, RowShape, NewRow
<1> QED
  BY <1>2, <1>3 DEF Quiet, Terminal, TerminalStatus

\* The successor of a retry is as quiet as the rows the retry leaves alone.
LEMMA QuietRetry ==
  ASSUME QueueInv, NEW j \in Jobs, NEW k, NEW t, NEW s, NEW at,
         FinalizeRetry(j, k, t, s, at)
  PROVE  \A i \in Jobs \ {j} : Quiet(i)
<1>1. PICK i \in Jobs : /\ i # j /\ jobs[i].status = "absent"
                        /\ jobs'[i] = Successor(j, at)
                        /\ \A m \in Jobs \ {i, j} : jobs'[m] = jobs[m]
  BY RetryEffect DEF QueueInv
<1>2. ~jobs[i].hasRun /\ jobs'[i].status = "queued" /\ ~jobs'[i].hasRun
  BY <1>1 DEF QueueInv, RowShape, Successor, NewRow
<1> QED
  BY <1>1, <1>2 DEF Quiet, Terminal, TerminalStatus

-----------------------------------------------------------------------------
(* Ending a job.                                                           *)

\* What whoever finalizes a job knows of its run.
Knows(j, res) ==
  \/ res \in {"contention", "refused"}
  \/ AppliedRun(j) /\ runs[j].kind = res

\* The row of the job that is finalized: given back, or ended as its run.
LEMMA FinalizeJobRow ==
  ASSUME ShapeInv, NEW j \in Jobs, NEW k, NEW t, NEW res, Knows(j, res),
         FinalizeJob(j, k, t, res)
  PROVE  /\ \A i \in Jobs \ {j} : Quiet(i)
         /\ \/ Quiet(j)
            \/ /\ (jobs'[j].hasRun) <=> (jobs[j].hasRun)
               /\ jobs'[j].endpoint = jobs[j].endpoint
               /\ jobs'[j].status = FinalStatus(res)
               /\ (jobs[j].hasRun) <=> (res # "refused")
               /\ res # "contention"
<1>t. QueueInv /\ QueueTypeOK /\ jobs[j] \in JobRow
  BY DEF ShapeInv, QueueInv, QueueTypeOK
<1>s. (FinalStatus(res) = "skipped") <=> (res = "refused")
  BY FinalStatusType
<1>1. ASSUME NEW d, Defer(j, k, t, t + d)
      PROVE  \A i \in Jobs : Quiet(i)
  BY <1>t, <1>1, QuietClaims
<1>2. ASSUME NEW d, Transient(res), FinalizeRetry(j, k, t, FinalStatus(res), t + d)
      PROVE  /\ \A i \in Jobs \ {j} : Quiet(i)
             /\ (jobs'[j].hasRun) <=> (jobs[j].hasRun)
             /\ jobs'[j].endpoint = jobs[j].endpoint
             /\ jobs'[j].status = FinalStatus(res)
             /\ (jobs[j].hasRun) <=> (res # "refused")
             /\ res # "contention"
  <2>1. jobs'[j] = Terminalized(jobs[j], FinalStatus(res)) /\ jobs[j].hasRun
    BY <1>t, <1>2, RetryEffect
  <2>2. \A i \in Jobs \ {j} : Quiet(i)
    BY <1>t, <1>2, QuietRetry
  <2>3. res # "refused" /\ res # "contention"
    BY <1>2 DEF Transient
  <2> QED
    BY <1>t, <2>1, <2>2, <2>3 DEF Terminalized, JobRow
<1>3. CASE /\ res # "contention"
           /\ FinalizeTerminal(j, k, t, FinalStatus(res))
  <2>1. /\ jobs' = [jobs EXCEPT ![j] = Terminalized(jobs[j], FinalStatus(res))]
        /\ (jobs[j].hasRun) <=> (FinalStatus(res) # "skipped")
    BY <1>3 DEF FinalizeTerminal
  <2>2. \A i \in Jobs \ {j} : jobs'[i] = jobs[i]
    BY <1>t, <2>1 DEF QueueTypeOK
  <2>3. \A i \in Jobs \ {j} : Quiet(i)
    BY <2>2 DEF Quiet
  <2>4. jobs'[j] = Terminalized(jobs[j], FinalStatus(res))
    BY <1>t, <2>1 DEF QueueTypeOK
  <2>5. /\ (jobs'[j].hasRun) <=> (jobs[j].hasRun)
        /\ jobs'[j].endpoint = jobs[j].endpoint
        /\ jobs'[j].status = FinalStatus(res)
    BY <1>t, <2>4 DEF Terminalized, JobRow
  <2> QED
    BY <1>3, <1>s, <2>1, <2>3, <2>5
<1> QED
  BY <1>1, <1>2, <1>3 DEF FinalizeJob

\* A quiet job goes on agreeing with its run, which stays where it is.
LEMMA QuietJobAgrees ==
  ASSUME ShapeInv, [RuntimeNext]_runtimeVars, NEW j \in Jobs, JobAgrees(j), Quiet(j),
         runs[j].status = "absent" => runs'[j].status = "absent"
  PROVE  JobAgrees(j)'
<1>t. RuntimeInv /\ RuntimeTypeOK /\ j \in Runs /\ QueueInv
  BY WorkerAssumption DEF ShapeInv, RuntimeInv
<1>1. runs[j].status # "absent" =>
        runs'[j].status # "absent" /\ runs'[j].endpoint = runs[j].endpoint
  BY <1>t, RunsStayPresent
<1>2. /\ Finished(j) => runs'[j] = runs[j]
      /\ AppliedRun(j) => AppliedRun(j)'
  BY <1>t, AppliedRunStays
<1>3. (jobs'[j].hasRun) <=> (runs'[j].status # "absent")
  BY <1>1 DEF JobAgrees, Quiet
<1>4. jobs'[j].hasRun => (runs'[j].endpoint = jobs'[j].endpoint)
  BY <1>1 DEF JobAgrees, Quiet
<1>5. ASSUME Terminal(j)', jobs'[j].hasRun
      PROVE  AppliedRun(j)' /\ runs'[j] = runs[j]
  <2>1. Terminal(j) /\ jobs[j].hasRun
    BY <1>5 DEF Quiet, Terminal
  <2> QED
    BY <1>2, <2>1 DEF JobAgrees, AppliedRun
<1>6. /\ (jobs'[j].status = "succeeded") => (runs'[j].status = "succeeded")
      /\ (jobs'[j].status = "failed") => (runs'[j].kind \in {"transient", "permanent"})
      /\ (jobs'[j].status = "abandoned") => (runs'[j].kind = "interrupted")
  <2>1. ASSUME jobs'[j].status \in {"succeeded", "failed", "abandoned"}
        PROVE  jobs'[j] = jobs[j] /\ runs'[j] = runs[j]
    <3>1. jobs'[j] = jobs[j] /\ Terminal(j)'
      BY <2>1 DEF Quiet, Terminal, TerminalStatus
    <3>2. jobs[j].hasRun
      BY <1>t, <2>1, <3>1 DEF QueueInv, RowShape
    <3> QED
      BY <1>5, <3>1, <3>2
  <2> QED
    BY <2>1 DEF JobAgrees
<1> QED
  BY <1>3, <1>4, <1>5, <1>6 DEF JobAgrees

\* An ended job agrees with the run that its finalizer knows.
LEMMA FinalizeJobAgrees ==
  ASSUME ShapeInv, \A i \in Jobs : JobAgrees(i), [WorkerNext]_workerVars,
         NEW j \in Jobs, NEW k, NEW t, NEW res \in Result, Knows(j, res),
         FinalizeJob(j, k, t, res), runs' = runs
  PROVE  \A i \in Jobs : JobAgrees(i)'
<1>r. [RuntimeNext]_runtimeVars
  BY WorkerStepOnRuntime
<1>1. \A i \in Jobs : Quiet(i) => JobAgrees(i)'
  BY <1>r, QuietJobAgrees
<1>2. ASSUME (jobs'[j].hasRun) <=> (jobs[j].hasRun),
             jobs'[j].endpoint = jobs[j].endpoint,
             jobs'[j].status = FinalStatus(res),
             (jobs[j].hasRun) <=> (res # "refused"), res # "contention"
      PROVE  JobAgrees(j)'
  <2>t. RuntimeInv /\ RuntimeTypeOK /\ j \in Runs
    BY WorkerAssumption DEF ShapeInv, RuntimeInv
  <2>1. res # "refused" => AppliedRun(j) /\ AppliedRun(j)' /\ runs[j].kind = res
    BY <1>r, <1>2, <2>t, AppliedRunStays DEF Knows
  <2>2. res # "refused" =>
          /\ res # "none"
          /\ (runs[j].status = "succeeded") <=> (res \in SuccessKind)
    BY <2>t, <2>1 DEF AppliedRun, RuntimeInv, RunsDated, DatedRow
  <2>3. /\ (FinalStatus(res) = "succeeded") <=> (res \in SuccessKind)
        /\ (FinalStatus(res) = "skipped") <=> (res = "refused")
        /\ (FinalStatus(res) = "abandoned") <=> (res = "interrupted")
    BY FinalStatusType
  <2>4. "refused" \notin SuccessKind
    BY DEF SuccessKind
  <2>5. /\ (FinalStatus(res) = "succeeded") => (runs[j].status = "succeeded")
        /\ (FinalStatus(res) = "abandoned") => (runs[j].kind = "interrupted")
    BY <2>1, <2>2, <2>3, <2>4
  <2>6. (FinalStatus(res) = "failed") => (runs[j].kind \in {"transient", "permanent"})
    BY <1>2, <2>1, <2>2, <2>3 DEF Result, AttemptKind
  <2> QED
    BY <1>2, <2>1, <2>5, <2>6 DEF JobAgrees
<1> QED
  BY <1>1, <1>2, FinalizeJobRow

LEMMA TaskHasJobRowStep ==
  ASSUME ShapeInv, \A t \in Tasks : TaskHasJobRow(t), [WorkerNext]_workerVars
  PROVE  \A t \in Tasks : TaskHasJobRow(t)'
<1>t. WorkerTypeOK
  BY DEF ShapeInv
<1>q. \A j \in Jobs : jobs[j].status # "absent" =>
        jobs'[j].status # "absent" /\ jobs'[j].endpoint = jobs[j].endpoint
  BY WorkerStepOnQueue, RowsStayPresent DEF ShapeInv
<1>0. ASSUME NEW t \in Tasks, task[t].pc # "idle", SameClaim(t)
      PROVE  TaskHasJobRow(t)'
  BY <1>q, <1>0 DEF TaskHasJobRow, SameClaim
<1>1. ASSUME NEW t \in Tasks, Idled(t)
      PROVE  TaskHasJobRow(t)'
  BY <1>1 DEF TaskHasJobRow, Idled
<1>2. ASSUME NEW t \in Tasks, OthersKept(t), TaskHasJobRow(t)'
      PROVE  \A u \in Tasks : TaskHasJobRow(u)'
  BY <1>2, <1>q DEF TaskHasJobRow, OthersKept
<1>3. ASSUME NEW t \in Tasks, NEW j \in Jobs, ClaimJob(t, j)
      PROVE  \A u \in Tasks : TaskHasJobRow(u)'
  <2>1. /\ OthersKept(t) /\ task'[t].run = j
        /\ task'[t].endpoint = jobs[j].endpoint
    BY <1>t, <1>3, ClaimEffect
  <2>2. jobs[j].status # "absent"
    BY <1>3 DEF ClaimJob, Claim
  <2>3. TaskHasJobRow(t)'
    BY <1>q, <2>1, <2>2 DEF TaskHasJobRow
  <2> QED
    BY <1>2, <2>1, <2>3
<1>4. ASSUME NEW t \in Tasks, NEW d \in Runs \ Jobs, NEW e \in Endpoints,
             StartDirect(t, d, e)
      PROVE  \A u \in Tasks : TaskHasJobRow(u)'
  <2>1. OthersKept(t) /\ task'[t].run = d
    BY <1>t, <1>4, StartDirectEffect
  <2>2. TaskHasJobRow(t)'
    BY <2>1 DEF TaskHasJobRow
  <2> QED
    BY <1>2, <2>1, <2>2
<1>5. ASSUME NEW t \in Tasks, Step(t) \/ LoseOwnership(t) \/ Crash(t)
      PROVE  \A u \in Tasks : TaskHasJobRow(u)'
  <2>1. task[t].pc # "idle"
    BY <1>5 DEF Step, Admit, TryLock, Start, Finish, Unlock, Apply, Finalize, GiveUp,
                LoseOwnership, InFlight, Crash
  <2>2. OthersKept(t) /\ (Idled(t) \/ SameClaim(t))
    BY <1>t, <1>5, AdmitMoves, TryLockMoves, StartMoves, FinishMoves, UnlockMoves,
       ApplyMoves, EndMoves, LoseOwnershipMoves
       DEF Step, Advanced, Resolved, FinishEffect, Marked
  <2> QED
    BY <1>0, <1>1, <1>2, <2>1, <2>2
<1>6. ASSUME task' = task
      PROVE  \A u \in Tasks : TaskHasJobRow(u)'
  BY <1>6, <1>q DEF TaskHasJobRow
<1> QED
  BY <1>3, <1>4, <1>5, <1>6, TasksStay DEF WorkerNext, Recover

\* A start makes the job's row and the run's say the same at once.
LEMMA StartAgrees ==
  ASSUME BookInv, [WorkerNext]_workerVars, NEW t \in Tasks, Start(t)
  PROVE  \A j \in Jobs : JobAgrees(j)'
<1>0. PICK r \in Runs : r = task[t].run
  BY JobOfTask DEF BookInv, Start
<1>t. /\ ShapeInv /\ RuntimeTypeOK /\ QueueTypeOK /\ \A j \in Jobs : JobAgrees(j) /\ j \in Runs
      /\ task[t].endpoint \in Endpoints /\ task[t].pc = "locked"
  BY WorkerAssumption
     DEF BookInv, ShapeInv, WorkerTypeOK, TaskState, Start
<1>r. [RuntimeNext]_runtimeVars
  BY <1>t, WorkerStepOnRuntime
<1>1. \A j \in Jobs : Quiet(j) /\ runs'[j] = runs[j] => JobAgrees(j)'
  BY <1>t, <1>r, QuietJobAgrees
<1>2. CASE jobs' = jobs /\ runs' = runs
  BY <1>1, <1>2 DEF Quiet
<1>3. ASSUME StartRun(r, task[t].endpoint)
      PROVE  /\ runs'[r].status = "running" /\ runs'[r].endpoint = task[t].endpoint
             /\ \A h \in Runs \ {r} : runs'[h] = runs[h]
  BY <1>t, <1>3 DEF StartRun, RunStarted, AbsentRun, RuntimeTypeOK
<1>4. CASE StartRun(r, task[t].endpoint) /\ Direct(t) /\ UNCHANGED queueVars
  <2>1. r \notin Jobs /\ jobs' = jobs
    BY <1>0, <1>4 DEF Direct, queueVars
  <2> QED
    BY <1>1, <1>3, <1>4, <1>t, <2>1 DEF Quiet
<1>5. CASE /\ StartRun(r, task[t].endpoint) /\ ~Direct(t)
           /\ Attach(r, task[t].token, now)
  <2>1. r \in Jobs /\ jobs[r].status = "running"
    BY <1>0, <1>5, <1>t DEF Direct, Attach, Owns, HoldsToken
  <2>2. /\ jobs'[r].hasRun /\ jobs'[r].status = "running"
        /\ jobs'[r].endpoint = jobs[r].endpoint
        /\ \A i \in Jobs \ {r} : jobs'[i] = jobs[i]
    BY <1>5, <1>t, <2>1 DEF Attach, QueueTypeOK, JobRow
  <2>3. jobs[r].endpoint = task[t].endpoint
    BY <1>0, <1>t, <2>1 DEF BookInv, TaskHasJobRow
  <2>4. JobAgrees(r)'
    BY <1>3, <1>5, <2>1, <2>2, <2>3 DEF JobAgrees, Terminal, TerminalStatus
  <2>5. ASSUME NEW j \in Jobs, j # r PROVE JobAgrees(j)'
    BY <1>1, <1>3, <1>5, <1>t, <2>2, <2>5 DEF Quiet
  <2> QED
    BY <2>4, <2>5
<1> QED
  BY <1>0, <1>2, <1>4, <1>5 DEF Start, tableVars

LEMMA RecoveringStartsNone ==
  ASSUME RuntimeTypeOK, NEW r \in Runs, RecoverRun(r),
         NEW h \in Runs, runs[h].status = "absent"
  PROVE  runs'[h].status = "absent"
<1>1. CASE runs[r].status = "running"
  <2>1. runs' = EndedAs(r, "interrupted", FALSE) /\ h # r
    BY <1>1 DEF RecoverRun, Reconciled
  <2> QED
    BY <2>1 DEF EndedAs, Ended, RuntimeTypeOK
<1>2. CASE runs[r].status # "running"
  BY <1>2 DEF RecoverRun, Reconciled
<1> QED
  BY <1>1, <1>2

\* Every step but a start and an end of a job is quiet for all of them.
LEMMA QuietSteps ==
  ASSUME ShapeInv, [WorkerNext]_workerVars,
         \A t \in Tasks : ~Start(t) /\ ~Finalize(t),
         \A r \in Recoverers : ~FinalizeRecovered(r)
  PROVE  \A j \in Jobs : /\ Quiet(j)
                         /\ runs[j].status = "absent" => runs'[j].status = "absent"
<1> USE DEF tableVars, queueVars
<1>t. /\ WorkerTypeOK /\ QueueInv /\ QueueTypeOK /\ RuntimeTypeOK /\ Jobs \subseteq Runs
  BY WorkerAssumption DEF ShapeInv, WorkerTypeOK
<1>1. ASSUME jobs' = jobs PROVE \A j \in Jobs : Quiet(j)
  BY <1>1 DEF Quiet
<1>2. ASSUME NEW e \in Endpoints, EnqueueDue(e) \/ CheckNow(e)
      PROVE  runs' = runs /\ \A j \in Jobs : Quiet(j)
  BY <1>t, <1>1, <1>2, QuietEnqueue DEF EnqueueDue, CheckNow
<1>3. ASSUME NEW t \in Tasks, NEW j \in Jobs, ClaimJob(t, j)
      PROVE  runs' = runs /\ \A i \in Jobs : Quiet(i)
  BY <1>t, <1>3, QuietClaims DEF ClaimJob
<1>4. ASSUME NEW t \in Tasks, RenewLease(t)
      PROVE  runs' = runs /\ \A i \in Jobs : Quiet(i)
  <2>1. task[t].run \in Jobs
    BY <1>4, JobOfTask DEF RenewLease, InFlight
  <2> QED
    BY <1>t, <1>4, <2>1, QuietClaims DEF RenewLease
<1>5. ASSUME NEW t \in Tasks,
             \/ Admit(t) \/ TryLock(t) \/ Unlock(t) \/ Apply(t) \/ GiveUp(t)
             \/ LoseOwnership(t) \/ Crash(t) \/ LoseSession(t)
             \/ \E d \in Runs \ Jobs, e \in Endpoints : StartDirect(t, d, e)
      PROVE  runs' = runs /\ jobs' = jobs
  BY <1>5 DEF Admit, TryLock, Unlock, Apply, ApplyTerminalRun, GiveUp, LoseOwnership,
              Crash, LoseSession, StartDirect
<1>6. ASSUME NEW t \in Tasks, Finish(t)
      PROVE  /\ jobs' = jobs
             /\ \A j \in Jobs : runs[j].status = "absent" => runs'[j].status = "absent"
  <2>1. task[t].run \in Runs
    BY <1>6, JobOfTask DEF Finish
  <2>2. ASSUME NEW k \in AttemptKind, NEW tagged \in BOOLEAN,
               FinalizeRun(task[t].run, k, tagged)
        PROVE  \A h \in Runs : runs[h].status = "absent" => runs'[h].status = "absent"
    BY <1>t, <2>1, <2>2, EndedRow DEF FinalizeRun
  <2> QED
    BY <1>t, <1>6, <2>2 DEF Finish
<1>7. ASSUME NEW r \in Recoverers, ListExpired(r) \/ AbandonRecovery(r)
      PROVE  runs' = runs /\ jobs' = jobs
  BY <1>7 DEF ListExpired, AbandonRecovery
<1>8. ASSUME NEW r \in Recoverers, NEW j \in Jobs, Reconcile(r, j)
      PROVE  \A i \in Jobs : /\ Quiet(i)
                             /\ runs[i].status = "absent" => runs'[i].status = "absent"
  <2>1. ASSUME RecoverRun(j)
        PROVE  \A h \in Runs : runs[h].status = "absent" => runs'[h].status = "absent"
    BY <1>t, <2>1, RecoveringStartsNone
  <2>2. \/ RequeueExpired(j, recovery[r].expiredAt, now) /\ UNCHANGED runs
        \/ /\ RecoverExpired(j, recovery[r].expiredAt, now, now + Lease)
           /\ RecoverRun(j)
        \/ jobs' = jobs /\ runs' = runs
    BY <1>8 DEF Reconcile
  <2> QED
    BY <1>t, <1>1, <2>1, <2>2, QuietClaims
<1>9. CASE Tick \/ ListDue \/ UNCHANGED workerVars
  BY <1>9, <1>1 DEF Tick, TimePasses, ListDue, workerVars
<1> QED
  BY <1>1, <1>2, <1>3, <1>4, <1>5, <1>6, <1>7, <1>8, <1>9 DEF WorkerNext, Step, Recover

LEMMA JobAgreesStep ==
  ASSUME BookInv, [WorkerNext]_workerVars
  PROVE  \A j \in Jobs : JobAgrees(j)'
<1>t. ShapeInv /\ WorkerTypeOK /\ \A j \in Jobs : JobAgrees(j)
  BY DEF BookInv, ShapeInv
<1>1. ASSUME NEW t \in Tasks, Finalize(t)
      PROVE  \A j \in Jobs : JobAgrees(j)'
  <2>1. /\ task[t].run \in Jobs /\ task[t].result \in Result
        /\ FinalizeJob(task[t].run, task[t].token, task[t].at, task[t].result)
        /\ runs' = runs
    BY <1>t, <1>1, JobOfTask DEF Finalize, WorkerTypeOK, TaskState
  <2>2. Knows(task[t].run, task[t].result)
    BY <1>1 DEF Finalize, BookInv, TaskKnows, Knows
  <2> QED
    BY <1>t, <2>1, <2>2, FinalizeJobAgrees
<1>2. ASSUME NEW r \in Recoverers, FinalizeRecovered(r)
      PROVE  \A j \in Jobs : JobAgrees(j)'
  <2>1. /\ recovery[r].job \in Jobs /\ recovery[r].result \in Result
        /\ recovery[r].pc = "finalizing" /\ runs' = runs
    BY <1>t, <1>2
       DEF FinalizeRecovered, ShapeInv, RecoveriesHaveJobs, WorkerTypeOK, RecoveryState
  <2>2. Knows(recovery[r].job, recovery[r].result)
    BY <2>1 DEF BookInv, LoopKnows, Knows
  <2>3. CASE FinalizeJob(recovery[r].job, recovery[r].token, recovery[r].at,
                         recovery[r].result)
    BY <1>t, <2>1, <2>2, <2>3, FinalizeJobAgrees
  <2>4. CASE jobs' = jobs
    <3>1. \A j \in Jobs : Quiet(j)
      BY <2>4 DEF Quiet
    <3> QED
      BY <1>t, <2>1, <3>1, WorkerStepOnRuntime, QuietJobAgrees
  <2> QED
    BY <1>2, <2>3, <2>4 DEF FinalizeRecovered
<1>3. CASE /\ \A t \in Tasks : ~Start(t) /\ ~Finalize(t)
           /\ \A r \in Recoverers : ~FinalizeRecovered(r)
  BY <1>t, <1>3, QuietSteps, QuietJobAgrees, WorkerStepOnRuntime
<1> QED
  BY <1>1, <1>2, <1>3, StartAgrees

LEMMA BookInit == WorkerInit => BookInv
<1> SUFFICES ASSUME WorkerInit PROVE BookInv
  OBVIOUS
<1>1. /\ \A t \in Tasks : task[t].pc = "idle"
      /\ \A r \in Recoverers : recovery[r].pc = "waiting"
  BY DEF WorkerInit, IdleTask, Waiting
<1>2. \A j \in Jobs : /\ jobs[j].status = "absent" /\ ~jobs[j].hasRun
                      /\ runs[j].status = "absent"
  BY WorkerAssumption
     DEF WorkerInit, QueueInit, RuntimeInit, AbsentRow, NewRow, AbsentRun
<1>3. \A j \in Jobs : JobAgrees(j)
  BY <1>2 DEF JobAgrees
<1> QED
  BY <1>1, <1>3, ShapeInit DEF BookInv, TaskKnows, TaskHasJobRow, LoopKnows

LEMMA BookInvariant == WorkerSpec => []BookInv
<1>1. WorkerInit => BookInv
  BY BookInit
<1>2. BookInv /\ [WorkerNext]_workerVars => BookInv'
  BY ShapeStep, TaskKnowsStep, TaskHasJobRowStep, LoopKnowsStep, JobAgreesStep DEF BookInv
<1> QED
  BY <1>1, <1>2, PTL DEF WorkerSpec

\* A job's final status is the outcome of its run, whoever ended either: no
\* late result overwrites an interruption that recovery has recorded.
THEOREM JobsAgreeWithRuns == WorkerSpec => []JobAgreesWithRun
<1>1. BookInv => JobAgreesWithRun
  BY DEF BookInv, JobAgrees, JobAgreesWithRun
<1> QED
  BY <1>1, BookInvariant, PTL

\* No crash, at whatever step, leaves an ended job whose endpoint has not
\* been told of its run.
THEOREM NoEndedJobIsUnapplied == WorkerSpec => []EndedJobsAreApplied
<1>1. BookInv => EndedJobsAreApplied
  BY DEF BookInv, JobAgrees, AppliedRun, EndedJobsAreApplied
<1> QED
  BY <1>1, BookInvariant, PTL

=============================================================================
