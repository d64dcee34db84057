-------------------------- MODULE CollectionWorker --------------------------
(***************************************************************************)
(* The Workers around the job queue: scheduler passes, claimed executions, *)
(* lease renewal, stale recovery, crashes, and collections started by hand *)
(* beside the queue.                                                       *)
(*                                                                         *)
(* A task is one execution in flight (runClaimedJob, or the body of        *)
(* collect-main for a direct run).  Each of its steps is one statement or  *)
(* transaction; between two of them anything else may happen.  A process   *)
(* that dies loses its tasks one by one, its database sessions with them.  *)
(*                                                                         *)
(* Until MaxTime anything may fail and the clock may run ahead of any      *)
(* step.  After it there is a calm in which nothing fails and time passes  *)
(* only while everybody waits for it: what must happen, happens then.      *)
(***************************************************************************)
EXTENDS JobQueue, EndpointRuntime

CONSTANTS Tasks,          \* executions in flight (localExecutionLimit a Worker)
          Recoverers,     \* recovery loops, one a Worker
          NoTask,
          Lease,          \* jobLeaseDurationMilliseconds
          InitialRetryDelay,  \* INITIAL_RETRY_DELAY_MILLISECONDS
          MaxRetryDelay,      \* MAX_RETRY_DELAY_MILLISECONDS
          ContentionDelay,    \* CONTENTION_DEFERRAL_NOMINAL_MILLISECONDS
          MaxJitter,      \* of a scheduler pass, a fraction of the interval
          MaxTime,        \* bound: from then on nothing fails, see Calm
          SessionsMayDie  \* whether a lock's session may be lost on its own

ASSUME WorkerAssumption ==
  /\ Jobs \subseteq Runs /\ NoTask \notin Tasks
  /\ Lease \in Nat \ {0} /\ InitialRetryDelay \in Nat \ {0}
  /\ MaxRetryDelay \in Nat \ {0} /\ ContentionDelay \in Nat \ {0}
  /\ MaxJitter \in Nat /\ MaxJitter <= PollInterval
  /\ MaxTime \in Nat /\ SessionsMayDie \in BOOLEAN

VARIABLES task,      \* each execution in flight
          lock,      \* the task whose session holds an endpoint's advisory lock
          recovery,  \* each recovery loop
          due        \* the endpoints a scheduler pass still has to enqueue

workerVars == <<jobs, issued, runs, runtime, now, task, lock, recovery, due>>
tableVars == <<jobs, issued, runs, runtime, now>>

\* The result of an execution as decideEndpointCollectionJobDisposition sees
\* it: blocked by lock or capacity, blocked otherwise, or how its run ended.
Result == {"none", "contention", "refused", "interrupted"} \union AttemptKind

TaskState == [pc : {"idle", "claimed", "admitted", "locked", "collecting",
                    "finished", "released", "done"},
              run : Runs \union {NoRun},     \* the job, or the direct run
              endpoint : Endpoints, token : Nat,
              at : Nat,                      \* the clock reading it works with
              lost : BOOLEAN,                \* ownershipLost
              result : Result]

RecoveryState == [pc : {"waiting", "passing", "finalizing"},
                  listed : SUBSET Jobs, expiredAt : Nat,
                  job : Jobs \union {NoJob}, token : Nat, at : Nat,
                  result : Result]

\* The two tables, the executions, the advisory locks and the recovery loops
\* keep their types, whatever order they move in.
WorkerTypeOK == /\ QueueTypeOK /\ RuntimeTypeOK
                /\ task \in [Tasks -> TaskState]
                /\ lock \in [Endpoints -> Tasks \union {NoTask}]
                /\ recovery \in [Recoverers -> RecoveryState]
                /\ due \in SUBSET Endpoints

IdleTask == [pc |-> "idle", run |-> NoRun,
             endpoint |-> CHOOSE e \in Endpoints : TRUE, token |-> NoToken,
             at |-> 0, lost |-> FALSE, result |-> "none"]

Waiting == [pc |-> "waiting", listed |-> {}, expiredAt |-> 0, job |-> NoJob,
            token |-> NoToken, at |-> 0, result |-> "none"]

WorkerInit ==
  /\ QueueInit /\ RuntimeInit
  /\ task = [t \in Tasks |-> IdleTask]
  /\ lock = [e \in Endpoints |-> NoTask]
  /\ recovery = [r \in Recoverers |-> Waiting]
  /\ due = {}

\* Bound: when the calm begins.
Calm == now >= MaxTime

\* Bound: a chain of attempts is begun only if there are ids for all of it.
RoomForChain == Cardinality({j \in Jobs : jobs[j].status = "absent"}) >= MaxAttempts

Direct(t) == task[t].run \in Runs \ Jobs
Current(t) == Owns(task[t].run, task[t].token, now)

Goto(t, pc) == task' = [task EXCEPT ![t].pc = pc]
Resolve(t, res) == task' = [task EXCEPT ![t].pc = "done", ![t].result = res,
                                        ![t].at = now]
Abandon(t) == task' = [task EXCEPT ![t] = IdleTask]

\* A direct command is over with its result, whatever it is: it prints it,
\* closes its pool and exits.  Nothing takes it up again.
EndDirect(t) == Abandon(t)

Conclude(t, res) == IF Direct(t) THEN EndDirect(t) ELSE Resolve(t, res)

\* Mutant of Unlocked: the lock is released by endpoint, not by session.
UnlockedByEndpoint(t) == [lock EXCEPT ![task[t].endpoint] = NoTask]

Unlocked(t) == [e \in Endpoints |-> IF lock[e] = t THEN NoTask ELSE lock[e]]

-----------------------------------------------------------------------------
(* Scheduling: runSchedulerPass, and checkNow in the administration.       *)

\* calculateSchedulingJitterMilliseconds, of any random value
Jitters == 0 .. MaxJitter

IsDue(e) == /\ runtime[e].cooldownUntil <= now
            /\ runtime[e].nextDue <= now
            /\ Outstanding(e) = {}

ListDue ==
  /\ due = {} /\ ~Calm /\ \E e \in Endpoints : IsDue(e)
  /\ due' = {e \in Endpoints : IsDue(e)}
  /\ UNCHANGED <<jobs, issued, runs, runtime, now, task, lock, recovery>>

\* The list may be stale by now; the insertion sees only outstanding jobs.
EnqueueDue(e) ==
  /\ e \in due
  /\ due' = due \ {e}
  /\ \/ RoomForChain /\ \E d \in Jitters : Enqueue(e, "scheduled", now + d)
     \/ (Outstanding(e) # {} \/ ~RoomForChain) /\ UNCHANGED queueVars
  /\ UNCHANGED <<runs, runtime, now, task, lock, recovery>>

CheckNow(e) ==
  /\ ~Calm /\ RoomForChain
  /\ Enqueue(e, "manual", now)
  /\ UNCHANGED <<runs, runtime, now, task, lock, recovery, due>>

-----------------------------------------------------------------------------
(* An execution up to its run: claim, checks, lock, start.                 *)

ClaimJob(t, j) ==
  /\ task[t].pc = "idle"
  /\ Claim(j, now, now + Lease)
  /\ task' = [task EXCEPT ![t] =
               [IdleTask EXCEPT !.pc = "claimed", !.run = j, !.at = now,
                                !.endpoint = jobs[j].endpoint,
                                !.token = NextToken(j)]]
  /\ UNCHANGED <<runs, runtime, now, lock, recovery, due>>

StartDirect(t, r, e) ==
  /\ task[t].pc = "idle" /\ runs[r].status = "absent" /\ ~Calm
  /\ \A u \in Tasks : task[u].run # r
  /\ task' = [task EXCEPT ![t] = [IdleTask EXCEPT !.pc = "admitted", !.run = r,
                                                  !.endpoint = e]]
  /\ UNCHANGED <<tableVars, lock, recovery, due>>

\* A scheduled first attempt that is not due any more; retries and manual
\* jobs are collected all the same.
NoLongerDue(t) ==
  LET j == task[t].run IN
  /\ jobs[j].trigger = "scheduled" /\ jobs[j].attempt = 1
  /\ runtime[task[t].endpoint].nextDue > task[t].at

\* requireCurrentClaim and the configuration read, eligibility and capacity:
\* the administration may have made the endpoint ineligible, and capacity
\* may be taken, at any time.
Admit(t) ==
  LET ready == Owns(task[t].run, task[t].token, task[t].at) IN
  /\ task[t].pc = "claimed"
  /\ \/ ready /\ Resolve(t, "refused")
     \/ ready /\ ~Calm /\ Resolve(t, "contention")
     \/ ready /\ ~NoLongerDue(t) /\ Goto(t, "admitted")
     \/ ~ready /\ Abandon(t)
  /\ UNCHANGED <<tableVars, lock, recovery, due>>

TryLock(t) ==
  LET e == task[t].endpoint IN
  /\ task[t].pc = "admitted"
  /\ \/ /\ lock[e] = NoTask
        /\ lock' = [lock EXCEPT ![e] = t]
        /\ Goto(t, "locked")
     \/ lock[e] # NoTask /\ Conclude(t, "contention") /\ UNCHANGED lock
  /\ UNCHANGED <<tableVars, recovery, due>>

\* One transaction inserts the run and attaches it to the job; without the
\* claim, or with a run the job already has, it rolls back and the lock is
\* released on the way out.
Start(t) ==
  LET r == task[t].run IN
  /\ task[t].pc = "locked"
  /\ \/ /\ StartRun(r, task[t].endpoint)
        /\ IF Direct(t) THEN UNCHANGED queueVars
                        ELSE Attach(r, task[t].token, now)
        /\ Goto(t, "collecting")
        /\ UNCHANGED lock
     \/ /\ runs[r].status # "absent" \/ (~Direct(t) /\ ~Current(t))
        /\ Abandon(t) /\ lock' = Unlocked(t)
        /\ UNCHANGED tableVars
  /\ UNCHANGED <<recovery, due>>

-----------------------------------------------------------------------------
(* The rest of an execution: finish, unlock, apply, finalize.              *)

\* The attempt is over, with whatever the publisher and the pipeline made of
\* it.  A run that recovery has ended meanwhile makes finalization throw.
Finish(t) ==
  LET r == task[t].run IN
  /\ task[t].pc = "collecting"
  /\ \/ /\ \E k \in AttemptKind, tagged \in BOOLEAN :
             /\ FinalizeRun(r, k, tagged)
             /\ task' = [task EXCEPT ![t].pc = "finished", ![t].result = k]
        /\ UNCHANGED lock
     \/ /\ runs[r].status # "running"
        /\ Abandon(t) /\ lock' = Unlocked(t)
        /\ UNCHANGED <<runs, runtime, now>>
  /\ UNCHANGED <<jobs, issued, recovery, due>>

\* pg_advisory_unlock answers true only on the session that still holds the
\* lock; anything else throws after the run has been finalized.
Unlock(t) ==
  /\ task[t].pc = "finished"
  /\ IF lock[task[t].endpoint] = t THEN Goto(t, "released") ELSE Abandon(t)
  /\ lock' = Unlocked(t)
  /\ UNCHANGED <<tableVars, recovery, due>>

Apply(t) ==
  /\ task[t].pc = "released"
  /\ ApplyTerminalRun(task[t].run)
  /\ Conclude(t, task[t].result)
  /\ UNCHANGED <<jobs, issued, lock, recovery, due>>

\* decideEndpointCollectionJobDisposition
Transient(res) == res \in {"transient", "interrupted"}

FinalStatus(res) ==
  CASE res \in SuccessKind -> "succeeded"
    [] res = "refused" -> "skipped"
    [] res = "interrupted" -> "abandoned"
    [] OTHER -> "failed"

\* Equal jitter: any delay from half the nominal one, rounded up, to all of it.
EqualJitter(nominal) == {d \in 0 .. nominal : 2 * d >= nominal}

\* The nominal delay after the n-th attempt doubles up to its limit.
RetryDelays(n) ==
  LET doubled == InitialRetryDelay * 2^(n - 1) IN
  EqualJitter(IF doubled <= MaxRetryDelay THEN doubled ELSE MaxRetryDelay)

ContentionDelays == EqualJitter(ContentionDelay)

\* finalizeEndpointCollectionJobExecution for whoever holds token k and read
\* its clock at t.
FinalizeJob(j, k, t, res) ==
  \/ /\ res = "contention"
     /\ \E d \in ContentionDelays : Defer(j, k, t, t + d)
     /\ UNCHANGED runtime
  \/ /\ Transient(res)
     /\ \E d \in RetryDelays(jobs[j].attempt) :
          FinalizeRetry(j, k, t, FinalStatus(res), t + d)
     /\ UNCHANGED runtime
  \/ /\ res # "contention"
     /\ ~(Transient(res) /\ jobs[j].attempt < MaxAttempts)
     /\ FinalizeTerminal(j, k, t, FinalStatus(res))
     /\ runtime' = IF FinalStatus(res) \in {"failed", "abandoned"}
                   THEN Cooled(j) ELSE runtime

Finalize(t) ==
  /\ task[t].pc = "done" /\ ~task[t].lost
  /\ FinalizeJob(task[t].run, task[t].token, task[t].at, task[t].result)
  /\ Abandon(t)
  /\ UNCHANGED <<runs, now, lock, recovery, due>>

\* runClaimedJob gives up when a renewal failed, and when finalization finds
\* the claim gone.
GiveUp(t) ==
  /\ task[t].pc = "done"
  /\ task[t].lost \/ ~Owns(task[t].run, task[t].token, task[t].at)
  /\ Abandon(t)
  /\ UNCHANGED <<tableVars, lock, recovery, due>>

-----------------------------------------------------------------------------
(* Renewal, which runs beside an execution and never stops it.             *)

InFlight(t) == task[t].pc # "idle" /\ ~Direct(t)

RenewLease(t) ==
  /\ InFlight(t) /\ ~task[t].lost /\ ~Calm
  /\ Renew(task[t].run, task[t].token, now, now + Lease)
  /\ UNCHANGED <<runs, runtime, now, task, lock, recovery, due>>

\* A refused renewal, or a database error during one.
LoseOwnership(t) ==
  /\ InFlight(t) /\ ~task[t].lost /\ ~Calm
  /\ task' = [task EXCEPT ![t].lost = TRUE]
  /\ UNCHANGED <<tableVars, lock, recovery, due>>

\* The process dies or an unexpected error ends the task: nothing more comes
\* of it, and its sessions end.
Crash(t) ==
  /\ task[t].pc # "idle" /\ ~Calm
  /\ Abandon(t) /\ lock' = Unlocked(t)
  /\ UNCHANGED <<tableVars, recovery, due>>

\* The lock's session is lost while the collection, on other connections of
\* the pool, goes on.
LoseSession(t) ==
  /\ SessionsMayDie /\ ~Calm
  /\ \E e \in Endpoints : lock[e] = t
  /\ lock' = Unlocked(t)
  /\ UNCHANGED <<tableVars, task, recovery, due>>

-----------------------------------------------------------------------------
(* Stale recovery.                                                         *)

\* Mutant of ListExpired: only jobs whose run has started are recovered.
ListExpiredStarted(r) ==
  LET stale == {j \in Jobs : Expired(j, now) /\ jobs[j].hasRun} IN
  /\ recovery[r].pc = "waiting" /\ stale # {}
  /\ recovery' = [recovery EXCEPT ![r] =
       [Waiting EXCEPT !.pc = "passing", !.expiredAt = now, !.listed = stale]]
  /\ UNCHANGED <<tableVars, task, lock, due>>

ListExpired(r) ==
  /\ recovery[r].pc = "waiting"
  /\ \E j \in Jobs : Expired(j, now)
  /\ recovery' = [recovery EXCEPT ![r] =
       [Waiting EXCEPT !.pc = "passing", !.expiredAt = now,
                       !.listed = {j \in Jobs : Expired(j, now)}]]
  /\ UNCHANGED <<tableVars, task, lock, due>>

\* The rest of the pass, once job j is dealt with.
PassOver(r, j) ==
  LET rest == recovery[r].listed \ {j} IN
  recovery' = [recovery EXCEPT ![r] =
    IF rest = {} THEN Waiting
    ELSE [Waiting EXCEPT !.pc = "passing", !.listed = rest,
                         !.expiredAt = recovery[r].expiredAt]]

\* reconcileExpiredEndpointCollectionJob: one transaction.
Reconcile(r, j) ==
  LET expiredAt == recovery[r].expiredAt
      run == Reconciled(j)[j] IN
  /\ recovery[r].pc = "passing" /\ j \in recovery[r].listed
  /\ \/ /\ RequeueExpired(j, expiredAt, now)
        /\ PassOver(r, j)
        /\ UNCHANGED <<runs, runtime, now>>
     \/ /\ RecoverExpired(j, expiredAt, now, now + Lease)
        /\ RecoverRun(j)
        /\ recovery' = [recovery EXCEPT ![r].pc = "finalizing", ![r].job = j,
             ![r].token = NextToken(j), ![r].at = now, ![r].result = run.kind]
     \/ /\ ~Expired(j, expiredAt)
        /\ PassOver(r, j)
        /\ UNCHANGED tableVars
  /\ UNCHANGED <<task, lock, due>>

FinalizeRecovered(r) ==
  LET j == recovery[r].job
      k == recovery[r].token
      at == recovery[r].at IN
  /\ recovery[r].pc = "finalizing"
  /\ \/ FinalizeJob(j, k, at, recovery[r].result)
     \/ ~Owns(j, k, at) /\ UNCHANGED <<jobs, issued, runtime>>
  /\ PassOver(r, j)
  /\ UNCHANGED <<runs, now, task, lock, due>>

\* The recovering process dies.
AbandonRecovery(r) ==
  /\ recovery[r].pc # "waiting" /\ ~Calm
  /\ recovery' = [recovery EXCEPT ![r] = Waiting]
  /\ UNCHANGED <<tableVars, task, lock, due>>

\* In the calm the clock moves only if every task and recovery is at rest and
\* the outstanding jobs wait for it: for a lease to end or a delay to pass.
Tick ==
  /\ Calm =>
       /\ \A t \in Tasks : task[t].pc = "idle"
       /\ \A r \in Recoverers : recovery[r].pc = "waiting"
       /\ \E j \in Jobs : jobs[j].status \in OutstandingStatus
       /\ \A j \in Jobs : ~Expired(j, now)
       /\ \A j \in Jobs : jobs[j].status = "queued" => jobs[j].availableAt > now
  /\ TimePasses
  /\ UNCHANGED <<queueVars, task, lock, recovery, due>>

-----------------------------------------------------------------------------

Step(t) ==
  \/ Admit(t) \/ TryLock(t) \/ Start(t) \/ Finish(t) \/ Unlock(t) \/ Apply(t)
  \/ Finalize(t) \/ GiveUp(t)

Recover(r) ==
  \/ ListExpired(r) \/ FinalizeRecovered(r)
  \/ \E j \in Jobs : Reconcile(r, j)

WorkerNext ==
  \/ Tick \/ ListDue
  \/ \E e \in Endpoints : EnqueueDue(e) \/ CheckNow(e)
  \/ \E t \in Tasks :
       \/ \E j \in Jobs : ClaimJob(t, j)
       \/ \E d \in Runs \ Jobs, e \in Endpoints : StartDirect(t, d, e)
       \/ Step(t)
       \/ RenewLease(t) \/ LoseOwnership(t) \/ Crash(t) \/ LoseSession(t)
  \/ \E r \in Recoverers : Recover(r) \/ AbandonRecovery(r)

WorkerSpec == WorkerInit /\ [][WorkerNext]_workerVars

\* What the Worker's loops keep doing: the dispatcher claims, promises
\* settle (every fetch has a deadline), recovery passes recur.  No retry,
\* renewal or scheduling is assumed.
WorkerFairness ==
  /\ WF_workerVars(Tick)
  /\ WF_workerVars(\E t \in Tasks, j \in Jobs : ClaimJob(t, j))
  /\ \A t \in Tasks : WF_workerVars(Step(t))
  /\ \A r \in Recoverers : WF_workerVars(Recover(r))

FairWorkerSpec == WorkerSpec /\ WorkerFairness

-----------------------------------------------------------------------------
(* What the parts promise together.                                        *)

\* A job's final status is its run's, whoever ended the run and whoever
\* ended the job: a late Worker that believes in its own result never gets
\* to write it over an interruption that recovery has recorded.
JobAgreesWithRun ==
  \A j \in Jobs :
    /\ jobs[j].hasRun <=> runs[j].status # "absent"
    /\ jobs[j].status = "succeeded" => runs[j].status = "succeeded"
    /\ jobs[j].status = "failed" => runs[j].kind \in {"transient", "permanent"}
    /\ jobs[j].status = "abandoned" => runs[j].kind = "interrupted"

\* A job ends only after its run has been applied to the endpoint, so that
\* no crash between finishing and applying leaves the endpoint without the
\* attempt: it is due again, and counted, as the run says.
EndedJobsAreApplied ==
  \A j \in Jobs : Terminal(j) /\ jobs[j].hasRun =>
    runtime[jobs[j].endpoint].lastAttempt >= runs[j].finishedAt

\* While sessions live an endpoint is collected by one task at most, jobs
\* and direct runs, late and current Workers alike.
OneCollectorPerEndpoint ==
  \A t, u \in Tasks :
    /\ task[t].pc = "collecting" /\ task[u].pc = "collecting"
    /\ task[t].endpoint = task[u].endpoint
    => t = u

\* A task whose claim was taken over moves nothing of its job any more,
\* whatever it still does to its run.
LateTasksLeaveJobsAlone ==
  [][\A t \in Tasks :
       /\ task[t].pc # "idle" /\ ~Direct(t) /\ task'[t] # task[t]
       /\ ~HoldsToken(task[t].run, task[t].token)
       => jobs'[task[t].run] = jobs[task[t].run]]_workerVars

\* Once failures stop, every outstanding job ends: crashed, late and
\* suppressed Workers' jobs are recovered, contended ones get their turn and
\* retry chains are finite.
EveryJobEnds ==
  \A j \in Jobs :
    jobs[j].status \in OutstandingStatus ~> Terminal(j)

=============================================================================
