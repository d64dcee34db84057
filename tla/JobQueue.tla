------------------------------ MODULE JobQueue ------------------------------
(***************************************************************************)
(* The table endpoint_collection_jobs and the statements of                *)
(* jobs/endpoint-collection-job-repository.ts that change it.              *)
(*                                                                         *)
(* A statement is one atomic step.  Its clock reading t is an argument,    *)
(* because the application reads its clock before it sends the statement   *)
(* and several Workers have clocks of their own: nothing here assumes      *)
(* that readings agree or advance.  A claim token is the number of the     *)
(* claim it was made for, so that it is fresh, as a random UUID is.        *)
(***************************************************************************)
EXTENDS EndpointCatalog, Integers, FiniteSets

CONSTANTS Jobs,         \* job ids
          NoJob,        \* NULL in previous_job_id
          MaxAttempts   \* MAX_ENDPOINT_COLLECTION_JOB_ATTEMPTS

ASSUME NoJobAssumption == NoJob \notin Jobs
ASSUME MaxAttemptsAssumption == MaxAttempts \in Nat \ {0}

VARIABLES jobs,    \* the row of each job id
          issued   \* how many claim tokens each job has been given

queueVars == <<jobs, issued>>

Triggers == {"scheduled", "manual"}
OutstandingStatus == {"queued", "running"}
TerminalStatus == {"succeeded", "failed", "skipped", "abandoned"}
NoToken == 0
NoLease == 0

JobRow == [status : {"absent"} \union OutstandingStatus \union TerminalStatus,
           endpoint : Endpoints, trigger : Triggers,
           attempt : 1..MaxAttempts, previous : Jobs \union {NoJob},
           availableAt : Nat, token : Nat, lease : Nat,
           hasRun : BOOLEAN]

QueueTypeOK == /\ jobs \in [Jobs -> JobRow]
               /\ issued \in [Jobs -> Nat]

-----------------------------------------------------------------------------
(* The rows statements write, and what they see.                           *)

NewRow(e, k, n, p, at) ==
  [status |-> "queued", endpoint |-> e, trigger |-> k, attempt |-> n,
   previous |-> p, availableAt |-> at, token |-> NoToken, lease |-> NoLease,
   hasRun |-> FALSE]

Claimed(row, k, l) ==
  [row EXCEPT !.status = "running", !.token = k, !.lease = l]

Unclaimed(row, at) ==
  [row EXCEPT !.status = "queued", !.availableAt = at,
              !.token = NoToken, !.lease = NoLease]

Terminalized(row, s) ==
  [row EXCEPT !.status = s, !.token = NoToken, !.lease = NoLease]

Outstanding(e) ==
  {j \in Jobs : jobs[j].endpoint = e /\ jobs[j].status \in OutstandingStatus}

Terminal(j) == jobs[j].status \in TerminalStatus

\* status = 'running' AND claim_token = $2
HoldsToken(j, k) == jobs[j].status = "running" /\ jobs[j].token = k

\* Mutant of Owns: the lease is checked, the token is not.
OwnsByLease(j, k, t) == jobs[j].status = "running" /\ jobs[j].lease > t

\* ... AND lease_expires_at > $t
Owns(j, k, t) == HoldsToken(j, k) /\ jobs[j].lease > t

\* Mutant of NextToken: a token names its holder, not the claim.
HolderToken(j) == 1

NextToken(j) == issued[j] + 1

Expired(j, t) == jobs[j].status = "running" /\ jobs[j].lease <= t

\* An id no row has yet; but for its status nothing of it is ever read.
AbsentRow ==
  [NewRow(CHOOSE e \in Endpoints : TRUE, "scheduled", 1, NoJob, 0)
     EXCEPT !.status = "absent"]

QueueInit ==
  /\ jobs = [j \in Jobs |-> AbsentRow]
  /\ issued = [j \in Jobs |-> 0]

-----------------------------------------------------------------------------
(* Enqueueing and claiming.                                                *)

\* validateEnqueueInput: a predecessor exactly from the second attempt on.
ValidRequest(row) == row.trigger \in Triggers /\ (row.attempt = 1 <=> row.previous = NoJob)

\* With an outstanding job the INSERT conflicts, returns that job and
\* changes nothing; only an insertion is a step.
Enqueue(e, k, at) ==
  /\ Outstanding(e) = {} /\ ValidRequest(NewRow(e, k, 1, NoJob, at))
  /\ \E j \in Jobs :
       /\ jobs[j].status = "absent"
       /\ jobs' = [jobs EXCEPT ![j] = NewRow(e, k, 1, NoJob, at)]
  /\ UNCHANGED issued

\* FOR UPDATE SKIP LOCKED passes over rows other claimants hold, so any
\* available row may be the one this claim gets.
Claim(j, t, l) ==
  /\ jobs[j].status = "queued" /\ jobs[j].availableAt <= t
  /\ l > t
  /\ jobs' = [jobs EXCEPT ![j] = Claimed(@, NextToken(j), l)]
  /\ issued' = [issued EXCEPT ![j] = @ + 1]

Renew(j, k, t, l) ==
  /\ Owns(j, k, t)
  /\ l > t /\ l > jobs[j].lease
  /\ jobs' = [jobs EXCEPT ![j].lease = l]
  /\ UNCHANGED issued

\* A job has one run at most (collection_runs.execution_id is unique), so
\* hasRun stands for collection_run_id.
Attach(j, k, t) ==
  /\ Owns(j, k, t)
  /\ jobs' = [jobs EXCEPT ![j].hasRun = TRUE]
  /\ UNCHANGED issued

-----------------------------------------------------------------------------
(* Giving a claim up: back to the queue, to another owner, to the end.     *)

Defer(j, k, t, at) ==
  /\ Owns(j, k, t) /\ ~jobs[j].hasRun
  /\ jobs' = [jobs EXCEPT ![j] = Unclaimed(@, at)]
  /\ UNCHANGED issued

\* Mutant of RequeueExpired: a started job is requeued to run afresh.
RequeueExpiredAfresh(j, t, at) ==
  /\ Expired(j, t)
  /\ jobs' = [jobs EXCEPT ![j] = [Unclaimed(@, at) EXCEPT !.hasRun = FALSE]]
  /\ UNCHANGED issued

RequeueExpired(j, t, at) ==
  /\ Expired(j, t) /\ ~jobs[j].hasRun
  /\ jobs' = [jobs EXCEPT ![j] = Unclaimed(@, at)]
  /\ UNCHANGED issued

RecoverExpired(j, t, r, l) ==
  /\ Expired(j, t) /\ jobs[j].hasRun
  /\ l > r
  /\ jobs' = [jobs EXCEPT ![j] = Claimed(@, NextToken(j), l)]
  /\ issued' = [issued EXCEPT ![j] = @ + 1]

\* finalizeEndpointCollectionJobExecution, terminal disposition.  The result
\* says whether a run occurred, and requireMatchingCurrentJob compares that
\* with the row.
FinalizeTerminal(j, k, t, s) ==
  /\ Owns(j, k, t)
  /\ jobs[j].hasRun <=> s # "skipped"
  /\ jobs' = [jobs EXCEPT ![j] = Terminalized(@, s)]
  /\ UNCHANGED issued

Retryable(j, s) ==
  jobs[j].hasRun /\ jobs[j].attempt < MaxAttempts /\ s \in {"failed", "abandoned"}

\* Mutant of Successor: the trigger is the column's default.
SuccessorScheduled(j, at) ==
  NewRow(jobs[j].endpoint, "scheduled", jobs[j].attempt + 1, j, at)

Successor(j, at) ==
  NewRow(jobs[j].endpoint, jobs[j].trigger, jobs[j].attempt + 1, j, at)

\* Its retry disposition: one transaction ends the job and inserts the
\* successor, which must get the endpoint's slot.
FinalizeRetry(j, k, t, s, at) ==
  /\ Owns(j, k, t) /\ Retryable(j, s)
  /\ \A i \in Outstanding(jobs[j].endpoint) : i = j
  /\ ValidRequest(Successor(j, at))
  /\ \E i \in Jobs :
       /\ jobs[i].status = "absent"
       /\ jobs' = [jobs EXCEPT
            ![j] = Terminalized(@, s),
            ![i] = Successor(j, at)]
  /\ UNCHANGED issued

QueueNext ==
  \/ \E e \in Endpoints, k \in Triggers, at \in Nat : Enqueue(e, k, at)
  \/ \E j \in Jobs, t \in Nat :
       \/ \E l \in Nat : Claim(j, t, l)
       \/ \E at \in Nat : RequeueExpired(j, t, at)
       \/ \E r, l \in Nat : RecoverExpired(j, t, r, l)
       \/ \E k \in Nat :
            \/ \E l \in Nat : Renew(j, k, t, l)
            \/ Attach(j, k, t)
            \/ \E at \in Nat : Defer(j, k, t, at)
            \/ \E s \in TerminalStatus : FinalizeTerminal(j, k, t, s)
            \/ \E s \in TerminalStatus, at \in Nat :
                 FinalizeRetry(j, k, t, s, at)

QueueSpec == QueueInit /\ [][QueueNext]_queueVars

-----------------------------------------------------------------------------
(* What the table guarantees whoever calls it.                             *)

\* The shape validateMappedState demands of every row it reads: claim fields
\* exactly while running, no run while queued, a predecessor exactly from
\* the second attempt on.  A row outside it could never be read again.
RowShape ==
  \A j \in Jobs :
    /\ (jobs[j].token # NoToken) <=> (jobs[j].status = "running")
    /\ (jobs[j].lease # NoLease) <=> (jobs[j].status = "running")
    /\ jobs[j].status \in {"absent", "queued", "skipped"} => ~jobs[j].hasRun
    /\ jobs[j].status \in {"succeeded", "failed", "abandoned"} => jobs[j].hasRun
    /\ (jobs[j].previous = NoJob) <=> (jobs[j].attempt = 1)

\* An endpoint has one outstanding job at most, across every enqueueing
\* scheduler, administrator and retrying finalizer.
OneOutstanding ==
  \A i, j \in Jobs :
    /\ jobs[i].status \in OutstandingStatus
    /\ jobs[j].status \in OutstandingStatus
    /\ jobs[i].endpoint = jobs[j].endpoint
    => i = j

\* A retry follows a job that has ended in failure, continues its endpoint,
\* trigger and attempt count, and is that job's only retry: no race between
\* an owner and a recovery makes two chains out of one.
RetryChain ==
  \A j \in Jobs : jobs[j].previous # NoJob =>
    LET p == jobs[j].previous IN
    /\ jobs[p].status \in {"failed", "abandoned"}
    /\ jobs[p].endpoint = jobs[j].endpoint /\ jobs[p].trigger = jobs[j].trigger
    /\ jobs[j].attempt = jobs[p].attempt + 1
    /\ \A i \in Jobs : jobs[i].previous = p => i = j

\* A token that was replaced or cleared is dead for good: no later state
\* accepts it, whatever its former holder still believes.
DeadTokensStayDead ==
  [][\A j \in Jobs : \A k \in 1..issued[j] :
       ~HoldsToken(j, k) => ~HoldsToken(j, k)']_queueVars

\* No replay: once a run is attached the job never returns to the queue and
\* never loses the run; once terminal its row never changes.
StartedJobsOnlyEnd ==
  [][\A j \in Jobs :
       /\ jobs[j].hasRun => jobs'[j].hasRun /\ jobs'[j].status # "queued"
       /\ Terminal(j) => jobs'[j] = jobs[j]]_queueVars

\* The queue implements the slot: claims, renewals, deferrals and recoveries
\* leave it alone, an attachment begins its attempt.
AttemptOf(j) == [number |-> jobs[j].attempt, started |-> jobs[j].hasRun]

Slot == INSTANCE EndpointSlot WITH
          slot <- [e \in Endpoints |-> {AttemptOf(j) : j \in Outstanding(e)}]

SlotSpec == Slot!SlotSpec

=============================================================================
