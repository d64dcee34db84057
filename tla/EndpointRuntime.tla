-------------------------- MODULE EndpointRuntime --------------------------
(***************************************************************************)
(* collection_runs and the runtime columns of source_endpoints that are    *)
(* computed from them: what a finished run does to the endpoint's last     *)
(* attempt, failure count, due time, validators and cooldown.              *)
(*                                                                         *)
(* Runs of one endpoint may finish, and be applied, in any order and any   *)
(* number of times: a Worker applies its run after it has let go of the    *)
(* endpoint's lock, recovery applies an interrupted Worker's run, and      *)
(* either may be late.  No two runs finish at the same instant.            *)
(***************************************************************************)
EXTENDS EndpointCatalog, Integers, FiniteSets

CONSTANTS Runs,              \* collection run ids
          NoRun,
          PollInterval,      \* poll_interval_seconds
          MinCooldown,       \* MINIMUM_COOLDOWN_MILLISECONDS
          CooldownThreshold  \* COOLDOWN_FAILURE_THRESHOLD

ASSUME RunsAssumption == IsFiniteSet(Runs) /\ NoRun \notin Runs
ASSUME DurationsAssumption ==
  /\ PollInterval \in Nat \ {0} /\ MinCooldown \in Nat \ {0}
  /\ CooldownThreshold \in Nat \ {0}

VARIABLES runs,     \* the row of each run id
          runtime,  \* the runtime columns of each endpoint
          now       \* the clock

runtimeVars == <<runs, runtime, now>>

Never == 0   \* NULL in a timestamp column; the clock starts after it

\* How a run ends: what it adds to retry_classification, transport_status
\* and outcome_code.  "interrupted" is outcome worker_interrupted, which
\* recovery writes for a run nobody finished.
SuccessKind == {"content", "not_modified"}
AttemptKind == SuccessKind \union {"transient", "permanent"}

RunRow == [status : {"absent", "running", "succeeded", "failed"},
           endpoint : Endpoints, finishedAt : Nat,
           kind : AttemptKind \union {"none", "interrupted"},
           tagged : BOOLEAN]   \* the response carried validators

RuntimeRow == [lastAttempt : Nat, lastSuccess : Nat, lastFailure : Nat,
               failures : Nat, cooldownUntil : Nat, nextDue : Nat,
               validators : Runs \union {NoRun}]   \* whose validators these are

\* Run rows and runtime columns keep their types (collection_runs, and the
\* columns of source_endpoints that applying a run writes).
RuntimeTypeOK == /\ runs \in [Runs -> RunRow]
                 /\ runtime \in [Endpoints -> RuntimeRow]
                 /\ now \in Nat \ {0}

Finished(r) == runs[r].status \in {"succeeded", "failed"}

AbsentRun == [status |-> "absent", endpoint |-> CHOOSE e \in Endpoints : TRUE,
              finishedAt |-> Never, kind |-> "none", tagged |-> FALSE]

FreshRuntime == [lastAttempt |-> Never, lastSuccess |-> Never,
                 lastFailure |-> Never, failures |-> 0,
                 cooldownUntil |-> Never, nextDue |-> Never,
                 validators |-> NoRun]

RuntimeInit == /\ runs = [r \in Runs |-> AbsentRun]
               /\ runtime = [e \in Endpoints |-> FreshRuntime]
               /\ now = 1

-----------------------------------------------------------------------------
(* The run rows.                                                           *)

RunStarted(r, e) ==
  [runs EXCEPT ![r] = [AbsentRun EXCEPT !.status = "running", !.endpoint = e]]

\* WHERE id = $1 AND run_status = 'running'
Ended(r, s, k, tagged) ==
  [runs EXCEPT ![r] = [@ EXCEPT !.status = s, !.kind = k, !.tagged = tagged,
                                !.finishedAt = now]]

EndedAs(r, k, tagged) ==
  Ended(r, IF k \in SuccessKind THEN "succeeded" ELSE "failed", k, tagged)

StartRun(r, e) ==
  /\ runs[r].status = "absent"
  /\ runs' = RunStarted(r, e)
  /\ UNCHANGED <<runtime, now>>

\* Mutant of FinalizeRun: a run somebody else has ended is ended again.
FinalizeRunAnyway(r, k, tagged) ==
  /\ runs[r].status # "absent"
  /\ runs' = EndedAs(r, k, tagged)
  /\ now' = now + 1
  /\ UNCHANGED runtime

\* finished_at is the statement's own instant.
FinalizeRun(r, k, tagged) ==
  /\ runs[r].status = "running"
  /\ runs' = EndedAs(r, k, tagged)
  /\ now' = now + 1
  /\ UNCHANGED runtime

\* The row a run has after recovery: its own if it had finished.
Reconciled(r) ==
  IF runs[r].status = "running" THEN EndedAs(r, "interrupted", FALSE) ELSE runs

-----------------------------------------------------------------------------
(* The runtime columns.                                                    *)

EarlierRuns(rs, r, s) ==
  {h \in Runs : /\ rs[h].endpoint = rs[r].endpoint /\ rs[h].status = s
                /\ rs[h].finishedAt <= rs[r].finishedAt}

\* Failed runs since the last success, up to and including r.
ConsecutiveFailures(rs, r) ==
  Cardinality({h \in EarlierRuns(rs, r, "failed") :
                 \A s \in EarlierRuns(rs, r, "succeeded") :
                   rs[h].finishedAt > rs[s].finishedAt})

\* Mutant of FailuresAfter: the count is incremented, not recomputed.
FailuresIncremented(row, rs, r) ==
  IF rs[r].status = "succeeded" THEN 0 ELSE row.failures + 1

FailuresAfter(row, rs, r) ==
  IF rs[r].status = "succeeded" THEN 0 ELSE ConsecutiveFailures(rs, r)

\* Mutant of NextDue: the interval is counted back from the run.
NextDueBefore(run) == run.finishedAt - PollInterval

NextDue(run) == run.finishedAt + PollInterval

\* Mutant of ValidatorsAfter: a failed run's validators are kept.
ValidatorsOfAnyRun(row, r, run) ==
  IF run.tagged THEN r
  ELSE IF run.kind = "not_modified" THEN row.validators ELSE NoRun

ValidatorsAfter(row, r, run) ==
  IF run.status = "failed" THEN row.validators
  ELSE IF run.tagged THEN r
  ELSE IF run.kind = "not_modified" THEN row.validators ELSE NoRun

RowAfter(row, rs, r) ==
  LET run == rs[r]
      good == run.status = "succeeded" IN
  [lastAttempt |-> run.finishedAt,
   lastSuccess |-> IF good THEN run.finishedAt ELSE row.lastSuccess,
   lastFailure |-> IF good THEN row.lastFailure ELSE run.finishedAt,
   failures |-> FailuresAfter(row, rs, r),
   cooldownUntil |-> Never,
   nextDue |-> NextDue(run),
   validators |-> ValidatorsAfter(row, r, run)]

\* Mutant of Applied: runs are applied in whatever order they come.
AppliedInAnyOrder(rs, r) ==
  IF rs[r].status \in {"succeeded", "failed"}
  THEN [runtime EXCEPT ![rs[r].endpoint] = RowAfter(@, rs, r)]
  ELSE runtime

\* applyTerminalCollectionRunToEndpointRuntime over run rows rs: nothing for
\* a run that has not finished or is older than the last attempt.
Applied(rs, r) ==
  LET e == rs[r].endpoint IN
  IF /\ rs[r].status \in {"succeeded", "failed"}
     /\ runtime[e].lastAttempt <= rs[r].finishedAt
  THEN [runtime EXCEPT ![e] = RowAfter(@, rs, r)]
  ELSE runtime

\* Mutant of RecoveredRuntime: a run that had finished counts as applied.
RecoveredRuntimeOfInterrupted(r) ==
  IF runs[r].status = "running" THEN Applied(Reconciled(r), r) ELSE runtime

\* Whoever ended the run, recovery applies it.
RecoveredRuntime(r) == Applied(Reconciled(r), r)

\* Recovery ends and applies the run in one transaction.
RecoverRun(r) ==
  /\ runs[r].status # "absent"
  /\ runs' = Reconciled(r)
  /\ now' = IF runs[r].status = "running" THEN now + 1 ELSE now
  /\ runtime' = RecoveredRuntime(r)

ApplyTerminalRun(r) ==
  /\ Finished(r)
  /\ runtime' = Applied(runs, r)
  /\ UNCHANGED <<runs, now>>

LongerOf(a, b) == IF a >= b THEN a ELSE b

DeservesCooldown(e, run) ==
  /\ run.status = "failed" /\ runtime[e].lastAttempt = run.finishedAt
  /\ runtime[e].failures >= CooldownThreshold

\* applyCooldownFromFinalCollectionFailure: only while the failed run is the
\* endpoint's last attempt and enough runs have failed in a row.
Cooled(r) ==
  LET e == runs[r].endpoint IN
  IF DeservesCooldown(e, runs[r])
  THEN [runtime EXCEPT ![e].cooldownUntil =
          runs[r].finishedAt + LongerOf(PollInterval, MinCooldown)]
  ELSE runtime

ApplyCooldown(r) ==
  /\ runs[r].status = "failed"
  /\ runtime' = Cooled(r)
  /\ UNCHANGED <<runs, now>>

TimePasses == now' = now + 1 /\ UNCHANGED <<runs, runtime>>

RuntimeNext ==
  \/ TimePasses
  \/ \E r \in Runs :
       \/ \E e \in Endpoints : StartRun(r, e)
       \/ \E k \in AttemptKind, tagged \in BOOLEAN : FinalizeRun(r, k, tagged)
       \/ RecoverRun(r)
       \/ ApplyTerminalRun(r)
       \/ ApplyCooldown(r)

RuntimeSpec == RuntimeInit /\ [][RuntimeNext]_runtimeVars

-----------------------------------------------------------------------------
(* What the columns mean, whatever order runs were applied in.             *)

LastApplied(e, r) ==
  runs[r].endpoint = e /\ Finished(r) /\ runtime[e].lastAttempt = runs[r].finishedAt

\* The columns of an endpoint that has been attempted agree with one another
\* and with the history of its runs: the failure count is the length of the
\* losing streak that ends at the last attempt, also when runs in it were
\* applied late, twice or never.
RuntimeFollowsHistory ==
  \A e \in Endpoints, r \in Runs : LastApplied(e, r) =>
    LET row == runtime[e] IN
    /\ row.failures = ConsecutiveFailures(runs, r)
    /\ (row.failures = 0) <=> (row.lastAttempt = row.lastSuccess)
    /\ (row.failures > 0) <=> (row.lastAttempt = row.lastFailure)
    /\ row.nextDue = row.lastAttempt + PollInterval

\* The validators sent with the next request come from a run whose content
\* was collected: a failed run's validators would make the publisher answer
\* 304 for items nobody has stored.
ValidatorsWereCollected ==
  \A e \in Endpoints : runtime[e].validators # NoRun =>
    /\ runs[runtime[e].validators].status = "succeeded"
    /\ runs[runtime[e].validators].finishedAt <= runtime[e].lastSuccess

\* A late application of an older run does not take the endpoint back.
NoStepBack ==
  [][\A e \in Endpoints :
       /\ runtime'[e].lastAttempt >= runtime[e].lastAttempt
       /\ runtime'[e].nextDue >= runtime[e].nextDue]_runtimeVars

=============================================================================
