------------------------- MODULE WorkerTablesProofs -------------------------
(***************************************************************************)
(* What the two tables the Workers meet in keep, whoever uses them.        *)
(* The job table: for every set of endpoints and job ids, every bound on   *)
(* attempts and every caller, whatever its clock reads.  The runtime       *)
(* columns: for every set of endpoints and runs and every interval, whoever*)
(* ends the runs, and however often, however late and in whatever order    *)
(* they are applied.                                                       *)
(***************************************************************************)
EXTENDS JobQueue, EndpointRuntime, FiniteSetTheorems, TLAPS

-----------------------------------------------------------------------------
(***************************************************************************)
(* The job table.                                                          *)
(***************************************************************************)

(* Rows.                                                                   *)

\* What a statement writes is a row again.
LEMMA NewRowType ==
  ASSUME NEW e \in Endpoints, NEW k \in Triggers, NEW n \in 1..MaxAttempts,
         NEW p \in Jobs \union {NoJob}, NEW at \in Nat
  PROVE  NewRow(e, k, n, p, at) \in JobRow
BY DEF NewRow, JobRow, OutstandingStatus, NoToken, NoLease

LEMMA AbsentRowType == AbsentRow \in JobRow
<1>1. (CHOOSE e \in Endpoints : TRUE) \in Endpoints
  BY EndpointsAssumption
<1>2. 1 \in 1..MaxAttempts
  BY MaxAttemptsAssumption
<1> QED
  BY <1>1, <1>2 DEF AbsentRow, NewRow, JobRow, Triggers, NoToken, NoLease

LEMMA ClaimedType ==
  ASSUME NEW row \in JobRow, NEW k \in Nat, NEW l \in Nat
  PROVE  Claimed(row, k, l) \in JobRow
BY DEF Claimed, JobRow, OutstandingStatus

LEMMA UnclaimedType ==
  ASSUME NEW row \in JobRow, NEW at \in Nat
  PROVE  Unclaimed(row, at) \in JobRow
BY DEF Unclaimed, JobRow, OutstandingStatus, NoToken, NoLease

LEMMA TerminalizedType ==
  ASSUME NEW row \in JobRow, NEW s \in TerminalStatus
  PROVE  Terminalized(row, s) \in JobRow
BY DEF Terminalized, JobRow, NoToken, NoLease

-----------------------------------------------------------------------------
(* Type correctness.                                                       *)

LEMMA QueueInitType == QueueInit => QueueTypeOK
BY AbsentRowType DEF QueueInit, QueueTypeOK

LEMMA QueueStepType == QueueTypeOK /\ [QueueNext]_queueVars => QueueTypeOK'
<1> SUFFICES ASSUME QueueTypeOK, [QueueNext]_queueVars
             PROVE  QueueTypeOK'
  OBVIOUS
<1> USE DEF QueueTypeOK
<1>1. ASSUME NEW e \in Endpoints, NEW k \in Triggers, NEW at \in Nat,
             Enqueue(e, k, at)
      PROVE  QueueTypeOK'
  <2>1. NewRow(e, k, 1, NoJob, at) \in JobRow
    <3>1. 1 \in 1..MaxAttempts
      BY MaxAttemptsAssumption
    <3> QED
      BY <3>1, NewRowType
  <2> QED
    BY <1>1, <2>1 DEF Enqueue
<1>2. ASSUME NEW j \in Jobs, NEW t \in Nat, NEW l \in Nat, Claim(j, t, l)
      PROVE  QueueTypeOK'
  <2>1. Claimed(jobs[j], NextToken(j), l) \in JobRow
    BY ClaimedType DEF NextToken
  <2> QED
    BY <1>2, <2>1 DEF Claim
<1>3. ASSUME NEW j \in Jobs, NEW t \in Nat, NEW at \in Nat,
             RequeueExpired(j, t, at)
      PROVE  QueueTypeOK'
  BY <1>3, UnclaimedType DEF RequeueExpired
<1>4. ASSUME NEW j \in Jobs, NEW t \in Nat, NEW r \in Nat, NEW l \in Nat,
             RecoverExpired(j, t, r, l)
      PROVE  QueueTypeOK'
  <2>1. Claimed(jobs[j], NextToken(j), l) \in JobRow
    BY ClaimedType DEF NextToken
  <2> QED
    BY <1>4, <2>1 DEF RecoverExpired
<1>5. ASSUME NEW j \in Jobs, NEW t \in Nat, NEW k \in Nat,
             NEW l \in Nat, Renew(j, k, t, l)
      PROVE  QueueTypeOK'
  BY <1>5 DEF Renew, JobRow
<1>6. ASSUME NEW j \in Jobs, NEW t \in Nat, NEW k \in Nat,
             Attach(j, k, t)
      PROVE  QueueTypeOK'
  BY <1>6 DEF Attach, JobRow
<1>7. ASSUME NEW j \in Jobs, NEW t \in Nat, NEW k \in Nat,
             NEW at \in Nat, Defer(j, k, t, at)
      PROVE  QueueTypeOK'
  BY <1>7, UnclaimedType DEF Defer
<1>8. ASSUME NEW j \in Jobs, NEW t \in Nat, NEW k \in Nat,
             NEW s \in TerminalStatus, FinalizeTerminal(j, k, t, s)
      PROVE  QueueTypeOK'
  BY <1>8, TerminalizedType DEF FinalizeTerminal
<1>9. ASSUME NEW j \in Jobs, NEW t \in Nat, NEW k \in Nat,
             NEW s \in TerminalStatus, NEW at \in Nat,
             FinalizeRetry(j, k, t, s, at)
      PROVE  QueueTypeOK'
  <2>1. PICK i \in Jobs :
          jobs' = [jobs EXCEPT ![j] = Terminalized(@, s),
                               ![i] = Successor(j, at)]
    BY <1>9 DEF FinalizeRetry
  <2>2. /\ jobs[j].endpoint \in Endpoints /\ jobs[j].trigger \in Triggers
        /\ jobs[j].attempt + 1 \in 1..MaxAttempts
    BY <1>9, MaxAttemptsAssumption DEF FinalizeRetry, Retryable, JobRow
  <2>3. Successor(j, at) \in JobRow
    BY <2>2, NewRowType DEF Successor
  <2>4. Terminalized(jobs[j], s) \in JobRow
    BY TerminalizedType
  <2>5. UNCHANGED issued
    BY <1>9 DEF FinalizeRetry
  <2> QED
    BY <2>1, <2>3, <2>4, <2>5
<1>10. CASE UNCHANGED queueVars
  BY <1>10 DEF queueVars
<1> QED
  BY <1>1, <1>2, <1>3, <1>4, <1>5, <1>6, <1>7, <1>8, <1>9, <1>10 DEF QueueNext

\* Every row of the table is a row of its type, whatever callers do: leases
\* and tokens of the past included.
THEOREM QueueTypeCorrect == QueueSpec => []QueueTypeOK
<1>1. QueueInit => QueueTypeOK
  BY QueueInitType
<1>2. QueueTypeOK /\ [QueueNext]_queueVars => QueueTypeOK'
  BY QueueStepType
<1> QED
  BY <1>1, <1>2, PTL DEF QueueSpec

-----------------------------------------------------------------------------
(* The shape of rows, one outstanding job an endpoint, and retry chains.    *)
(* They are inductive together: that a successor is the only one of its     *)
(* predecessor needs that nobody finalizes a job twice, which is that a     *)
(* predecessor is terminal.                                                 *)

QueueInv == QueueTypeOK /\ RowShape /\ OneOutstanding /\ RetryChain

LEMMA QueueInitInv == QueueInit => QueueInv
<1> SUFFICES ASSUME QueueInit PROVE QueueInv
  OBVIOUS
<1>1. QueueTypeOK
  BY QueueInitType
<1>2. \A j \in Jobs : /\ jobs[j].status = "absent" /\ jobs[j].token = NoToken
                      /\ jobs[j].lease = NoLease /\ ~jobs[j].hasRun
                      /\ jobs[j].previous = NoJob /\ jobs[j].attempt = 1
  BY DEF QueueInit, AbsentRow, NewRow
<1>3. RowShape
  BY <1>2 DEF RowShape
<1>4. OneOutstanding /\ RetryChain
  BY <1>2 DEF OneOutstanding, RetryChain, OutstandingStatus
<1> QED
  BY <1>1, <1>3, <1>4 DEF QueueInv

\* A retry changes two rows: the owner's, which ends in failure, and an
\* absent one, which becomes the queued successor.
LEMMA RetryEffect ==
  ASSUME QueueTypeOK, NEW j \in Jobs, NEW k, NEW t, NEW s, NEW at,
         FinalizeRetry(j, k, t, s, at)
  PROVE  /\ jobs[j].status = "running" /\ jobs[j].hasRun /\ issued' = issued
         /\ \A m \in Outstanding(jobs[j].endpoint) : m = j
         /\ s \in {"failed", "abandoned"}
         /\ \E i \in Jobs : /\ i # j /\ jobs[i].status = "absent"
                           /\ jobs'[j] = Terminalized(jobs[j], s)
                           /\ jobs'[i] = Successor(j, at)
                           /\ \A m \in Jobs \ {i, j} : jobs'[m] = jobs[m]
BY DEF FinalizeRetry, Retryable, Owns, HoldsToken, QueueTypeOK

LEMMA RowShapeStep ==
  ASSUME QueueInv, [QueueNext]_queueVars
  PROVE  RowShape'
<1> USE DEF QueueInv, QueueTypeOK
<1>1. ASSUME NEW e \in Endpoints, NEW k \in Triggers, NEW at \in Nat,
             Enqueue(e, k, at)
      PROVE  RowShape'
  BY <1>1 DEF Enqueue, NewRow, RowShape
<1>2. ASSUME NEW j \in Jobs, NEW t \in Nat, NEW l \in Nat, Claim(j, t, l)
      PROVE  RowShape'
  BY <1>2 DEF Claim, Claimed, NextToken, NoToken, NoLease, RowShape, JobRow
<1>3. ASSUME NEW j \in Jobs, NEW t \in Nat, NEW at \in Nat,
             RequeueExpired(j, t, at)
      PROVE  RowShape'
  BY <1>3 DEF RequeueExpired, Unclaimed, RowShape, JobRow
<1>4. ASSUME NEW j \in Jobs, NEW t \in Nat, NEW r \in Nat, NEW l \in Nat,
             RecoverExpired(j, t, r, l)
      PROVE  RowShape'
  BY <1>4
     DEF RecoverExpired, Expired, Claimed, NextToken, NoToken, NoLease, RowShape, JobRow
<1>5. ASSUME NEW j \in Jobs, NEW t \in Nat, NEW k \in Nat,
             NEW l \in Nat, Renew(j, k, t, l)
      PROVE  RowShape'
  BY <1>5 DEF Renew, Owns, HoldsToken, NoLease, RowShape, JobRow
<1>6. ASSUME NEW j \in Jobs, NEW t \in Nat, NEW k \in Nat,
             Attach(j, k, t)
      PROVE  RowShape'
  BY <1>6 DEF Attach, Owns, HoldsToken, RowShape, JobRow
<1>7. ASSUME NEW j \in Jobs, NEW t \in Nat, NEW k \in Nat,
             NEW at \in Nat, Defer(j, k, t, at)
      PROVE  RowShape'
  BY <1>7 DEF Defer, Unclaimed, RowShape, JobRow
<1>8. ASSUME NEW j \in Jobs, NEW t \in Nat, NEW k \in Nat,
             NEW s \in TerminalStatus, FinalizeTerminal(j, k, t, s)
      PROVE  RowShape'
  BY <1>8 DEF FinalizeTerminal, Terminalized, TerminalStatus, RowShape, JobRow
<1>9. ASSUME NEW j \in Jobs, NEW t \in Nat, NEW k \in Nat,
             NEW s \in TerminalStatus, NEW at \in Nat,
             FinalizeRetry(j, k, t, s, at)
      PROVE  RowShape'
  <2>1. PICK i \in Jobs : /\ i # j /\ jobs'[j] = Terminalized(jobs[j], s)
                          /\ jobs'[i] = Successor(j, at)
                          /\ \A m \in Jobs \ {i, j} : jobs'[m] = jobs[m]
    BY <1>9, RetryEffect
  <2>2. jobs[j].hasRun /\ s \in {"failed", "abandoned"} /\ jobs[j] \in JobRow
    BY <1>9, RetryEffect
  <2>3. /\ jobs'[i].status = "queued" /\ ~jobs'[i].hasRun
        /\ jobs'[i].token = NoToken /\ jobs'[i].lease = NoLease
        /\ jobs'[i].previous # NoJob /\ jobs'[i].attempt # 1
    BY <2>1, <2>2, NoJobAssumption DEF Successor, NewRow, JobRow
  <2>4. /\ jobs'[j].status = s /\ jobs'[j].hasRun
        /\ jobs'[j].token = NoToken /\ jobs'[j].lease = NoLease
        /\ jobs'[j].previous = jobs[j].previous /\ jobs'[j].attempt = jobs[j].attempt
    BY <2>1, <2>2 DEF Terminalized, JobRow
  <2> QED
    BY <2>1, <2>2, <2>3, <2>4 DEF RowShape
<1>10. CASE UNCHANGED queueVars
  BY <1>10 DEF queueVars, RowShape
<1> QED
  BY <1>1, <1>2, <1>3, <1>4, <1>5, <1>6, <1>7, <1>8, <1>9, <1>10 DEF QueueNext

\* A statement that is not an insertion changes one row j, and of that row
\* neither the endpoint, nor the trigger, nor the place in its chain.
KeepsIdentity(j) ==
  /\ jobs'[j].endpoint = jobs[j].endpoint /\ jobs'[j].trigger = jobs[j].trigger
  /\ jobs'[j].attempt = jobs[j].attempt /\ jobs'[j].previous = jobs[j].previous
  /\ \A m \in Jobs \ {j} : jobs'[m] = jobs[m]

Updates(j) ==
  /\ jobs[j].status \in OutstandingStatus
  /\ KeepsIdentity(j)

\* Every step is an update of one outstanding row, an insertion or a retry.
LEMMA QueueStepCases ==
  ASSUME QueueTypeOK, QueueNext
  PROVE  \/ \E j \in Jobs : Updates(j)
         \/ \E e \in Endpoints, k \in Triggers, at \in Nat : Enqueue(e, k, at)
         \/ \E j \in Jobs, t \in Nat, s \in TerminalStatus, at \in Nat :
              \E k \in Nat : FinalizeRetry(j, k, t, s, at)
<1> USE DEF QueueTypeOK, Updates, KeepsIdentity, OutstandingStatus, JobRow
<1>2. ASSUME NEW j \in Jobs, NEW t \in Nat, NEW l \in Nat, Claim(j, t, l)
      PROVE  Updates(j)
  BY <1>2 DEF Claim, Claimed
<1>3. ASSUME NEW j \in Jobs, NEW t \in Nat, NEW at \in Nat,
             RequeueExpired(j, t, at)
      PROVE  Updates(j)
  BY <1>3 DEF RequeueExpired, Expired, Unclaimed
<1>4. ASSUME NEW j \in Jobs, NEW t \in Nat, NEW r \in Nat, NEW l \in Nat,
             RecoverExpired(j, t, r, l)
      PROVE  Updates(j)
  BY <1>4 DEF RecoverExpired, Expired, Claimed
<1>5. ASSUME NEW j \in Jobs, NEW t \in Nat, NEW k \in Nat,
             \/ \E l \in Nat : Renew(j, k, t, l)
             \/ Attach(j, k, t)
             \/ \E at \in Nat : Defer(j, k, t, at)
             \/ \E s \in TerminalStatus : FinalizeTerminal(j, k, t, s)
      PROVE  Updates(j)
  <2> USE DEF Owns, HoldsToken
  <2>1. CASE \E l \in Nat : Renew(j, k, t, l)
    BY <2>1 DEF Renew
  <2>2. CASE Attach(j, k, t)
    BY <2>2 DEF Attach
  <2>3. CASE \E at \in Nat : Defer(j, k, t, at)
    BY <2>3 DEF Defer, Unclaimed
  <2>4. CASE \E s \in TerminalStatus : FinalizeTerminal(j, k, t, s)
    BY <2>4 DEF FinalizeTerminal, Terminalized
  <2> QED
    BY <1>5, <2>1, <2>2, <2>3, <2>4
<1> QED
  BY <1>2, <1>3, <1>4, <1>5 DEF QueueNext

LEMMA OneOutstandingStep ==
  ASSUME QueueInv, [QueueNext]_queueVars
  PROVE  OneOutstanding'
<1> USE DEF QueueInv, OneOutstanding
<1>1. CASE UNCHANGED queueVars
  BY <1>1 DEF queueVars
<1>2. ASSUME NEW j \in Jobs, Updates(j)
      PROVE  OneOutstanding'
  BY <1>2 DEF Updates, KeepsIdentity
<1>3. ASSUME NEW e \in Endpoints, NEW k \in Triggers, NEW at \in Nat,
             Enqueue(e, k, at)
      PROVE  OneOutstanding'
  <2>1. \A m \in Jobs : ~(jobs[m].endpoint = e /\ jobs[m].status \in OutstandingStatus)
    BY <1>3 DEF Enqueue, Outstanding
  <2>2. PICK i \in Jobs : /\ jobs'[i].endpoint = e
                          /\ \A m \in Jobs \ {i} : jobs'[m] = jobs[m]
    BY <1>3 DEF Enqueue, NewRow, QueueTypeOK
  <2> QED
    BY <2>1, <2>2
<1>4. ASSUME NEW j \in Jobs, NEW t \in Nat, NEW s \in TerminalStatus,
             NEW at \in Nat, NEW k \in Nat,
             FinalizeRetry(j, k, t, s, at)
      PROVE  OneOutstanding'
  <2>1. \A m \in Jobs : /\ jobs[m].endpoint = jobs[j].endpoint
                         /\ jobs[m].status \in OutstandingStatus
                         => m = j
    BY <1>4, RetryEffect DEF Outstanding
  <2>2. PICK i \in Jobs : /\ i # j /\ jobs'[j] = Terminalized(jobs[j], s)
                          /\ jobs'[i] = Successor(j, at)
                          /\ \A m \in Jobs \ {i, j} : jobs'[m] = jobs[m]
    BY <1>4, RetryEffect
  <2>3. jobs'[i].endpoint = jobs[j].endpoint
    BY <2>2 DEF Successor, NewRow
  <2>4. jobs'[j].status \notin OutstandingStatus
    <3>1. s \in {"failed", "abandoned"}
      BY <1>4, RetryEffect
    <3> QED
      BY <2>2, <3>1 DEF Terminalized, OutstandingStatus, QueueTypeOK, JobRow
  <2> QED
    BY <2>1, <2>2, <2>3, <2>4
<1> QED
  BY <1>1, <1>2, <1>3, <1>4, QueueStepCases

LEMMA RetryChainStep ==
  ASSUME QueueInv, [QueueNext]_queueVars
  PROVE  RetryChain'
<1> USE DEF QueueInv, RetryChain
<1>1. CASE UNCHANGED queueVars
  BY <1>1 DEF queueVars
<1>2. ASSUME NEW j \in Jobs, Updates(j)
      PROVE  RetryChain'
  <2>1. \A m \in Jobs : jobs[m].previous # j
    BY <1>2, NoJobAssumption DEF Updates, OutstandingStatus
  <2>2. \A m \in Jobs : jobs'[m].previous = jobs[m].previous
    BY <1>2 DEF Updates, KeepsIdentity
  <2>3. \A m \in Jobs : /\ jobs'[m].endpoint = jobs[m].endpoint
                         /\ jobs'[m].trigger = jobs[m].trigger
                         /\ jobs'[m].attempt = jobs[m].attempt
    BY <1>2 DEF Updates, KeepsIdentity
  <2>4. \A m \in Jobs \ {j} : jobs'[m].status = jobs[m].status
    BY <1>2 DEF Updates, KeepsIdentity
  <2>5. \A m \in Jobs : jobs[m].previous \in Jobs \union {NoJob}
    BY DEF QueueTypeOK, JobRow
  <2> QED
    BY <2>1, <2>2, <2>3, <2>4, <2>5
<1>3. ASSUME NEW e \in Endpoints, NEW k \in Triggers, NEW at \in Nat,
             Enqueue(e, k, at)
      PROVE  RetryChain'
  <2>1. PICK i \in Jobs : /\ jobs[i].status = "absent" /\ jobs'[i].previous = NoJob
                          /\ \A m \in Jobs \ {i} : jobs'[m] = jobs[m]
    BY <1>3 DEF Enqueue, NewRow, QueueTypeOK
  <2>2. \A m \in Jobs : jobs[m].previous # i
    BY <2>1, NoJobAssumption
  <2>3. \A m \in Jobs : jobs[m].previous \in Jobs \union {NoJob}
    BY DEF QueueTypeOK, JobRow
  <2> QED
    BY <2>1, <2>2, <2>3, NoJobAssumption
<1>4. ASSUME NEW j \in Jobs, NEW t \in Nat, NEW s \in TerminalStatus,
             NEW at \in Nat, NEW k \in Nat,
             FinalizeRetry(j, k, t, s, at)
      PROVE  RetryChain'
  <2>1. /\ s \in {"failed", "abandoned"} /\ jobs[j].status = "running"
        /\ jobs[j] \in JobRow
    BY <1>4, RetryEffect DEF QueueTypeOK
  <2>2. PICK i \in Jobs : /\ i # j /\ jobs[i].status = "absent"
                          /\ jobs'[j] = Terminalized(jobs[j], s)
                          /\ jobs'[i] = Successor(j, at)
                          /\ \A m \in Jobs \ {i, j} : jobs'[m] = jobs[m]
    BY <1>4, RetryEffect
  <2>3. \A m \in Jobs : jobs[m].previous # i /\ jobs[m].previous # j
    BY <2>1, <2>2, NoJobAssumption
  <2>4. /\ jobs'[i].previous = j
        /\ jobs'[i].endpoint = jobs[j].endpoint /\ jobs'[i].trigger = jobs[j].trigger
        /\ jobs'[i].attempt = jobs[j].attempt + 1
    BY <2>2 DEF Successor, NewRow
  <2>5. /\ jobs'[j].status = s /\ jobs'[j].previous = jobs[j].previous
        /\ jobs'[j].endpoint = jobs[j].endpoint /\ jobs'[j].trigger = jobs[j].trigger
        /\ jobs'[j].attempt = jobs[j].attempt
    BY <2>1, <2>2 DEF Terminalized, JobRow
  <2>6. \A m \in Jobs : jobs[m].previous \in Jobs \union {NoJob}
    BY DEF QueueTypeOK, JobRow
  <2> QED
    BY <2>1, <2>2, <2>3, <2>4, <2>5, <2>6
<1> QED
  BY <1>1, <1>2, <1>3, <1>4, QueueStepCases

LEMMA QueueInvStep ==
  ASSUME QueueInv, [QueueNext]_queueVars
  PROVE  QueueInv'
BY QueueStepType, RowShapeStep, OneOutstandingStep, RetryChainStep DEF QueueInv

LEMMA QueueInvariant == QueueSpec => []QueueInv
<1>1. QueueInit => QueueInv
  BY QueueInitInv
<1>2. QueueInv /\ [QueueNext]_queueVars => QueueInv'
  BY QueueInvStep
<1> QED
  BY <1>1, <1>2, PTL DEF QueueSpec

\* No statement, in any order, ever writes a row that mapRow would refuse.
THEOREM RowsKeepTheirShape == QueueSpec => []RowShape
BY QueueInvariant, PTL DEF QueueInv

\* Schedulers, administrators and retrying finalizers together leave an
\* endpoint one outstanding job at most.
THEOREM OneJobPerEndpoint == QueueSpec => []OneOutstanding
BY QueueInvariant, PTL DEF QueueInv

\* A retry continues exactly one failed job, and is its only continuation.
THEOREM RetriesFormChains == QueueSpec => []RetryChain
BY QueueInvariant, PTL DEF QueueInv

-----------------------------------------------------------------------------
(* What a step may never do.                                                *)

LEMMA StartedJobsOnlyEndStep ==
  ASSUME QueueInv, [QueueNext]_queueVars, NEW m \in Jobs
  PROVE  /\ jobs[m].hasRun => jobs'[m].hasRun /\ jobs'[m].status # "queued"
         /\ Terminal(m) => jobs'[m] = jobs[m]
<1> DEFINE Kept == /\ jobs[m].hasRun => jobs'[m].hasRun /\ jobs'[m].status # "queued"
                   /\ Terminal(m) => jobs'[m] = jobs[m]
<1> USE DEF QueueInv, QueueTypeOK, JobRow, Terminal, TerminalStatus
<1>1. CASE UNCHANGED queueVars
  BY <1>1 DEF queueVars, RowShape
<1>2. ASSUME NEW e \in Endpoints, NEW k \in Triggers, NEW at \in Nat,
             Enqueue(e, k, at)
      PROVE  Kept
  BY <1>2 DEF Enqueue, RowShape
<1>3. ASSUME NEW j \in Jobs, NEW t \in Nat, NEW l \in Nat, Claim(j, t, l)
      PROVE  Kept
  BY <1>3 DEF Claim, RowShape
<1>4. ASSUME NEW j \in Jobs, NEW t \in Nat, NEW at \in Nat,
             RequeueExpired(j, t, at)
      PROVE  Kept
  BY <1>4 DEF RequeueExpired, Expired, RowShape
<1>5. ASSUME NEW j \in Jobs, NEW t \in Nat, NEW r \in Nat, NEW l \in Nat,
             RecoverExpired(j, t, r, l)
      PROVE  Kept
  BY <1>5 DEF RecoverExpired, Expired, Claimed, RowShape
<1>6. ASSUME NEW j \in Jobs, NEW t \in Nat, NEW k \in Nat,
             NEW l \in Nat, Renew(j, k, t, l)
      PROVE  Kept
  BY <1>6 DEF Renew, Owns, HoldsToken, RowShape
<1>7. ASSUME NEW j \in Jobs, NEW t \in Nat, NEW k \in Nat,
             Attach(j, k, t)
      PROVE  Kept
  BY <1>7 DEF Attach, Owns, HoldsToken, RowShape
<1>8. ASSUME NEW j \in Jobs, NEW t \in Nat, NEW k \in Nat,
             NEW at \in Nat, Defer(j, k, t, at)
      PROVE  Kept
  BY <1>8 DEF Defer, Owns, HoldsToken, RowShape
<1>9. ASSUME NEW j \in Jobs, NEW t \in Nat, NEW k \in Nat,
             NEW s \in TerminalStatus, FinalizeTerminal(j, k, t, s)
      PROVE  Kept
  BY <1>9 DEF FinalizeTerminal, Owns, HoldsToken, Terminalized, RowShape
<1>10. ASSUME NEW j \in Jobs, NEW t \in Nat, NEW k \in Nat,
              NEW s \in TerminalStatus, NEW at \in Nat,
              FinalizeRetry(j, k, t, s, at)
       PROVE  Kept
  <2>1. /\ s \in {"failed", "abandoned"} /\ jobs[j].status = "running"
    BY <1>10, RetryEffect
  <2>2. PICK i \in Jobs : /\ i # j /\ jobs[i].status = "absent"
                          /\ jobs'[j] = Terminalized(jobs[j], s)
                          /\ \A n \in Jobs \ {i, j} : jobs'[n] = jobs[n]
    BY <1>10, RetryEffect
  <2>3. /\ jobs'[j].status = s /\ jobs'[j].hasRun = jobs[j].hasRun
    BY <2>2 DEF Terminalized
  <2> QED
    BY <2>1, <2>2, <2>3 DEF RowShape
<1> QED
  BY <1>1, <1>2, <1>3, <1>4, <1>5, <1>6, <1>7, <1>8, <1>9, <1>10 DEF QueueNext

\* A job whose run has started is never run again, and an ended job never
\* changes: recovery, retries and late Workers included.
THEOREM NoReplay == QueueSpec => StartedJobsOnlyEnd
<1>1. QueueInv /\ [QueueNext]_queueVars =>
        [\A j \in Jobs :
           /\ jobs[j].hasRun => jobs'[j].hasRun /\ jobs'[j].status # "queued"
           /\ Terminal(j) => jobs'[j] = jobs[j]]_queueVars
  BY StartedJobsOnlyEndStep
<1> QED
  BY <1>1, QueueInvariant, PTL DEF QueueSpec, StartedJobsOnlyEnd

LEMMA DeadTokensStep ==
  ASSUME QueueInv, [QueueNext]_queueVars, NEW m \in Jobs, NEW n \in 1..issued[m],
         HoldsToken(m, n)'
  PROVE  HoldsToken(m, n)
<1> USE DEF QueueInv, QueueTypeOK, JobRow, HoldsToken
<1>1. CASE UNCHANGED queueVars
  BY <1>1 DEF queueVars
<1>2. ASSUME NEW e \in Endpoints, NEW k \in Triggers, NEW at \in Nat,
             Enqueue(e, k, at)
      PROVE  HoldsToken(m, n)
  BY <1>2 DEF Enqueue, NewRow
<1>3. ASSUME NEW j \in Jobs, NEW t \in Nat, NEW l \in Nat, Claim(j, t, l)
      PROVE  HoldsToken(m, n)
  BY <1>3 DEF Claim, Claimed, NextToken
<1>4. ASSUME NEW j \in Jobs, NEW t \in Nat, NEW at \in Nat,
             RequeueExpired(j, t, at)
      PROVE  HoldsToken(m, n)
  BY <1>4 DEF RequeueExpired, Unclaimed
<1>5. ASSUME NEW j \in Jobs, NEW t \in Nat, NEW r \in Nat, NEW l \in Nat,
             RecoverExpired(j, t, r, l)
      PROVE  HoldsToken(m, n)
  BY <1>5 DEF RecoverExpired, Claimed, NextToken
<1>6. ASSUME NEW j \in Jobs, NEW t \in Nat, NEW k \in Nat,
             NEW l \in Nat, Renew(j, k, t, l)
      PROVE  HoldsToken(m, n)
  BY <1>6 DEF Renew
<1>7. ASSUME NEW j \in Jobs, NEW t \in Nat, NEW k \in Nat,
             Attach(j, k, t)
      PROVE  HoldsToken(m, n)
  BY <1>7 DEF Attach
<1>8. ASSUME NEW j \in Jobs, NEW t \in Nat, NEW k \in Nat,
             NEW at \in Nat, Defer(j, k, t, at)
      PROVE  HoldsToken(m, n)
  BY <1>8 DEF Defer, Unclaimed
<1>9. ASSUME NEW j \in Jobs, NEW t \in Nat, NEW k \in Nat,
             NEW s \in TerminalStatus, FinalizeTerminal(j, k, t, s)
      PROVE  HoldsToken(m, n)
  BY <1>9 DEF FinalizeTerminal, Terminalized, TerminalStatus
<1>10. ASSUME NEW j \in Jobs, NEW t \in Nat, NEW k \in Nat,
              NEW s \in TerminalStatus, NEW at \in Nat,
              FinalizeRetry(j, k, t, s, at)
       PROVE  HoldsToken(m, n)
  <2>1. s \in {"failed", "abandoned"}
    BY <1>10, RetryEffect
  <2>2. PICK i \in Jobs : /\ jobs'[j] = Terminalized(jobs[j], s)
                          /\ jobs'[i] = Successor(j, at)
                          /\ \A l \in Jobs \ {i, j} : jobs'[l] = jobs[l]
    BY <1>10, RetryEffect
  <2>3. jobs'[j].status # "running" /\ jobs'[i].status # "running"
    BY <2>1, <2>2 DEF Terminalized, Successor, NewRow
  <2> QED
    BY <2>2, <2>3
<1> QED
  BY <1>1, <1>2, <1>3, <1>4, <1>5, <1>6, <1>7, <1>8, <1>9, <1>10 DEF QueueNext

\* A claim that was lost is lost for good: no statement gives a token back.
THEOREM LostClaimsStayLost == QueueSpec => DeadTokensStayDead
<1>1. QueueInv /\ [QueueNext]_queueVars =>
        [\A j \in Jobs : \A k \in 1..issued[j] :
           ~HoldsToken(j, k) => ~HoldsToken(j, k)']_queueVars
  BY DeadTokensStep
<1> QED
  BY <1>1, QueueInvariant, PTL DEF QueueSpec, DeadTokensStayDead

-----------------------------------------------------------------------------
(* The queue implements the slot.                                           *)

SlotOf(e) == {AttemptOf(j) : j \in Outstanding(e)}

\* An outstanding job is all there is in its endpoint's slot.
LEMMA SlotHoldsOne ==
  ASSUME QueueInv, NEW j \in Jobs, jobs[j].status \in OutstandingStatus
  PROVE  SlotOf(jobs[j].endpoint) = {AttemptOf(j)}
<1>1. Outstanding(jobs[j].endpoint) = {j}
  BY DEF QueueInv, OneOutstanding, Outstanding
<1> QED
  BY <1>1 DEF SlotOf

\* A step that leaves the outstanding jobs and their attempts alone leaves
\* every slot alone.
LEMMA SlotsUnchanged ==
  ASSUME \A j \in Jobs : /\ jobs'[j].endpoint = jobs[j].endpoint
                         /\ jobs'[j].status \in OutstandingStatus
                              <=> jobs[j].status \in OutstandingStatus
                         /\ jobs'[j].attempt = jobs[j].attempt
                         /\ jobs'[j].hasRun = jobs[j].hasRun
  PROVE  \A e \in Endpoints : SlotOf(e)' = SlotOf(e)
<1> SUFFICES ASSUME NEW e \in Endpoints PROVE SlotOf(e)' = SlotOf(e)
  OBVIOUS
<1>1. Outstanding(e)' = Outstanding(e)
  BY DEF Outstanding
<1>2. \A j \in Jobs : AttemptOf(j)' = AttemptOf(j)
  BY DEF AttemptOf
<1>3. Outstanding(e) \subseteq Jobs
  BY DEF Outstanding
<1> QED
  BY <1>1, <1>2, <1>3 DEF SlotOf

\* A step that changes outstanding job j of endpoint e, and maybe an absent
\* row, leaves the slots of other endpoints alone.
LEMMA OtherSlotsUnchanged ==
  ASSUME NEW e \in Endpoints,
         \A j \in Jobs : /\ jobs'[j] = jobs[j]
                        \/ /\ jobs[j].status = "absent" \/ jobs[j].endpoint = e
                           /\ jobs'[j].endpoint = e
  PROVE  \A f \in Endpoints \ {e} : SlotOf(f)' = SlotOf(f)
<1> SUFFICES ASSUME NEW f \in Endpoints \ {e} PROVE SlotOf(f)' = SlotOf(f)
  OBVIOUS
<1>1. Outstanding(f)' = Outstanding(f)
  BY DEF Outstanding, OutstandingStatus
<1>2. \A j \in Outstanding(f) : AttemptOf(j)' = AttemptOf(j)
  BY DEF AttemptOf, Outstanding, OutstandingStatus
<1> QED
  BY <1>1, <1>2 DEF SlotOf

SlotMap == [e \in Endpoints |-> SlotOf(e)]

\* To change one slot is to step to a map that differs there only.
LEMMA SlotMapStep ==
  ASSUME NEW e \in Endpoints, \A f \in Endpoints \ {e} : SlotOf(f)' = SlotOf(f)
  PROVE  SlotMap' = [SlotMap EXCEPT ![e] = SlotOf(e)']
BY DEF SlotMap

LEMMA EnqueueOpens ==
  ASSUME QueueInv, QueueInv', NEW e \in Endpoints, NEW k \in Triggers,
         NEW at \in Nat, Enqueue(e, k, at)
  PROVE  Slot!Open(e)
<1>1. PICK i \in Jobs : /\ jobs[i].status = "absent"
                        /\ jobs'[i] = NewRow(e, k, 1, NoJob, at)
                        /\ \A m \in Jobs \ {i} : jobs'[m] = jobs[m]
  BY DEF Enqueue, QueueInv, QueueTypeOK
<1>2. \A f \in Endpoints \ {e} : SlotOf(f)' = SlotOf(f)
  <2>1. jobs'[i].endpoint = e
    BY <1>1 DEF NewRow
  <2> QED
    BY <1>1, <2>1, OtherSlotsUnchanged
<1>3. SlotMap[e] = {}
  BY DEF Enqueue, SlotMap, SlotOf
<1>4. SlotOf(e)' = {Slot!Unstarted(1)}
  <2>1. /\ jobs'[i].status \in OutstandingStatus /\ jobs'[i].endpoint = e
        /\ AttemptOf(i)' = Slot!Unstarted(1)
    BY <1>1 DEF NewRow, OutstandingStatus, AttemptOf, Slot!Unstarted
  <2>2. Outstanding(e)' = {i}
    BY <2>1 DEF QueueInv, OneOutstanding, Outstanding
  <2> QED
    BY <2>1, <2>2 DEF SlotOf
<1> QED
  BY <1>2, <1>3, <1>4, SlotMapStep DEF Slot!Open, SlotMap, SlotOf

LEMMA AttachBegins ==
  ASSUME QueueInv, QueueInv', NEW j \in Jobs, NEW k, NEW t, Attach(j, k, t),
         ~jobs[j].hasRun
  PROVE  \E e \in Endpoints, n \in 1..MaxAttempts : Slot!Begin(e, n)
<1>0. PICK e \in Endpoints, n \in 1..MaxAttempts :
        e = jobs[j].endpoint /\ n = jobs[j].attempt
  BY DEF QueueInv, QueueTypeOK, JobRow
<1>1. /\ jobs[j].status = "running" /\ jobs[j] \in JobRow
  BY <1>0 DEF Attach, Owns, HoldsToken, QueueInv, QueueTypeOK, JobRow
<1>2. /\ jobs'[j].status = "running" /\ jobs'[j].endpoint = e
      /\ jobs'[j].attempt = n /\ jobs'[j].hasRun
      /\ \A m \in Jobs \ {j} : jobs'[m] = jobs[m]
  BY <1>0, <1>1 DEF Attach, QueueInv, QueueTypeOK, JobRow
<1>3. \A f \in Endpoints \ {e} : SlotOf(f)' = SlotOf(f)
  BY <1>0, <1>1, <1>2, OtherSlotsUnchanged
<1>4. SlotOf(e) = {Slot!Unstarted(n)}
  <2>1. jobs[j].hasRun = FALSE
    BY <1>1 DEF JobRow
  <2>2. AttemptOf(j) = Slot!Unstarted(n)
    BY <1>0, <2>1 DEF AttemptOf, Slot!Unstarted
  <2> QED
    BY <1>0, <1>1, <2>2, SlotHoldsOne DEF OutstandingStatus
<1>5. SlotOf(e)' = {Slot!Started(n)}
  <2>1. Outstanding(e)' = {j}
    BY <1>0, <1>1, <1>2 DEF QueueInv, OneOutstanding, Outstanding, OutstandingStatus
  <2>2. AttemptOf(j)' = Slot!Started(n)
    <3>1. jobs'[j].hasRun = TRUE
      BY <1>0, <1>1 DEF Attach, QueueInv, QueueTypeOK, JobRow
    <3> QED
      BY <1>2, <3>1 DEF AttemptOf, Slot!Started
  <2> QED
    BY <2>1, <2>2 DEF SlotOf
<1>6. Slot!Begin(e, n)
  BY <1>0, <1>1, <1>3, <1>4, <1>5, SlotMapStep DEF Slot!Begin, SlotMap, SlotOf
<1> QED
  BY <1>0, <1>1, <1>6

LEMMA TerminalCloses ==
  ASSUME QueueInv, QueueInv', NEW j \in Jobs, NEW k, NEW t, NEW s \in TerminalStatus,
         FinalizeTerminal(j, k, t, s)
  PROVE  \E e \in Endpoints : Slot!Close(e)
<1>0. PICK e \in Endpoints : e = jobs[j].endpoint
  BY DEF QueueInv, QueueTypeOK, JobRow
<1>1. /\ jobs[j].status = "running" /\ jobs[j] \in JobRow
  BY <1>0 DEF FinalizeTerminal, Owns, HoldsToken, QueueInv, QueueTypeOK, JobRow
<1>2. /\ jobs'[j].status \notin OutstandingStatus /\ jobs'[j].endpoint = e
      /\ \A m \in Jobs \ {j} : jobs'[m] = jobs[m]
  BY <1>0, <1>1 DEF FinalizeTerminal, Terminalized, TerminalStatus, OutstandingStatus,
              QueueInv, QueueTypeOK, JobRow
<1>3. \A f \in Endpoints \ {e} : SlotOf(f)' = SlotOf(f)
  BY <1>0, <1>1, <1>2, OtherSlotsUnchanged
<1>4. SlotOf(e) # {}
  BY <1>0, <1>1, SlotHoldsOne DEF OutstandingStatus
<1>5. SlotOf(e)' = {}
  BY <1>0, <1>1, <1>2 DEF SlotOf, Outstanding, QueueInv, OneOutstanding, OutstandingStatus
<1>6. Slot!Close(e)
  BY <1>0, <1>1, <1>3, <1>4, <1>5, SlotMapStep DEF Slot!Close, SlotMap, SlotOf
<1> QED
  BY <1>0, <1>1, <1>6

LEMMA RetryReplaces ==
  ASSUME QueueInv, QueueInv', NEW j \in Jobs, NEW k, NEW t, NEW s, NEW at,
         FinalizeRetry(j, k, t, s, at)
  PROVE  \E e \in Endpoints, n \in 1..MaxAttempts : Slot!Retry(e, n)
<1>0. PICK e \in Endpoints, n \in 1..MaxAttempts :
        e = jobs[j].endpoint /\ n = jobs[j].attempt
  BY DEF QueueInv, QueueTypeOK, JobRow
<1>1. /\ jobs[j].status = "running" /\ jobs[j].hasRun = TRUE /\ jobs[j] \in JobRow
      /\ n < MaxAttempts
      /\ s \in {"failed", "abandoned"}
  BY <1>0 DEF FinalizeRetry, Retryable, Owns, HoldsToken, QueueInv, QueueTypeOK, JobRow
<1>2. PICK i \in Jobs : /\ i # j /\ jobs[i].status = "absent"
                        /\ jobs'[j] = Terminalized(jobs[j], s)
                        /\ jobs'[i] = Successor(j, at)
                        /\ \A m \in Jobs \ {i, j} : jobs'[m] = jobs[m]
  BY RetryEffect DEF QueueInv
<1>3. /\ jobs'[i].status \in OutstandingStatus /\ jobs'[i].endpoint = e
      /\ AttemptOf(i)' = Slot!Unstarted(n + 1)
  BY <1>0, <1>2 DEF Successor, NewRow, AttemptOf, Slot!Unstarted, OutstandingStatus
<1>4. jobs'[j].endpoint = e
  BY <1>0, <1>1, <1>2 DEF Terminalized, JobRow
<1>5. \A f \in Endpoints \ {e} : SlotOf(f)' = SlotOf(f)
  BY <1>0, <1>1, <1>2, <1>3, <1>4, OtherSlotsUnchanged
<1>6. SlotOf(e) = {Slot!Started(n)}
  BY <1>0, <1>1, SlotHoldsOne DEF AttemptOf, Slot!Started, OutstandingStatus
<1>7. SlotOf(e)' = {Slot!Unstarted(n + 1)}
  <2>1. Outstanding(e)' = {i}
    BY <1>3 DEF QueueInv, OneOutstanding, Outstanding
  <2> QED
    BY <1>3, <2>1 DEF SlotOf
<1>8. Slot!Retry(e, n)
  BY <1>0, <1>1, <1>5, <1>6, <1>7, SlotMapStep DEF Slot!Retry, SlotMap, SlotOf
<1> QED
  BY <1>0, <1>1, <1>8

\* Claims, renewals, deferrals and recoveries move nothing of the slot.
LEMMA OwnershipStutters ==
  ASSUME QueueInv, NEW j \in Jobs, NEW k, NEW t \in Nat,
         \/ \E l \in Nat : Claim(j, t, l) \/ Renew(j, k, t, l)
         \/ \E at \in Nat : RequeueExpired(j, t, at) \/ Defer(j, k, t, at)
         \/ \E r, l \in Nat : RecoverExpired(j, t, r, l)
         \/ Attach(j, k, t) /\ jobs[j].hasRun
  PROVE  SlotMap' = SlotMap
<1> USE DEF QueueInv, QueueTypeOK, JobRow
<1> DEFINE Kept == \A m \in Jobs :
             /\ jobs'[m].endpoint = jobs[m].endpoint
             /\ jobs'[m].status \in OutstandingStatus
                  <=> jobs[m].status \in OutstandingStatus
             /\ jobs'[m].attempt = jobs[m].attempt
             /\ jobs'[m].hasRun = jobs[m].hasRun
<1>1. ASSUME NEW l \in Nat, Claim(j, t, l) PROVE Kept
  BY <1>1 DEF Claim, Claimed, OutstandingStatus
<1>2. ASSUME NEW l \in Nat, Renew(j, k, t, l) PROVE Kept
  BY <1>2 DEF Renew
<1>3. ASSUME NEW at \in Nat, RequeueExpired(j, t, at) PROVE Kept
  BY <1>3 DEF RequeueExpired, Expired, Unclaimed, OutstandingStatus
<1>4. ASSUME NEW at \in Nat, Defer(j, k, t, at) PROVE Kept
  BY <1>4 DEF Defer, Owns, HoldsToken, Unclaimed, OutstandingStatus
<1>5. ASSUME NEW r \in Nat, NEW l \in Nat, RecoverExpired(j, t, r, l) PROVE Kept
  BY <1>5 DEF RecoverExpired, Expired, Claimed, OutstandingStatus
<1>6. ASSUME Attach(j, k, t), jobs[j].hasRun PROVE Kept
  BY <1>6 DEF Attach
<1>7. Kept
  BY <1>1, <1>2, <1>3, <1>4, <1>5, <1>6
<1>8. \A e \in Endpoints : SlotOf(e)' = SlotOf(e)
  BY <1>7, SlotsUnchanged
<1> QED
  BY <1>8 DEF SlotMap

LEMMA SlotStep ==
  ASSUME QueueInv, QueueInv', [QueueNext]_queueVars
  PROVE  [Slot!SlotNext]_SlotMap
<1>1. CASE UNCHANGED queueVars
  BY <1>1 DEF queueVars, SlotMap, SlotOf, AttemptOf, Outstanding
<1>2. ASSUME NEW e \in Endpoints, NEW k \in Triggers, NEW at \in Nat,
             Enqueue(e, k, at)
      PROVE  Slot!SlotNext
  BY <1>2, EnqueueOpens DEF Slot!SlotNext
<1>3. ASSUME NEW j \in Jobs, NEW t \in Nat,
             \/ \E l \in Nat : Claim(j, t, l)
             \/ \E at \in Nat : RequeueExpired(j, t, at)
             \/ \E r, l \in Nat : RecoverExpired(j, t, r, l)
      PROVE  SlotMap' = SlotMap
  BY <1>3, OwnershipStutters
<1>4. ASSUME NEW j \in Jobs, NEW t \in Nat, NEW k \in Nat,
             \/ \E l \in Nat : Renew(j, k, t, l)
             \/ \E at \in Nat : Defer(j, k, t, at)
      PROVE  SlotMap' = SlotMap
  BY <1>4, OwnershipStutters
<1>5. ASSUME NEW j \in Jobs, NEW t \in Nat, NEW k \in Nat,
             Attach(j, k, t)
      PROVE  Slot!SlotNext \/ SlotMap' = SlotMap
  BY <1>5, OwnershipStutters, AttachBegins DEF Slot!SlotNext
<1>6. ASSUME NEW j \in Jobs, NEW t \in Nat, NEW k \in Nat,
             NEW s \in TerminalStatus, FinalizeTerminal(j, k, t, s)
      PROVE  Slot!SlotNext
  BY <1>6, TerminalCloses DEF Slot!SlotNext
<1>7. ASSUME NEW j \in Jobs, NEW t \in Nat, NEW k \in Nat,
             NEW s \in TerminalStatus, NEW at \in Nat,
             FinalizeRetry(j, k, t, s, at)
      PROVE  Slot!SlotNext
  BY <1>7, RetryReplaces DEF Slot!SlotNext
<1> QED
  BY <1>1, <1>2, <1>3, <1>4, <1>5, <1>6, <1>7 DEF QueueNext

LEMMA SlotInitial == QueueInit => Slot!SlotInit
<1> SUFFICES ASSUME QueueInit PROVE Slot!SlotInit
  OBVIOUS
<1>1. \A j \in Jobs : jobs[j].status = "absent"
  BY DEF QueueInit, AbsentRow, NewRow
<1>2. \A e \in Endpoints : Outstanding(e) = {}
  BY <1>1 DEF Outstanding, OutstandingStatus
<1> QED
  BY <1>2 DEF Slot!SlotInit

\* The queue implements the slot: whatever statements run in whatever order,
\* an endpoint's work goes through one slot, an attempt in it starts once,
\* and retries take turns in it up to the limit.
THEOREM QueueImplementsSlot == QueueSpec => SlotSpec
<1>1. QueueInit => Slot!SlotInit
  BY SlotInitial
<1>2. QueueInv /\ QueueInv' /\ [QueueNext]_queueVars => [Slot!SlotNext]_SlotMap
  BY SlotStep
<1>3. SlotMap = [e \in Endpoints |-> {AttemptOf(j) : j \in Outstanding(e)}]
  BY DEF SlotMap, SlotOf
<1> QED
  BY <1>1, <1>2, <1>3, QueueInvariant, PTL
     DEF QueueSpec, SlotSpec, Slot!SlotSpec, SlotMap, SlotOf

-----------------------------------------------------------------------------
(***************************************************************************)
(* The runtime columns.                                                    *)
(***************************************************************************)

(* The inductive invariant.                                                *)

\* A finished run has an instant of its own in the past and a kind that
\* says how it ended; no other run has either.
DatedRow(r) ==
  IF Finished(r)
  THEN /\ Never < runs[r].finishedAt /\ runs[r].finishedAt < now
       /\ runs[r].kind # "none"
       /\ (runs[r].status = "succeeded") <=> (runs[r].kind \in SuccessKind)
  ELSE runs[r].finishedAt = Never /\ runs[r].kind = "none"

RunsDated ==
  /\ \A r \in Runs : DatedRow(r)
  /\ \A r, h \in Runs :
       Finished(r) /\ Finished(h) /\ runs[r].finishedAt = runs[h].finishedAt => r = h

\* The columns date from before now, the last attempt is the latest of them,
\* and the endpoint is due an interval after it.
ColumnsOrdered ==
  \A e \in Endpoints :
    LET row == runtime[e] IN
    /\ row.lastAttempt < now
    /\ row.lastSuccess <= row.lastAttempt /\ row.lastFailure <= row.lastAttempt
    /\ \/ row.nextDue = row.lastAttempt + PollInterval
       \/ row.lastAttempt = Never /\ row.nextDue = Never

RuntimeInv == /\ RuntimeTypeOK /\ RunsDated /\ ColumnsOrdered
              /\ ValidatorsWereCollected /\ RuntimeFollowsHistory

-----------------------------------------------------------------------------
(* Losing streaks.                                                         *)

\* A losing streak has a length, at least one when it ends in a failure and
\* none when it ends in a success.
LEMMA StreakType ==
  ASSUME NEW rs, NEW r
  PROVE  ConsecutiveFailures(rs, r) \in Nat
<1> DEFINE Streak == {h \in EarlierRuns(rs, r, "failed") :
                        \A s \in EarlierRuns(rs, r, "succeeded") :
                          rs[h].finishedAt > rs[s].finishedAt}
<1>1. Streak \subseteq Runs
  BY DEF EarlierRuns
<1>2. IsFiniteSet(Streak)
  BY <1>1, RunsAssumption, FS_Subset
<1> QED
  BY <1>2, FS_CardinalityType DEF ConsecutiveFailures

LEMMA StreakOfSuccess ==
  ASSUME NEW rs \in [Runs -> RunRow], NEW r \in Runs, rs[r].status = "succeeded"
  PROVE  ConsecutiveFailures(rs, r) = 0
<1> DEFINE Streak == {h \in EarlierRuns(rs, r, "failed") :
                        \A s \in EarlierRuns(rs, r, "succeeded") :
                          rs[h].finishedAt > rs[s].finishedAt}
<1>1. \A h \in Runs : rs[h].finishedAt \in Nat
  BY DEF RunRow
<1>2. r \in EarlierRuns(rs, r, "succeeded")
  BY <1>1 DEF EarlierRuns
<1>3. \A h \in EarlierRuns(rs, r, "failed") :
        h \in Runs /\ rs[h].finishedAt <= rs[r].finishedAt
  BY DEF EarlierRuns
<1>4. Streak = {}
  BY <1>1, <1>2, <1>3
<1> QED
  BY <1>4, FS_EmptySet DEF ConsecutiveFailures

LEMMA StreakOfFailure ==
  ASSUME NEW rs \in [Runs -> RunRow], NEW r \in Runs, rs[r].status = "failed",
         \A s \in Runs : rs[s].status = "succeeded" => rs[s].finishedAt # rs[r].finishedAt
  PROVE  ConsecutiveFailures(rs, r) > 0
<1> DEFINE Streak == {h \in EarlierRuns(rs, r, "failed") :
                        \A s \in EarlierRuns(rs, r, "succeeded") :
                          rs[h].finishedAt > rs[s].finishedAt}
<1>1. \A h \in Runs : rs[h].finishedAt \in Nat
  BY DEF RunRow
<1>2. r \in EarlierRuns(rs, r, "failed")
  BY <1>1 DEF EarlierRuns
<1>3. \A s \in EarlierRuns(rs, r, "succeeded") :
        s \in Runs /\ rs[s].status = "succeeded" /\ rs[s].finishedAt <= rs[r].finishedAt
  BY DEF EarlierRuns
<1>4. \A s \in EarlierRuns(rs, r, "succeeded") :
        rs[r].finishedAt > rs[s].finishedAt
  BY <1>1, <1>3
<1>5. r \in Streak
  BY <1>2, <1>4
<1>6. IsFiniteSet(Streak)
  <2>1. Streak \subseteq Runs
    BY DEF EarlierRuns
  <2> QED
    BY <2>1, RunsAssumption, FS_Subset
<1>7. Cardinality(Streak) \in Nat /\ Cardinality(Streak) # 0
  BY <1>5, <1>6, FS_CardinalityType, FS_EmptySet
<1> QED
  BY <1>7 DEF ConsecutiveFailures

-----------------------------------------------------------------------------
(* What a step does to the run rows: finished ones stay as they are, and    *)
(* one more may have finished now.                                          *)

HistoryKept ==
  /\ \A h \in Runs : Finished(h) => runs'[h] = runs[h]
  /\ \A h \in Runs : Finished(h)' /\ ~Finished(h) => runs'[h].finishedAt = now
  /\ now' >= now

\* Ending a run that is running dates it and leaves the others alone.
LEMMA EndedRow ==
  ASSUME RuntimeTypeOK, NEW r \in Runs, runs[r].status = "running",
         NEW k \in AttemptKind \union {"interrupted"}, NEW tagged \in BOOLEAN
  PROVE  /\ EndedAs(r, k, tagged) \in [Runs -> RunRow]
         /\ EndedAs(r, k, tagged)[r].kind = k /\ EndedAs(r, k, tagged)[r].finishedAt = now
         /\ EndedAs(r, k, tagged)[r].status =
              (IF k \in SuccessKind THEN "succeeded" ELSE "failed")
         /\ EndedAs(r, k, tagged)[r].endpoint = runs[r].endpoint
         /\ \A h \in Runs \ {r} : EndedAs(r, k, tagged)[h] = runs[h]
BY DEF EndedAs, Ended, RuntimeTypeOK, RunRow

\* Of the run rows a step changes one at most: it starts an absent one or
\* ends a running one, which takes an instant.
RowsStay == runs' = runs /\ now' >= now /\ now' \in Nat

RunStarts ==
  \E r \in Runs, e \in Endpoints :
    runs[r].status = "absent" /\ runs' = RunStarted(r, e) /\ now' = now

RunEnds ==
  \E r \in Runs, k \in AttemptKind \union {"interrupted"}, tagged \in BOOLEAN :
    runs[r].status = "running" /\ runs' = EndedAs(r, k, tagged) /\ now' = now + 1

LEMMA RunRowCases ==
  ASSUME RuntimeTypeOK, [RuntimeNext]_runtimeVars
  PROVE  RowsStay \/ RunStarts \/ RunEnds
<1>0. now \in Nat
  BY DEF RuntimeTypeOK
<1>1. ASSUME UNCHANGED runtimeVars PROVE RowsStay
  BY <1>0, <1>1 DEF runtimeVars, RowsStay
<1>2. ASSUME TimePasses PROVE RowsStay
  BY <1>0, <1>2 DEF TimePasses, RowsStay
<1>3. ASSUME NEW r \in Runs, NEW e \in Endpoints, StartRun(r, e) PROVE RunStarts
  BY <1>3 DEF StartRun, RunStarts
<1>4. ASSUME NEW r \in Runs, NEW k \in AttemptKind, NEW tagged \in BOOLEAN,
             FinalizeRun(r, k, tagged)
      PROVE  RunEnds
  BY <1>4 DEF FinalizeRun, RunEnds
<1>5. ASSUME NEW r \in Runs, RecoverRun(r) PROVE RowsStay \/ RunEnds
  <2>1. CASE runs[r].status = "running"
    <3>1. runs' = EndedAs(r, "interrupted", FALSE) /\ now' = now + 1
      BY <1>5, <2>1 DEF RecoverRun, Reconciled
    <3> QED
      BY <2>1, <3>1 DEF RunEnds
  <2>2. CASE runs[r].status # "running"
    BY <1>0, <1>5, <2>2 DEF RecoverRun, Reconciled, RowsStay
  <2> QED
    BY <2>1, <2>2
<1>6. ASSUME NEW r \in Runs, ApplyTerminalRun(r) \/ ApplyCooldown(r) PROVE RowsStay
  BY <1>0, <1>6 DEF ApplyTerminalRun, ApplyCooldown, RowsStay
<1> QED
  BY <1>1, <1>2, <1>3, <1>4, <1>5, <1>6 DEF RuntimeNext

LEMMA HistoryStep ==
  ASSUME RuntimeTypeOK, RunsDated, [RuntimeNext]_runtimeVars
  PROVE  /\ runs' \in [Runs -> RunRow] /\ now' \in Nat \ {0}
         /\ HistoryKept /\ RunsDated'
<1> USE DEF RuntimeTypeOK
<1>0. /\ now \in Nat \ {0}
      /\ \A h \in Runs : runs[h] \in RunRow /\ runs[h].finishedAt \in Nat
  BY DEF RunRow
<1>1. ASSUME runs' = runs, now' >= now, now' \in Nat
      PROVE  runs' \in [Runs -> RunRow] /\ now' \in Nat \ {0} /\ HistoryKept /\ RunsDated'
  <2>1. HistoryKept
    BY <1>1 DEF HistoryKept, Finished
  <2>2. \A h \in Runs : runs[h].finishedAt < now => runs[h].finishedAt < now'
    BY <1>0, <1>1
  <2>3. RunsDated'
    BY <1>1, <2>2 DEF RunsDated, DatedRow, Finished
  <2>4. runs' \in [Runs -> RunRow] /\ now' \in Nat \ {0}
    BY <1>0, <1>1
  <2> QED
    BY <2>1, <2>3, <2>4
<1>2. ASSUME NEW r \in Runs, NEW e \in Endpoints,
             runs[r].status = "absent", runs' = RunStarted(r, e), now' = now
      PROVE  runs' \in [Runs -> RunRow] /\ HistoryKept /\ RunsDated'
  <2>1. /\ runs'[r].status = "running" /\ runs'[r].finishedAt = Never
        /\ runs'[r].kind = "none" /\ runs'[r] \in RunRow
        /\ \A h \in Runs \ {r} : runs'[h] = runs[h]
    <3>1. runs'[r] = [AbsentRun EXCEPT !.status = "running", !.endpoint = e]
      BY <1>2 DEF RunStarted
    <3>2. \A h \in Runs \ {r} : runs'[h] = runs[h]
      BY <1>2 DEF RunStarted
    <3>3. runs'[r] = [status |-> "running", endpoint |-> e, finishedAt |-> Never,
                      kind |-> "none", tagged |-> FALSE]
      BY <3>1 DEF AbsentRun
    <3> QED
      BY <3>2, <3>3 DEF RunRow, Never
  <2>2. runs' \in [Runs -> RunRow]
    BY <1>2, <2>1 DEF RunStarted
  <2>3. HistoryKept
    <3>1. ~Finished(r) /\ ~Finished(r)'
      BY <1>2, <2>1 DEF Finished
    <3>2. \A h \in Runs \ {r} : Finished(h)' <=> Finished(h)
      BY <2>1 DEF Finished
    <3> QED
      BY <1>0, <1>2, <2>1, <3>1, <3>2 DEF HistoryKept
  <2>4. RunsDated'
    BY <1>2, <2>1 DEF RunsDated, DatedRow, Finished
  <2> QED
    BY <2>2, <2>3, <2>4
<1>3. ASSUME NEW r \in Runs, NEW k \in AttemptKind \union {"interrupted"},
             NEW tagged \in BOOLEAN, runs[r].status = "running",
             runs' = EndedAs(r, k, tagged), now' = now + 1
      PROVE  runs' \in [Runs -> RunRow] /\ HistoryKept /\ RunsDated'
  <2>1. runs' \in [Runs -> RunRow] /\ \A h \in Runs \ {r} : runs'[h] = runs[h]
    BY <1>3, EndedRow
  <2>2. /\ runs'[r].kind = k /\ runs'[r].finishedAt = now
        /\ runs'[r].status = (IF k \in SuccessKind THEN "succeeded" ELSE "failed")
    BY <1>3, EndedRow
  <2>3. HistoryKept
    <3>1. ~Finished(r)
      BY <1>3 DEF Finished
    <3>2. \A h \in Runs \ {r} : Finished(h)' <=> Finished(h)
      BY <2>1 DEF Finished
    <3>3. now' >= now
      BY <1>0, <1>3
    <3> QED
      BY <2>1, <2>2, <3>1, <3>2, <3>3 DEF HistoryKept
  <2>4. k # "none"
    BY <1>3 DEF AttemptKind, SuccessKind
  <2>5. \A h \in Runs \ {r} : Finished(h)' => Finished(h) /\ runs[h].finishedAt < now
    BY <2>1 DEF RunsDated, DatedRow, Finished
  <2>6. RunsDated'
    <3>1. ASSUME NEW h \in Runs \ {r} PROVE DatedRow(h)'
      <4>1. DatedRow(h) /\ runs'[h] = runs[h] /\ now' = now + 1
        BY <1>3, <2>1 DEF RunsDated
      <4> QED
        BY <1>0, <4>1 DEF DatedRow, Finished
    <3>2. DatedRow(r)'
      BY <1>0, <1>3, <2>2, <2>4 DEF DatedRow, Finished, Never
    <3>3. \A h \in Runs \ {r} : Finished(h)' => runs'[h].finishedAt # now
      BY <1>0, <2>1, <2>5
    <3>4. \A h, i \in Runs :
            Finished(h)' /\ Finished(i)' /\ runs'[h].finishedAt = runs'[i].finishedAt => h = i
      BY <2>1, <2>2, <2>5, <3>3 DEF RunsDated, Finished
    <3> QED
      BY <3>1, <3>2, <3>4 DEF RunsDated
  <2> QED
    BY <2>1, <2>3, <2>6
<1> QED
  BY <1>0, <1>1, <1>2, <1>3, RunRowCases DEF RowsStay, RunStarts, RunEnds

\* The streak that a finished run ended is history: runs that end later do
\* not change it.
LEMMA StreakKept ==
  ASSUME RuntimeTypeOK, RunsDated, HistoryKept, runs' \in [Runs -> RunRow],
         NEW r \in Runs, Finished(r)
  PROVE  ConsecutiveFailures(runs', r) = ConsecutiveFailures(runs, r)
<1>1. runs'[r] = runs[r] /\ runs[r].finishedAt < now /\ now \in Nat
  BY DEF HistoryKept, RunsDated, DatedRow, RuntimeTypeOK
<1>2. ASSUME NEW s \in {"succeeded", "failed"}
      PROVE  EarlierRuns(runs', r, s) = EarlierRuns(runs, r, s)
  <2>1. ASSUME NEW h \in EarlierRuns(runs', r, s) PROVE Finished(h)
    <3>1. h \in Runs /\ Finished(h)' /\ runs'[h].finishedAt <= runs'[r].finishedAt
      BY <1>2 DEF EarlierRuns, Finished
    <3> QED
      BY <1>1, <3>1 DEF HistoryKept, RuntimeTypeOK, RunRow
  <2>2. \A h \in EarlierRuns(runs, r, s) : Finished(h)
    BY <1>2 DEF EarlierRuns, Finished
  <2> QED
    BY <1>1, <2>1, <2>2 DEF EarlierRuns, HistoryKept
<1>3. \A s \in {"succeeded", "failed"} : \A h \in EarlierRuns(runs, r, s) :
        runs'[h] = runs[h]
  BY DEF EarlierRuns, HistoryKept, Finished
<1>4. {h \in EarlierRuns(runs', r, "failed") :
         \A s \in EarlierRuns(runs', r, "succeeded") :
           runs'[h].finishedAt > runs'[s].finishedAt}
      = {h \in EarlierRuns(runs, r, "failed") :
           \A s \in EarlierRuns(runs, r, "succeeded") :
             runs[h].finishedAt > runs[s].finishedAt}
  BY <1>2, <1>3
<1> QED
  BY <1>4 DEF ConsecutiveFailures

-----------------------------------------------------------------------------
(* What a step does to the columns of an endpoint: nothing but a cooldown,  *)
(* or the application of one finished run that is not older than them.      *)

RowKept(e) ==
  LET row == runtime[e]
      new == runtime'[e] IN
  /\ new.lastAttempt = row.lastAttempt /\ new.lastSuccess = row.lastSuccess
  /\ new.lastFailure = row.lastFailure /\ new.failures = row.failures
  /\ new.nextDue = row.nextDue /\ new.validators = row.validators

RowApplied(e, r) ==
  /\ runs'[r].endpoint = e /\ Finished(r)'
  /\ runtime[e].lastAttempt <= runs'[r].finishedAt
  /\ runtime'[e] = RowAfter(runtime[e], runs', r)

LEMMA AppliedCases ==
  ASSUME RuntimeTypeOK, runs' \in [Runs -> RunRow], NEW r \in Runs,
         runtime' = Applied(runs', r), NEW e \in Endpoints
  PROVE  RowKept(e) \/ RowApplied(e, r)
<1> DEFINE Taken == /\ Finished(r)'
                    /\ runtime[runs'[r].endpoint].lastAttempt <= runs'[r].finishedAt
<1>1. CASE ~Taken
  BY <1>1 DEF Applied, RowKept, Finished
<1>2. CASE Taken /\ e = runs'[r].endpoint
  BY <1>2 DEF Applied, RowApplied, Finished, RuntimeTypeOK
<1>3. CASE Taken /\ e # runs'[r].endpoint
  BY <1>3 DEF Applied, RowKept, Finished, RuntimeTypeOK
<1> QED
  BY <1>1, <1>2, <1>3

\* A cooldown moves one column.
LEMMA CooledRow ==
  ASSUME RuntimeTypeOK, NEW r \in Runs, runtime' = Cooled(r)
  PROVE  /\ runtime' \in [Endpoints -> RuntimeRow]
         /\ \A e \in Endpoints : RowKept(e)
<1>1. CASE ~DeservesCooldown(runs[r].endpoint, runs[r])
  BY <1>1 DEF Cooled, RowKept, RuntimeTypeOK
<1>2. CASE DeservesCooldown(runs[r].endpoint, runs[r])
  <2> DEFINE until == runs[r].finishedAt + LongerOf(PollInterval, MinCooldown)
  <2>1. runs[r].endpoint \in Endpoints /\ until \in Nat
    BY DurationsAssumption DEF RuntimeTypeOK, RunRow, LongerOf
  <2>2. runtime' = [runtime EXCEPT ![runs[r].endpoint].cooldownUntil = until]
    BY <1>2 DEF Cooled
  <2> HIDE DEF until
  <2> QED
    BY <2>1, <2>2 DEF RuntimeTypeOK, RuntimeRow, RowKept
<1> QED
  BY <1>1, <1>2

LEMMA RuntimeMoves ==
  ASSUME [RuntimeNext]_runtimeVars
  PROVE  \/ runtime' = runtime
         \/ \E r \in Runs : runtime' = Applied(runs', r)
         \/ \E r \in Runs : runtime' = Cooled(r)
<1>1. ASSUME NEW r \in Runs, RecoverRun(r) PROVE runtime' = Applied(runs', r)
  BY <1>1 DEF RecoverRun, RecoveredRuntime
<1>2. ASSUME NEW r \in Runs, ApplyTerminalRun(r) PROVE runtime' = Applied(runs', r)
  BY <1>2 DEF ApplyTerminalRun
<1>3. ASSUME NEW r \in Runs, ApplyCooldown(r) PROVE runtime' = Cooled(r)
  BY <1>3 DEF ApplyCooldown
<1> QED
  BY <1>1, <1>2, <1>3 DEF RuntimeNext, TimePasses, StartRun, FinalizeRun, runtimeVars

LEMMA RowCases ==
  ASSUME RuntimeTypeOK, runs' \in [Runs -> RunRow], [RuntimeNext]_runtimeVars,
         NEW e \in Endpoints
  PROVE  RowKept(e) \/ \E r \in Runs : RowApplied(e, r)
<1>1. CASE runtime' = runtime
  BY <1>1 DEF RowKept
<1>2. ASSUME NEW r \in Runs, runtime' = Applied(runs', r)
      PROVE  RowKept(e) \/ RowApplied(e, r)
  BY <1>2, AppliedCases
<1>3. ASSUME NEW r \in Runs, runtime' = Cooled(r) PROVE RowKept(e)
  BY <1>3, CooledRow
<1> QED
  BY <1>1, <1>2, <1>3, RuntimeMoves

-----------------------------------------------------------------------------
(* Type correctness.                                                       *)

LEMMA RowAfterType ==
  ASSUME NEW rs \in [Runs -> RunRow], NEW r \in Runs, NEW row \in RuntimeRow
  PROVE  RowAfter(row, rs, r) \in RuntimeRow
<1>1. rs[r] \in RunRow /\ rs[r].finishedAt \in Nat
  BY DEF RunRow
<1>2. FailuresAfter(row, rs, r) \in Nat
  BY StreakType DEF FailuresAfter
<1>3. NextDue(rs[r]) \in Nat
  BY <1>1, DurationsAssumption DEF NextDue
<1>4. ValidatorsAfter(row, r, rs[r]) \in Runs \union {NoRun}
  BY <1>1 DEF ValidatorsAfter, RuntimeRow
<1>5. row.lastSuccess \in Nat /\ row.lastFailure \in Nat
  BY DEF RuntimeRow
<1> QED
  BY <1>1, <1>2, <1>3, <1>4, <1>5 DEF RowAfter, RuntimeRow, Never

LEMMA RuntimeStepType ==
  ASSUME RuntimeTypeOK, RunsDated, [RuntimeNext]_runtimeVars
  PROVE  RuntimeTypeOK'
<1>1. runs' \in [Runs -> RunRow] /\ now' \in Nat \ {0}
  BY HistoryStep
<1>2. ASSUME NEW r \in Runs, runtime' = Applied(runs', r)
      PROVE  runtime' \in [Endpoints -> RuntimeRow]
  <2>1. runs'[r].endpoint \in Endpoints
    BY <1>1 DEF RunRow
  <2>2. RowAfter(runtime[runs'[r].endpoint], runs', r) \in RuntimeRow
    BY <1>1, <2>1, RowAfterType DEF RuntimeTypeOK
  <2> QED
    BY <1>2, <2>1, <2>2 DEF Applied, RuntimeTypeOK
<1>3. ASSUME NEW r \in Runs, runtime' = Cooled(r)
      PROVE  runtime' \in [Endpoints -> RuntimeRow]
  BY <1>3, CooledRow
<1>4. runtime' \in [Endpoints -> RuntimeRow]
  BY <1>2, <1>3, RuntimeMoves DEF RuntimeTypeOK
<1> QED
  BY <1>1, <1>4 DEF RuntimeTypeOK

-----------------------------------------------------------------------------
(* The invariant.                                                          *)

LEMMA RuntimeInitInv == RuntimeInit => RuntimeInv
<1> SUFFICES ASSUME RuntimeInit PROVE RuntimeInv
  OBVIOUS
<1>0. (CHOOSE e \in Endpoints : TRUE) \in Endpoints
  BY EndpointsAssumption
<1>1. AbsentRun \in RunRow /\ FreshRuntime \in RuntimeRow
  BY <1>0 DEF AbsentRun, RunRow, FreshRuntime, RuntimeRow, Never
<1>2. RuntimeTypeOK
  BY <1>1 DEF RuntimeInit, RuntimeTypeOK
<1>3. /\ \A r \in Runs : ~Finished(r) /\ runs[r].finishedAt = Never
                         /\ runs[r].kind = "none"
      /\ \A e \in Endpoints : runtime[e] = FreshRuntime
      /\ now = 1
  BY DEF RuntimeInit, Finished, AbsentRun
<1>4. RunsDated /\ RuntimeFollowsHistory
  BY <1>3 DEF RunsDated, DatedRow, RuntimeFollowsHistory, LastApplied
<1>5. ColumnsOrdered /\ ValidatorsWereCollected
  BY <1>3 DEF ColumnsOrdered, ValidatorsWereCollected, FreshRuntime, Never
<1> QED
  BY <1>2, <1>4, <1>5 DEF RuntimeInv

\* The facts about a step that the columns' conjuncts share.
LEMMA RuntimeStepFacts ==
  ASSUME RuntimeInv, [RuntimeNext]_runtimeVars
  PROVE  /\ RuntimeTypeOK' /\ RunsDated' /\ HistoryKept
         /\ \A e \in Endpoints : RowKept(e) \/ \E r \in Runs : RowApplied(e, r)
<1>1. /\ runs' \in [Runs -> RunRow] /\ HistoryKept /\ RunsDated'
  BY HistoryStep DEF RuntimeInv
<1>2. RuntimeTypeOK'
  BY RuntimeStepType DEF RuntimeInv
<1>3. \A e \in Endpoints : RowKept(e) \/ \E r \in Runs : RowApplied(e, r)
  BY <1>1, RowCases DEF RuntimeInv
<1> QED
  BY <1>1, <1>2, <1>3

LEMMA AppliedColumns ==
  ASSUME NEW rs, NEW r, NEW row
  PROVE  LET new == RowAfter(row, rs, r) IN
         /\ new.lastAttempt = rs[r].finishedAt
         /\ new.nextDue = rs[r].finishedAt + PollInterval
         /\ new.failures = FailuresAfter(row, rs, r)
         /\ new.validators = ValidatorsAfter(row, r, rs[r])
         /\ rs[r].status = "succeeded" =>
              new.lastSuccess = rs[r].finishedAt /\ new.lastFailure = row.lastFailure
         /\ rs[r].status # "succeeded" =>
              new.lastSuccess = row.lastSuccess /\ new.lastFailure = rs[r].finishedAt
BY DEF RowAfter, NextDue

\* Validators are kept, forgotten, or taken from a run that succeeded.
LEMMA ValidatorsChoice ==
  ASSUME NEW row, NEW r, NEW run
  PROVE  /\ ValidatorsAfter(row, r, run) \in {r, row.validators, NoRun}
         /\ run.status = "failed" => ValidatorsAfter(row, r, run) = row.validators
BY DEF ValidatorsAfter

LEMMA ColumnsOrderedStep ==
  ASSUME RuntimeInv, [RuntimeNext]_runtimeVars
  PROVE  ColumnsOrdered'
<1> SUFFICES ASSUME NEW e \in Endpoints
             PROVE  /\ runtime'[e].lastAttempt < now'
                    /\ runtime'[e].lastSuccess <= runtime'[e].lastAttempt
                    /\ runtime'[e].lastFailure <= runtime'[e].lastAttempt
                    /\ \/ runtime'[e].nextDue = runtime'[e].lastAttempt + PollInterval
                       \/ runtime'[e].lastAttempt = Never /\ runtime'[e].nextDue = Never
  BY DEF ColumnsOrdered
<1>1. /\ RuntimeTypeOK' /\ RunsDated' /\ HistoryKept
      /\ RowKept(e) \/ \E r \in Runs : RowApplied(e, r)
  BY RuntimeStepFacts
<1>2. /\ runtime[e].lastAttempt \in Nat /\ runtime[e].lastSuccess \in Nat
      /\ runtime[e].lastFailure \in Nat /\ now \in Nat /\ now' \in Nat /\ now' >= now
      /\ runtime[e].lastAttempt < now
      /\ runtime[e].lastSuccess <= runtime[e].lastAttempt
      /\ runtime[e].lastFailure <= runtime[e].lastAttempt
  BY <1>1 DEF RuntimeInv, RuntimeTypeOK, RuntimeRow, ColumnsOrdered, HistoryKept
<1>3. CASE RowKept(e)
  BY <1>2, <1>3 DEF RowKept, RuntimeInv, ColumnsOrdered
<1>4. ASSUME NEW r \in Runs, RowApplied(e, r)
      PROVE  /\ runtime'[e].lastAttempt < now'
             /\ runtime'[e].lastSuccess <= runtime'[e].lastAttempt
             /\ runtime'[e].lastFailure <= runtime'[e].lastAttempt
             /\ runtime'[e].nextDue = runtime'[e].lastAttempt + PollInterval
  <2>1. /\ runs'[r].finishedAt \in Nat /\ runs'[r].finishedAt < now'
        /\ runtime[e].lastAttempt <= runs'[r].finishedAt
    BY <1>1, <1>4 DEF RowApplied, RunsDated, DatedRow, RuntimeTypeOK, RunRow
  <2>2. /\ runtime'[e].lastAttempt = runs'[r].finishedAt
        /\ runtime'[e].nextDue = runs'[r].finishedAt + PollInterval
        /\ runtime'[e].lastSuccess \in {runs'[r].finishedAt, runtime[e].lastSuccess}
        /\ runtime'[e].lastFailure \in {runs'[r].finishedAt, runtime[e].lastFailure}
    BY <1>4, AppliedColumns DEF RowApplied
  <2> QED
    BY <1>2, <2>1, <2>2
<1> QED
  BY <1>1, <1>3, <1>4

LEMMA ValidatorsStep ==
  ASSUME RuntimeInv, [RuntimeNext]_runtimeVars
  PROVE  ValidatorsWereCollected'
<1> SUFFICES ASSUME NEW e \in Endpoints, runtime'[e].validators # NoRun
             PROVE  /\ runs'[runtime'[e].validators].status = "succeeded"
                    /\ runs'[runtime'[e].validators].finishedAt <= runtime'[e].lastSuccess
  BY DEF ValidatorsWereCollected
<1>1. /\ RuntimeTypeOK' /\ RunsDated' /\ HistoryKept
      /\ RowKept(e) \/ \E r \in Runs : RowApplied(e, r)
  BY RuntimeStepFacts
<1>2. ASSUME runtime[e].validators # NoRun
      PROVE  /\ runs'[runtime[e].validators].status = "succeeded"
             /\ runs'[runtime[e].validators].finishedAt \in Nat
             /\ runs'[runtime[e].validators].finishedAt <= runtime[e].lastSuccess
  <2>1. runtime[e].validators \in Runs
    BY <1>2 DEF RuntimeInv, RuntimeTypeOK, RuntimeRow
  <2>2. /\ runs[runtime[e].validators].status = "succeeded"
        /\ runs[runtime[e].validators].finishedAt <= runtime[e].lastSuccess
    BY <1>2 DEF RuntimeInv, ValidatorsWereCollected
  <2>3. runs'[runtime[e].validators] = runs[runtime[e].validators]
    BY <1>1, <2>1, <2>2 DEF HistoryKept, Finished
  <2> QED
    BY <1>1, <2>1, <2>2, <2>3 DEF RuntimeTypeOK, RunRow
<1>3. CASE RowKept(e)
  BY <1>2, <1>3 DEF RowKept
<1>4. ASSUME NEW r \in Runs, RowApplied(e, r)
      PROVE  /\ runs'[runtime'[e].validators].status = "succeeded"
             /\ runs'[runtime'[e].validators].finishedAt <= runtime'[e].lastSuccess
  <2>1. /\ runs'[r].finishedAt \in Nat /\ runtime[e].lastAttempt <= runs'[r].finishedAt
        /\ runtime[e].lastAttempt \in Nat /\ runtime[e].lastSuccess \in Nat
        /\ runtime[e].lastSuccess <= runtime[e].lastAttempt
        /\ runs'[r].status \in {"succeeded", "failed"}
    BY <1>1, <1>4 DEF RowApplied, RuntimeTypeOK, RuntimeRow, RunRow, RuntimeInv,
                      ColumnsOrdered, Finished
  <2>2. runtime'[e].validators = ValidatorsAfter(runtime[e], r, runs'[r])
    BY <1>4, AppliedColumns DEF RowApplied
  <2>3. CASE runs'[r].status = "failed"
    <3>1. /\ runtime'[e].validators = runtime[e].validators
          /\ runtime'[e].lastSuccess = runtime[e].lastSuccess
      BY <1>4, <2>2, <2>3, AppliedColumns, ValidatorsChoice DEF RowApplied
    <3> QED
      BY <1>2, <3>1
  <2>4. CASE runs'[r].status = "succeeded"
    <3>1. runtime'[e].lastSuccess = runs'[r].finishedAt
      BY <1>4, <2>4, AppliedColumns DEF RowApplied
    <3>2. runtime'[e].validators \in {r, runtime[e].validators}
      BY <2>2, ValidatorsChoice
    <3>3. CASE runtime'[e].validators = r
      BY <2>1, <2>4, <3>1, <3>3
    <3>4. CASE runtime'[e].validators = runtime[e].validators
      BY <1>2, <2>1, <3>1, <3>4
    <3> QED
      BY <3>2, <3>3, <3>4
  <2> QED
    BY <2>1, <2>3, <2>4
<1> QED
  BY <1>1, <1>3, <1>4

\* The columns of e agree with the history that ends in run r.
ColumnsAgree(e, r) ==
  LET row == runtime[e] IN
  /\ row.failures = ConsecutiveFailures(runs, r)
  /\ (row.failures = 0) <=> (row.lastAttempt = row.lastSuccess)
  /\ (row.failures > 0) <=> (row.lastAttempt = row.lastFailure)
  /\ row.nextDue = row.lastAttempt + PollInterval

\* A run that is the last attempt after the step, and that the step has not
\* applied, was the last attempt before it.
LEMMA LastAttemptWas ==
  ASSUME RuntimeInv, [RuntimeNext]_runtimeVars, NEW e \in Endpoints, NEW r \in Runs,
         runs'[r].endpoint = e, Finished(r)',
         runtime[e].lastAttempt = runs'[r].finishedAt
  PROVE  Finished(r) /\ runs'[r] = runs[r] /\ ColumnsAgree(e, r)
<1>1. HistoryKept /\ now \in Nat /\ runtime[e].lastAttempt < now
      /\ runtime[e].lastAttempt \in Nat
  BY RuntimeStepFacts DEF RuntimeInv, ColumnsOrdered, RuntimeTypeOK, RuntimeRow
<1>2. Finished(r)
  BY <1>1 DEF HistoryKept
<1>3. runs'[r] = runs[r]
  BY <1>1, <1>2 DEF HistoryKept
<1>4. LastApplied(e, r)
  BY <1>2, <1>3 DEF LastApplied
<1> QED
  BY <1>2, <1>3, <1>4 DEF RuntimeInv, RuntimeFollowsHistory, ColumnsAgree

LEMMA FollowsHistoryStep ==
  ASSUME RuntimeInv, [RuntimeNext]_runtimeVars
  PROVE  RuntimeFollowsHistory'
<1> SUFFICES ASSUME NEW e \in Endpoints, NEW r \in Runs, LastApplied(e, r)'
             PROVE  ColumnsAgree(e, r)'
  BY DEF RuntimeFollowsHistory, ColumnsAgree
<1>1. /\ RuntimeTypeOK' /\ RunsDated' /\ HistoryKept
      /\ RowKept(e) \/ \E h \in Runs : RowApplied(e, h)
  BY RuntimeStepFacts
<1>2. /\ runs'[r].endpoint = e /\ Finished(r)'
      /\ runtime'[e].lastAttempt = runs'[r].finishedAt
      /\ runs' \in [Runs -> RunRow] /\ runs'[r].finishedAt \in Nat
  BY <1>1 DEF LastApplied, RuntimeTypeOK, RunRow
<1>3. ASSUME Finished(r)
      PROVE  ConsecutiveFailures(runs', r) = ConsecutiveFailures(runs, r)
  BY <1>1, <1>2, <1>3, StreakKept DEF RuntimeInv
<1>4. CASE RowKept(e)
  <2>1. runtime[e].lastAttempt = runs'[r].finishedAt
    BY <1>2, <1>4 DEF RowKept
  <2>2. Finished(r) /\ ColumnsAgree(e, r)
    BY <1>2, <2>1, LastAttemptWas
  <2>3. ConsecutiveFailures(runs', r) = ConsecutiveFailures(runs, r)
    BY <1>3, <2>2
  <2> QED
    BY <1>4, <2>2, <2>3 DEF RowKept, ColumnsAgree
<1>5. ASSUME NEW h \in Runs, RowApplied(e, h)
      PROVE  ColumnsAgree(e, r)'
  <2>1. h = r
    <3>1. runtime'[e].lastAttempt = runs'[h].finishedAt /\ Finished(h)'
      BY <1>5, AppliedColumns DEF RowApplied
    <3> QED
      BY <1>1, <1>2, <3>1 DEF RunsDated
  <2>2. /\ runtime[e].lastAttempt \in Nat /\ runtime[e].lastSuccess \in Nat
        /\ runtime[e].lastFailure \in Nat
        /\ runtime[e].lastSuccess <= runtime[e].lastAttempt
        /\ runtime[e].lastFailure <= runtime[e].lastAttempt
        /\ runtime[e].lastAttempt <= runs'[r].finishedAt
    BY <1>5, <2>1 DEF RowApplied, RuntimeInv, RuntimeTypeOK, RuntimeRow, ColumnsOrdered
  <2>3. /\ runtime'[e].failures = FailuresAfter(runtime[e], runs', r)
        /\ runtime'[e].nextDue = runtime'[e].lastAttempt + PollInterval
    BY <1>2, <1>5, <2>1, AppliedColumns DEF RowApplied
  <2>4. CASE runs'[r].status = "succeeded"
    <3>1. /\ runtime'[e].lastSuccess = runs'[r].finishedAt
          /\ runtime'[e].lastFailure = runtime[e].lastFailure
      BY <1>5, <2>1, <2>4, AppliedColumns DEF RowApplied
    <3>2. runtime'[e].failures = 0 /\ ConsecutiveFailures(runs', r) = 0
      BY <1>2, <2>3, <2>4, StreakOfSuccess DEF FailuresAfter
    <3>3. runtime[e].lastFailure # runs'[r].finishedAt
      <4> SUFFICES ASSUME runtime[e].lastFailure = runs'[r].finishedAt PROVE FALSE
        OBVIOUS
      <4>1. runtime[e].lastAttempt = runs'[r].finishedAt
        BY <1>2, <2>2
      <4>2. Finished(r) /\ ColumnsAgree(e, r)
        BY <1>2, <4>1, LastAttemptWas
      <4>3. ConsecutiveFailures(runs, r) = 0
        BY <1>3, <3>2, <4>2
      <4> QED
        BY <4>1, <4>2, <4>3 DEF ColumnsAgree
    <3> QED
      BY <1>2, <2>3, <3>1, <3>2, <3>3 DEF ColumnsAgree
  <2>5. CASE runs'[r].status = "failed"
    <3>1. /\ runtime'[e].lastFailure = runs'[r].finishedAt
          /\ runtime'[e].lastSuccess = runtime[e].lastSuccess
      BY <1>5, <2>1, <2>5, AppliedColumns DEF RowApplied
    <3>2. runtime'[e].failures = ConsecutiveFailures(runs', r)
      BY <2>3, <2>5 DEF FailuresAfter
    <3>3. ConsecutiveFailures(runs', r) > 0 /\ ConsecutiveFailures(runs', r) \in Nat
      <4>1. \A s \in Runs : runs'[s].status = "succeeded" =>
              runs'[s].finishedAt # runs'[r].finishedAt
        BY <1>1, <1>2, <2>5 DEF RunsDated, Finished
      <4> QED
        BY <1>2, <2>5, <4>1, StreakOfFailure, StreakType
    <3>4. runtime[e].lastSuccess # runs'[r].finishedAt
      <4> SUFFICES ASSUME runtime[e].lastSuccess = runs'[r].finishedAt PROVE FALSE
        OBVIOUS
      <4>1. runtime[e].lastAttempt = runs'[r].finishedAt
        BY <1>2, <2>2
      <4>2. Finished(r) /\ ColumnsAgree(e, r)
        BY <1>2, <4>1, LastAttemptWas
      <4>3. ConsecutiveFailures(runs, r) = ConsecutiveFailures(runs', r)
        BY <1>3, <4>2
      <4> QED
        BY <3>3, <4>1, <4>2, <4>3 DEF ColumnsAgree
    <3> QED
      BY <1>2, <2>3, <3>1, <3>2, <3>3, <3>4 DEF ColumnsAgree
  <2> QED
    BY <1>2, <2>4, <2>5 DEF Finished
<1> QED
  BY <1>1, <1>4, <1>5

LEMMA RuntimeInvStep ==
  ASSUME RuntimeInv, [RuntimeNext]_runtimeVars
  PROVE  RuntimeInv'
BY RuntimeStepFacts, ColumnsOrderedStep, ValidatorsStep, FollowsHistoryStep DEF RuntimeInv

LEMMA RuntimeInvariant == RuntimeSpec => []RuntimeInv
<1>1. RuntimeInit => RuntimeInv
  BY RuntimeInitInv
<1>2. RuntimeInv /\ [RuntimeNext]_runtimeVars => RuntimeInv'
  BY RuntimeInvStep
<1> QED
  BY <1>1, <1>2, PTL DEF RuntimeSpec

-----------------------------------------------------------------------------
(* What follows.                                                           *)

\* Run rows and runtime columns keep their types: a losing streak has a
\* length, and no column is computed from a row that is not there.
THEOREM RuntimeTypeCorrect == RuntimeSpec => []RuntimeTypeOK
<1>1. RuntimeInv => RuntimeTypeOK
  BY DEF RuntimeInv
<1> QED
  BY <1>1, RuntimeInvariant, PTL

\* The columns tell the history of the last attempt however the runs in it
\* were applied: late, twice or never.
THEOREM ColumnsFollowHistory == RuntimeSpec => []RuntimeFollowsHistory
<1>1. RuntimeInv => RuntimeFollowsHistory
  BY DEF RuntimeInv
<1> QED
  BY <1>1, RuntimeInvariant, PTL

\* Validators are always those of collected content.
THEOREM ValidatorsAreOfContent == RuntimeSpec => []ValidatorsWereCollected
<1>1. RuntimeInv => ValidatorsWereCollected
  BY DEF RuntimeInv
<1> QED
  BY <1>1, RuntimeInvariant, PTL

LEMMA NoStepBackStep ==
  ASSUME RuntimeInv, [RuntimeNext]_runtimeVars, NEW e \in Endpoints
  PROVE  /\ runtime'[e].lastAttempt >= runtime[e].lastAttempt
         /\ runtime'[e].nextDue >= runtime[e].nextDue
<1>1. /\ runtime[e].lastAttempt \in Nat /\ runtime[e].nextDue \in Nat
      /\ \/ runtime[e].nextDue = runtime[e].lastAttempt + PollInterval
         \/ runtime[e].lastAttempt = Never /\ runtime[e].nextDue = Never
  BY DEF RuntimeInv, RuntimeTypeOK, RuntimeRow, ColumnsOrdered
<1>2. CASE RowKept(e)
  BY <1>1, <1>2 DEF RowKept
<1>3. ASSUME NEW r \in Runs, RowApplied(e, r)
      PROVE  /\ runtime'[e].lastAttempt >= runtime[e].lastAttempt
             /\ runtime'[e].nextDue >= runtime[e].nextDue
  <2>1. /\ runtime'[e].lastAttempt = runs'[r].finishedAt
        /\ runtime'[e].nextDue = runs'[r].finishedAt + PollInterval
        /\ runtime[e].lastAttempt <= runs'[r].finishedAt
    BY <1>3, AppliedColumns DEF RowApplied
  <2>2. runs'[r].finishedAt \in Nat
    BY RuntimeStepFacts DEF RuntimeTypeOK, RunRow
  <2> QED
    BY <1>1, <2>1, <2>2, DurationsAssumption DEF Never
<1> QED
  BY <1>2, <1>3, RuntimeStepFacts

\* No late application takes an endpoint back.
THEOREM NoEndpointStepsBack == RuntimeSpec => NoStepBack
<1>1. RuntimeInv /\ [RuntimeNext]_runtimeVars =>
        [\A e \in Endpoints :
           /\ runtime'[e].lastAttempt >= runtime[e].lastAttempt
           /\ runtime'[e].nextDue >= runtime[e].nextDue]_runtimeVars
  BY NoStepBackStep
<1> QED
  BY <1>1, RuntimeInvariant, PTL DEF RuntimeSpec, NoStepBack

=============================================================================
