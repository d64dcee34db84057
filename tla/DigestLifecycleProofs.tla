------------------------ MODULE DigestLifecycleProofs ------------------------
(***************************************************************************)
(* Theorems about DigestLifecycle, for any number of evaluations and       *)
(* attempts, any timeout and margin, with stalls and failures as they      *)
(* please.                                                                 *)
(***************************************************************************)
EXTENDS DigestHistories, TLAPS

\* An evaluation that is past its claim has an attempt; so does one that is
\* about to recover one.
PastClaim == {"recover", "snapshot", "settings", "active", "suppress",
              "provider", "activate", "finish"}

EvalsOK ==
  /\ evals \in [Evaluators -> Eval]
  /\ \A e \in Evaluators : evals[e].at \in PastClaim => evals[e].attempt \in Attempts

ShapeOK == DigestTypeOK /\ EvalsOK

DigestInv == /\ ShapeOK
             /\ OneRunningAttempt
             /\ OneAttemptPerSlot
             /\ ActiveDigestSucceeded

\* Dividing a clock reading into slots leaves it within the clock's range.
LEMMA SlotsAreTimes ==
  ASSUME NEW t \in Times
  PROVE  SlotOf(t) \in Times
<1>1. SlotLength \in Nat \ {0} /\ MaxTime \in Nat BY ClockAssumption
<1>2. t \in Nat /\ t <= MaxTime BY <1>1 DEF Times
<1> DEFINE q == t \div SlotLength
<1>3. q \in Int /\ q >= 0 /\ q <= t
  BY <1>1, <1>2, SMTT(30)
<1> QED BY <1>1, <1>2, <1>3 DEF Times, SlotOf

LEMMA IdleIsEval == Idle \in Eval
<1>1. NoDigest.style \in Styles BY StylesAssumption DEF NoDigest
<1>2. 0 \in Times BY ClockAssumption DEF Times
<1>3. Idle.profile \in Profile BY DEF Idle, Profile
<1> QED BY <1>1, <1>2, <1>3
        DEF Idle, Eval, Stages, Purposes, CompletionOutcomes, Outcomes

\* An evaluation whose locals are well formed keeps all of them so.
LEMMA LocalsOK ==
  ASSUME EvalsOK, NEW e \in Evaluators, NEW r \in Eval, Becomes(e, r),
         r.at \in PastClaim => r.attempt \in Attempts
  PROVE  EvalsOK'
BY DEF EvalsOK, Becomes

\* The moves that most steps share.
LEMMA Moves ==
  ASSUME EvalsOK, now \in Times, NEW e \in Evaluators
  PROVE  /\ \A stage \in Stages :
              Goto(e, stage) /\ (evals[e].at \in PastClaim \/ stage \notin PastClaim)
                => EvalsOK'
         /\ Return(e) => EvalsOK'
         /\ \A o \in CompletionOutcomes, s \in BOOLEAN :
              Conclude(e, o, s) /\ evals[e].at \in PastClaim => EvalsOK'
         /\ CallProvider(e) /\ evals[e].at \in PastClaim => EvalsOK'
<1>0. /\ Idle.at \notin PastClaim
      /\ Idle.profile \in Profile
      /\ {"finish", "provider"} \subseteq Stages
      /\ evals[e] \in Eval
      /\ evals[e].at \in PastClaim => evals[e].attempt \in Attempts
  BY IdleIsEval DEF EvalsOK, Eval, Idle, Stages, PastClaim
<1>1. ASSUME NEW stage \in Stages, Goto(e, stage),
             evals[e].at \in PastClaim \/ stage \notin PastClaim
      PROVE  EvalsOK'
  <2> DEFINE r == [evals[e] EXCEPT !.at = stage]
  <2>1. r \in Eval /\ r.at = stage /\ r.attempt = evals[e].attempt
    BY <1>0 DEF Eval
  <2> QED BY <1>0, <1>1, <2>1, LocalsOK DEF Goto
<1>2. ASSUME Return(e) PROVE EvalsOK'
  BY <1>0, <1>2, IdleIsEval, LocalsOK DEF Return
<1>3. ASSUME NEW o \in CompletionOutcomes, NEW s \in BOOLEAN, Conclude(e, o, s),
             evals[e].at \in PastClaim
      PROVE  EvalsOK'
  <2> DEFINE r == [Idle EXCEPT !.at = "finish", !.attempt = evals[e].attempt,
                               !.outcome = o, !.suppress = s]
  <2>1. r \in Eval /\ r.attempt = evals[e].attempt
    BY <1>0, IdleIsEval DEF Eval
  <2> QED BY <1>0, <1>3, <2>1, LocalsOK DEF Conclude
<1>4. ASSUME CallProvider(e), evals[e].at \in PastClaim PROVE EvalsOK'
  <2> DEFINE r == [evals[e] EXCEPT !.at = "provider", !.calledAt = now,
                                   !.profile = Idle.profile]
  <2>1. r \in Eval /\ r.attempt = evals[e].attempt
    BY <1>0 DEF Eval
  <2> QED BY <1>0, <1>4, <2>1, LocalsOK DEF CallProvider
<1> QED BY <1>1, <1>2, <1>3, <1>4

LEMMA ClaimingKeepsShape ==
  ASSUME ShapeOK, NEW e \in Evaluators, NEW as \in [Attempts -> Attempt],
         ClaimOver(e, as)
  PROVE  attempts' \in [Attempts -> Attempt] /\ EvalsOK'
<1> USE DEF ShapeOK, DigestTypeOK
<1> DEFINE r(a) == [evals[e] EXCEPT !.at = "snapshot", !.attempt = a,
                                    !.startedAt = 0]
<1>1. ASSUME NEW a \in Attempts, attempts' = [as EXCEPT ![a] = NewAttempt(e)],
             Becomes(e, r(a))
      PROVE  attempts' \in [Attempts -> Attempt] /\ EvalsOK'
  <2>1. evals[e] \in Eval BY DEF EvalsOK
  <2>2. NewAttempt(e) \in Attempt BY <2>1 DEF NewAttempt, Attempt, Eval
  <2>3. 0 \in Times /\ "snapshot" \in Stages
    BY ClockAssumption DEF Times, Stages
  <2>4. r(a) \in Eval /\ r(a).attempt = a
    BY <2>1, <2>3 DEF Eval
  <2> QED BY <1>1, <2>2, <2>4, LocalsOK
<1>2. CASE attempts' = as /\ Return(e)
  BY <1>2, Moves
<1> QED BY <1>1, <1>2 DEF ClaimOver

\* Claiming and recovering.
LEMMA ClaimStepsKeepShape ==
  ASSUME ShapeOK, NEW e \in Evaluators,
         \/ List(e) \/ EvaluateScheduled(e) \/ ForceGenerate(e)
         \/ FindRunning(e) \/ Claim(e) \/ RecoverAndClaim(e)
  PROVE  /\ EvalsOK'
         /\ attempts' \in [Attempts -> Attempt]
         /\ UNCHANGED <<world, active>>
<1> USE DEF ShapeOK, DigestTypeOK
<1>0. evals[e] \in Eval /\ now \in Times BY DEF EvalsOK
<1>1. CASE List(e)
  <2> DEFINE r == [evals[e] EXCEPT !.at = "listed", !.slot = SlotOf(now)]
  <2>1. SlotOf(now) \in Times BY <1>0, SlotsAreTimes
  <2>2. r \in Eval /\ r.at = "listed"
    BY <1>0, <2>1 DEF Eval, Stages
  <2> QED BY <1>1, <2>2, LocalsOK DEF List, tables, PastClaim
<1>2. CASE EvaluateScheduled(e) \/ ForceGenerate(e)
  <2> DEFINE r == [evals[e] EXCEPT !.at = "find", !.startedAt = now]
  <2>1. r \in Eval /\ r.at = "find" BY <1>0 DEF Eval, Stages
  <2> QED BY <1>2, <2>1, LocalsOK
          DEF EvaluateScheduled, ForceGenerate, tables, PastClaim
<1>3. CASE FindRunning(e)
  <2>1. ASSUME Goto(e, "claim") PROVE EvalsOK'
    BY <1>0, <2>1, Moves DEF Stages, PastClaim
  <2>2. ASSUME NEW a \in Attempts,
               Becomes(e, [evals[e] EXCEPT !.at = "recover", !.attempt = a])
        PROVE  EvalsOK'
    <3> DEFINE r == [evals[e] EXCEPT !.at = "recover", !.attempt = a]
    <3>1. r \in Eval /\ r.attempt = a BY <1>0 DEF Eval, Stages
    <3> QED BY <2>2, <3>1, LocalsOK
  <2>3. ASSUME Return(e) PROVE EvalsOK'
    BY <1>0, <2>3, Moves
  <2> QED BY <1>3, <2>1, <2>2, <2>3 DEF FindRunning, Running, tables
<1>4. CASE Claim(e)
  BY <1>4, ClaimingKeepsShape DEF Claim
<1>5. CASE RecoverAndClaim(e)
  <2> DEFINE as == [attempts EXCEPT ![evals[e].attempt].state = "abandoned"]
  <2>1. as \in [Attempts -> Attempt] BY DEF Attempt, Outcomes
  <2>2. ASSUME ClaimOver(e, as)
        PROVE  EvalsOK' /\ attempts' \in [Attempts -> Attempt]
    <3> HIDE DEF as
    <3> QED BY <2>1, <2>2, ClaimingKeepsShape
  <2>3. ASSUME Return(e) PROVE EvalsOK'
    BY <1>0, <2>3, Moves
  <2> QED BY <1>5, <2>2, <2>3 DEF RecoverAndClaim
<1> QED BY <1>1, <1>2, <1>3, <1>4, <1>5

\* Reading and judging: no table changes.
LEMMA ReadsKeepShape ==
  ASSUME ShapeOK, NEW e \in Evaluators,
         ReadSnapshot(e) \/ ReadSettings(e) \/ ReadActive(e)
  PROVE  EvalsOK'
<1> USE DEF ShapeOK, DigestTypeOK
<1>0. /\ evals[e] \in Eval /\ now \in Times
      /\ evals[e].at \in PastClaim => evals[e].attempt \in Attempts
      /\ \A o \in {"skipped_no_input", "skipped_disabled", "failed",
                   "skipped_unchanged"} : o \in CompletionOutcomes
  BY DEF EvalsOK, CompletionOutcomes, Outcomes
<1>1. ASSUME NEW o \in CompletionOutcomes, NEW b \in BOOLEAN, Conclude(e, o, b),
             evals[e].at \in PastClaim
      PROVE  EvalsOK'
  BY <1>0, <1>1, Moves
<1>2. CASE ReadSnapshot(e)
  <2> DEFINE r == [evals[e] EXCEPT !.at = "settings", !.profile = profile]
  <2>0. evals[e].at \in PastClaim BY <1>2 DEF ReadSnapshot, PastClaim
  <2>1. r \in Eval /\ r.attempt = evals[e].attempt BY <1>0 DEF Eval, Stages
  <2>2. CASE Becomes(e, r) BY <1>0, <2>0, <2>1, <2>2, LocalsOK
  <2> DEFINE o == IF evals[e].purpose = "input" THEN "skipped_no_input"
                                                ELSE "failed"
  <2>3. CASE Conclude(e, o, TRUE)
    <3>1. o \in CompletionOutcomes BY <1>0
    <3> HIDE DEF o
    <3> QED BY <1>1, <2>0, <2>3, <3>1
  <2> QED BY <1>2, <2>2, <2>3 DEF ReadSnapshot
<1>3. CASE ReadSettings(e)
  <2>0. evals[e].at \in PastClaim BY <1>3 DEF ReadSettings, PastClaim
  <2>b. Bounded(e) \subseteq Articles BY <1>0 DEF Bounded, Eval, Profile
  <2>1. CASE InputRead(e)
    <3> DEFINE r == [evals[e] EXCEPT !.at = "active", !.style = settings.style,
                                     !.inputs = Bounded(e)]
    <3>1. settings.style \in Styles BY DEF Settings
    <3>2. r \in Eval /\ r.attempt = evals[e].attempt
      BY <1>0, <2>b, <3>1 DEF Eval, Stages
    <3>3. CASE Becomes(e, r) BY <1>0, <2>0, <3>2, <3>3, LocalsOK
    <3>4. CASE Conclude(e, "skipped_disabled", TRUE) BY <1>0, <1>1, <2>0, <3>4
    <3>5. CASE Conclude(e, "skipped_no_input", TRUE) BY <1>0, <1>1, <2>0, <3>5
    <3> QED BY <2>1, <3>3, <3>4, <3>5 DEF InputRead
  <2>2. CASE FailureJudged(e)
    <3> DEFINE r == [evals[e] EXCEPT !.at = "active", !.inputs = Bounded(e)]
    <3>1. r \in Eval /\ r.attempt = evals[e].attempt
      BY <1>0, <2>b DEF Eval, Stages
    <3>2. CASE Becomes(e, r) BY <1>0, <2>0, <3>1, <3>2, LocalsOK
    <3>3. CASE Conclude(e, "failed", TRUE) BY <1>0, <1>1, <2>0, <3>3
    <3> QED BY <2>2, <3>2, <3>3 DEF FailureJudged
  <2>3. CASE CandidateJudged(e)
    <3>1. CASE Conclude(e, "failed", TRUE) BY <1>0, <1>1, <2>0, <3>1
    <3>2. CASE Conclude(e, "failed", evals[e].suppressed)
      <4>1. evals[e].suppressed \in BOOLEAN BY <1>0 DEF Eval
      <4> QED BY <1>0, <1>1, <2>0, <3>2, <4>1
    <3>3. CASE Goto(e, "activate") BY <1>0, <2>0, <3>3, Moves DEF Stages
    <3> QED BY <2>3, <3>1, <3>2, <3>3 DEF CandidateJudged
  <2>4. evals[e].purpose \in Purposes BY <1>0 DEF Eval
  <2> QED BY <1>3, <2>1, <2>2, <2>3, <2>4 DEF ReadSettings, Purposes
<1>4. CASE ReadActive(e)
  <2>0. evals[e].at \in PastClaim BY <1>4 DEF ReadActive, PastClaim
  <2>1. CASE Conclude(e, "failed", active # NoDigest /\ ~Fits(e))
    <3> DEFINE b == active # NoDigest /\ ~Fits(e)
    <3>1. b \in BOOLEAN OBVIOUS
    <3>2. Conclude(e, "failed", b) BY <2>1
    <3> HIDE DEF b
    <3> QED BY <1>0, <1>1, <2>0, <3>1, <3>2
  <2>2. CASE CallProvider(e) BY <1>0, <2>0, <2>2, Moves
  <2> DEFINE r == [evals[e] EXCEPT !.at = "suppress", !.suppressed = TRUE]
  <2>3. CASE Becomes(e, r)
    <3>1. r \in Eval /\ r.attempt = evals[e].attempt BY <1>0 DEF Eval, Stages
    <3> QED BY <1>0, <2>0, <2>3, <3>1, LocalsOK
  <2>4. CASE Conclude(e, "skipped_unchanged", FALSE) BY <1>0, <1>1, <2>0, <2>4
  <2> QED BY <1>4, <2>1, <2>2, <2>3, <2>4 DEF ReadActive
<1> QED BY <1>2, <1>3, <1>4

\* The provider's answer and what ends an attempt.
LEMMA EndingsKeepShape ==
  ASSUME ShapeOK, NEW e \in Evaluators,
         \/ Suppress(e) \/ ProviderAnswers(e) \/ ProviderFails(e)
         \/ Activate(e) \/ Finish(e)
  PROVE  /\ EvalsOK'
         /\ attempts' \in [Attempts -> Attempt]
         /\ active' \in Digest \union {NoDigest}
<1> USE DEF ShapeOK, DigestTypeOK
<1>0. /\ evals[e] \in Eval /\ now \in Times /\ 0 \in Times
      /\ "failed" \in CompletionOutcomes /\ "success" \in CompletionOutcomes
      /\ Idle.style \in Styles
  BY ClockAssumption, IdleIsEval DEF EvalsOK, CompletionOutcomes, Outcomes, Times, Eval
<1>1. evals[e].at \in PastClaim /\ evals[e].attempt \in Attempts
  BY DEF Suppress, ProviderAnswers, ProviderFails, Activate, Finish, PastClaim,
         EvalsOK
<1>2. evals[e].suppressed \in BOOLEAN /\ evals[e].outcome \in CompletionOutcomes
  BY <1>0 DEF Eval
<1>3. ASSUME NEW b \in BOOLEAN, Conclude(e, "failed", b) PROVE EvalsOK'
  BY <1>0, <1>1, <1>3, Moves
<1>4. ASSUME Return(e) PROVE EvalsOK'
  BY <1>0, <1>4, Moves
<1>5. ASSUME NEW o \in CompletionOutcomes, Completed(e, o)
      PROVE  attempts' \in [Attempts -> Attempt]
  BY <1>1, <1>5 DEF Completed, Attempt, CompletionOutcomes
<1>6. CASE Suppress(e)
  BY <1>0, <1>1, <1>6, Moves DEF Suppress
<1>7. CASE ProviderAnswers(e)
  <2> DEFINE r == [evals[e] EXCEPT !.at = "snapshot", !.purpose = "candidate",
                                   !.calledAt = 0]
  <2>1. r \in Eval /\ r.attempt = evals[e].attempt
    BY <1>0 DEF Eval, Stages, Purposes
  <2> QED BY <1>1, <1>7, <2>1, LocalsOK DEF ProviderAnswers, tables
<1>8. CASE ProviderFails(e)
  <2> DEFINE r == [evals[e] EXCEPT !.at = "snapshot", !.inputs = {},
                                   !.purpose = "afterFailure",
                                   !.style = Idle.style, !.calledAt = 0]
  <2>1. r \in Eval /\ r.attempt = evals[e].attempt
    BY <1>0 DEF Eval, Stages, Purposes
  <2>2. ASSUME Becomes(e, r) PROVE EvalsOK'
    BY <1>1, <2>1, <2>2, LocalsOK
  <2> QED BY <1>3, <1>8, <2>2 DEF ProviderFails, tables
<1>9. CASE Activate(e)
  <2>1. Draft(e) \in Digest
    BY <1>0, <1>1 DEF Draft, Eval, Digest
  <2> QED BY <1>0, <1>2, <1>3, <1>4, <1>5, <1>9, <2>1 DEF Activate, tables
<1>10. CASE Finish(e)
  BY <1>2, <1>4, <1>5, <1>10 DEF Finish, tables
<1> QED BY <1>6, <1>7, <1>8, <1>9, <1>10

\* What fails changes no table.
LEMMA FailuresKeepShape ==
  ASSUME ShapeOK, NEW e \in Evaluators,
         StatementFails(e) \/ ActiveUnreadable(e) \/ Crash(e)
  PROVE  EvalsOK' /\ UNCHANGED <<world, tables>>
<1> USE DEF ShapeOK, DigestTypeOK
<1>0. /\ evals[e] \in Eval /\ "failed" \in CompletionOutcomes /\ "suppress" \in Stages
      /\ evals[e].suppressed \in BOOLEAN
  BY DEF EvalsOK, CompletionOutcomes, Outcomes, Stages, Eval
<1>1. ASSUME NEW b \in BOOLEAN, Conclude(e, "failed", b),
             evals[e].at \in PastClaim
      PROVE  EvalsOK'
  BY <1>0, <1>1, Moves
<1>2. ASSUME Return(e) PROVE EvalsOK'
  BY <1>2, Moves
<1>3. CASE StatementFails(e)
  BY <1>0, <1>1, <1>2, <1>3 DEF StatementFails, PastClaim
<1>4. CASE ActiveUnreadable(e)
  BY <1>0, <1>4, Moves DEF ActiveUnreadable, PastClaim
<1>5. CASE Crash(e)
  BY <1>2, <1>5 DEF Crash
<1> QED BY <1>3, <1>4, <1>5

LEMMA StepsKeepShape ==
  ASSUME ShapeOK, [DigestNext]_vars
  PROVE  ShapeOK'
<1> USE DEF ShapeOK
<1>1. CASE UNCHANGED vars
  BY <1>1 DEF vars, DigestTypeOK, EvalsOK
<1>2. CASE ChangeProfile
  BY <1>2, ClockAssumption DEF ChangeProfile, DigestTypeOK, EvalsOK
<1>3. CASE SaveSettings \/ MoveWindow
  <2>1. settings' \in Settings
    BY <1>3 DEF SaveSettings, OtherSettings, MoveWindow, DigestTypeOK, Settings
  <2> QED
    BY <1>3, <2>1, ClockAssumption DEF SaveSettings, OtherSettings, MoveWindow, DigestTypeOK, EvalsOK
<1>4. CASE Tick
  BY <1>4, ClockAssumption DEF Tick, Times, DigestTypeOK, EvalsOK
<1>5. ASSUME UNCHANGED world, failures' \in 0..MaxFailures, EvalsOK',
             attempts' \in [Attempts -> Attempt],
             active' \in Digest \union {NoDigest}
      PROVE  ShapeOK'
  BY <1>5 DEF world, DigestTypeOK, EvalsOK
<1>6. ASSUME NEW e \in Evaluators, Works(e) PROVE ShapeOK'
  <2>0. failures' \in 0..MaxFailures BY <1>6 DEF Works, DigestTypeOK
  <2>1. UNCHANGED world
    <3>1. CASE \/ List(e) \/ EvaluateScheduled(e) \/ ForceGenerate(e)
               \/ FindRunning(e) \/ Claim(e) \/ RecoverAndClaim(e)
      BY <3>1, ClaimStepsKeepShape
    <3>2. CASE ReadSnapshot(e) \/ ReadSettings(e) \/ ReadActive(e)
      BY <3>2 DEF ReadSnapshot, ReadSettings, ReadActive
    <3>3. CASE \/ Suppress(e) \/ ProviderAnswers(e) \/ ProviderFails(e)
               \/ Activate(e) \/ Finish(e)
      BY <3>3 DEF Suppress, ProviderAnswers, ProviderFails, Activate, Finish
    <3> QED BY <1>6, <3>1, <3>2, <3>3 DEF Works
  <2>2. CASE \/ List(e) \/ EvaluateScheduled(e) \/ ForceGenerate(e)
             \/ FindRunning(e) \/ Claim(e) \/ RecoverAndClaim(e)
    <3>1. UNCHANGED active BY <2>2, ClaimStepsKeepShape
    <3> QED BY <1>5, <2>0, <2>1, <2>2, <3>1, ClaimStepsKeepShape DEF DigestTypeOK
  <2>3. CASE ReadSnapshot(e) \/ ReadSettings(e) \/ ReadActive(e)
    <3>1. UNCHANGED <<attempts, active>>
      BY <2>3 DEF ReadSnapshot, ReadSettings, ReadActive, tables
    <3> QED BY <1>5, <2>0, <2>1, <2>3, <3>1, ReadsKeepShape DEF DigestTypeOK
  <2>4. CASE \/ Suppress(e) \/ ProviderAnswers(e) \/ ProviderFails(e)
             \/ Activate(e) \/ Finish(e)
    BY <1>5, <2>0, <2>1, <2>4, EndingsKeepShape
  <2> QED BY <1>6, <2>2, <2>3, <2>4 DEF Works
<1>7. ASSUME NEW e \in Evaluators,
             StatementFails(e) \/ ActiveUnreadable(e) \/ Crash(e)
      PROVE  ShapeOK'
  <2>0. failures \in 0..MaxFailures /\ MaxFailures \in Nat
    BY ClockAssumption DEF DigestTypeOK
  <2>f. Fails BY <1>7 DEF StatementFails, ActiveUnreadable, Crash
  <2>1. failures' \in 0..MaxFailures BY <2>0, <2>f DEF Fails
  <2>2. UNCHANGED <<attempts, active>> /\ UNCHANGED world
    BY <1>7, FailuresKeepShape DEF tables
  <2> QED BY <1>5, <1>7, <2>1, <2>2, FailuresKeepShape DEF DigestTypeOK
<1> QED BY <1>1, <1>2, <1>3, <1>4, <1>6, <1>7 DEF DigestNext

LEMMA InitialShape == DigestInit => DigestInv
<1> SUFFICES ASSUME DigestInit PROVE DigestInv
  OBVIOUS
<1>1. 0 \in Times /\ 0 \in 0..MaxChanges /\ 0 \in 0..MaxFailures
  BY ClockAssumption DEF Times
<1>2. AbsentAttempt \in Attempt BY <1>1 DEF AbsentAttempt, Attempt
<1>3. DigestTypeOK BY <1>1, <1>2, IdleIsEval DEF DigestInit, DigestTypeOK
<1>4. EvalsOK BY IdleIsEval DEF DigestInit, EvalsOK, Idle, PastClaim
<1>5. OneRunningAttempt /\ OneAttemptPerSlot /\ ActiveDigestSucceeded
  BY DEF DigestInit, OneRunningAttempt, OneAttemptPerSlot,
         ActiveDigestSucceeded, Running, AbsentAttempt
<1> QED BY <1>3, <1>4, <1>5 DEF DigestInv, ShapeOK

\* The model keeps its types, which is also what the slot arithmetic and the
\* clocks of evaluations rest on.
THEOREM DigestTypeCorrect == DigestSpec => []DigestTypeOK
<1>1. DigestInit => ShapeOK BY InitialShape DEF DigestInv
<1>2. ShapeOK /\ [DigestNext]_vars => ShapeOK' BY StepsKeepShape
<1>3. ShapeOK => DigestTypeOK BY DEF ShapeOK
<1> QED BY <1>1, <1>2, <1>3, PTL DEF DigestSpec

-----------------------------------------------------------------------------
(* What a step may do to the attempts and to the digest.                   *)

\* OneRunningAttempt and OneAttemptPerSlot over any table of attempts: a
\* recovering claim passes through one that no state shows.
Exclusive(as) == \A a, b \in Running(as) : a = b

SlotsOnce(as) ==
  \A a, b \in Attempts :
    /\ as[a].state # "absent" /\ as[b].state # "absent"
    /\ as[a].slot = as[b].slot /\ as[a].slot # Manual
    => a = b

Ended(as, a, o) == [as EXCEPT ![a].state = o]

Claimed(as, a, s, t) ==
  [as EXCEPT ![a] = [state |-> "running", slot |-> s, startedAt |-> t]]

\* Ending a running attempt leaves none running twice, and every slot taken.
LEMMA EndingIsExclusive ==
  ASSUME NEW as \in [Attempts -> Attempt], Exclusive(as), SlotsOnce(as),
         NEW a \in Running(as), NEW o \in Outcomes
  PROVE  Exclusive(Ended(as, a, o)) /\ SlotsOnce(Ended(as, a, o))
<1> DEFINE new == Ended(as, a, o)
<1>1. a \in Attempts /\ as[a].state = "running" BY DEF Running
<1>2. o # "running" /\ o # "absent" BY DEF Outcomes
<1>3. \A b \in Attempts : /\ new[b].slot = as[b].slot
                          /\ b # a => new[b] = as[b]
  BY <1>1 DEF Ended, Attempt
<1>4. new[a].state = o BY <1>1 DEF Ended, Attempt
<1> HIDE DEF new
<1>5. Running(new) \subseteq Running(as) BY <1>2, <1>3, <1>4 DEF Running
<1>6. \A b \in Attempts : new[b].state # "absent" => as[b].state # "absent"
  BY <1>1, <1>3
<1> QED BY <1>3, <1>5, <1>6 DEF Exclusive, SlotsOnce, new

\* A claim that found no running attempt and its slot free keeps both.
LEMMA ClaimIsExclusive ==
  ASSUME NEW as \in [Attempts -> Attempt], Exclusive(as), SlotsOnce(as),
         NEW a \in Attempts, as[a].state = "absent",
         NEW s, NEW t, Claimable(as, s)
  PROVE  Exclusive(Claimed(as, a, s, t)) /\ SlotsOnce(Claimed(as, a, s, t))
<1> DEFINE new == Claimed(as, a, s, t)
<1>1. \A b \in Attempts : b # a => new[b] = as[b] BY DEF Claimed
<1>2. new[a].slot = s BY DEF Claimed
<1> HIDE DEF new
<1>3. \A b \in Running(new) : b = a BY <1>1 DEF Running, Claimable
<1>4. \A b \in Attempts \ {a} :
        s # Manual /\ new[b].state # "absent" => new[b].slot # s
  BY <1>1 DEF Claimable, SlotTaken
<1>5. SlotsOnce(new)
  BY <1>1, <1>2, <1>4 DEF SlotsOnce
<1> QED BY <1>3, <1>5 DEF Exclusive, new

\* The three things a step may do to the tables.
Keeps == attempts' = attempts /\ active' \in {active, NoDigest}

Ends(a, o) ==
  /\ a \in Running(attempts) /\ o \in Outcomes
  /\ attempts' = Ended(attempts, a, o)
  /\ \/ active' \in {active, NoDigest}
     \/ o = "success" /\ active' \in Digest /\ active'.attempt = a

\* as is the table, or the table with the running attempt abandoned.
Claims(as, a, s, t) ==
  /\ \/ as = attempts
     \/ \E b \in Running(attempts) : as = Ended(attempts, b, "abandoned")
  /\ a \in Attempts /\ as[a].state = "absent" /\ Claimable(as, s)
  /\ attempts' = Claimed(as, a, s, t)
  /\ active' = active

Effect == \/ Keeps
          \/ \E a, o : Ends(a, o)
          \/ \E as, a, s, t : Claims(as, a, s, t)

LEMMA ClaimHasEffect ==
  ASSUME ShapeOK, NEW e \in Evaluators, Claim(e) \/ RecoverAndClaim(e)
  PROVE  Effect
<1>1. CASE Claim(e)
  BY <1>1 DEF Claim, ClaimOver, NewAttempt, Claimed, Claims, Keeps, Effect
<1>2. CASE RecoverAndClaim(e)
  <2> DEFINE a == evals[e].attempt
             as == Ended(attempts, a, "abandoned")
  <2>1. a \in Attempts
    BY <1>2 DEF RecoverAndClaim, ShapeOK, EvalsOK, PastClaim
  <2>2. ASSUME attempts[a].state = "running", ClaimOver(e, as),
               active' = active
        PROVE  Effect
    <3>1. a \in Running(attempts) BY <2>1, <2>2 DEF Running
    <3>2. "abandoned" \in Outcomes BY DEF Outcomes
    <3>3. CASE attempts' = as
      BY <2>2, <3>1, <3>2, <3>3 DEF Ends, Effect
    <3>4. ASSUME NEW b \in Attempts, as[b].state = "absent",
                 Claimable(as, evals[e].slot),
                 attempts' = [as EXCEPT ![b] = NewAttempt(e)]
          PROVE  Effect
      <4>1. Claims(as, b, evals[e].slot, evals[e].startedAt)
        BY <2>2, <3>1, <3>4 DEF Claims, Claimed, NewAttempt
      <4> QED BY <4>1 DEF Effect
    <3> HIDE DEF as
    <3> QED BY <2>2, <3>3, <3>4 DEF ClaimOver
  <2>3. ASSUME UNCHANGED attempts, active' = active PROVE Effect
    BY <2>3 DEF Keeps, Effect
  <2> QED BY <1>2, <2>2, <2>3 DEF RecoverAndClaim, Ended
<1> QED BY <1>1, <1>2

LEMMA EndingsHaveEffect ==
  ASSUME ShapeOK, NEW e \in Evaluators, Activate(e) \/ Finish(e)
  PROVE  Effect
<1> DEFINE a == evals[e].attempt
<1>1. a \in Attempts
  BY DEF Activate, Finish, ShapeOK, EvalsOK, PastClaim
<1>2. StillRunning(e) => a \in Running(attempts)
  BY <1>1 DEF StillRunning, Running
<1>3. CASE UNCHANGED tables
  BY <1>3 DEF tables, Keeps, Effect
<1>4. CASE Activate(e)
  <2>1. Draft(e) \in Digest /\ Draft(e).attempt = a
    BY <1>1 DEF Draft, ShapeOK, EvalsOK, Eval, Digest
  <2>2. "success" \in Outcomes BY DEF Outcomes
  <2>3. ASSUME StillRunning(e), Completed(e, "success"), active' = Draft(e)
        PROVE  Effect
    <3>1. Ends(a, "success")
      BY <1>2, <2>1, <2>2, <2>3 DEF Ends, Ended, Completed
    <3> QED BY <3>1 DEF Effect
  <2> QED BY <1>3, <1>4, <2>3 DEF Activate
<1>5. CASE Finish(e)
  <2>1. evals[e].outcome \in Outcomes BY DEF ShapeOK, EvalsOK, Eval, CompletionOutcomes
  <2>2. ASSUME StillRunning(e), Completed(e, evals[e].outcome),
               active' \in {active, NoDigest}
        PROVE  Effect
    <3>1. Ends(a, evals[e].outcome)
      BY <1>2, <2>1, <2>2 DEF Ends, Ended, Completed
    <3> QED BY <3>1 DEF Effect
  <2> QED BY <1>3, <1>5, <2>2 DEF Finish
<1> QED BY <1>4, <1>5

LEMMA StepsHaveEffect ==
  ASSUME ShapeOK, [DigestNext]_vars
  PROVE  Effect
<1>1. CASE UNCHANGED <<attempts, active>>
  BY <1>1 DEF Keeps, Effect
<1>2. CASE UNCHANGED vars \/ ChangeProfile \/ SaveSettings \/ MoveWindow \/ Tick
  BY <1>1, <1>2 DEF vars, ChangeProfile, SaveSettings, MoveWindow, Tick
<1>3. ASSUME NEW e \in Evaluators, Works(e) PROVE Effect
  <2>1. CASE \/ List(e) \/ EvaluateScheduled(e) \/ ForceGenerate(e)
             \/ FindRunning(e) \/ ReadSnapshot(e) \/ ReadSettings(e)
             \/ ReadActive(e) \/ ProviderAnswers(e) \/ ProviderFails(e)
    BY <1>1, <2>1 DEF List, EvaluateScheduled, ForceGenerate, FindRunning,
       ReadSnapshot, ReadSettings, ReadActive, ProviderAnswers, ProviderFails,
       tables
  <2>2. CASE Claim(e) \/ RecoverAndClaim(e) BY <2>2, ClaimHasEffect
  <2>3. CASE Suppress(e) BY <2>3 DEF Suppress, Keeps, Effect
  <2>4. CASE Activate(e) \/ Finish(e) BY <2>4, EndingsHaveEffect
  <2> QED BY <1>3, <2>1, <2>2, <2>3, <2>4 DEF Works
<1>4. ASSUME NEW e \in Evaluators,
             StatementFails(e) \/ ActiveUnreadable(e) \/ Crash(e)
      PROVE  Effect
  BY <1>1, <1>4, FailuresKeepShape DEF tables
<1> QED BY <1>2, <1>3, <1>4 DEF DigestNext

-----------------------------------------------------------------------------
(* The invariants and the action properties.                               *)

\* The table that a claim is made over.
LEMMA ClaimedOverWhat ==
  ASSUME attempts \in [Attempts -> Attempt],
         Exclusive(attempts), SlotsOnce(attempts),
         NEW as, NEW a, NEW s, NEW t, Claims(as, a, s, t)
  PROVE  /\ as \in [Attempts -> Attempt] /\ Exclusive(as) /\ SlotsOnce(as)
         /\ \A c \in Attempts :
              attempts[c].state # "running" => as[c] = attempts[c]
<1>1. "abandoned" \in Outcomes BY DEF Outcomes
<1>2. CASE as = attempts BY <1>2
<1>3. ASSUME NEW b \in Running(attempts), as = Ended(attempts, b, "abandoned")
      PROVE  /\ as \in [Attempts -> Attempt] /\ Exclusive(as) /\ SlotsOnce(as)
             /\ \A c \in Attempts :
                  attempts[c].state # "running" => as[c] = attempts[c]
  <2>1. b \in Attempts /\ attempts[b].state = "running" BY DEF Running
  <2>2. as \in [Attempts -> Attempt]
    BY <1>1, <1>3, <2>1 DEF Ended, Attempt
  <2>3. Exclusive(as) /\ SlotsOnce(as) BY <1>1, <1>3, EndingIsExclusive
  <2>4. \A c \in Attempts : attempts[c].state # "running" => as[c] = attempts[c]
    BY <1>3, <2>1 DEF Ended
  <2> QED BY <2>2, <2>3, <2>4
<1> QED BY <1>2, <1>3 DEF Claims

LEMMA EffectKeepsInv ==
  ASSUME DigestInv, Effect
  PROVE  OneRunningAttempt' /\ OneAttemptPerSlot' /\ ActiveDigestSucceeded'
<1>0. /\ attempts \in [Attempts -> Attempt]
      /\ active \in Digest \union {NoDigest}
      /\ Exclusive(attempts) /\ SlotsOnce(attempts)
      /\ active # NoDigest => attempts[active.attempt].state = "success"
  BY DEF DigestInv, ShapeOK, DigestTypeOK, OneRunningAttempt,
         OneAttemptPerSlot, ActiveDigestSucceeded, Exclusive, SlotsOnce
<1>1. ASSUME Exclusive(attempts'), SlotsOnce(attempts')
      PROVE  OneRunningAttempt' /\ OneAttemptPerSlot'
  BY <1>1 DEF OneRunningAttempt, OneAttemptPerSlot, Exclusive, SlotsOnce
<1>2. active # NoDigest => active.attempt \in Attempts
  BY <1>0 DEF Digest
<1>3. CASE Keeps
  <2>1. ActiveDigestSucceeded' BY <1>0, <1>3 DEF Keeps, ActiveDigestSucceeded
  <2> QED BY <1>0, <1>1, <1>3, <2>1 DEF Keeps
<1>4. ASSUME NEW a, NEW o, Ends(a, o)
      PROVE  OneRunningAttempt' /\ OneAttemptPerSlot' /\ ActiveDigestSucceeded'
  <2>1. /\ a \in Running(attempts) /\ a \in Attempts /\ o \in Outcomes
        /\ attempts[a].state = "running"
        /\ attempts' = Ended(attempts, a, o)
    BY <1>4 DEF Ends, Running
  <2>2. Exclusive(attempts') /\ SlotsOnce(attempts')
    BY <1>0, <2>1, EndingIsExclusive
  <2>3. /\ attempts'[a].state = o
        /\ \A b \in Attempts : b # a => attempts'[b] = attempts[b]
    BY <1>0, <2>1 DEF Ended, Attempt
  <2>4. ASSUME active' \in {active, NoDigest} PROVE ActiveDigestSucceeded'
    BY <1>0, <1>2, <2>1, <2>3, <2>4 DEF ActiveDigestSucceeded
  <2>5. ASSUME o = "success", active'.attempt = a PROVE ActiveDigestSucceeded'
    BY <2>3, <2>5 DEF ActiveDigestSucceeded
  <2>6. ActiveDigestSucceeded' BY <1>4, <2>4, <2>5 DEF Ends
  <2> QED BY <1>1, <2>2, <2>6
<1>5. ASSUME NEW as, NEW a, NEW s, NEW t, Claims(as, a, s, t)
      PROVE  OneRunningAttempt' /\ OneAttemptPerSlot' /\ ActiveDigestSucceeded'
  <2>2. /\ as \in [Attempts -> Attempt] /\ Exclusive(as) /\ SlotsOnce(as)
        /\ \A b \in Attempts :
             attempts[b].state = "success" => as[b] = attempts[b]
    BY <1>0, <1>5, ClaimedOverWhat
  <2>3. /\ a \in Attempts /\ as[a].state = "absent" /\ Claimable(as, s)
        /\ attempts' = Claimed(as, a, s, t) /\ active' = active
    BY <1>5 DEF Claims
  <2>4. Exclusive(attempts') /\ SlotsOnce(attempts')
    BY <2>2, <2>3, ClaimIsExclusive
  <2>5. \A b \in Attempts : attempts[b].state = "success" => attempts'[b] = attempts[b]
    BY <2>2, <2>3 DEF Claimed
  <2>6. ActiveDigestSucceeded'
    BY <1>0, <1>2, <2>3, <2>5 DEF ActiveDigestSucceeded
  <2> QED BY <1>1, <2>4, <2>6
<1> QED BY <1>3, <1>4, <1>5 DEF Effect

LEMMA DigestInvariant == DigestSpec => []DigestInv
<1>1. DigestInit => DigestInv BY InitialShape
<1>2. DigestInv /\ [DigestNext]_vars => DigestInv'
  <2> SUFFICES ASSUME DigestInv, [DigestNext]_vars PROVE DigestInv'
    OBVIOUS
  <2>1. ShapeOK' BY StepsKeepShape DEF DigestInv
  <2>2. Effect BY StepsHaveEffect DEF DigestInv
  <2> QED BY <2>1, <2>2, EffectKeepsInv DEF DigestInv
<1> QED BY <1>1, <1>2, PTL DEF DigestSpec

\* The lifecycle lock and the look for a running attempt under it leave a
\* Profile one running attempt, however many Workers and administrators
\* evaluate it and whatever they abandon and recover.
THEOREM OneRunningAttemptHolds == DigestSpec => []OneRunningAttempt
<1>1. DigestInv => OneRunningAttempt BY DEF DigestInv
<1> QED BY <1>1, DigestInvariant, PTL

\* A scheduled slot is attempted once, also after crashes and abandonment.
THEOREM OneAttemptPerSlotHolds == DigestSpec => []OneAttemptPerSlot
<1>1. DigestInv => OneAttemptPerSlot BY DEF DigestInv
<1> QED BY <1>1, DigestInvariant, PTL

\* The digest that readers see belongs to an attempt that succeeded.
THEOREM ActiveDigestSucceededHolds == DigestSpec => []ActiveDigestSucceeded
<1>1. DigestInv => ActiveDigestSucceeded BY DEF DigestInv
<1> QED BY <1>1, DigestInvariant, PTL

\* What ended an attempt is final: completion and abandonment never both
\* take effect on one attempt.
THEOREM EndedAttemptsStayEndedHolds == DigestSpec => EndedAttemptsStayEnded
<1> DEFINE Step == \A a \in Attempts :
                     attempts[a].state \in Outcomes => attempts'[a] = attempts[a]
<1>1. DigestInv /\ [DigestNext]_vars => Step
  <2> SUFFICES ASSUME DigestInv, [DigestNext]_vars,
                      NEW c \in Attempts, attempts[c].state \in Outcomes
               PROVE  attempts'[c] = attempts[c]
    OBVIOUS
  <2>0. /\ attempts \in [Attempts -> Attempt]
        /\ attempts[c].state # "running" /\ attempts[c].state # "absent"
    BY DEF DigestInv, ShapeOK, DigestTypeOK, Outcomes
  <2>1. Effect BY StepsHaveEffect DEF DigestInv
  <2>2. CASE Keeps BY <2>2 DEF Keeps
  <2>3. ASSUME NEW a, NEW o, Ends(a, o) PROVE attempts'[c] = attempts[c]
    BY <2>0, <2>3 DEF Ends, Ended, Running
  <2>4. ASSUME NEW as, NEW a, NEW s, NEW t, Claims(as, a, s, t)
        PROVE  attempts'[c] = attempts[c]
    <3>1. as \in [Attempts -> Attempt] /\ as[c] = attempts[c]
      BY <2>0, <2>4, ClaimedOverWhat
         DEF DigestInv, OneRunningAttempt, OneAttemptPerSlot, Exclusive,
             SlotsOnce
    <3> QED BY <2>0, <2>4, <3>1 DEF Claims, Claimed
  <2> QED BY <2>1, <2>2, <2>3, <2>4 DEF Effect
<1> QED BY <1>1, DigestInvariant, PTL DEF DigestSpec, EndedAttemptsStayEnded

\* A digest replaces another one only while its attempt is running: what a
\* provider answers after the attempt was abandoned is dropped.
THEOREM LateAnswersAreDroppedHolds == DigestSpec => LateAnswersAreDropped
<1>1. DigestInv /\ [DigestNext]_vars =>
        \/ active' \in {active, NoDigest}
        \/ attempts[active'.attempt].state = "running"
  <2> SUFFICES ASSUME DigestInv, [DigestNext]_vars
               PROVE  \/ active' \in {active, NoDigest}
                      \/ attempts[active'.attempt].state = "running"
    OBVIOUS
  <2>1. Effect BY StepsHaveEffect DEF DigestInv
  <2> QED BY <2>1 DEF Effect, Keeps, Ends, Claims, Running
<1> QED BY <1>1, DigestInvariant, PTL DEF DigestSpec, LateAnswersAreDropped

-----------------------------------------------------------------------------
(* The histories: what an evaluation knows of the digest it may replace.   *)

Held == {"snapshot", "settings", "active", "suppress", "provider", "activate",
         "finish"}
Holds(e) == evals[e].at \in Held
StateOf(e) == attempts[evals[e].attempt].state

\* An attempt is its claimant's, who holds it until it ends or is abandoned.
OwnedOnce ==
  /\ \A e \in Evaluators : Holds(e) => StateOf(e) \in {"running", "abandoned"}
  /\ \A e, f \in Evaluators :
       Holds(e) /\ Holds(f) /\ evals[e].attempt = evals[f].attempt => e = f

StageOK(e) ==
  /\ Answered(e) => evals[e].at \in {"snapshot", "settings", "activate"}
  /\ evals[e].at = "activate" => Answered(e)
  /\ ~Holds(e) => evals[e].purpose = "input" /\ ~evals[e].suppressed

\* A contradicted answer is not up for activation, and the articles read
\* since the contradiction show it.
DropOK(e) ==
  /\ e \in restyled => Answered(e) /\ evals[e].at # "activate"
  /\ e \in withdrawn =>
       /\ Answered(e) /\ evals[e].at # "activate"
       /\ evals[e].at = "settings" =>
            ~(evals[e].inputs \subseteq evals[e].profile.articles)

\* An answer that the Profile does not sanction, or that was read to be so,
\* is recorded as unfounded.
FoundedOK(e) ==
  Answered(e) =>
    /\ ~Sanctioned(evals[e], profile, settings) => e \in unfounded
    /\ evals[e].at = "settings" =>
         \/ evals[e].inputs \subseteq evals[e].profile.articles
         \/ e \in unfounded

\* What e has read does not speak against the active digest, nor does what
\* it means to do, while its attempt runs and the digest is sanctioned.
KeepOK(e) ==
  Holds(e) /\ StateOf(e) = "running" /\ active # NoDigest /\ ~lapsed =>
    /\ ~evals[e].suppressed
    /\ evals[e].at = "settings" /\ ~Answered(e) =>
         active.inputs \subseteq evals[e].profile.articles
    /\ evals[e].at = "active" => Fits(e)
    /\ evals[e].at = "finish" /\ evals[e].suppress => e \in unfounded

LapseOK == active # NoDigest /\ ~lapsed => Sanctioned(active, profile, settings)

HistoryInv ==
  /\ lapsed \in BOOLEAN /\ restyled \union withdrawn \subseteq Evaluators
  /\ LapseOK /\ OwnedOnce
  /\ \A e \in Evaluators : StageOK(e) /\ DropOK(e) /\ FoundedOK(e) /\ KeepOK(e)

StepBy(e) ==
  \/ List(e) \/ EvaluateScheduled(e) \/ ForceGenerate(e) \/ FindRunning(e)
  \/ Claim(e) \/ RecoverAndClaim(e) \/ ReadSnapshot(e) \/ ReadSettings(e)
  \/ ReadActive(e) \/ Suppress(e) \/ ProviderAnswers(e) \/ ProviderFails(e)
  \/ Activate(e) \/ Finish(e)
  \/ StatementFails(e) \/ ActiveUnreadable(e) \/ Crash(e)

LEMMA NextIsAStep ==
  DigestNext =>
    \/ UNCHANGED <<attempts, active, evals>>
    \/ \E e \in Evaluators : StepBy(e)
BY DEF DigestNext, Works, StepBy, ChangeProfile, SaveSettings, MoveWindow, Tick

LEMMA StepsLeaveTheWorld ==
  ASSUME NEW e \in Evaluators, StepBy(e)
  PROVE  UNCHANGED world
BY DEF StepBy, List, EvaluateScheduled, ForceGenerate, FindRunning, Claim,
       RecoverAndClaim, ReadSnapshot, ReadSettings, ReadActive, Suppress,
       ProviderAnswers, ProviderFails, Activate, Finish, StatementFails,
       ActiveUnreadable, Crash

\* A step of e moves e, and leaves every other evaluation where it is.
LEMMA OneMoves ==
  ASSUME EvalsOK, NEW e \in Evaluators, StepBy(e)
  PROVE  /\ \E r : evals' = [evals EXCEPT ![e] = r]
         /\ \A f \in Evaluators \ {e} : evals'[f] = evals[f]
<1> USE DEF Becomes, Goto, Return, Conclude
<1>1. \E r : Becomes(e, r)
  <2>1. CASE \/ List(e) \/ EvaluateScheduled(e) \/ ForceGenerate(e)
             \/ FindRunning(e)
    BY <2>1 DEF List, EvaluateScheduled, ForceGenerate, FindRunning
  <2>2. CASE Claim(e) \/ RecoverAndClaim(e)
    BY <2>2 DEF Claim, RecoverAndClaim, ClaimOver
  <2>3. CASE ReadSnapshot(e) \/ ReadActive(e) \/ Suppress(e)
    BY <2>3 DEF ReadSnapshot, ReadActive, Suppress, CallProvider
  <2>4. CASE ReadSettings(e)
    BY <2>4 DEF ReadSettings, InputRead, FailureJudged, CandidateJudged,
                EvalsOK, Eval, Purposes
  <2>5. CASE ProviderAnswers(e) \/ ProviderFails(e) \/ Activate(e) \/ Finish(e)
    BY <2>5 DEF ProviderAnswers, ProviderFails, Activate, Finish
  <2>6. CASE StatementFails(e) \/ ActiveUnreadable(e) \/ Crash(e)
    BY <2>6 DEF StatementFails, ActiveUnreadable, Crash
  <2> QED BY <2>1, <2>2, <2>3, <2>4, <2>5, <2>6 DEF StepBy
<1> QED BY <1>1 DEF EvalsOK

\* The claim of a, which no evaluation holds, by e.
Takes(e, a) ==
  /\ ~Holds(e) /\ attempts[a].state = "absent"
  /\ evals'[e].at = "snapshot" /\ evals'[e].attempt = a
  /\ evals'[e].purpose = evals[e].purpose
  /\ evals'[e].suppressed = evals[e].suppressed
  /\ attempts'[a].state = "running"
  /\ \A b \in Attempts \ {a} :
       attempts'[b] = attempts[b] \/ attempts'[b].state = "abandoned"
  /\ active' = active

\* The attempt that e recovers is abandoned, and none is claimed.
Abandons(e) ==
  /\ evals'[e] = Idle /\ active' = active
  /\ \A b \in Attempts :
       \/ attempts'[b] = attempts[b]
       \/ attempts[b].state = "running" /\ attempts'[b].state = "abandoned"

LEMMA ClaimTakes ==
  ASSUME ShapeOK, NEW e \in Evaluators, NEW as \in [Attempts -> Attempt],
         ClaimOver(e, as), ~Holds(e), active' = active,
         \A b \in Attempts :
           \/ as[b] = attempts[b]
           \/ attempts[b].state = "running" /\ as[b].state = "abandoned"
  PROVE  Abandons(e) \/ \E a \in Attempts : Takes(e, a)
<1>0. evals[e] \in Eval BY DEF ShapeOK, EvalsOK
<1>1. CASE attempts' = as /\ Return(e)
  BY <1>1 DEF Return, Becomes, Abandons, ShapeOK, EvalsOK
<1>2. ASSUME NEW a \in Attempts, as[a].state = "absent",
             attempts' = [as EXCEPT ![a] = NewAttempt(e)],
             Becomes(e, [evals[e] EXCEPT !.at = "snapshot", !.attempt = a,
                                         !.startedAt = 0])
      PROVE  Takes(e, a)
  <2>1. /\ evals'[e] = [evals[e] EXCEPT !.at = "snapshot", !.attempt = a,
                                        !.startedAt = 0]
    BY <1>2 DEF Becomes, ShapeOK, EvalsOK
  <2>2. /\ evals'[e].at = "snapshot" /\ evals'[e].attempt = a
        /\ evals'[e].purpose = evals[e].purpose
        /\ evals'[e].suppressed = evals[e].suppressed
    BY <1>0, <2>1 DEF Eval
  <2>3. attempts[a].state = "absent" BY <1>2
  <2>4. attempts'[a].state = "running" BY <1>2 DEF NewAttempt
  <2>5. \A b \in Attempts \ {a} :
          attempts'[b] = attempts[b] \/ attempts'[b].state = "abandoned"
    BY <1>2
  <2> QED BY <2>2, <2>3, <2>4, <2>5 DEF Takes
<1> QED BY <1>1, <1>2 DEF ClaimOver

LEMMA ClaimersTakeOrLeave ==
  ASSUME ShapeOK, NEW e \in Evaluators,
         \/ List(e) \/ EvaluateScheduled(e) \/ ForceGenerate(e)
         \/ FindRunning(e) \/ Claim(e) \/ RecoverAndClaim(e)
  PROVE  /\ ~Holds(e)
         /\ \/ /\ UNCHANGED tables
               /\ evals'[e].at \notin Held
               /\ \/ evals'[e] = Idle
                  \/ /\ evals'[e].purpose = evals[e].purpose
                     /\ evals'[e].suppressed = evals[e].suppressed
            \/ Abandons(e)
            \/ \E a \in Attempts : Takes(e, a)
<1>0. /\ evals[e] \in Eval /\ evals \in [Evaluators -> Eval]
      /\ attempts \in [Attempts -> Attempt]
  BY DEF ShapeOK, EvalsOK, DigestTypeOK
<1>1. ~Holds(e)
  BY DEF List, EvaluateScheduled, ForceGenerate, FindRunning, Claim,
         RecoverAndClaim, Holds, Held
<1>2. CASE \/ List(e) \/ EvaluateScheduled(e) \/ ForceGenerate(e)
           \/ FindRunning(e)
  <2>1. UNCHANGED tables
    BY <1>2 DEF List, EvaluateScheduled, ForceGenerate, FindRunning
  <2>2. ASSUME NEW r, Becomes(e, r) PROVE evals'[e] = r
    BY <1>0, <2>2 DEF Becomes
  <2>3. Idle.at = "idle" BY DEF Idle
  <2>4. CASE Return(e)
    BY <1>1, <2>1, <2>2, <2>3, <2>4 DEF Return, Held
  <2>5. ASSUME NEW r, Becomes(e, r), r.at \notin Held,
               r.purpose = evals[e].purpose, r.suppressed = evals[e].suppressed
        PROVE  /\ evals'[e].at \notin Held
               /\ evals'[e].purpose = evals[e].purpose
               /\ evals'[e].suppressed = evals[e].suppressed
    BY <2>2, <2>5
  <2>6. CASE List(e)
    <3> DEFINE r == [evals[e] EXCEPT !.at = "listed", !.slot = SlotOf(now)]
    <3>1. /\ r.at \notin Held /\ r.purpose = evals[e].purpose
          /\ r.suppressed = evals[e].suppressed
      BY <1>0 DEF Eval, Held
    <3> QED BY <1>1, <2>1, <2>5, <2>6, <3>1 DEF List
  <2>7. CASE EvaluateScheduled(e) \/ ForceGenerate(e)
    <3> DEFINE r == [evals[e] EXCEPT !.at = "find", !.startedAt = now]
    <3>1. /\ r.at \notin Held /\ r.purpose = evals[e].purpose
          /\ r.suppressed = evals[e].suppressed
      BY <1>0 DEF Eval, Held
    <3> QED BY <1>1, <2>1, <2>5, <2>7, <3>1 DEF EvaluateScheduled, ForceGenerate
  <2>8. CASE Goto(e, "claim")
    <3> DEFINE r == [evals[e] EXCEPT !.at = "claim"]
    <3>1. /\ r.at \notin Held /\ r.purpose = evals[e].purpose
          /\ r.suppressed = evals[e].suppressed
      BY <1>0 DEF Eval, Held
    <3> QED BY <1>1, <2>1, <2>5, <2>8, <3>1 DEF Goto
  <2>9. ASSUME NEW a,
               Becomes(e, [evals[e] EXCEPT !.at = "recover", !.attempt = a])
        PROVE  /\ evals'[e].at \notin Held
               /\ evals'[e].purpose = evals[e].purpose
               /\ evals'[e].suppressed = evals[e].suppressed
    <3> DEFINE r == [evals[e] EXCEPT !.at = "recover", !.attempt = a]
    <3>1. /\ r.at \notin Held /\ r.purpose = evals[e].purpose
          /\ r.suppressed = evals[e].suppressed
      BY <1>0 DEF Eval, Held
    <3> QED BY <2>5, <2>9, <3>1
  <2> QED BY <1>1, <1>2, <2>1, <2>4, <2>6, <2>7, <2>8, <2>9 DEF FindRunning
<1>3. CASE Claim(e)
  <2>1. ClaimOver(e, attempts) /\ active' = active BY <1>3 DEF Claim
  <2> QED BY <1>0, <1>1, <2>1, ClaimTakes
<1>4. CASE RecoverAndClaim(e)
  <2> DEFINE x == evals[e].attempt
             as == [attempts EXCEPT ![x].state = "abandoned"]
  <2>1. x \in Attempts /\ active' = active
    BY <1>4 DEF RecoverAndClaim, ShapeOK, EvalsOK, PastClaim
  <2>2. CASE attempts[x].state = "running" /\ ClaimOver(e, as)
    <3>1. as \in [Attempts -> Attempt] BY <1>0 DEF Attempt, Outcomes
    <3>2. \A b \in Attempts :
            \/ as[b] = attempts[b]
            \/ attempts[b].state = "running" /\ as[b].state = "abandoned"
      BY <1>0, <2>1, <2>2 DEF Attempt
    <3> HIDE DEF as
    <3> QED BY <1>1, <2>1, <2>2, <3>1, <3>2, ClaimTakes
  <2>3. CASE Return(e) /\ UNCHANGED attempts
    <3>1. evals'[e] = Idle BY <1>0, <2>3 DEF Return, Becomes
    <3>2. \A b \in Attempts : attempts'[b] = attempts[b] BY <2>3
    <3> QED BY <1>1, <2>1, <3>1, <3>2 DEF Abandons
  <2> QED BY <1>1, <1>4, <2>2, <2>3 DEF RecoverAndClaim
<1> QED BY <1>1, <1>2, <1>3, <1>4

Reading(e) == ReadSnapshot(e) \/ ReadSettings(e) \/ ReadActive(e)
Answering(e) == Suppress(e) \/ ProviderAnswers(e) \/ ProviderFails(e)
Ending(e) == Activate(e) \/ Finish(e)
Failing(e) == StatementFails(e) \/ ActiveUnreadable(e) \/ Crash(e)

\* An evaluation that is past its claim keeps its attempt until it returns.
LEMMA HoldersKeepTheirAttempt ==
  ASSUME EvalsOK, NEW e \in Evaluators,
         Reading(e) \/ Answering(e) \/ Ending(e) \/ Failing(e)
  PROVE  Holds(e)' => Holds(e) /\ evals'[e].attempt = evals[e].attempt
<1>0. evals[e] \in Eval /\ evals \in [Evaluators -> Eval] BY DEF EvalsOK
<1>1. ASSUME NEW r, Becomes(e, r) PROVE evals'[e] = r
  BY <1>0, <1>1 DEF Becomes
<1>2. ASSUME NEW s, Goto(e, s) PROVE evals'[e].attempt = evals[e].attempt
  BY <1>0, <1>1, <1>2 DEF Goto, Eval
<1>3. ASSUME NEW o, NEW b, Conclude(e, o, b)
      PROVE  evals'[e].attempt = evals[e].attempt
  BY <1>1, <1>3 DEF Conclude, Idle
<1>4. ASSUME CallProvider(e) PROVE evals'[e].attempt = evals[e].attempt
  BY <1>0, <1>1, <1>4 DEF CallProvider, Eval
<1>5. ASSUME Return(e) PROVE ~Holds(e)'
  BY <1>1, <1>5 DEF Return, Idle, Holds, Held
<1>6. CASE Reading(e)
  <2>1. Holds(e)
    BY <1>6 DEF Reading, ReadSnapshot, ReadSettings, ReadActive, Holds, Held
  <2>2. CASE ReadSnapshot(e)
    BY <1>0, <1>1, <1>3, <2>1, <2>2 DEF ReadSnapshot, Eval
  <2>3. CASE ReadSettings(e)
    <3>1. evals[e].purpose \in Purposes BY <1>0 DEF Eval
    <3>2. CASE InputRead(e)
      BY <1>0, <1>1, <1>3, <2>1, <3>2 DEF InputRead, Eval
    <3>3. CASE FailureJudged(e)
      BY <1>0, <1>1, <1>3, <2>1, <3>3 DEF FailureJudged, Eval
    <3>4. CASE CandidateJudged(e)
      BY <1>2, <1>3, <2>1, <3>4 DEF CandidateJudged
    <3> QED BY <2>3, <3>1, <3>2, <3>3, <3>4 DEF ReadSettings, Purposes
  <2>4. CASE ReadActive(e)
    BY <1>0, <1>1, <1>3, <1>4, <2>1, <2>4 DEF ReadActive, Eval
  <2> QED BY <1>6, <2>2, <2>3, <2>4 DEF Reading
<1>7. CASE Answering(e)
  <2>1. Holds(e)
    BY <1>7 DEF Answering, Suppress, ProviderAnswers, ProviderFails, Holds, Held
  <2>2. CASE Suppress(e) BY <1>4, <2>1, <2>2 DEF Suppress
  <2>3. CASE ProviderAnswers(e) \/ ProviderFails(e)
    BY <1>0, <1>1, <1>3, <2>1, <2>3 DEF ProviderAnswers, ProviderFails, Eval
  <2> QED BY <1>7, <2>2, <2>3 DEF Answering
<1>8. CASE Ending(e)
  <2>1. Holds(e) BY <1>8 DEF Ending, Activate, Finish, Holds, Held
  <2> QED BY <1>3, <1>5, <1>8, <2>1 DEF Ending, Activate, Finish
<1>9. CASE Failing(e)
  <2>1. CASE Crash(e) \/ Return(e) BY <1>5, <2>1 DEF Crash
  <2>2. CASE ActiveUnreadable(e)
    BY <1>2, <2>2 DEF ActiveUnreadable, Holds, Held
  <2>3. CASE StatementFails(e)
    BY <1>3, <2>1, <2>3 DEF StatementFails, Holds, Held
  <2> QED BY <1>9, <2>1, <2>2, <2>3 DEF Failing
<1> QED BY <1>6, <1>7, <1>8, <1>9

LEMMA WhatHoldersChange ==
  ASSUME ShapeOK, NEW e \in Evaluators,
         Reading(e) \/ Answering(e) \/ Ending(e) \/ Failing(e)
  PROVE  /\ \/ attempts' = attempts
            \/ /\ Holds(e) /\ evals'[e] = Idle
               /\ \A b \in Attempts \ {evals[e].attempt} : attempts'[b] = attempts[b]
         /\ \/ active' \in {active, NoDigest}
            \/ Ending(e) /\ Holds(e) /\ StateOf(e) = "running"
<1>1. CASE Reading(e)
  BY <1>1 DEF Reading, ReadSnapshot, ReadSettings, ReadActive, tables
<1>2. CASE Answering(e)
  BY <1>2 DEF Answering, Suppress, ProviderAnswers, ProviderFails, tables
<1>3. CASE Ending(e)
  <2>1. Holds(e) /\ evals[e].attempt \in Attempts
    BY <1>3 DEF Ending, Activate, Finish, Holds, Held, ShapeOK, EvalsOK, PastClaim
  <2>2. CASE UNCHANGED tables BY <2>2 DEF tables
  <2>3. ASSUME StillRunning(e), Return(e), NEW o, Completed(e, o)
        PROVE  /\ Holds(e) /\ evals'[e] = Idle /\ StateOf(e) = "running"
               /\ \A b \in Attempts \ {evals[e].attempt} : attempts'[b] = attempts[b]
    BY <2>1, <2>3 DEF StillRunning, StateOf, Return, Becomes, Completed, ShapeOK,
                      EvalsOK, DigestTypeOK
  <2> QED BY <1>3, <2>2, <2>3 DEF Ending, Activate, Finish
<1>4. CASE Failing(e)
  BY <1>4 DEF Failing, StatementFails, ActiveUnreadable, Crash, tables
<1> QED BY <1>1, <1>2, <1>3, <1>4

\* What a step of e leaves every other evaluation that holds an attempt.
LEMMA OthersKeepTheirAttempt ==
  ASSUME DigestInv, OwnedOnce, NEW e \in Evaluators, StepBy(e),
         NEW f \in Evaluators \ {e}, Holds(f)
  PROVE  /\ evals'[f] = evals[f]
         /\ StateOf(f)' \in {"running", "abandoned"}
         /\ StateOf(f)' = "running" =>
              StateOf(f) = "running" /\ active' \in {active, NoDigest}
<1> DEFINE x == evals[f].attempt
<1>0. /\ ShapeOK /\ EvalsOK /\ x \in Attempts /\ attempts \in [Attempts -> Attempt]
      /\ Exclusive(attempts)
  BY DEF DigestInv, ShapeOK, EvalsOK, DigestTypeOK, PastClaim, Holds, Held,
         OneRunningAttempt, Exclusive
<1>1. evals'[f] = evals[f] /\ StateOf(f)' = attempts'[x].state
  BY <1>0, OneMoves DEF StateOf
<1>2. attempts[x].state \in {"running", "abandoned"}
  BY DEF OwnedOnce, StateOf
<1>3. CASE \/ List(e) \/ EvaluateScheduled(e) \/ ForceGenerate(e)
           \/ FindRunning(e) \/ Claim(e) \/ RecoverAndClaim(e)
  <2>1. \/ UNCHANGED tables \/ Abandons(e) \/ \E a \in Attempts : Takes(e, a)
    BY <1>0, <1>3, ClaimersTakeOrLeave
  <2>2. CASE UNCHANGED tables BY <1>1, <1>2, <2>2 DEF tables, StateOf
  <2>3. CASE Abandons(e)
    BY <1>0, <1>1, <1>2, <2>3 DEF Abandons, StateOf
  <2>4. ASSUME NEW a \in Attempts, Takes(e, a)
        PROVE  /\ attempts'[x].state \in {"running", "abandoned"}
               /\ attempts'[x].state = "running" => attempts[x].state = "running"
               /\ active' = active
    BY <1>0, <1>2, <2>4 DEF Takes
  <2> QED BY <1>1, <2>1, <2>2, <2>3, <2>4 DEF StateOf
<1>4. CASE Reading(e) \/ Answering(e) \/ Ending(e) \/ Failing(e)
  <2>1. Holds(e) => evals[e].attempt # x BY DEF OwnedOnce
  <2>2. attempts'[x] = attempts[x]
    BY <1>0, <1>4, <2>1, WhatHoldersChange
  <2>3. ASSUME Ending(e), Holds(e), StateOf(e) = "running",
               attempts[x].state = "running"
        PROVE  FALSE
    <3>1. evals[e].attempt \in Attempts
      BY <2>3 DEF Ending, Activate, Finish, ShapeOK, DigestInv, EvalsOK, PastClaim
    <3> QED BY <1>0, <2>1, <2>3, <3>1 DEF StateOf, Exclusive, Running
  <2> QED BY <1>0, <1>1, <1>2, <1>4, <2>2, <2>3, WhatHoldersChange DEF StateOf
<1> QED BY <1>3, <1>4 DEF StepBy, Reading, Answering, Ending, Failing

\* Attempts stay their claimants'.
LEMMA StepsKeepOwners ==
  ASSUME DigestInv, OwnedOnce, NEW e \in Evaluators, StepBy(e)
  PROVE  OwnedOnce'
<1>0. ShapeOK /\ EvalsOK BY DEF DigestInv, ShapeOK
<1>1. \A f \in Evaluators \ {e} :
        /\ evals'[f] = evals[f] /\ (Holds(f)' <=> Holds(f))
        /\ Holds(f) => StateOf(f)' \in {"running", "abandoned"}
  <2>1. \A f \in Evaluators \ {e} : evals'[f] = evals[f] BY <1>0, OneMoves
  <2> QED BY <2>1, OthersKeepTheirAttempt DEF Holds
<1>2. Holds(e)' =>
        /\ StateOf(e)' \in {"running", "abandoned"}
        /\ \A f \in Evaluators \ {e} :
             Holds(f) => evals[f].attempt # evals'[e].attempt
  <2>1. CASE \/ List(e) \/ EvaluateScheduled(e) \/ ForceGenerate(e)
             \/ FindRunning(e) \/ Claim(e) \/ RecoverAndClaim(e)
    <3>1. CASE evals'[e].at \notin Held BY <3>1 DEF Holds
    <3>2. CASE Abandons(e) BY <3>2 DEF Abandons, Idle, Holds, Held
    <3>3. ASSUME NEW a \in Attempts, Takes(e, a)
          PROVE  /\ StateOf(e)' = "running" /\ evals'[e].attempt = a
                 /\ \A f \in Evaluators : Holds(f) => evals[f].attempt # a
      BY <3>3 DEF Takes, StateOf, OwnedOnce
    <3> QED BY <1>0, <2>1, <3>1, <3>2, <3>3, ClaimersTakeOrLeave
  <2>2. CASE Reading(e) \/ Answering(e) \/ Ending(e) \/ Failing(e)
    <3>1. ~Idle.at \in Held BY DEF Idle, Held
    <3>2. ASSUME Holds(e)'
          PROVE  Holds(e) /\ evals'[e].attempt = evals[e].attempt /\ attempts' = attempts
      BY <1>0, <2>2, <3>1, <3>2, HoldersKeepTheirAttempt, WhatHoldersChange DEF Holds
    <3> QED BY <3>2 DEF OwnedOnce, StateOf
  <2> QED BY <2>1, <2>2 DEF StepBy, Reading, Answering, Ending, Failing
<1> QED BY <1>1, <1>2 DEF OwnedOnce

LocalOK(e) == StageOK(e) /\ DropOK(e) /\ FoundedOK(e) /\ KeepOK(e)

\* A digest that e would have to spare if it were to suppress one.
Spared(e) == StateOf(e) = "running" /\ active # NoDigest /\ ~lapsed

\* Whoever does not move learns nothing that it would have to act on.
LEMMA UnmovedStayOK ==
  ASSUME lapsed \in BOOLEAN, Recorded, NEW f \in Evaluators, LocalOK(f),
         evals'[f] = evals[f],
         Holds(f) /\ StateOf(f)' = "running" =>
           StateOf(f) = "running" /\ active' \in {active, NoDigest}
  PROVE  LocalOK(f)'
<1>1. (Answered(f)' <=> Answered(f)) /\ (Holds(f)' <=> Holds(f))
  BY DEF Answered, Holds
<1>2. StageOK(f)' BY <1>1 DEF LocalOK, StageOK
<1>3. DropOK(f)' BY <1>1 DEF LocalOK, DropOK, Recorded
<1>4. evals[f].at # "idle" /\ f \in unfounded => f \in unfounded'
  BY DEF Recorded
<1>5. Answered(f) => evals[f].at # "idle" BY DEF LocalOK, StageOK
<1>6. FoundedOK(f)'
  BY <1>1, <1>4, <1>5 DEF LocalOK, FoundedOK, Recorded
<1>7. KeepOK(f)'
  <2>1. Spared(f)' /\ Holds(f) => Spared(f) /\ active' = active
    BY DEF Spared, Recorded
  <2>2. active' = active => (Fits(f)' <=> Fits(f)) BY DEF Fits
  <2> QED BY <1>1, <1>4, <2>1, <2>2 DEF LocalOK, KeepOK, Spared
<1> QED BY <1>2, <1>3, <1>6, <1>7 DEF LocalOK

\* An evaluation without an answer, and with nothing to hold against the
\* active digest.
LEMMA BlankIsOK ==
  ASSUME NEW e \in Evaluators, Recorded, ~Answered(e)',
         evals'[e].at # "activate",
         ~Holds(e)' => evals'[e].purpose = "input" /\ ~evals'[e].suppressed,
         Holds(e)' /\ Spared(e)' =>
           /\ ~evals'[e].suppressed
           /\ evals'[e].at = "settings" =>
                active'.inputs \subseteq evals'[e].profile.articles
           /\ evals'[e].at = "active" => Fits(e)'
           /\ evals'[e].at = "finish" /\ evals'[e].suppress => e \in unfounded'
  PROVE  LocalOK(e)'
<1>1. e \notin restyled' /\ e \notin withdrawn' BY DEF Recorded
<1>2. StageOK(e)' BY DEF StageOK
<1>3. DropOK(e)' BY <1>1 DEF DropOK
<1>4. FoundedOK(e)' BY DEF FoundedOK
<1>5. KeepOK(e)' BY DEF KeepOK, Spared
<1> QED BY <1>2, <1>3, <1>4, <1>5 DEF LocalOK

LEMMA ReturnsAreOK ==
  ASSUME NEW e \in Evaluators, Recorded, evals'[e] = Idle
  PROVE  LocalOK(e)'
<1>1. ~Answered(e)' /\ ~Holds(e)' /\ evals'[e].at # "activate"
      /\ evals'[e].purpose = "input" /\ ~evals'[e].suppressed
  BY DEF Answered, Holds, Held, Idle
<1> QED BY <1>1, BlankIsOK

LEMMA ConclusionsAreOK ==
  ASSUME EvalsOK, NEW e \in Evaluators, Recorded, NEW o, NEW b, Conclude(e, o, b),
         b /\ Spared(e)' => e \in unfounded'
  PROVE  LocalOK(e)'
<1>1. /\ evals'[e].at = "finish" /\ evals'[e].purpose = "input"
      /\ evals'[e].suppressed = FALSE /\ evals'[e].suppress = b
  BY DEF Conclude, Becomes, EvalsOK, Idle
<1>2. ~Answered(e)' /\ Holds(e)' BY <1>1 DEF Answered, Holds, Held
<1> QED BY <1>1, <1>2, BlankIsOK

LEMMA ClaimersStayOK ==
  ASSUME ShapeOK, NEW e \in Evaluators, Recorded, LocalOK(e),
         \/ List(e) \/ EvaluateScheduled(e) \/ ForceGenerate(e)
         \/ FindRunning(e) \/ Claim(e) \/ RecoverAndClaim(e)
  PROVE  LocalOK(e)'
<1>1. evals[e].purpose = "input" /\ ~evals[e].suppressed
  BY ClaimersTakeOrLeave DEF LocalOK, StageOK
<1>2. CASE evals'[e] = Idle BY <1>2, ReturnsAreOK
<1>3. ASSUME evals'[e].purpose = evals[e].purpose,
             evals'[e].suppressed = evals[e].suppressed,
             evals'[e].at \notin Held \/ evals'[e].at = "snapshot"
      PROVE  LocalOK(e)'
  <2>1. /\ evals'[e].purpose = "input" /\ ~evals'[e].suppressed
        /\ evals'[e].at \notin {"activate", "settings", "active", "finish"}
    BY <1>1, <1>3 DEF Held
  <2>2. ~Answered(e)' BY <2>1 DEF Answered
  <2> QED BY <2>1, <2>2, BlankIsOK
<1> QED BY <1>2, <1>3, ClaimersTakeOrLeave DEF Abandons, Takes

\* What the history says of the digest after a step that leaves it.
LEMMA SparedBefore ==
  ASSUME EvalsOK, lapsed \in BOOLEAN, Recorded, NEW e \in Evaluators,
         UNCHANGED <<world, tables>>, Spared(e)',
         evals'[e].attempt = evals[e].attempt
  PROVE  Spared(e) /\ Sanctioned(active, profile, settings)
<1>1. active' = active /\ profile' = profile /\ settings' = settings /\ attempts' = attempts
  BY DEF world, tables
<1>2. active' # NoDigest /\ ~lapsed' /\ StateOf(e) = "running"
  BY <1>1 DEF Spared, StateOf
<1>3. Sanctioned(active', profile', settings') /\ ~lapsed
  BY <1>1, <1>2 DEF Recorded
<1> QED BY <1>1, <1>2, <1>3 DEF Spared

LEMMA SnapshotsStayOK ==
  ASSUME ShapeOK, lapsed \in BOOLEAN, Recorded, NEW e \in Evaluators, LocalOK(e),
         ReadSnapshot(e)
  PROVE  LocalOK(e)'
<1>0. /\ evals[e] \in Eval /\ evals \in [Evaluators -> Eval] /\ EvalsOK
      /\ UNCHANGED <<world, tables>> /\ profile' = profile /\ evals[e].at = "snapshot"
      /\ Holds(e)
  BY DEF ShapeOK, EvalsOK, ReadSnapshot, world, Holds, Held
<1>1. CASE ~profile.live
  <2>1. PICK o : Conclude(e, o, TRUE) BY <1>1 DEF ReadSnapshot
  <2>2. evals'[e].attempt = evals[e].attempt
    BY <1>0, <2>1 DEF Conclude, Becomes, Idle
  <2>3. ~Spared(e)' BY <1>0, <1>1, <2>2, SparedBefore DEF Sanctioned
  <2> QED BY <1>0, <2>1, <2>3, ConclusionsAreOK
<1>2. CASE profile.live
  <2>1. /\ evals'[e].at = "settings" /\ evals'[e].profile = profile'
        /\ evals'[e].purpose = evals[e].purpose
        /\ evals'[e].suppressed = evals[e].suppressed
        /\ evals'[e].attempt = evals[e].attempt
        /\ evals'[e].inputs = evals[e].inputs
    <3> DEFINE r == [evals[e] EXCEPT !.at = "settings", !.profile = profile]
    <3>1. Becomes(e, r) BY <1>2 DEF ReadSnapshot
    <3>2. evals'[e] = r BY <1>0, <3>1 DEF Becomes
    <3>3. /\ r.at = "settings" /\ r.profile = profile /\ r.purpose = evals[e].purpose
          /\ r.suppressed = evals[e].suppressed /\ r.attempt = evals[e].attempt
          /\ r.inputs = evals[e].inputs
      BY <1>0 DEF Eval
    <3> HIDE DEF r
    <3> QED BY <1>0, <3>2, <3>3
  <2>2. Holds(e)' /\ (Answered(e)' <=> Answered(e)) BY <2>1 DEF Holds, Held, Answered
  <2>3. StageOK(e)' BY <2>1, <2>2 DEF StageOK
  <2>4. DropOK(e)' BY <2>1, <2>2 DEF DropOK, Recorded
  <2>5. FoundedOK(e)' BY <2>1, <2>2 DEF FoundedOK, Recorded, Sanctioned
  <2>6. Spared(e)' => ~evals[e].suppressed /\ active'.inputs \subseteq profile.articles
    BY <1>0, <2>1, SparedBefore
       DEF LocalOK, KeepOK, Spared, Sanctioned, world, tables
  <2>7. KeepOK(e)' BY <1>0, <2>1, <2>2, <2>6 DEF KeepOK, Spared
  <2> QED BY <2>3, <2>4, <2>5, <2>7 DEF LocalOK
<1> QED BY <1>1, <1>2

\* The verdict before a provider call, or after one that failed.
LEMMA InputsStayOK ==
  ASSUME ShapeOK, lapsed \in BOOLEAN, Recorded, NEW e \in Evaluators, LocalOK(e),
         evals[e].at = "settings", UNCHANGED <<world, tables>>, ~Answered(e),
         InputRead(e) \/ FailureJudged(e)
  PROVE  LocalOK(e)'
<1>0. /\ evals[e] \in Eval /\ evals \in [Evaluators -> Eval] /\ EvalsOK
      /\ Holds(e) /\ active' = active
  BY DEF ShapeOK, EvalsOK, Holds, Held, tables
<1>1. Spared(e)' /\ evals'[e].attempt = evals[e].attempt =>
        /\ Spared(e) /\ ~evals[e].suppressed /\ settings.enabled
        /\ active.inputs \subseteq evals[e].profile.articles
        /\ active.inputs \intersect Bounded(e) # {}
  BY <1>0, SparedBefore DEF LocalOK, KeepOK, Spared, Sanctioned, Bounded
<1>2. ASSUME NEW o, Conclude(e, o, TRUE), ~settings.enabled \/ Bounded(e) = {}
      PROVE  LocalOK(e)'
  <2>1. evals'[e].attempt = evals[e].attempt
    BY <1>0, <1>2 DEF Conclude, Becomes, Idle
  <2>2. ~Spared(e)' BY <1>1, <1>2, <2>1
  <2> QED BY <1>0, <1>2, <2>2, ConclusionsAreOK
<1>3. ASSUME NEW r, Becomes(e, r), r.at = "active", r.inputs = Bounded(e),
             r.purpose = evals[e].purpose, r.suppressed = evals[e].suppressed,
             r.attempt = evals[e].attempt, r.profile = evals[e].profile
      PROVE  LocalOK(e)'
  <2>1. evals'[e] = r BY <1>0, <1>3 DEF Becomes
  <2>2. ~Answered(e)' /\ Holds(e)' BY <1>3, <2>1 DEF Answered, Holds, Held
  <2>3. Spared(e)' => ~evals'[e].suppressed /\ Fits(e)'
    BY <1>0, <1>1, <1>3, <2>1 DEF Fits
  <2> QED BY <1>3, <2>1, <2>2, <2>3, BlankIsOK
<1>4. CASE InputRead(e)
  <2> DEFINE r == [evals[e] EXCEPT !.at = "active", !.style = settings.style,
                                   !.inputs = Bounded(e)]
  <2>1. /\ r.at = "active" /\ r.inputs = Bounded(e)
        /\ r.purpose = evals[e].purpose /\ r.suppressed = evals[e].suppressed
        /\ r.attempt = evals[e].attempt /\ r.profile = evals[e].profile
    BY <1>0 DEF Eval
  <2>2. CASE Becomes(e, r)
    <3> HIDE DEF r
    <3> QED BY <1>3, <2>1, <2>2
  <2> QED BY <1>2, <1>4, <2>2 DEF InputRead
<1>5. CASE FailureJudged(e)
  <2> DEFINE r == [evals[e] EXCEPT !.at = "active", !.inputs = Bounded(e)]
  <2>1. /\ r.at = "active" /\ r.inputs = Bounded(e)
        /\ r.purpose = evals[e].purpose /\ r.suppressed = evals[e].suppressed
        /\ r.attempt = evals[e].attempt /\ r.profile = evals[e].profile
    BY <1>0 DEF Eval
  <2>2. CASE Becomes(e, r)
    <3> HIDE DEF r
    <3> QED BY <1>3, <2>1, <2>2
  <2> QED BY <1>2, <1>5, <2>2 DEF FailureJudged
<1> QED BY <1>4, <1>5

\* The verdict on an answer.
LEMMA CandidatesStayOK ==
  ASSUME ShapeOK, lapsed \in BOOLEAN, Recorded, NEW e \in Evaluators, LocalOK(e),
         evals[e].at = "settings", UNCHANGED <<world, tables>>, Answered(e),
         CandidateJudged(e)
  PROVE  LocalOK(e)'
<1>0. /\ evals[e] \in Eval /\ evals \in [Evaluators -> Eval] /\ EvalsOK
      /\ Holds(e) /\ settings' = settings /\ profile' = profile
  BY DEF ShapeOK, EvalsOK, Holds, Held, world
<1>1. Spared(e)' /\ evals'[e].attempt = evals[e].attempt => ~evals[e].suppressed
  BY <1>0, SparedBefore DEF LocalOK, KeepOK, Spared
<1>2. CASE \/ ~settings.enabled
           \/ ~(evals[e].inputs \subseteq evals[e].profile.articles)
           \/ evals[e].inputs \intersect Bounded(e) = {}
  <2>1. e \in unfounded
    BY <1>2 DEF LocalOK, FoundedOK, Sanctioned, Bounded
  <2>2. Conclude(e, "failed", TRUE) BY <1>2 DEF CandidateJudged
  <2>3. evals'[e].at = "finish" BY <1>0, <2>2 DEF Conclude, Becomes, Idle
  <2>4. e \in unfounded' BY <2>1, <2>3 DEF Recorded
  <2> QED BY <1>0, <2>2, <2>4, ConclusionsAreOK
<1>3. CASE Conclude(e, "failed", evals[e].suppressed)
  <2>1. evals'[e].attempt = evals[e].attempt
    BY <1>0, <1>3 DEF Conclude, Becomes, Idle
  <2> QED BY <1>0, <1>1, <1>3, <2>1, ConclusionsAreOK
<1>4. ASSUME Goto(e, "activate"), evals[e].style = settings.style,
             evals[e].inputs \subseteq evals[e].profile.articles
      PROVE  LocalOK(e)'
  <2>1. /\ evals'[e].at = "activate" /\ evals'[e].purpose = evals[e].purpose
        /\ evals'[e].suppressed = evals[e].suppressed
        /\ evals'[e].attempt = evals[e].attempt
        /\ evals'[e].style = evals[e].style /\ evals'[e].inputs = evals[e].inputs
    BY <1>0, <1>4 DEF Goto, Becomes, Eval
  <2>2. Answered(e)' /\ Holds(e)' BY <2>1 DEF Answered, Holds, Held
  <2>3. e \notin restyled' /\ e \notin withdrawn'
    BY <1>0, <1>4, <2>1 DEF Recorded, LocalOK, DropOK
  <2>4. StageOK(e)' /\ DropOK(e)' BY <2>1, <2>2, <2>3 DEF StageOK, DropOK
  <2>5. FoundedOK(e)' BY <2>1, <2>2 DEF FoundedOK, Recorded
  <2>6. KeepOK(e)' BY <1>1, <2>1 DEF KeepOK, Spared
  <2> QED BY <2>4, <2>5, <2>6 DEF LocalOK
<1> QED BY <1>2, <1>3, <1>4 DEF CandidateJudged

\* The look at the active digest, and what follows it.
LEMMA LooksStayOK ==
  ASSUME ShapeOK, lapsed \in BOOLEAN, Recorded, NEW e \in Evaluators, LocalOK(e),
         ReadActive(e)
  PROVE  LocalOK(e)'
<1>0. /\ evals[e] \in Eval /\ evals \in [Evaluators -> Eval] /\ EvalsOK
      /\ Holds(e) /\ UNCHANGED <<world, tables>> /\ evals[e].at = "active"
      /\ active' = active
  BY DEF ShapeOK, EvalsOK, ReadActive, Holds, Held, tables
<1>1. ~Answered(e) BY <1>0 DEF LocalOK, StageOK
<1>2. Spared(e)' /\ evals'[e].attempt = evals[e].attempt =>
        ~evals[e].suppressed /\ Fits(e) /\ active # NoDigest
  BY <1>0, SparedBefore DEF LocalOK, KeepOK, Spared
<1>3. ASSUME NEW o, NEW b, Conclude(e, o, b), ~(b /\ active # NoDigest /\ Fits(e))
      PROVE  LocalOK(e)'
  <2>1. evals'[e].attempt = evals[e].attempt
    BY <1>0, <1>3 DEF Conclude, Becomes, Idle
  <2> QED BY <1>0, <1>2, <1>3, <2>1, ConclusionsAreOK
<1>4. CASE Conclude(e, "failed", active # NoDigest /\ ~Fits(e))
  BY <1>3, <1>4
<1>5. CASE Conclude(e, "skipped_unchanged", FALSE)
  BY <1>3, <1>5
<1>6. CASE CallProvider(e)
  <2>1. /\ evals'[e].at = "provider" /\ evals'[e].purpose = evals[e].purpose
        /\ evals'[e].suppressed = evals[e].suppressed
        /\ evals'[e].attempt = evals[e].attempt
    BY <1>0, <1>6 DEF CallProvider, Becomes, Eval
  <2>2. ~Answered(e)' /\ Holds(e)' BY <1>1, <2>1 DEF Answered, Holds, Held
  <2> QED BY <1>2, <2>1, <2>2, BlankIsOK
<1>7. CASE /\ ~Fits(e)
           /\ Becomes(e, [evals[e] EXCEPT !.at = "suppress", !.suppressed = TRUE])
  <2>1. /\ evals'[e].at = "suppress" /\ evals'[e].purpose = evals[e].purpose
        /\ evals'[e].attempt = evals[e].attempt
    BY <1>0, <1>7 DEF Becomes, Eval
  <2>2. ~Answered(e)' /\ Holds(e)' BY <1>1, <2>1 DEF Answered, Holds, Held
  <2>3. ~Spared(e)' BY <1>2, <1>7, <2>1
  <2> QED BY <2>1, <2>2, <2>3, BlankIsOK
<1> QED BY <1>4, <1>5, <1>6, <1>7 DEF ReadActive

LEMMA AnswerersStayOK ==
  ASSUME ShapeOK, lapsed \in BOOLEAN, Recorded, NEW e \in Evaluators, LocalOK(e),
         Answering(e)
  PROVE  LocalOK(e)'
<1>0. /\ evals[e] \in Eval /\ evals \in [Evaluators -> Eval] /\ EvalsOK
      /\ Holds(e) /\ evals[e].at \in {"suppress", "provider"} /\ ~Answered(e)
  BY DEF ShapeOK, EvalsOK, Answering, Suppress, ProviderAnswers, ProviderFails,
         Holds, Held, LocalOK, StageOK
<1>1. CASE Suppress(e)
  <2>1. active' = NoDigest /\ CallProvider(e) BY <1>1 DEF Suppress
  <2>2. evals'[e].at = "provider" /\ evals'[e].purpose = evals[e].purpose
    BY <1>0, <2>1 DEF CallProvider, Becomes, Eval
  <2>3. ~Answered(e)' /\ Holds(e)' BY <1>0, <2>2 DEF Answered, Holds, Held
  <2>4. ~Spared(e)' BY <2>1 DEF Spared
  <2> QED BY <2>2, <2>3, <2>4, BlankIsOK
<1>2. Spared(e)' /\ evals'[e].attempt = evals[e].attempt
        /\ UNCHANGED <<world, tables>> => ~evals[e].suppressed
  BY <1>0, SparedBefore DEF LocalOK, KeepOK, Spared
<1>3. CASE ProviderAnswers(e)
  <2> DEFINE r == [evals[e] EXCEPT !.at = "snapshot", !.purpose = "candidate",
                                   !.calledAt = 0]
  <2>1. Becomes(e, r) /\ UNCHANGED <<world, tables>> BY <1>3 DEF ProviderAnswers
  <2>2. evals'[e] = r BY <1>0, <2>1 DEF Becomes
  <2>3. /\ r.at = "snapshot" /\ r.purpose = "candidate"
        /\ r.suppressed = evals[e].suppressed /\ r.attempt = evals[e].attempt
    BY <1>0 DEF Eval
  <2> HIDE DEF r
  <2>4. Answered(e)' /\ Holds(e)' BY <2>2, <2>3 DEF Answered, Holds, Held
  <2>5. StageOK(e)' BY <2>2, <2>3, <2>4 DEF StageOK
  <2>6. DropOK(e)' BY <2>2, <2>3, <2>4 DEF DropOK
  <2>7. FoundedOK(e)' BY <2>2, <2>3, <2>4 DEF FoundedOK, Recorded
  <2>8. KeepOK(e)' BY <1>2, <2>1, <2>2, <2>3 DEF KeepOK, Spared
  <2> QED BY <2>5, <2>6, <2>7, <2>8 DEF LocalOK
<1>4. CASE ProviderFails(e)
  <2>1. UNCHANGED <<world, tables>> BY <1>4 DEF ProviderFails
  <2>2. CASE evals[e].suppressed
    <3>1. Conclude(e, "failed", TRUE) BY <1>4, <2>2 DEF ProviderFails
    <3>2. evals'[e].attempt = evals[e].attempt
      BY <1>0, <3>1 DEF Conclude, Becomes, Idle
    <3> QED BY <1>0, <1>2, <2>1, <2>2, <3>1, <3>2, ConclusionsAreOK
  <2>3. CASE ~evals[e].suppressed
    <3> DEFINE r == [evals[e] EXCEPT !.at = "snapshot", !.inputs = {},
                                     !.purpose = "afterFailure",
                                     !.style = Idle.style, !.calledAt = 0]
    <3>1. evals'[e] = r BY <1>0, <1>4, <2>3 DEF ProviderFails, Becomes
    <3>2. /\ r.at = "snapshot" /\ r.purpose = "afterFailure"
          /\ r.suppressed = evals[e].suppressed
      BY <1>0 DEF Eval
    <3> HIDE DEF r
    <3>3. ~Answered(e)' /\ Holds(e)' BY <3>1, <3>2 DEF Answered, Holds, Held
    <3> QED BY <2>3, <3>1, <3>2, <3>3, BlankIsOK
  <2> QED BY <2>2, <2>3
<1> QED BY <1>1, <1>3, <1>4 DEF Answering

LEMMA EndersStayOK ==
  ASSUME ShapeOK, lapsed \in BOOLEAN, Recorded, NEW e \in Evaluators, LocalOK(e),
         Ending(e) \/ Failing(e)
  PROVE  LocalOK(e)'
<1>0. evals[e] \in Eval /\ evals \in [Evaluators -> Eval] /\ EvalsOK
  BY DEF ShapeOK, EvalsOK
<1>1. CASE Return(e) \/ Crash(e) \/ Finish(e)
  <2>1. evals'[e] = Idle BY <1>0, <1>1 DEF Return, Crash, Finish, Becomes
  <2> QED BY <2>1, ReturnsAreOK
<1>2. ASSUME Holds(e), UNCHANGED <<world, tables>>, Conclude(e, "failed", FALSE)
      PROVE  LocalOK(e)'
  BY <1>0, <1>2, ConclusionsAreOK
<1>3. ASSUME Holds(e), UNCHANGED <<world, tables>>,
             Conclude(e, "failed", evals[e].suppressed)
      PROVE  LocalOK(e)'
  <2>1. evals'[e].attempt = evals[e].attempt
    BY <1>0, <1>3 DEF Conclude, Becomes, Idle
  <2>2. Spared(e)' => ~evals[e].suppressed
    BY <1>0, <1>3, <2>1, SparedBefore DEF LocalOK, KeepOK, Spared
  <2> QED BY <1>0, <1>3, <2>2, ConclusionsAreOK
<1>4. CASE Activate(e)
  <2>1. Holds(e) BY <1>4 DEF Activate, Holds, Held
  <2> QED BY <1>1, <1>3, <1>4, <2>1 DEF Activate
<1>5. CASE StatementFails(e)
  BY <1>1, <1>2, <1>3, <1>5 DEF StatementFails, Holds, Held
<1>6. CASE ActiveUnreadable(e)
  <2>1. /\ evals[e].at = "active" /\ evals[e].purpose = "input" /\ Goto(e, "suppress")
        /\ UNCHANGED <<world, tables>>
    BY <1>6 DEF ActiveUnreadable
  <2>2. /\ evals'[e].at = "suppress" /\ evals'[e].purpose = "input"
        /\ evals'[e].suppressed = evals[e].suppressed
        /\ evals'[e].attempt = evals[e].attempt
    BY <1>0, <2>1 DEF Goto, Becomes, Eval
  <2>3. ~Answered(e)' /\ Holds(e)' /\ Holds(e)
    BY <2>1, <2>2 DEF Answered, Holds, Held
  <2>4. Spared(e)' => ~evals[e].suppressed
    BY <1>0, <2>1, <2>2, <2>3, SparedBefore DEF LocalOK, KeepOK, Spared
  <2> QED BY <2>2, <2>3, <2>4, BlankIsOK
<1> QED BY <1>1, <1>4, <1>5, <1>6 DEF Ending, Failing

\* Whatever step e takes, it stays as it should be.
LEMMA MoversStayOK ==
  ASSUME ShapeOK, lapsed \in BOOLEAN, Recorded, NEW e \in Evaluators, LocalOK(e),
         StepBy(e)
  PROVE  LocalOK(e)'
<1>1. CASE ReadSettings(e)
  <2>1. /\ evals[e].at = "settings" /\ UNCHANGED <<world, tables>>
        /\ evals[e].purpose \in Purposes
    BY <1>1 DEF ReadSettings, ShapeOK, EvalsOK, Eval
  <2>2. \/ ~Answered(e) /\ (InputRead(e) \/ FailureJudged(e))
        \/ Answered(e) /\ CandidateJudged(e)
    BY <1>1, <2>1 DEF ReadSettings, Purposes, Answered
  <2> QED BY <2>1, <2>2, InputsStayOK, CandidatesStayOK
<1> QED BY <1>1, ClaimersStayOK, SnapshotsStayOK, LooksStayOK, AnswerersStayOK,
           EndersStayOK DEF StepBy, Answering, Ending, Failing

LEMMA HistoryIsADigest == HistorySpec => DigestSpec
<1>1. HistoryInit => DigestInit BY DEF HistoryInit
<1>2. [HistoryNext]_<<vars, histories>> => [DigestNext]_vars
  BY DEF HistoryNext
<1> QED BY <1>1, <1>2, PTL DEF HistorySpec, DigestSpec

LEMMA InitialHistory == DigestInv /\ HistoryInit => HistoryInv
<1> SUFFICES ASSUME DigestInv, HistoryInit PROVE HistoryInv
  OBVIOUS
<1>1. /\ lapsed = FALSE /\ restyled = {} /\ withdrawn = {} /\ active = NoDigest
      /\ \A e \in Evaluators : evals[e] = Idle
  BY DEF HistoryInit, NoHistory, DigestInit
<1>2. \A e \in Evaluators : /\ ~Holds(e) /\ ~Answered(e) /\ evals[e].at # "activate"
                            /\ evals[e].purpose = "input" /\ ~evals[e].suppressed
  BY <1>1 DEF Holds, Held, Answered, Idle
<1>3. \A e \in Evaluators : StageOK(e) /\ DropOK(e) BY <1>1, <1>2 DEF StageOK, DropOK
<1>4. \A e \in Evaluators : FoundedOK(e) /\ KeepOK(e) BY <1>1, <1>2 DEF FoundedOK, KeepOK
<1>5. LapseOK /\ OwnedOnce BY <1>1, <1>2 DEF LapseOK, OwnedOnce
<1> QED BY <1>1, <1>3, <1>4, <1>5 DEF HistoryInv

LEMMA StepsKeepHistory ==
  ASSUME DigestInv, HistoryInv, HistoryNext
  PROVE  HistoryInv'
<1>0. /\ lapsed \in BOOLEAN /\ OwnedOnce /\ Recorded /\ ShapeOK /\ EvalsOK
      /\ \A e \in Evaluators : LocalOK(e)
  BY DEF HistoryInv, HistoryNext, DigestInv, ShapeOK, LocalOK
<1>1. /\ lapsed' \in BOOLEAN /\ (restyled \union withdrawn)' \subseteq Evaluators
      /\ LapseOK'
  BY DEF HistoryNext, Recorded, LapseOK
<1>2. CASE UNCHANGED <<attempts, active, evals>>
  <2>1. \A f \in Evaluators : evals'[f] = evals[f] /\ StateOf(f)' = StateOf(f)
    BY <1>2 DEF StateOf
  <2>2. OwnedOnce' BY <1>0, <1>2, <2>1 DEF OwnedOnce, Holds
  <2>3. \A f \in Evaluators : LocalOK(f)' BY <1>0, <1>2, <2>1, UnmovedStayOK
  <2> QED BY <1>1, <2>2, <2>3 DEF HistoryInv, LocalOK
<1>3. ASSUME NEW e \in Evaluators, StepBy(e) PROVE HistoryInv'
  <2>1. OwnedOnce' BY <1>0, <1>3, StepsKeepOwners
  <2>2. LocalOK(e)' BY <1>0, <1>3, MoversStayOK
  <2>3. ASSUME NEW f \in Evaluators \ {e} PROVE LocalOK(f)'
    <3>1. evals'[f] = evals[f] BY <1>0, <1>3, OneMoves
    <3>2. Holds(f) /\ StateOf(f)' = "running" =>
            StateOf(f) = "running" /\ active' \in {active, NoDigest}
      BY <1>0, <1>3, OthersKeepTheirAttempt
    <3> QED BY <1>0, <3>1, <3>2, UnmovedStayOK
  <2>4. \A f \in Evaluators : LocalOK(f)' BY <2>2, <2>3
  <2> QED BY <1>1, <2>1, <2>4 DEF HistoryInv, LocalOK
<1> QED BY <1>2, <1>3, NextIsAStep DEF HistoryNext

LEMMA HistoryInvariant == HistorySpec => [](DigestInv /\ HistoryInv)
<1>1. HistorySpec => []DigestInv BY HistoryIsADigest, DigestInvariant
<1>2. DigestInv /\ HistoryInit => HistoryInv BY InitialHistory
<1>3. DigestInv /\ HistoryInv /\ [HistoryNext]_<<vars, histories>> => HistoryInv'
  <2>1. CASE HistoryNext BY <2>1, StepsKeepHistory
  <2>2. ASSUME HistoryInv, UNCHANGED <<vars, histories>> PROVE HistoryInv'
    <3>1. /\ evals' = evals /\ attempts' = attempts /\ active' = active
          /\ profile' = profile /\ settings' = settings /\ lapsed' = lapsed
          /\ restyled' = restyled /\ withdrawn' = withdrawn /\ unfounded' = unfounded
      BY <2>2 DEF vars, histories
    <3>2. ASSUME NEW e \in Evaluators PROVE LocalOK(e)' <=> LocalOK(e)
      BY <3>1 DEF LocalOK, StageOK, DropOK, FoundedOK, KeepOK, Answered, Holds,
                  StateOf, Fits
    <3>3. (OwnedOnce' <=> OwnedOnce) /\ (LapseOK' <=> LapseOK)
      BY <3>1 DEF OwnedOnce, LapseOK, Holds, StateOf
    <3> QED BY <2>2, <3>1, <3>2, <3>3 DEF HistoryInv, LocalOK
  <2> QED BY <2>1, <2>2
<1> QED BY <1>1, <1>2, <1>3, PTL DEF HistorySpec

\* An answer that the settings or the articles have contradicted ever since
\* it was given is not activated, whatever the other evaluations do: the two
\* statements that judge it see what contradicts it.
THEOREM ContradictedAnswersAreDroppedHolds ==
  HistorySpec => ContradictedAnswersAreDropped
<1>1. DigestInv /\ HistoryInv /\ [HistoryNext]_<<vars, histories>> =>
        \/ \A e \in restyled \union withdrawn : evals[e].attempt # active'.attempt
        \/ UNCHANGED <<vars, histories>>
  <2> SUFFICES ASSUME DigestInv, HistoryInv, HistoryNext,
                      NEW e \in restyled \union withdrawn
               PROVE  evals[e].attempt # active'.attempt
    OBVIOUS
  <2>1. e \in Evaluators /\ Holds(e) /\ evals[e].at # "activate"
    BY DEF HistoryInv, DropOK, StageOK, Holds, Held
  <2>2. evals[e].attempt \in Attempts /\ ShapeOK /\ StateOf(e) # "success"
    BY <2>1 DEF DigestInv, ShapeOK, EvalsOK, PastClaim, Holds, Held, HistoryInv,
                OwnedOnce
  <2>3. active # NoDigest => attempts[active.attempt].state = "success"
    BY DEF DigestInv, ActiveDigestSucceeded
  <2>4. NoDigest.attempt \notin Attempts BY NoAttemptAssumption DEF NoDigest
  <2>5. CASE active' \in {active, NoDigest}
    BY <2>2, <2>3, <2>4, <2>5 DEF StateOf
  <2>6. ASSUME NEW f \in Evaluators, Activate(f), active' = Draft(f)
        PROVE  evals[e].attempt # active'.attempt
    <3>1. Holds(f) /\ f # e BY <2>1, <2>6 DEF Activate, Holds, Held
    <3> QED BY <2>1, <2>6, <3>1 DEF Draft, HistoryInv, OwnedOnce
  <2>7. \/ active' \in {active, NoDigest}
        \/ \E f \in Evaluators : Activate(f) /\ active' = Draft(f)
    <3>1. CASE UNCHANGED <<attempts, active, evals>> BY <3>1
    <3>2. ASSUME NEW f \in Evaluators, StepBy(f)
          PROVE  \/ active' \in {active, NoDigest}
                 \/ Activate(f) /\ active' = Draft(f)
      <4>1. CASE \/ List(f) \/ EvaluateScheduled(f) \/ ForceGenerate(f)
                 \/ FindRunning(f) \/ Claim(f) \/ RecoverAndClaim(f)
        BY <2>2, <4>1, ClaimersTakeOrLeave DEF tables, Abandons, Takes
      <4>2. CASE Reading(f) \/ Answering(f) \/ Failing(f)
        BY <4>2 DEF Reading, ReadSnapshot, ReadSettings, ReadActive, Answering,
           Suppress, ProviderAnswers, ProviderFails, Failing, StatementFails,
           ActiveUnreadable, Crash, tables
      <4>3. CASE Activate(f) \/ Finish(f) BY <4>3 DEF Activate, Finish, tables
      <4> QED BY <3>2, <4>1, <4>2, <4>3 DEF StepBy, Reading, Answering, Failing
    <3> QED BY <3>1, <3>2, NextIsAStep DEF HistoryNext
  <2> QED BY <2>5, <2>6, <2>7
<1> QED BY <1>1, HistoryInvariant, PTL DEF HistorySpec, ContradictedAnswersAreDropped

\* A digest that the Profile has sanctioned ever since it was activated is
\* suppressed only by an evaluation whose own answer was not sanctioned for a
\* while, by one that was overtaken, or by one that could not read it.
THEOREM SanctionedDigestSurvivesHolds ==
  HistorySpec => SanctionedDigestSurvives
<1> DEFINE Excused(e) == /\ evals'[e] # evals[e]
                         /\ \/ e \in unfounded
                            \/ attempts[evals[e].attempt].state = "abandoned"
                            \/ evals[e].at = "suppress" /\ ~evals[e].suppressed
<1>1. DigestInv /\ HistoryInv /\ [HistoryNext]_<<vars, histories>> =>
        \/ SanctionedDigestGoes => \E e \in Evaluators : Excused(e)
        \/ UNCHANGED <<vars, histories>>
  <2> SUFFICES ASSUME DigestInv, HistoryInv, HistoryNext, SanctionedDigestGoes
               PROVE  \E e \in Evaluators : Excused(e)
    OBVIOUS
  <2>0. ShapeOK /\ EvalsOK /\ active' # active
    BY DEF DigestInv, ShapeOK, SanctionedDigestGoes
  <2>1. PICK e \in Evaluators : StepBy(e)
    BY <2>0, NextIsAStep DEF HistoryNext
  <2>2. Suppress(e) \/ Activate(e) \/ Finish(e)
    <3>1. CASE \/ List(e) \/ EvaluateScheduled(e) \/ ForceGenerate(e)
               \/ FindRunning(e) \/ Claim(e) \/ RecoverAndClaim(e)
      BY <2>0, <3>1, ClaimersTakeOrLeave DEF tables, Abandons, Takes
    <3>2. CASE Reading(e) \/ ProviderAnswers(e) \/ ProviderFails(e) \/ Failing(e)
      BY <2>0, <3>2 DEF Reading, ReadSnapshot, ReadSettings, ReadActive,
         ProviderAnswers, ProviderFails, Failing, StatementFails,
         ActiveUnreadable, Crash, tables
    <3> QED BY <2>1, <3>1, <3>2 DEF StepBy, Reading, Failing
  <2>3. /\ Holds(e) /\ evals[e].attempt \in Attempts /\ KeepOK(e)
        /\ StateOf(e) \in {"running", "abandoned"}
    BY <2>0, <2>2 DEF Suppress, Activate, Finish, Holds, Held, HistoryInv, EvalsOK,
                      PastClaim, OwnedOnce
  <2>4. StateOf(e) = "running" /\ evals[e].at = "finish" /\ evals[e].suppress =>
          e \in unfounded
    BY <2>3 DEF KeepOK, SanctionedDigestGoes
  <2>5. StateOf(e) = "running" => ~evals[e].suppressed
    BY <2>3 DEF KeepOK, SanctionedDigestGoes
  <2>6. CASE Suppress(e)
    <3>1. evals[e].at = "suppress" /\ evals'[e].at = "provider"
      BY <2>0, <2>6 DEF Suppress, CallProvider, Becomes, EvalsOK, Eval
    <3> QED BY <2>3, <2>5, <3>1 DEF StateOf
  <2>7. CASE Activate(e)
    <3>1. active' \in {active, Draft(e)} BY <2>7 DEF Activate, tables
    <3>2. Draft(e) # NoDigest
      BY <2>3, NoAttemptAssumption DEF Draft, NoDigest
    <3> QED BY <2>0, <3>1, <3>2 DEF SanctionedDigestGoes
  <2>8. CASE Finish(e)
    <3>1. evals[e].at = "finish" /\ evals'[e].at = "idle"
      BY <2>0, <2>8 DEF Finish, Return, Becomes, EvalsOK, Idle
    <3>2. StillRunning(e) /\ evals[e].suppress
      BY <2>0, <2>8 DEF Finish, tables
    <3> QED BY <2>4, <3>1, <3>2 DEF StillRunning, StateOf
  <2> QED BY <2>2, <2>6, <2>7, <2>8
<1> QED BY <1>1, HistoryInvariant, PTL DEF HistorySpec, SanctionedDigestSurvives
=============================================================================
