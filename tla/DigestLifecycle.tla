--------------------------- MODULE DigestLifecycle ---------------------------
(***************************************************************************)
(* The AI digest of one Profile: the evaluations of                        *)
(* distribution/digests/lifecycle.ts over the tables of                    *)
(* distribution/digests/repository.ts.  Profiles share nothing, so one is  *)
(* enough.                                                                 *)
(*                                                                         *)
(* An evaluation is a sequence of awaited statements with one provider     *)
(* call among them; each await is a step, because other evaluations (of    *)
(* other Workers, or forced by an administrator), administrators and       *)
(* collection change the tables in between.  A transaction that takes the  *)
(* Profile's lifecycle lock is one step.                                   *)
(***************************************************************************)
EXTENDS Integers, FiniteSets

CONSTANTS Evaluators,  \* concurrent calls of evaluate()
          Attempts,    \* attempt ids
          NoAttempt,
          Articles,
          Styles,      \* the settings that digestInputIdentity hashes
          SlotLength,  \* half a day
          Timeout,     \* GEMINI_DIGEST_TIMEOUT_MILLISECONDS
          Margin,      \* DIGEST_STALE_RUNNING_ATTEMPT_MARGIN_MILLISECONDS
          Faults,      \* "stall": a statement may take any time;
                       \* "unreadable": reading the active digest may fail
          MaxTime,     \* bound on the clock
          MaxChanges,  \* bound on changes of the Profile's governed state
          MaxFailures  \* bound on crashes and failed statements

ASSUME NoAttemptAssumption == NoAttempt \notin Attempts
ASSUME StylesAssumption == Styles # {}
ASSUME ClockAssumption ==
  /\ SlotLength \in Nat \ {0} /\ Timeout \in Nat \ {0} /\ Margin \in Nat \ {0}
  /\ MaxTime \in Nat /\ MaxChanges \in Nat /\ MaxFailures \in Nat
ASSUME FaultsAssumption == Faults \subseteq {"stall", "unreadable"}

VARIABLES now,
          profile,   \* what the canonical snapshot shows: lifecycle, articles
          settings,  \* the Profile's AI settings
          changes,   \* how often profile and settings have changed
          failures,  \* how many crashes and failed statements there were
          attempts,  \* distribution_profile_digest_attempts
          active,    \* distribution_profile_active_digests, with its generation
          evals      \* where each evaluation stands, and its locals

tables == <<attempts, active>>
world == <<now, profile, settings, changes>>
vars == <<now, profile, settings, changes, failures, attempts, active, evals>>

Manual == -1          \* the slot of an evaluation that has none
NoDigest == [attempt |-> NoAttempt, style |-> CHOOSE s \in Styles : TRUE,
             inputs |-> {}]
Outcomes == {"success", "skipped_disabled", "skipped_no_input",
             "skipped_unchanged", "failed", "abandoned"}
\* What an evaluation may complete its attempt with: only recovery abandons.
CompletionOutcomes == Outcomes \ {"abandoned"}
Stages == {"idle", "listed", "find", "claim", "recover", "snapshot",
           "settings", "active", "suppress", "provider", "activate", "finish"}
\* What the articles and settings are read for: the input of the digest,
\* the verdict after a provider failure, the verdict on a candidate.
Purposes == {"input", "afterFailure", "candidate"}

Times == 0..MaxTime
SlotOf(t) == t \div SlotLength

Profile == [live : BOOLEAN, articles : SUBSET Articles]
\* window: the articles that lookback and maximum count let in
Settings == [enabled : BOOLEAN, style : Styles, window : SUBSET Articles]
Digest == [attempt : Attempts, style : Styles, inputs : SUBSET Articles]
Attempt == [state : {"absent", "running"} \union Outcomes,
            slot : Times \union {Manual}, startedAt : Times]
Eval == [at : Stages, purpose : Purposes, slot : Times \union {Manual},
         startedAt : Times, attempt : Attempts \union {NoAttempt},
         profile : Profile, style : Styles, inputs : SUBSET Articles,
         suppressed : BOOLEAN, outcome : CompletionOutcomes, suppress : BOOLEAN,
         calledAt : Times]

DigestTypeOK ==
  /\ now \in Times /\ changes \in 0..MaxChanges
  /\ failures \in 0..MaxFailures
  /\ profile \in Profile /\ settings \in Settings
  /\ attempts \in [Attempts -> Attempt]
  /\ active \in Digest \union {NoDigest}
  /\ evals \in [Evaluators -> Eval]

Idle == [at |-> "idle", purpose |-> "input", slot |-> Manual, startedAt |-> 0,
         attempt |-> NoAttempt, profile |-> [live |-> FALSE, articles |-> {}],
         style |-> NoDigest.style, inputs |-> {}, suppressed |-> FALSE,
         outcome |-> "failed", suppress |-> FALSE, calledAt |-> 0]

AbsentAttempt == [state |-> "absent", slot |-> Manual, startedAt |-> 0]

DigestInit ==
  /\ now = 0 /\ changes = 0 /\ failures = 0
  /\ profile \in Profile /\ settings \in Settings
  /\ attempts = [a \in Attempts |-> AbsentAttempt]
  /\ active = NoDigest
  /\ evals = [e \in Evaluators |-> Idle]

-----------------------------------------------------------------------------
(* The governed state of the Profile, and time.                            *)

\* A digest the given articles and settings sanction: the Profile is live,
\* the digest enabled, every input still canonical and one still in the
\* bounded input.
Sanctioned(d, p, s) ==
  /\ p.live /\ s.enabled
  /\ d.inputs \subseteq p.articles
  /\ d.inputs \intersect s.window # {}

\* Collection, moderation or an administrator changes what is canonical.
ChangeProfile ==
  /\ changes < MaxChanges /\ changes' = changes + 1
  /\ profile' \in Profile
  /\ UNCHANGED <<now, settings, failures, attempts, active, evals>>

\* sameConfiguration: settings that change nothing are not saved.
OtherSettings == Settings \ {settings}

\* updateProfileAiConfiguration
SaveSettings ==
  /\ changes < MaxChanges /\ changes' = changes + 1
  /\ settings' \in OtherSettings
  /\ UNCHANGED <<now, profile, failures, attempts, active, evals>>

\* Articles age out of the lookback, or newer ones push them past the
\* maximum count.
MoveWindow ==
  /\ changes < MaxChanges /\ changes' = changes + 1
  /\ \E w \in SUBSET Articles : settings' = [settings EXCEPT !.window = w]
  /\ settings' # settings
  /\ UNCHANGED <<now, profile, failures, attempts, active, evals>>

\* The provider call is aborted at its timeout.  Without stalls nothing but
\* that call, and the queue of a scheduler pass, takes noticeable time.
Tick ==
  /\ now < MaxTime /\ now' = now + 1
  /\ \A e \in Evaluators :
       /\ evals[e].at = "provider" => now < evals[e].calledAt + Timeout
       /\ "stall" \in Faults \/ evals[e].at \in {"idle", "listed", "provider"}
  /\ UNCHANGED <<profile, settings, changes, failures, attempts, active,
                 evals>>

-----------------------------------------------------------------------------
(* Claiming an attempt.                                                    *)

Becomes(e, locals) == evals' = [evals EXCEPT ![e] = locals]
Goto(e, stage) == Becomes(e, [evals[e] EXCEPT !.at = stage])
Return(e) == Becomes(e, Idle)

\* A scheduler pass lists the active Profiles under the slot it computed.
List(e) ==
  /\ evals[e].at = "idle" /\ profile.live
  /\ Becomes(e, [evals[e] EXCEPT !.at = "listed", !.slot = SlotOf(now)])
  /\ UNCHANGED <<world, tables>>

EvaluateScheduled(e) ==
  /\ evals[e].at = "listed"
  /\ Becomes(e, [evals[e] EXCEPT !.at = "find", !.startedAt = now])
  /\ UNCHANGED <<world, tables>>

ForceGenerate(e) ==
  /\ evals[e].at = "idle"
  /\ Becomes(e, [evals[e] EXCEPT !.at = "find", !.startedAt = now])
  /\ UNCHANGED <<world, tables>>

Running(as) == {a \in Attempts : as[a].state = "running"}

Stale(a, t) == attempts[a].startedAt + Timeout + Margin <= t

\* Mutant of FindRunning: no running attempt is ever recovered.
FindAnyRunning(e) ==
  /\ evals[e].at = "find"
  /\ IF Running(attempts) = {} THEN Goto(e, "claim") ELSE Return(e)
  /\ UNCHANGED <<world, tables>>

FindRunning(e) ==
  /\ evals[e].at = "find"
  /\ \/ /\ Running(attempts) = {}
        /\ Goto(e, "claim")
     \/ \E a \in Running(attempts) :
          IF Stale(a, evals[e].startedAt)
          THEN Becomes(e, [evals[e] EXCEPT !.at = "recover", !.attempt = a])
          ELSE Return(e)
  /\ UNCHANGED <<world, tables>>

\* Mutant of SlotTaken: an abandoned attempt gives its slot back.
SlotHeld(as, slot) ==
  \E a \in Attempts :
    as[a].state \notin {"absent", "abandoned"} /\ as[a].slot = slot

SlotTaken(as, slot) ==
  slot # Manual /\ \E a \in Attempts :
                     as[a].state # "absent" /\ as[a].slot = slot

\* Mutant of Claimable: a manual evaluation does not look for a running one.
ClaimableManual(as, slot) ==
  ~SlotTaken(as, slot) /\ (slot = Manual \/ Running(as) = {})

Claimable(as, slot) == ~SlotTaken(as, slot) /\ Running(as) = {}

NewAttempt(e) ==
  [state |-> "running", slot |-> evals[e].slot,
   startedAt |-> evals[e].startedAt]

\* claimDigestAttemptInTransaction over the attempts as, in the same
\* transaction as what made them.
ClaimOver(e, as) ==
  \/ /\ Claimable(as, evals[e].slot)
     /\ \E a \in Attempts :
          /\ as[a].state = "absent"
          /\ attempts' = [as EXCEPT ![a] = NewAttempt(e)]
          /\ Becomes(e, [evals[e] EXCEPT !.at = "snapshot", !.attempt = a,
                                         !.startedAt = 0])
  \/ /\ ~Claimable(as, evals[e].slot)
     /\ attempts' = as
     /\ Return(e)

Claim(e) ==
  /\ evals[e].at = "claim"
  /\ ClaimOver(e, attempts)
  /\ UNCHANGED <<world, active>>

RecoverAndClaim(e) ==
  LET a == evals[e].attempt IN
  /\ evals[e].at = "recover"
  /\ \/ /\ attempts[a].state = "running" /\ Stale(a, evals[e].startedAt)
        /\ ClaimOver(e, [attempts EXCEPT ![a].state = "abandoned"])
     \/ /\ attempts[a].state # "running" \/ ~Stale(a, evals[e].startedAt)
        /\ Return(e) /\ UNCHANGED attempts
  /\ UNCHANGED <<world, active>>

-----------------------------------------------------------------------------
(* Reading the input.                                                      *)

Conclude(e, outcome, suppress) ==
  Becomes(e, [Idle EXCEPT !.at = "finish", !.attempt = evals[e].attempt,
                          !.outcome = outcome, !.suppress = suppress])

\* readForLifecycle reads the canonical snapshot first ...
ReadSnapshot(e) ==
  /\ evals[e].at = "snapshot"
  /\ \/ /\ profile.live
        /\ Becomes(e, [evals[e] EXCEPT !.at = "settings", !.profile = profile])
     \/ /\ ~profile.live
        /\ Conclude(e, IF evals[e].purpose = "input" THEN "skipped_no_input"
                                                     ELSE "failed", TRUE)
  /\ UNCHANGED <<world, tables>>

Bounded(e) == evals[e].profile.articles \intersect settings.window

\* ... and the settings after it; the verdict follows without a pause.
InputRead(e) ==
  IF ~settings.enabled THEN Conclude(e, "skipped_disabled", TRUE)
  ELSE IF Bounded(e) = {} THEN Conclude(e, "skipped_no_input", TRUE)
  ELSE Becomes(e, [evals[e] EXCEPT !.at = "active", !.style = settings.style,
                                   !.inputs = Bounded(e)])

\* Mutant of FailureJudged: a failure of the provider removes the digest.
FailureSuppresses(e) == Conclude(e, "failed", TRUE)

\* activeSuppressionRequired
FailureJudged(e) ==
  IF ~settings.enabled \/ Bounded(e) = {} THEN Conclude(e, "failed", TRUE)
  ELSE Becomes(e, [evals[e] EXCEPT !.at = "active", !.inputs = Bounded(e)])

\* Mutant of CandidateJudged: what the provider answered is activated as it is.
CandidateTrusted(e) == Goto(e, "activate")

\* candidateActivationState
CandidateJudged(e) ==
  IF \/ ~settings.enabled
     \/ ~(evals[e].inputs \subseteq evals[e].profile.articles)
     \/ evals[e].inputs \intersect Bounded(e) = {}
  THEN Conclude(e, "failed", TRUE)
  ELSE IF evals[e].style # settings.style
  THEN Conclude(e, "failed", evals[e].suppressed)
  ELSE Goto(e, "activate")

ReadSettings(e) ==
  /\ evals[e].at = "settings"
  /\ CASE evals[e].purpose = "input" -> InputRead(e)
       [] evals[e].purpose = "afterFailure" -> FailureJudged(e)
       [] evals[e].purpose = "candidate" -> CandidateJudged(e)
  /\ UNCHANGED <<world, tables>>

\* isCanonicallyValid and hasInputOverlap, over what the evaluation read
Fits(e) == /\ active.inputs \subseteq evals[e].profile.articles
           /\ active.inputs \intersect evals[e].inputs # {}

GenerationRequired(e) ==
  \/ evals[e].slot = Manual
  \/ ~(evals[e].inputs \subseteq active.inputs)
  \/ evals[e].style # active.style

CallProvider(e) ==
  Becomes(e, [evals[e] EXCEPT !.at = "provider", !.calledAt = now,
                              !.profile = Idle.profile])

ReadActive(e) ==
  /\ evals[e].at = "active"
  /\ IF evals[e].purpose = "afterFailure"
     THEN Conclude(e, "failed", active # NoDigest /\ ~Fits(e))
     ELSE IF active = NoDigest THEN CallProvider(e)
     ELSE IF ~Fits(e)
     THEN Becomes(e, [evals[e] EXCEPT !.at = "suppress", !.suppressed = TRUE])
     ELSE IF GenerationRequired(e) THEN CallProvider(e)
     ELSE Conclude(e, "skipped_unchanged", FALSE)
  /\ UNCHANGED <<world, tables>>

\* A transaction of its own, ahead of the provider call.  It takes the
\* lifecycle lock, and does not look at the attempt.
Suppress(e) ==
  /\ evals[e].at = "suppress"
  /\ active' = NoDigest
  /\ CallProvider(e)
  /\ UNCHANGED <<world, attempts>>

-----------------------------------------------------------------------------
(* The provider's answer, and the end of the attempt.                      *)

\* An answer that cites an article outside the request is refused, as a failure;
\* one that is taken rests on the inputs and needs no variable of its own.
ProviderAnswers(e) ==
  /\ evals[e].at = "provider"
  /\ Becomes(e, [evals[e] EXCEPT !.at = "snapshot", !.purpose = "candidate",
                                 !.calledAt = 0])
  /\ UNCHANGED <<world, tables>>

ProviderFails(e) ==
  /\ evals[e].at = "provider"
  /\ IF evals[e].suppressed THEN Conclude(e, "failed", TRUE)
     ELSE Becomes(e, [evals[e] EXCEPT !.at = "snapshot", !.inputs = {},
                                      !.purpose = "afterFailure",
                                      !.style = Idle.style, !.calledAt = 0])
  /\ UNCHANGED <<world, tables>>

\* Mutant of StillRunning: completion does not look at the state.
ClaimedOnce(e) == evals[e].attempt \in Attempts

\* WHERE id = $1 AND state = 'running'; without a row the transaction that
\* completes the attempt is rolled back.
StillRunning(e) == attempts[evals[e].attempt].state = "running"

Completed(e, outcome) ==
  attempts' = [attempts EXCEPT ![evals[e].attempt].state = outcome]

\* createSuccessfulDigestGeneration: what is activated names the attempt, the
\* settings and every input; highlights and their support are left out.
Draft(e) == [attempt |-> evals[e].attempt, style |-> evals[e].style,
             inputs |-> evals[e].inputs]

\* Mutant of Activate: the digest is activated before the attempt is looked at.
ActivateThenComplete(e) ==
  /\ evals[e].at = "activate"
  /\ IF StillRunning(e) THEN Completed(e, "success") ELSE UNCHANGED attempts
  /\ active' = Draft(e)
  /\ Return(e) /\ UNCHANGED world

\* persistActivateAndComplete
Activate(e) ==
  /\ evals[e].at = "activate"
  /\ \/ /\ StillRunning(e)
        /\ Completed(e, "success")
        /\ active' = Draft(e)
        /\ Return(e)
     \/ /\ ~StillRunning(e)
        /\ Conclude(e, "failed", evals[e].suppressed)
        /\ UNCHANGED tables
  /\ UNCHANGED world

\* completeSkip and completeFailure.  A lost attempt rolls the suppression
\* back as well, and is nobody's to complete any more.
Finish(e) ==
  /\ evals[e].at = "finish"
  /\ \/ /\ StillRunning(e)
        /\ Completed(e, evals[e].outcome)
        /\ active' = IF evals[e].suppress THEN NoDigest ELSE active
     \/ /\ ~StillRunning(e)
        /\ UNCHANGED tables
  /\ Return(e)
  /\ UNCHANGED world

-----------------------------------------------------------------------------
(* Failures.                                                               *)

Fails == failures < MaxFailures /\ failures' = failures + 1

\* Whatever made the read fail, the digest is taken to be malformed.
ActiveUnreadable(e) ==
  /\ Fails
  /\ "unreadable" \in Faults
  /\ evals[e].at = "active" /\ evals[e].purpose = "input"
  /\ Goto(e, "suppress")
  /\ UNCHANGED <<world, tables>>

\* The database refuses a statement.  Before the claim the evaluation ends;
\* after it the attempt is completed as failed; if that is what failed, the
\* attempt stays running for a later evaluation to recover.
StatementFails(e) ==
  /\ Fails
  /\ \/ evals[e].at \in {"find", "claim", "recover"} /\ Return(e)
     \/ /\ \/ evals[e].at \in {"snapshot", "settings", "suppress"}
           \/ evals[e].at = "active" /\ evals[e].purpose = "afterFailure"
        /\ Conclude(e, "failed", FALSE)
     \/ /\ evals[e].at = "activate"
        /\ Conclude(e, "failed", evals[e].suppressed)
     \/ /\ evals[e].at = "finish"
        /\ IF evals[e].outcome = "failed" THEN Return(e)
                                          ELSE Conclude(e, "failed", FALSE)
  /\ UNCHANGED <<world, tables>>

Crash(e) ==
  /\ Fails
  /\ evals[e].at # "idle"
  /\ Return(e)
  /\ UNCHANGED <<world, tables>>

-----------------------------------------------------------------------------

\* What an evaluation does when nothing fails
Works(e) ==
  /\ \/ List(e) \/ EvaluateScheduled(e) \/ ForceGenerate(e)
     \/ FindRunning(e) \/ Claim(e) \/ RecoverAndClaim(e)
     \/ ReadSnapshot(e) \/ ReadSettings(e) \/ ReadActive(e) \/ Suppress(e)
     \/ ProviderAnswers(e) \/ ProviderFails(e) \/ Activate(e) \/ Finish(e)
  /\ UNCHANGED failures

DigestNext ==
  \/ ChangeProfile \/ SaveSettings \/ MoveWindow \/ Tick
  \/ \E e \in Evaluators :
       Works(e) \/ StatementFails(e) \/ ActiveUnreadable(e) \/ Crash(e)

DigestSpec == DigestInit /\ [][DigestNext]_vars

\* Scheduler passes and statements are not put off for ever, and a provider
\* call is answered or aborted.
DigestFairness ==
  WF_vars(Tick) /\ \A e \in Evaluators : WF_vars(Works(e))

-----------------------------------------------------------------------------
(* What the digest promises.                                               *)

\* A Profile has one running attempt at most, whatever scheduled and forced
\* evaluations claim, abandon and recover (repository.ts:449).
OneRunningAttempt == \A a, b \in Running(attempts) : a = b

\* A slot is evaluated once: not again by another Worker, not after a crash,
\* not after its attempt was abandoned.
OneAttemptPerSlot ==
  \A a, b \in Attempts :
    /\ attempts[a].state # "absent" /\ attempts[b].state # "absent"
    /\ attempts[a].slot = attempts[b].slot /\ attempts[a].slot # Manual
    => a = b

\* What readers are given is the work of an attempt that succeeded, never of
\* one that was abandoned while the provider was still answering.
ActiveDigestSucceeded ==
  active # NoDigest => attempts[active.attempt].state = "success"

\* An attempt ends once; recovery and a late completion never both count.
EndedAttemptsStayEnded ==
  [][\A a \in Attempts :
       attempts[a].state \in Outcomes => attempts'[a] = attempts[a]]_vars

\* The digest that replaces another one comes from an attempt that was
\* running: a late answer never overwrites a later digest.
LateAnswersAreDropped ==
  [][active' \in {active, NoDigest}
     \/ attempts[active'.attempt].state = "running"]_vars

\* A crashed process does not leave the Profile locked for ever: a running
\* attempt ends, by its evaluation or by the recovery of a later one
\* (docs/tasks/p2-1/P3-digest-lifecycle-and-worker-scheduling.txt:115).  Within the bounds: while there is time to become
\* stale and an id for the next attempt.
NoAttemptRunsForever ==
  \A a \in Attempts :
    attempts[a].state = "running"
      /\ attempts[a].startedAt + Timeout + Margin <= MaxTime
    ~> \/ attempts[a].state # "running"
       \/ \A b \in Attempts : attempts[b].state # "absent"
=============================================================================
