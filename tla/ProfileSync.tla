---------------------------- MODULE ProfileSync ----------------------------
(***************************************************************************)
(* The PHP integration against the distribution API: cron runs of the      *)
(* synchronizer on the customer's host, each a process that takes the      *)
(* profile's lock, walks the pages of one snapshot, activates it and       *)
(* releases the lock; the server, edited at any moment between two         *)
(* requests; and the page of the site that reads the local state.          *)
(*                                                                         *)
(* A request is three steps with other actors between them: the guard's    *)
(* look at the invalid limiter (Ask), authentication and the charge        *)
(* (Authorise), the snapshot (Serve).  A process may die at every step;    *)
(* the operating system then releases its lock.  The clock is left out: a  *)
(* run may be due or forced at any time, and a snapshot is never too old.  *)
(***************************************************************************)
EXTENDS DistributionApi, LocalProfileStore

CONSTANTS Processes,     \* concurrent runs of the synchronizer
          NoProcess,
          MaxRetries,    \* SynchronizerConfiguration.maxRetries
          MaxRestarts,   \* SynchronizerConfiguration.maxSnapshotRestarts
          MaximumPages,  \* SynchronizerConfiguration.maximumPages
          MaxEvents      \* bound of the model: edits of the server and of the
                         \* site's token, lost answers, disk errors, crashes

ASSUME ProcessAssumption == NoProcess \notin Processes
ASSUME BoundsAssumption == {MaxRetries, MaxRestarts, MaxEvents} \subseteq Nat
                           /\ MaximumPages \in Nat \ {0}

VARIABLES sync,    \* process -> where its run stands
          lock,    \* the flock of the profile
          token,   \* the credential the site is configured with
          events   \* edits and faults so far

vars == <<contentVars, accessVars, storeVars, sync, lock, token, events>>
serverVars == <<contentVars, accessVars>>

Idle == [step |-> "idle", cursor |-> NoCursor, items |-> << >>, pages |-> 0,
         revision |-> NoRevision, digest |-> NoDigest, at |-> 0,
         answer |-> [kind |-> "none"], retries |-> 0, restarts |-> 0]

Init ==
    /\ ContentInit
    /\ AccessInit
    /\ StoreInit
    /\ sync = [p \in Processes |-> Idle]
    /\ lock = NoProcess
    /\ token = FirstCredential
    /\ events = 0

Move(p, run) == sync' = [sync EXCEPT ![p] = run]

\* The run is over: its lock is released.
Finish(p) ==
    /\ Move(p, Idle)
    /\ lock' = NoProcess

-----------------------------------------------------------------------------
(* A run begins: the lock, then the local state.  A process that finds the *)
(* lock taken answers already_running and changes nothing.                 *)

\* Mutant of TryAcquire: runs overlap.
TryAcquireAnyway(p) == p \in Processes

TryAcquire(p) == lock = NoProcess

Start(p) ==
    /\ sync[p].step = "idle"
    /\ TryAcquire(p)
    /\ Load(manifest) # Unavailable
    /\ lock' = p
    /\ Move(p, [Idle EXCEPT !.step = "ask"])
    /\ UNCHANGED <<serverVars, storeVars, token, events>>

-----------------------------------------------------------------------------
(* One request.                                                            *)

Got(p, kind) == [sync[p] EXCEPT !.step = "answered", !.answer = [kind |-> kind]]

Ask(p) ==
    /\ sync[p].step = "ask"
    /\ Move(p, IF InvalidLimited THEN Got(p, "rate_limited")
               ELSE [sync[p] EXCEPT !.step = "authenticate"])
    /\ UNCHANGED <<serverVars, storeVars, lock, token, events>>

Authorise(p) ==
    /\ sync[p].step = "authenticate"
    /\ Charge(token)
    /\ Move(p, IF Verdict(token) = "authenticated"
               THEN [sync[p] EXCEPT !.step = "read"]
               ELSE Got(p, Verdict(token)))
    /\ UNCHANGED <<contentVars, storeVars, lock, token, events>>

\* Only the first request of a traversal is conditional.
Serve(p) ==
    /\ sync[p].step = "read"
    /\ \E snapshot \in {Snapshot(rows, source, profile, digest)} :
       \E answer \in {Answer(snapshot, sync[p].cursor,
                             IF sync[p].pages = 0 /\ manifest.active # 0
                             THEN manifest.etag ELSE NoRevision)} :
           Move(p, [sync[p] EXCEPT
                       !.step = "answered", !.answer = answer,
                       !.at = IF sync[p].pages = 0 \/ answer.kind = "profile_disabled"
                              THEN Len(history) ELSE @])
    /\ UNCHANGED <<serverVars, storeVars, lock, token, events>>

\* A transport failure, or a 503 for a dependency that failed.
AnswerLost(p) ==
    /\ sync[p].step \in {"ask", "authenticate", "read"}
    /\ events < MaxEvents
    /\ Move(p, Got(p, "unavailable"))
    /\ events' = events + 1
    /\ UNCHANGED <<serverVars, storeVars, lock, token>>

\* What arrives is not a well-formed answer to the request, a page of another
\* profile or a malformed article among its items included: the client takes
\* nothing of it.
AnswerDamaged(p) ==
    /\ sync[p].step = "read"
    /\ events < MaxEvents
    /\ Move(p, Got(p, "invalid_response"))
    /\ events' = events + 1
    /\ UNCHANGED <<serverVars, storeVars, lock, token>>

-----------------------------------------------------------------------------
(* What the synchronizer makes of an answer.                               *)

Answered(p, kinds) == sync[p].step = "answered" /\ sync[p].answer.kind \in kinds

Retryable(p) == Answered(p, {"unavailable", "rate_limited"})

\* The run sleeps as long as Retry-After says, which is the rest of the
\* window the limiter refused the request in.
RetryPosition(p) ==
    /\ Retryable(p)
    /\ sync[p].retries < MaxRetries
    /\ sync[p].answer.kind = "rate_limited" => ~InvalidLimited /\ ~RequestLimited(token)
    /\ Move(p, [sync[p] EXCEPT !.step = "ask", !.answer = Idle.answer,
                               !.retries = @ + 1])
    /\ UNCHANGED <<serverVars, storeVars, lock, token, events>>

SameCandidate(p, page) == sync[p].pages = 0 \/ page.revision = sync[p].revision

TakePage(p) ==
    LET run    == sync[p]
        page   == run.answer
        digest_ == IF run.pages = 0 \/ page.digest = run.digest
                   THEN page.digest ELSE NoDigest
        taken  == [run EXCEPT !.items = @ \o page.items, !.pages = @ + 1,
                              !.revision = page.revision, !.digest = digest_,
                              !.answer = Idle.answer, !.retries = 0]
    IN  /\ Answered(p, {"page"})
        /\ SameCandidate(p, page)
        /\ page.next # NoCursor => run.pages + 1 < MaximumPages
        /\ Move(p, IF page.next = NoCursor
                   THEN [taken EXCEPT !.step = "write", !.cursor = NoCursor]
                   ELSE [taken EXCEPT !.step = "ask", !.cursor = page.next])
        /\ UNCHANGED <<serverVars, storeVars, lock, token, events>>

\* The candidate is discarded and the walk begins again at the first page.
RestartTraversal(p) ==
    /\ Answered(p, {"snapshot_changed"})
    /\ sync[p].restarts < MaxRestarts
    /\ Move(p, [Idle EXCEPT !.step = "ask", !.restarts = sync[p].restarts + 1])
    /\ UNCHANGED <<serverVars, storeVars, lock, token, events>>

RecordUnchanged(p) ==
    /\ Answered(p, {"not_modified"})
    /\ manifest.active # 0
    /\ StoreUnchanged(manifest.etag, sync[p].at)
    /\ Finish(p)
    /\ UNCHANGED <<serverVars, token, events>>

MarkDisabled(p) ==
    /\ Answered(p, {"profile_disabled"})
    /\ StoreDisabled(sync[p].at)
    /\ Finish(p)
    /\ UNCHANGED <<serverVars, token, events>>

Fails(p) ==
    \/ Retryable(p) /\ sync[p].retries >= MaxRetries
    \/ Answered(p, {"snapshot_changed"}) /\ sync[p].restarts >= MaxRestarts
    \/ Answered(p, {"unauthenticated", "not_found", "invalid_request",
                     "invalid_response"})
    \/ /\ Answered(p, {"page"})
       /\ \/ ~SameCandidate(p, sync[p].answer)
          \/ sync[p].answer.next # NoCursor /\ sync[p].pages + 1 >= MaximumPages

RecordFailure(p) ==
    /\ Fails(p)
    /\ StoreFailure
    /\ Finish(p)
    /\ UNCHANGED <<serverVars, token, events>>

-----------------------------------------------------------------------------
(* activate: the generation file, the manifest, the pruning.               *)

Write(p) ==
    /\ sync[p].step = "write"
    /\ WriteGeneration(sync[p].revision,
                       [articles |-> sync[p].items, digest |-> sync[p].digest],
                       sync[p].at)
    /\ Move(p, [Idle EXCEPT !.step = "commit", !.revision = sync[p].revision])
    /\ UNCHANGED <<serverVars, lock, token, events>>

Commit(p) ==
    /\ sync[p].step = "commit"
    /\ CommitGeneration(Len(generations), sync[p].revision, sync[p].revision)
    /\ Move(p, [Idle EXCEPT !.step = "prune"])
    /\ UNCHANGED <<serverVars, lock, token, events>>

Prune(p) ==
    /\ sync[p].step = "prune"
    /\ PruneGenerations
    /\ Finish(p)
    /\ UNCHANGED <<serverVars, token, events>>

\* A write or a rename fails: activation_failed before the commit, nothing
\* but an unpruned file after it.
DiskFails(p) ==
    /\ sync[p].step \in {"write", "commit", "prune"}
    /\ events < MaxEvents
    /\ StoreFailure
    /\ Finish(p)
    /\ events' = events + 1
    /\ UNCHANGED <<serverVars, token>>

Crash(p) ==
    /\ sync[p].step # "idle"
    /\ events < MaxEvents
    /\ Finish(p)
    /\ events' = events + 1
    /\ UNCHANGED <<serverVars, storeVars, token>>

-----------------------------------------------------------------------------
(* The surroundings.                                                       *)

EditServer ==
    /\ events < MaxEvents
    /\ \/ ContentEdit /\ UNCHANGED <<accessVars, token>>
       \/ CredentialEdit /\ UNCHANGED <<contentVars, token>>
       \/ /\ \E c \in Credentials \ {token} :
                 credentials[c].state # "absent" /\ token' = c
          /\ UNCHANGED serverVars
    /\ events' = events + 1
    /\ UNCHANGED <<storeVars, sync, lock>>

LimiterWindowEnds ==
    /\ WindowEnds
    /\ UNCHANGED <<contentVars, storeVars, sync, lock, token, events>>

PageReads ==
    /\ ReadManifest \/ ReadGeneration
    /\ UNCHANGED <<serverVars, sync, lock, token, events>>

Step(p) ==
    \/ Start(p)
    \/ Ask(p) \/ Authorise(p) \/ Serve(p)
    \/ RetryPosition(p) \/ TakePage(p) \/ RestartTraversal(p)
    \/ RecordUnchanged(p) \/ MarkDisabled(p) \/ RecordFailure(p)
    \/ Write(p) \/ Commit(p) \/ Prune(p)

Fault(p) == AnswerLost(p) \/ AnswerDamaged(p) \/ DiskFails(p) \/ Crash(p)

Next ==
    \/ \E p \in Processes : Step(p) \/ Fault(p)
    \/ EditServer
    \/ LimiterWindowEnds
    \/ PageReads

Spec == Init /\ [][Next]_vars

\* Cron comes again, a run goes on, a limiter's window ends.
FairSpec ==
    /\ Spec
    /\ WF_vars(\E p \in Processes : Step(p))
    /\ WF_vars(LimiterWindowEnds)

-----------------------------------------------------------------------------

Outward(state) == IF state.lifecycle = "disabled" THEN Suppressed ELSE state.shows
Publishable(state) == state.lifecycle \in {"active", "disabled"}

KnownGood == INSTANCE LastKnownGood WITH at <- manifest.at, shown <- Shown

\* Whatever is edited, lost, repeated or interrupted, the site shows one
\* whole state the profile once was in, never an earlier one after a later
\* one, and is emptied only by a state in which the profile was disabled.
ShowsLastKnownGood == KnownGood!Spec

\* A page that reads without the lock sees what the site showed when it
\* began to read; it fails to only when two activations overtake it, the
\* second of which prunes the file it is about to open.
ReadsAreWhole ==
    reader.step = "done" =>
        \/ reader.result = reader.expects
        \/ reader.result = Unavailable /\ reader.activations = 2

\* Once the edits stop, a site whose credential is good shows the profile
\* as it is, however the runs before failed.
EventuallyCurrent ==
    <>[](credentials[token].state = "live" /\ Publishable(history[Len(history)]))
        => <>[](Shown = Outward(history[Len(history)]))

=============================================================================
