-------------------------- MODULE CollectionAttempt --------------------------
(***************************************************************************)
(* One attempt to collect an endpoint (collectEndpoint): eligibility on    *)
(* the snapshot it was given, the run row, the fetch, parsing, admission,  *)
(* normalization and link policy, relevance and the processing of each     *)
(* candidate, and the finalization of the row.  Meanwhile operators change *)
(* the relevance tables and the recovery of expired jobs may end the row.  *)
(*                                                                         *)
(* What persisting one candidate does is ArticleStore's; here it is its    *)
(* outcome, or a failure before or after its commit.                       *)
(***************************************************************************)
EXTENDS HttpFetch, FeedItems

CONSTANTS
    Snapshots,      \* configurations an attempt may be given
    Documents,      \* what the server may have sent, once parsed as XML or HTML
    RuleSets,       \* contents of relevance_rules an operator may leave
    Defaults,       \* default categories an operator may leave
    MaxEdits,       \* bound: operator statements during the attempt
    NoDiagnostics

ASSUME DocumentsAssumption ==
    \A d \in Documents :
        /\ d.items \in Seq(ToSet(d.items))
        /\ \A item \in ToSet(d.items) : IsFiniteSet(item.overlong)
ASSUME ConfigurationsAssumption == Snapshots # {} /\ Defaults # {}

VARIABLES
    attempt,    \* [stage, snapshot, candidates, rules, defaults, draft, answer]
    run,        \* the row of collection_runs: [status, draft]
    stored,     \* what the attempt has committed, by outcome
    tables,     \* [rules, defaults]: the relevance tables
    edits       \* operator statements so far

attemptVars == << now, fetch, attempt, run, stored, tables, edits >>

Nothing == [ created |-> 0, updated |-> 0, unchanged |-> 0, excluded |-> 0,
             reviews |-> 0, grouped |-> 0 ]

EmptyDraft ==
    [ outcome |-> "none", status |-> "failed", transport |-> "not_run", parser |-> "not_run",
      diagnostics |-> NoDiagnostics, normalization |-> "not_run", processing |-> "not_run",
      http |-> 0, etag |-> "none", retry |-> "none", error |-> "none",
      raw |-> 0, filtered |-> 0, normalized |-> 0, unnormalized |-> 0, linkRejected |-> 0,
      rejected |-> 0, failed |-> 0, counts |-> Nothing ]

AttemptIdle ==
    [ stage |-> "idle", snapshot |-> CHOOSE s \in Snapshots : TRUE, candidates |-> <<>>,
      rules |-> {}, defaults |-> CHOOSE d \in Defaults : TRUE, draft |-> EmptyDraft,
      answer |-> "none" ]

AttemptInit ==
    /\ FetchInit
    /\ attempt = AttemptIdle
    /\ run = [status |-> "none", draft |-> EmptyDraft]
    /\ stored = Nothing
    /\ tables \in [rules : RuleSets, defaults : Defaults]
    /\ edits = 0

Answered(answer) == [AttemptIdle EXCEPT !.stage = "ended", !.answer = answer]

\* findEndpointConfiguration: the rows of one statement, the Source's phrases of
\* another; the configuration may be replaced between the two.
Assembled(s, t) == [s EXCEPT !.include = t.include, !.exclude = t.exclude]

\* withEligibleEndpointExecution and runs.start: nothing is written unless the
\* endpoint is eligible, its run lock free and the job's claim alive.
Begin ==
    /\ attempt.stage = "idle"
    /\ \E rows, phrases \in Snapshots, admission \in {"locked", "start_rejected", "started"} :
         LET s           == Assembled(rows, phrases)
             eligibility == EligibilityOf(s.publicationActive, s.source, s.endpoint)
         IN  IF eligibility # "eligible"
             THEN attempt' = Answered(eligibility) /\ UNCHANGED << run, fetchVars >>
             ELSE IF admission # "started"
             THEN attempt' = Answered(admission) /\ UNCHANGED << run, fetchVars >>
             ELSE /\ attempt' = [attempt EXCEPT !.stage = "fetching", !.snapshot = s]
                  /\ run' = [run EXCEPT !.status = "running"]
                  /\ StartFetch
    /\ UNCHANGED << stored, tables, edits >>

\* The drafts of executeAttempt ---------------------------------------------

\* fetchMetadata: the status and the validators of the last response.
WithMetadata(draft, result) == [draft EXCEPT !.http = result.status, !.etag = result.etag]

FetchDraft(result) ==
    CASE result.outcome = "thrown" ->
           [EmptyDraft EXCEPT !.outcome = "fetch_failed", !.transport = "failed",
                              !.error = result.reason, !.retry = "transient"]
      [] result.outcome = "blocked" ->
           [EmptyDraft EXCEPT !.outcome = "network_safety_blocked",
                              !.error = result.reason, !.retry = "permanent"]
      [] result.outcome = "failure" ->
           WithMetadata([EmptyDraft EXCEPT !.outcome = "fetch_failed", !.transport = "failed",
                                           !.error = result.reason, !.retry = result.retry],
                        result)
      [] result.outcome = "not_modified" ->
           WithMetadata([EmptyDraft EXCEPT !.outcome = "not_modified", !.status = "succeeded",
                                           !.transport = "not_modified"], result)
      [] OTHER ->
           WithMetadata([EmptyDraft EXCEPT !.transport = "succeeded"], result)

\* parserForEndpoint: an HTML listing without its profile has no parser.
HasParser(snapshot) == snapshot.type = "rss_atom" \/ snapshot.profile # 0

ParserResult(snapshot, document) ==
    IF ~HasParser(snapshot) THEN ParseFailure("unsupported_endpoint_type", 0)
    ELSE IF snapshot.type = "rss_atom" THEN ParseFeed(document)
    ELSE ParseListing(document)

\* parserDiagnosticsFor: only a listing leaves any.
DiagnosticsOf(snapshot, result) ==
    IF snapshot.type # "html_listing" \/ ~HasParser(snapshot) THEN NoDiagnostics
    ELSE [ kind |-> snapshot.type, revision |-> snapshot.profile,
           failures |-> ParserItemFailureCount(result.failures), code |-> result.code ]

\* Where the synchronous stages throw, if they do: before item `at`.
Faults == {[stage |-> "none", at |-> 0], [stage |-> "parser", at |-> 0]} \cup
          [stage : {"normalizer", "link_policy"}, at : 1..FeedLimit]

\* A failure of the data asks for a retry.
FailedForNow(draft, outcome, error) ==
    [draft EXCEPT !.outcome = outcome, !.error = error, !.status = "failed",
                  !.retry = "transient"]

FailedWith(draft, outcome, error) ==
    [draft EXCEPT !.outcome = outcome, !.error = error, !.status = "failed",
                  !.retry = "permanent"]

\* normalizationExecutionFailedDraft: of the counts only the items parsed and
\* those the Source filtered before the throw are kept.
NormalizationThrew(parsed, filtered) ==
    FailedWith([parsed EXCEPT !.normalization = "failed", !.filtered = filtered],
               "normalization_failed", "normalization_execution_failed")

\* articleLinkPolicyExecutionFailedDraft: normalization stands, processing never ran.
LinkPolicyThrew(prepared, refused) ==
    FailedWith([prepared EXCEPT !.linkRejected = refused],
               "article_link_policy_failed", "article_link_policy_execution_failed")

\* Parsing to candidates, in one turn of the event loop: [draft, candidates].
Prepared(snapshot, draft, document, fault) ==
    LET result   == ParserResult(snapshot, document)
        parsed   == [draft EXCEPT !.parser = "succeeded", !.raw = Len(result.items),
                                  !.diagnostics = DiagnosticsOf(snapshot, result)]
        admits(item) == snapshot.type # "rss_atom"
                        \/ Admitted(item, snapshot.include, snapshot.exclude)
        unfit    == { i \in 1..Len(result.items) : ~admits(result.items[i]) }
        admitted == Kept(result.items, (1..Len(result.items)) \ unfit)
        normal   == Kept(admitted, { i \in 1..Len(admitted) : Normalizes(admitted[i]) })
        refused  == { i \in 1..Len(normal) : ~LinkAccepted(Policy, normal[i].url) }
        accepted == Kept(normal, (1..Len(normal)) \ refused)
        before(places) == Cardinality({ i \in places : i < fault.at })
        threw    == fault.stage = "parser" /\ HasParser(snapshot)
        prepared == [parsed EXCEPT
                        !.normalization = "succeeded",
                        !.filtered      = Len(result.items) - Len(admitted),
                        !.normalized    = Len(normal),
                        !.unnormalized  = Len(admitted) - Len(normal)]
    IN  CASE threw ->
               [ candidates |-> <<>>,
                 draft |-> FailedWith([draft EXCEPT !.parser = "failed",
                                          !.diagnostics = DiagnosticsOf(snapshot, ParseFailure("", 0))],
                                      "parser_failed", "parser_execution_failed") ]
          [] ~threw /\ ~result.ok ->
               [ candidates |-> <<>>,
                 draft |-> FailedWith([draft EXCEPT !.parser = "failed",
                                          !.diagnostics = DiagnosticsOf(snapshot, result)],
                                      "parser_failed", result.reason) ]
          [] result.ok /\ fault.stage = "normalizer" /\ fault.at <= Len(result.items) ->
               [ candidates |-> <<>>,
                 draft |-> NormalizationThrew(parsed, before(unfit)) ]
          [] result.ok /\ fault.stage = "link_policy" /\ fault.at <= Len(normal) ->
               [ candidates |-> <<>>,
                 draft |-> LinkPolicyThrew(prepared, before(refused)) ]
          [] OTHER ->
               [ candidates |-> accepted,
                 draft |-> [prepared EXCEPT
                              !.outcome      = "content",
                              !.status       = "succeeded",
                              !.processing   = "succeeded",
                              !.linkRejected = Len(normal) - Len(accepted),
                              !.rejected     = Len(normal) - Len(accepted)] ]

\* The fetch has settled; all but the processing of candidates follows at once.
UseFetchResult ==
    /\ attempt.stage = "fetching" /\ fetch.pc = "done"
    /\ LET draft == FetchDraft(fetch.result)
       IN  IF fetch.result.outcome # "content"
           THEN attempt' = [attempt EXCEPT !.stage = "finalizing", !.draft = draft]
           ELSE \E document \in Documents, fault \in Faults :
                  LET p == Prepared(attempt.snapshot, draft, document, fault)
                  IN  attempt' = [attempt EXCEPT
                        !.stage      = IF p.candidates = <<>> THEN "finalizing" ELSE "defaults",
                        !.draft      = p.draft,
                        !.candidates = p.candidates]
    /\ now' = 0 /\ fetch' = Idle
    /\ UNCHANGED << run, stored, tables, edits >>

\* Processing ----------------------------------------------------------------

LeftFailed(draft, error, left) ==
    [FailedWith(draft, "processing_failed", error) EXCEPT !.processing = "failed",
                                                          !.failed     = @ + left]

\* The candidate that failed is forgotten.
ProcessingFailedShort(a, error) ==
    [a EXCEPT !.stage      = "finalizing",
              !.candidates = <<>>,
              !.draft      = LeftFailed(@, error, Len(a.candidates) - 1)]

\* processingFailure: every candidate not accounted for counts as failed.
ProcessingFailed(a, error) ==
    [a EXCEPT !.stage      = "finalizing",
              !.candidates = <<>>,
              !.draft      = LeftFailed(@, error, Len(a.candidates))]

\* The snapshot is read by two statements, each with a view of its own.
LoadDefaults ==
    /\ attempt.stage = "defaults"
    /\ attempt' = [attempt EXCEPT !.stage = "rules", !.defaults = tables.defaults]
    /\ UNCHANGED << now, fetch, run, stored, tables, edits >>

LoadRules ==
    /\ attempt.stage = "rules"
    /\ attempt' = [attempt EXCEPT !.stage = "processing",
                                  !.rules = { r \in tables.rules : r.enabled }]
    /\ UNCHANGED << now, fetch, run, stored, tables, edits >>

LoadFails ==
    /\ attempt.stage \in {"defaults", "rules"}
    /\ attempt' = ProcessingFailed(attempt, "relevance_configuration_load_execution_failed")
    /\ UNCHANGED << now, fetch, run, stored, tables, edits >>

Candidate == Head(attempt.candidates)
Decision  == Decide(attempt.rules, attempt.defaults, Candidate)
StillUpheld == Upheld(Decision, tables.rules, tables.defaults)

Outcomes == IF Decision.included THEN {"created", "updated", "unchanged"} ELSE {"excluded"}

\* The effects of one candidate, added to a tally.
Tallied(tally, outcome, effects) ==
    [tally EXCEPT ![outcome] = @ + 1,
                  !.reviews  = @ + effects.reviews,
                  !.grouped  = @ + effects.grouped]

NextCandidate(a) ==
    [a EXCEPT !.candidates = Tail(@),
              !.stage      = IF Len(a.candidates) = 1 THEN "finalizing" ELSE @]

\* Duplicate effects come with an included candidate only.
Effects == IF Decision.included THEN [reviews : 0..1, grouped : 0..1]
           ELSE {[reviews |-> 0, grouped |-> 0]}

Process ==
    /\ attempt.stage = "processing"
    /\ StillUpheld
    /\ \E outcome \in Outcomes, effects \in Effects :
         /\ stored' = Tallied(stored, outcome, effects)
         /\ attempt' = NextCandidate([attempt EXCEPT
                           !.draft.counts = Tallied(@, outcome, effects)])
    /\ UNCHANGED << now, fetch, run, tables, edits >>

\* identity_conflict or provenance_mismatch: this candidate alone fails.
CandidateRejected ==
    /\ attempt.stage = "processing"
    /\ attempt' = NextCandidate([attempt EXCEPT !.draft.failed = @ + 1])
    /\ UNCHANGED << now, fetch, run, stored, tables, edits >>

\* The evaluator, the clock or the transaction throws, the decision is no
\* longer upheld, or the connection is lost under the COMMIT, which may have
\* been carried out.
ProcessingThrows ==
    /\ attempt.stage = "processing"
    /\ attempt' = ProcessingFailed(attempt, IF Decision.included
                     THEN "article_persistence_execution_failed"
                     ELSE "relevance_exclusion_persistence_execution_failed")
    /\ \/ UNCHANGED stored
       \/ /\ StillUpheld
          /\ \E outcome \in Outcomes, effects \in Effects :
               stored' = Tallied(stored, outcome, effects)
    /\ UNCHANGED << now, fetch, run, tables, edits >>

\* Finalization --------------------------------------------------------------

Processed(d) == d.counts.created + d.counts.updated + d.counts.unchanged + d.counts.excluded

\* validateRunAccounting.
Accounted(d) ==
    /\ d.filtered <= d.raw
    /\ d.linkRejected <= d.normalized
    /\ d.normalization = "not_run" => d.normalized = 0 /\ d.unnormalized = 0 /\ d.linkRejected = 0
    /\ d.normalization # "not_run" => d.parser = "succeeded"
    /\ d.normalization = "succeeded" => d.raw = d.filtered + d.normalized + d.unnormalized
    /\ d.normalization = "failed" => d.status = "failed"
    /\ d.processing = "not_run" => Processed(d) + d.rejected + d.failed = 0
    /\ d.processing # "not_run" =>
         /\ d.normalization = "succeeded"
         /\ Processed(d) + d.rejected + d.failed = d.normalized
         /\ d.rejected >= d.linkRejected
    /\ d.processing = "failed" => d.status = "failed"

KnownValues(d) ==
    /\ d.outcome \in { "content", "not_modified", "network_safety_blocked", "fetch_failed",
                       "parser_failed", "normalization_failed", "article_link_policy_failed",
                       "processing_failed" }
    /\ d.status \in {"succeeded", "failed"}
    /\ d.transport \in {"not_run", "succeeded", "not_modified", "failed"}
    /\ {d.parser, d.normalization, d.processing} \subseteq {"not_run", "succeeded", "failed"}
    /\ d.retry \in {"none", "transient", "permanent"}

\* validateParserDiagnostics: none without a parser; a listing's name the revision
\* of its profile.
ValidDiagnostics(d) ==
    d.diagnostics # NoDiagnostics =>
        /\ d.parser # "not_run"
        /\ (d.diagnostics.kind = "html_listing") = (d.diagnostics.revision # 0)
        /\ d.diagnostics.failures \in 0..FailureCap

\* validateFinalization.
ValidFinalization(d) ==
    /\ KnownValues(d)
    /\ d.http = 0 \/ d.http \in 100..599
    /\ d.etag # "empty"
    /\ (d.status = "succeeded") = (d.retry = "none")
    /\ ValidDiagnostics(d)
    /\ Accounted(d)

\* finalizationFromAttempt: what the row is to become.
FinalizedRow(draft) == [status |-> draft.status, draft |-> draft]

\* assertFinalizedAttempt: the row returned agrees with the attempt in every field.
AssertFinalized(row, draft) == row.status # "running" /\ row = FinalizedRow(draft)

\* resultFromAttempt.
ResultOf(draft) == Answered(draft.outcome)

\* Refused by the validation, by a row that is no longer running, or by a lost
\* connection: the attempt ends in CollectionRunFinalizationError.
Finalize ==
    /\ attempt.stage = "finalizing"
    /\ \/ /\ ValidFinalization(attempt.draft) /\ run.status = "running"
          /\ run' = FinalizedRow(attempt.draft)
          /\ \/ attempt' = ResultOf(attempt.draft) /\ AssertFinalized(run', attempt.draft)
             \/ attempt' = Answered("finalization_failed")
       \/ attempt' = Answered("finalization_failed") /\ UNCHANGED run
    /\ UNCHANGED << now, fetch, stored, tables, edits >>

\* Others --------------------------------------------------------------------

\* One statement of the editorial administration.
Edit ==
    /\ edits < MaxEdits /\ attempt.stage \in {"rules", "processing"}
    /\ edits' = edits + 1
    /\ \/ \E rules \in RuleSets : tables' = [tables EXCEPT !.rules = rules]
       \/ \E defaults \in Defaults : tables' = [tables EXCEPT !.defaults = defaults]
    /\ UNCHANGED << now, fetch, attempt, run, stored >>

\* reconcileInterruptedCollectionRun, by the recovery of an expired job.
Interrupt ==
    /\ run.status = "running"
    /\ run' = [run EXCEPT !.status = "failed", !.draft.outcome = "worker_interrupted",
                          !.draft.error = "worker_interrupted", !.draft.retry = "transient"]
    /\ UNCHANGED << now, fetch, attempt, stored, tables, edits >>

Fetching ==
    attempt.stage = "fetching" /\ FetchStep /\ UNCHANGED << attempt, run, stored, tables, edits >>

Proceed ==
    \/ UseFetchResult \/ LoadDefaults \/ LoadRules \/ LoadFails
    \/ Process \/ CandidateRejected \/ ProcessingThrows \/ Finalize

AttemptNext == Begin \/ Fetching \/ Proceed \/ Edit \/ Interrupt

\* The statements of the attempt return or fail; the fetch is bounded by its
\* own timers alone.
AttemptSpec ==
    /\ AttemptInit /\ [][AttemptNext]_attemptVars
    /\ WF_attemptVars(Proceed)
    /\ FetchFairness

-----------------------------------------------------------------------------
\* The draft that any path of executeAttempt leaves is one that the validation
\* of finalizeCollectionRun accepts: exact accounting whatever stage fails at
\* whatever item, diagnostics where a parser ran and nowhere else.
FinalizationAccepted ==
    attempt.stage = "finalizing" => ValidFinalization(attempt.draft)

\* What a draft says of the tally committed, exact but for one commit under a
\* processing failure.
Tells(draft, committed) ==
    LET missing(o) == committed[o] - draft.counts[o]
    IN  /\ \A o \in DOMAIN committed : missing(o) >= 0
        /\ missing("created") + missing("updated") + missing("unchanged") + missing("excluded")
             <= IF draft.outcome = "processing_failed" THEN 1 ELSE 0
        /\ draft.outcome # "processing_failed" => draft.counts = committed
        /\ draft.retry = "transient" => committed = Nothing

\* A finalized run tells what its attempt committed: its counters are the
\* store's, except that one commit under a processing failure may be counted
\* as failed; and a failure that asks for a retry has committed nothing.
CountsMatchStore ==
    run.status \in {"succeeded", "failed"} /\ run.draft.outcome # "worker_interrupted" =>
        Tells(run.draft, stored)

\* Every attempt ends, whatever the resolver and the peer do or leave undone:
\* each wait of a fetch has a timer, and no timer is forgotten at a redirect.
EveryAttemptEnds == (attempt.stage = "fetching") ~> (attempt.stage = "ended")
=============================================================================
