# news-scraper: specifications, model checking and proofs

This directory holds TLA+ specifications of the news-scraper repository
(version 2.2.7): a Worker process that collects articles from publishers'
endpoints, a web process with an administration and a distribution API, one
PostgreSQL database that both coordinate through, and a PHP integration that copies a
profile's articles to a customer's site. Every definition is translated from
the code named for it in `PROJECT.json` under `map`; line numbers there are of that
commit.

## The system

One or more **Workers** run four loops side by side (`src/app/worker/runtime.ts`):

| loop | does | state it shares |
|---|---|---|
| scheduler | lists due endpoints, enqueues a job for each | `source_endpoints`, `endpoint_collection_jobs` |
| dispatcher | claims a job under a lease and executes it; up to four at once | jobs, runs, endpoint runtime, advisory locks |
| recovery | takes over jobs whose lease ran out | jobs, runs, endpoint runtime |
| digest | starts digest generations that are due | digest tables |

An **execution** checks its claim, eligibility and capacity, takes the endpoint's
advisory lock, inserts its run and attaches it to the job in one transaction, collects,
finalizes the run, releases the lock, applies the
run to the endpoint's runtime columns, and finalizes the job: terminal, retried through
a successor job, or deferred. A timer renews the lease beside it. `collect-main.ts` runs
the same collection by hand without a job. Nothing but PostgreSQL coordinates these
actors: conditional UPDATEs guarded by status, claim token and lease, one partial unique
index, and session-level advisory locks.

**Collecting** is one promise chain (`collect-endpoint.ts`): fetch under two timers and a
redirect limit, parse, filter, normalize, vet the links, decide relevance, and store the
candidates one transaction each. Collectors of several Workers store at the same time;
operators moderate, merge and split what they store, and edit the Sources, endpoints,
Categories, rules and Profiles that decide what is stored.

The **web process** answers `GET /api/v1/distribution/:profileKey` in pages of one
snapshot; the PHP **synchronizer** walks the pages from cron, keeps the last good snapshot on
disk, and the site's pages read it without a lock.

### Inventory

| component | state | operations | what is hard | what makes it correct | module |
|---|---|---|---|---|---|
| job queue | `endpoint_collection_jobs` | enqueue, claim, renew, attach, defer, requeue, recover, finalize | leases, takeovers, retries against schedulers | rows well formed; one outstanding job an endpoint; linear retry chains; tokens die; no replay | `JobQueue` |
| endpoint runtime | `collection_runs`, runtime columns of `source_endpoints` | start, finalize, reconcile, apply, cool down | runs applied late, twice, out of order, never | columns agree with the run history; only collected validators kept | `EndpointRuntime` |
| worker | tasks, recovery passes, locks | the loops above | crashes, lost sessions, late Workers | jobs agree with runs; ended jobs are applied; one collector an endpoint; every job ends | `CollectionWorker` |
| capacity | advisory slots in three scopes, pools of connections | acquire, work, release, discard | partial acquisition, lost sessions, executions waiting for each other's connections | limits hold; pooled sessions hold no slot; executions end | `CollectionCapacity` |
| fetchers, network safety | one fetch: deadline, timers, vetted addresses | resolve, connect, redirect, read, time out | resolvers and peers that answer late, twice differently, or never | only vetted addresses are contacted; every fetch ends | `FetchPolicy`, `HttpFetch` |
| parsers, normalization, admission | none that outlives a call | - | limits at every field and list | the counts and diagnostics add up | `FeedItems` |
| collection pipeline | draft of a run, candidates, relevance snapshot | start, use the result, load, process, finalize | failure at any candidate, before or after its commit; edits between two reads | accounting is exact, agrees with the store and is accepted | `CollectionAttempt` |
| articles, duplicates | articles, observations, review candidates, groups, separations, audit events | observe, exclude, moderate, merge, split, dismiss, choose a Primary | concurrent observations of one article; evidence that is gone when it is used | one identity; sound groups; decisions of operators stay | `ArticleIdentity`, `DuplicateGroups`, `ArticleStore` |
| administration | sources, endpoints, rules, categories, associations | create, configure, approve, archive, restore, enable, delete | commands that overlap under row locks | endpoints inside their Source's rules; usable Profiles; rows that read | `SourceAdministration` |
| distribution | profile, its rows, credentials, limiter buckets | one page of one snapshot; rotate, revoke, expire | content changes between pages; limiters shared by good and bad requests | see the site below | `OutwardFeed`, `MachineAccess`, `DistributionApi` |
| PHP integration | manifest, generation files, lock | synchronize, prune, read | crashes between renames, overlapping runs, readers without a lock | the site shows one whole past state and never goes back; it catches up | `LocalProfileStore`, `ProfileSync`, `LastKnownGood` |
| AI digests | AI settings, attempts, active digest with its generation | list, claim, recover, read, call provider, activate, suppress, complete | stalls, abandonment, changes of articles and settings during a provider call | attempts exclusive; slots once; late answers dropped; sanctioned digest kept; contradicted answers dropped; attempts end | `DigestLifecycle` |
| public feed, publication, web, migrations, observability | see Not modelled | - | - | - | - |

## Modules

### The Worker

* **`EndpointCatalog`** declares the set of endpoints that the next ones share.
* **`EndpointSlot`** is the abstract specification of the queue: an endpoint has one slot;
  an attempt in it starts once; a started attempt may be replaced by the next one up to
  `MaxAttempts`; a slot can be emptied.
* **`JobQueue`** is the table and the ten statements that change it. A statement is one
  atomic action that takes its clock reading as an argument. Within `QueueNext` readings are
  arbitrary, so nothing shown of `JobQueue` rests on clocks that agree or advance.
  Tokens are numbers in order of issue; all that matters is that they are fresh.
  `FOR UPDATE SKIP LOCKED` makes the claimed row any available one.
* **`EndpointRuntime`** is the run table and the runtime columns, with
  `applyTerminalCollectionRunToEndpointRuntime` and
  `applyCooldownFromFinalCollectionFailure` as operators on them. Each
  finishing step advances the clock, so two runs never finish at the same instant.
* **`CollectionWorker`** composes the two: executions (`task`), advisory locks (`lock`),
  recovery loops (`recovery`), a scheduler pass (`due`). A step is one statement or one
  transaction; anything may happen between two steps of one actor. Where the code reads its clock
  well before the statement that uses the reading (finalization, the `expiredAt` of a
  recovery pass, the `now` of an execution) the model keeps the reading in the actor's
  state. An aborted transaction is no step.
* **`CollectionCapacity`** is what the executions of all processes hold: a session for their
  capacity, whose advisory locks are a global, a source and a host slot; a session for their endpoint's lock; and a
  connection for each statement. Each process has a pool of its own, and each `withSession`,
  `transaction` or `query` first waits for a free connection. `Served` takes any, since which one makes
  no difference. `borrowed` are connections used by the loops that are not executions, each of which needs
  one at a time. `Discard` is a session that is ended when it is given back: PostgreSQL drops its locks at
  once. `CollectionWorker` has only the outcome of all this, contention at any time.

### One collection

* **`FetchPolicy`** has the pure rules: eligibility, domain rules, the static checks of a URL and the
  classification of addresses. A host is its labels from the top level down, so that "includes
  subdomains" is being a prefix; an address is the sequence of its groups, so that ranges are comparisons.
* **`HttpFetch`** is `createHttpFetcher` and one hop of `createHttpTransport`: the redirect loop with its limit and its
  loop check, the resolver raced against what remains of the total time, the vetted addresses pinned for the
  connection, the connect timer, the body with its limits, the answers by status. Resolver, peer and clock are the
  environment; a due timer may be served late, never early.
* **`FeedItems`** has both parsers, admission, the normalizer and the relevance evaluator as
  operators on items. An item is what the properties tell apart: words of its title, summary and categories, a link, and
  which fields are over their limit. A feed with one field over its limit fails as a whole; a
  listing leaves the field or the item out and counts.
* **`CollectionAttempt`** composes them into `collectEndpoint`. The snapshot is what two statements read (`Assembled`),
  the relevance tables are read in two more, and operators edit between any of them. Each
  branch of `executeAttempt` leaves a draft; `Finalize` writes it only if `ValidFinalization`, the
  validation of `finalizeCollectionRun`, accepts it. `CandidateRejected` and `ProcessingThrows` end the batch at any candidate,
  before or after its commit. `Interrupt` is recovery ending the run row from outside.

### Articles

* **`ArticleIdentity`** says which row a candidate is and what observing it makes of the row, as operators: identity locks,
  resolution by external id or URL, promotion, merging of the material fields and of the seen window.
* **`DuplicateGroups`** has the topology as one record: review candidates, groups, Primaries with their origin, separations; and what
  detection, automatic grouping and the five commands make of it.
* **`ArticleStore`** is the tables under two kinds of actors. A collector's transaction is four steps: it takes the identity
  locks and resolves; writes, holding the row; detects, holding the candidate rows; groups and commits, under the topology
  lock. Its writes are visible to itself alone until then (`View`). An operator's command is one step, which waits for
  the locks. `Fail` rolls an open transaction back at any point.

### Administration

* **`SourceAdministration`** has every command of the services for Sources, endpoints, Profiles, Categories and rules. A
  command passes through stages: `Plan` is the locks that the stage's statement asks for, as it sees the tables when it
  begins; `Acquire` takes the next free one in row order; `Proceed` begins the next statement; `Commit` decides and writes. A row that
  changed while it was waited for is read as it is then, which is READ COMMITTED, and the set of rows is not
  looked up again (`Returned`). A deadlock aborts one of its commands. `Admitted` is what the services ask of a command before
  they open a transaction, and `CatalogsAssumption` what they have seen to in every catalog that a run may begin with.

### Distribution

* **`OutwardFeed`** has eligibility, order, revision, pages and cursors as operators; a representation stands for its revision
  hash. **`MachineAccess`** has credentials and the two fixed-window limiters. **`DistributionApi`** has the tables, what changes
  them, and the answers.
* **`LocalProfileStore`** is the state directory: generation files, the manifest, and a page that reads the manifest and then
  the file. **`ProfileSync`** composes it with the API: cron runs as processes, each request three steps (look at the invalid
  limiter, authenticate and charge, read the snapshot), each rename a step. Faults are lost and damaged answers, disk errors and
  deaths of the process at every step.
* **`LastKnownGood`** is the abstract specification of what the integration promises the site: it knows the history of the profile and
  the position the site shows, which only moves forward. `ProfileSync` implements it with `at` taken from the manifest.

### Digests

* **`DigestLifecycle`** is the AI digest of one Profile. Profiles share nothing (the advisory
  lock and all rows are a Profile's), so one is enough. An evaluation is the sequence of awaited
  statements of `evaluate()` in `lifecycle.ts`, with the provider call among them; a
  transaction under the lifecycle lock is one step. `readForLifecycle` is two steps, because it
  reads the articles before the settings. The three reads that share code share
  actions and differ by `purpose`. The order of articles, and the prompt and answer texts, are left out:
  `window` stands for what lookback and maximum count let in (`MoveWindow` is also time passing over an article), `style` for
  every setting that `digestInputIdentity` hashes (`SaveSettings`). Highlights cite inputs only (a foreign key), so a digest is
  canonically valid when its inputs are. `Faults` says which of two environments is assumed: statements
  that may stall, and reads of the active digest that may fail.
* **`DigestHistories`** adds what the two action properties on digests remember: how the Profile and the settings have
  stood to the active digest, and to each answer, since they came about.

**`WorkerTablesProofs`** (of the job table and of the runtime columns), **`CollectionWorkerProofs`**, **`CollectionCapacityProofs`**,
**`CollectionAttemptProofs`**, **`ArticleStoreProofs`**, **`SourceAdministrationProofs`**, **`DigestLifecycleProofs`**, **`ProfileSyncProofs`** hold
the theorems.
**`MC...`** modules and `.cfg` files give constants their values.
Operators commented as mutants are deliberate errors for testing the properties; no
specification uses them.

## Runs

| run | instance | shows |
|---|---|---|
| `worker` | 1 endpoint, 2 jobs, 2 executions, 1 recovery loop, sessions may die | jobs agree with runs; ended jobs are applied; the endpoint's columns follow the history; late executions leave jobs alone; retry chains; dead tokens; the job table implements `EndpointSlot` |
| `worker_liveness` | 1 endpoint, 2 jobs, 1 manual run, 2 executions, 1 recovery loop, sessions live, fairness | one collector an endpoint, manual runs included; every job ends |
| `capacity` | 1 process, 2 executions, 5 connections, another loop, one session lost, fairness | limits hold; pooled sessions hold no slot; every execution ends |
| `pipeline` | 4 URLs, resolvers of 3 hosts, 7 documents, 7 snapshots, 3 rule tables, fairness | the accounting is accepted and agrees with the store; only vetted addresses are contacted; every attempt ends |
| `article_store` | 3 Sources, 3 Articles, 2 collectors, 4 observations and commands | unique keys; seen windows; sound topology; moderation survives; grouping has evidence; dismissals stick |
| `administration` | 2 administrators, 2 Sources, 2 endpoints, 2 Profiles, any 3 of 32 commands | endpoints inside their Source; Profiles usable; archived rows stay out; rows read |
| `distribution` | 2 Articles, pages of one, 2 cron runs, 2 credentials, 2 edits or faults, fairness | the site implements `LastKnownGood`; whole reads; the site catches up |
| `digest_stalls` | 2 evaluations, 2 attempts, 1 article, stalls and unreadable digests, a crash, fairness | attempts exclusive, final and never running for ever, slots once, late answers dropped |
| `digest_prompt` | 2 evaluations, 2 attempts, 2 articles, 2 styles, unreadable digests, no stalls | a sanctioned digest survives but for evaluations that are contradicted or misread it; contradicted answers dropped |
| `digest_late_suppress` | as `digest_prompt` with 3 attempts and statements that may stall | violates `SanctionedDigestKept`, see Findings |
| `pipeline_finalization` | odd answers of a server | violates `FinalizationAccepted`, see Findings |
| `administration_profiles` | 3 commands on one Profile | violates `ActiveProfilesAreUsable`, see Findings |

### Bounds

*Worker.* Two job ids are a job and the retry that ends the chain (`MaxAttempts = 2`); two executions are an owner
and its supplanter; the recovery loop may take a job while its owner still works on it (a second loop is the
theorems' affair). A lease spans two ticks, three in the liveness run, and `MaxTime` leaves room for a claim, its expiry and
its recovery, in `worker` also for a renewal. Retries are delayed by one tick and two at the most, a deferral by one, and jitter adds
one (`MaxJitter`), so that retries come due early and late. `MaxTime` starts the *calm*: before it anything may fail and the clock may outrun any
step; after it nothing fails and the clock moves only while all wait for it. That
keeps the state space finite and gives the liveness run its premise, "once
failures stop". `RoomForChain` refuses to begin a chain of attempts without ids for all of it. More endpoints
share nothing but the ids of jobs and the loops, and longer chains are the theorems' affair.

*Capacity.* Two executions of one target want the one slot of its Source, so that either is refused with a global slot in hand; what follows a refusal by the last scope is the theorems' affair. Five connections are the least that
`PoolAssumption` allows for two executions; with one fewer, or when a statement
keeps its connection while it asks for another, executions wait for one another for ever. The lost session (`MaxLosses`) may be
that of any execution at any stage.

*Pipeline.* The clock runs to `Total = 3`, a connect timer takes two ticks, and a due timer may be served one tick late
(`Late`), so that either timer can be first and an answer can come between a timer's due time and its service. Two redirects are allowed and the servers offer
three. Documents have up to four items where parsers admit three; one item fails each of admission, normalization,
link policy and relevance. One operator's statement (`MaxEdits`) falls between any two reads. `FailureCap = 2` is where the counted failures stop counting.

*Articles.* Three Articles are the least that have a group to split and one that joins through a third. `MaxWork = 4` observations and commands
together are an observation of each Article and a command, or two observations by each collector, or two that overlap under two commands. `Edited` lets one
Source's settings change. The first Source publishes with and without external ids and moves a story.

*Administration.* `MaxCommands = 3` suffices for a command between two others that read before it, which is where every
interleaving we know of bites; `MCCommands` has every kind of command at least once, in the two catalogs from which its
refusals and its effects can be reached.

*Distribution.* `MaxEvents = 2` edits and faults in any combination; a walk has two pages, so an edit can fall between them; the
walk may restart once and each request may be retried once. The limiters admit two requests in a window, so that a walk with a retry meets its
limit, and one key each, so that the rotated credential finds the table full.

*Digests.* Timeout and margin are one tick each and the slot is two, so an attempt
becomes stale exactly when the clock reaches `MaxTime` and a new slot begins; a crash in the first tick
leaves one to recover. Two attempts are one abandoned and one that recovered it; more are the theorems' affair.
`DigestHistories` adds histories: whether the active digest was sanctioned ever since it was
activated, which answers have been contradicted ever since the provider gave them, and which were for a while. A change that is
taken back meanwhile is not held against the code, which reads twice only.

`CHECK_DEADLOCK FALSE` is given where the system may rest: nothing is due or no ids are left, the attempt has ended, the
observations or commands are spent. The capacity and distribution runs check for deadlock.

### Fairness

`WorkerFairness`: time passes; free dispatchers claim what is available
(their loop never ends); each execution takes its next step (every fetch has a deadline, every
await settles); recovery passes recur (their interval timer). Weak fairness is
enough, and none is assumed of renewals, schedulers, administrators, crashes.

`DigestFairness`: time passes, and every evaluation takes its next step, the first of which is a
scheduler pass (an interval timer) and the longest of which is a provider call that is aborted at its
timeout. Crashes are not fair, and nothing forces an administrator to evaluate.

`CapacityFairness`: other loops give their connections back; a collection ends (a finite list of candidates, a
deadline for each fetch); and whoever waits for a connection gets one if again and again one is free, which is strong
fairness and what the queue of the `pg` pool, first come first served, provides.

`AttemptSpec`: the attempt's own statements return or fail (`Proceed`), time passes, and Node's timers fire when
they are due (`FetchFairness`). Nothing is assumed of the resolver, of the peer or of operators, so that the end of a fetch
rests on its timers alone.

`FairSpec` of `ProfileSync`: cron starts the synchronizer again and, of those that run, some one takes its next step; a limiter's window
ends. Faults and edits are not fair, and bounded; the premise of `EventuallyCurrent` is that the site's credential stays good
and the profile publishable.

## Findings

`digest_late_suppress`: the suppression ahead of the provider call is a transaction of its own that does not look
at the attempt. An evaluation that was abandoned before it removes the digest which its successor
has activated.

`pipeline_finalization`: an empty `ETag` or `Last-Modified`, or a status above 599, passes the transport and is refused by
`finalizeCollectionRun` after the candidates were committed; the run row stays `running`.

`administration_profiles`: adding a Source to an active Profile takes no validity lock. An unapproval of that Source that has
already found no Profile that needs it, and the removal of the Profile's other Source, both commit, and the active
Profile has no usable Source. `administration` leaves additions to active Profiles out of its commands, and the theorem
`ProfilesStayUsable` shows that the missing lock is the only gap.

Seen while modelling, without a run:

* a Worker suspended between releasing the endpoint's lock and applying its run wakes after recovery has applied the run
  and cooled the endpoint down; its application passes the guard (`last_attempt_at <= finished_at`) and clears the cooldown
  (`sources/repository.ts:784`), although a test's title calls the application idempotent;
* an attempt's age counts from before its claim, so slow statements let a recovery start a second provider call while the
  first is in flight; `LateAnswersAreDropped` shows that the late answer changes nothing;
* an evaluation takes the active digest to be malformed, and removes it, whatever makes the read of it fail
  (`lifecycle.ts:416`), which is why `SanctionedDigestSurvives` makes an exception of it;
* when an article of its own answer is withdrawn, an evaluation suppresses the active digest, although that rests on other articles
  and is sanctioned (`lifecycle.ts:707`); the contract only says that such a digest may remain
  (`ai-assistance-contract.md:163`);
* splitting an automatically selected Primary off a group that keeps two members always fails, because a new Primary is
  selected after a manual one only (`deduplication/moderation.ts:118`);
* approving an HTML listing endpoint is always refused, because the stored configuration is validated without its
  listing profile (`endpoint-administration.ts:1081`).

## Proofs

Every theorem holds for all values of the constants that satisfy the named assumptions of the modules it is about. Each
proof module opens with the inductive invariant that its theorems follow from.

`WorkerTablesProofs` proves about `QueueSpec`, for every set of endpoints and ids, any clock readings
and every `MaxAttempts`, from the named assumptions of `EndpointCatalog` and
`JobQueue` only: type correctness, `RowShape`, `OneOutstanding`, `RetryChain`,
`StartedJobsOnlyEnd`, `DeadTokensStayDead`, and that the queue implements `EndpointSlot`.
The inductive invariant is `QueueInv`, the conjunction of the first four. They need each other: that a
successor is its predecessor's only one follows from a predecessor being terminal
and finalization requiring a running job; that a requeued row is well formed
follows from claim fields being set exactly while running. `QueueStepCases` sorts
the ten statements into updates of one outstanding row, insertions and retries, and the
conjuncts that speak of several rows are proved along these three cases. The refinement maps an
endpoint's slot to the attempts of its outstanding jobs; `OneOutstanding` makes that at most
one, and each statement is then an abstract step or a stutter.

It proves about `RuntimeSpec`, where runs are applied by anybody, late, twice or never:
`RuntimeTypeOK`, `RuntimeFollowsHistory`, `ValidatorsWereCollected`, `NoStepBack`. The invariant `RuntimeInv` adds that finished runs
have instants of their own in the past (`RunsDated`) and that the columns are ordered among themselves (`ColumnsOrdered`). The
failure counter needs most of the work: it equals the length of the losing streak that ends in the last applied run,
and the lemmas on streaks say how long a streak is after one more run, which is where `Runs` must be finite.

`CollectionWorkerProofs` is about the composition. `WorkersKeepToTheTables` shows that `WorkerSpec` implements `QueueSpec` and
`RuntimeSpec`: each step of a Worker is a step of one, of both, or of neither. By it all theorems about the two tables hold of
any number of Workers, executions and recovery loops. What relates the tables to each other is proved from `BookInv`: who finished
a run knows how it ended, who is about to end a job has told the endpoint, a job row and its run row have one endpoint
(`TaskKnows`, `LoopKnows`, `JobAgrees`). Neither `JobAgreesWithRun` nor `EndedJobsAreApplied` is inductive without these, because the
outcome travels through the task's locals. `OneTaskCollectsAnEndpoint` needs the premise that sessions live, as the code does: an
advisory lock goes with its session, and what bounds the harm then is `LateTasksMoveNothing`, which needs no premise.

`CollectionCapacityProofs` proves about `CapacitySpec`, for any number of processes, executions, connections and
targets and any limits, with sessions lost at any time: `CapacityTypeOK`, `WithinLimits`,
`PooledSessionsAreClean` and `PoolCanMove`. In `CapacityInv` `Shape` says what an execution holds at each stage;
`LocksRecorded` that a locked slot is recorded in `acquiredSlots` by the execution whose session locked it, and
`RecordsLocked` the reverse while the session lives. `WithinLimits` follows by counting: the executions of one key map
one to one to slot indices below the limit, since no two of them share a session and no two sessions a lock.
`PoolCanMove` needs `OwnSessions` besides, and is the same argument with connections: if all waited, each connection of the process would be
pinned as the capacity or lock session of an execution, and there are more connections than that. It rests on
`PoolAssumption`, which the code checks when it is loaded (`collection-capacity.ts:77`) and when a Worker
starts (`runtime-timing.ts:60`).

`CollectionAttemptProofs` proves about `AttemptSpec`, for every policy, resolver, web of redirecting servers, document, configuration
and rule table, with operators' edits and the recovery in between: `ContactsAreVetted` and `CountsMatchStore`. `FetchInv` says that a
URL being resolved has passed the static checks, that no two contacts have one URL, and that contacts are one more than
redirects, which bounds both (`Counted`). `AttemptInv` follows a draft through the stages: `Unparsed` when the fetch has
content, `Prepared` by any parser, admission and link policy, with a throw before any item, and then `Content(draft, n)`, which accounts
for all but the n candidates left and counts exactly what is stored. Each candidate takes one from n; a processing failure
counts all n as failed, though the last may have been committed (`FailureTells`). `FinalizationAccepted` is false of the program (see
Findings) and a theorem under `OrdinaryResponses`: if no server sends a status above 599 or an empty validator, no path leaves a draft
that the finalization refuses. The finding is thereby the only one of its kind.

`ArticleStoreProofs` proves `UniqueKeysNeverClash`, `SeenWindowSpansObservations` and `ModerationSurvives` for any number of collectors,
Sources and Articles. A collector resolves its candidate without locking a row and writes three steps later what it has resolved. `Resolution`
states what stays true of the committed rows in between: whatever Article has the candidate's external id, or its URL if
it has none, is the one that was resolved. Others' commits keep it because they hold other identity locks (`Apart`), and
`Keyed` says under which key a row is written. `Covers` does the same for what the row has in common with the one it
replaces. `Min`, a `CHOOSE`, is made use of through well-foundedness of the numbers (`Least`).

It proves of duplicate groups `TopologySound`, `GroupingHasEvidence` and `DismissalSticks`. The invariant is `TopologyInv`: every group has
two members (`Paired`), the Articles of a merged review are in one group and separated ones are not (`Reconciled`). Detection works on rows that the transaction found earlier: `CandidatesInv` says that what it found is still what
`Reviewed` makes of the committed rows when it commits, because the rows of the reviews are locked until then. Grouping folds over the pending reviews
of the Article that was stored (`GroupedAll`), and its induction is over the number of Articles, with the invariant of the groups as its
hypothesis. Every command of an operator is a lemma of its own. The run has three Articles, so that two groups are merged by the
theorem only; and the proof never needs the error of `grouping.ts` for a merged review without a shared group, so that it does not occur.

A collector commits what it has grouped without asking whether each Primary is still a member (`PrimaryIsMember`, the deferred foreign key).
`PrimariesAreMembers` is the reason that `GroupAndCommit` has no such guard. It rests on `PrimaryExists`: the order of
`comparePrimaryCandidates`, where the first difference of four numbers decides, has a first Article in every set of stored ones. `PrimariesInv` adds that
candidates, rows and pairs in hand can be compared and are stored by the time they are committed. `CommandsTheKeyRefuses` settles what
the key does to an operator: it refuses no merge, and a split exactly if that takes an automatic Primary off a group that is left
(`moderation.ts:118` selects a new one only after a manual Primary), which makes the hazard of that line a fact about every such split.

`SourceAdministrationProofs` proves `EndpointsInsideTheirSource`, `NothingResumesByItself` and `EveryRowReads` for any number of
administrators, any commands of the shape the services admit and any catalog that is in order at the beginning. The heart of it is `EndpointInv`: an
endpoint command in its second stage still has the rules that are its Source's, as long as it holds the Source's row. It is
kept because a command on the Source cannot hold the same row (`Exclusive`), and it fails at once if the Source were
locked in share mode only, which is the mutant `HeldUnlessShared` of the run.

`ProfilesStayUsable` is about the other locks: `ActiveProfilesAreUsable` holds, for any catalog in which it holds at the beginning, as long as a Source
joins an active Profile only while nobody has its validity locked (`JoinsCoordinated`). The code does not see to that premise, which is
the finding below `administration_profiles`; the theorem says that nothing else is missing, and that `addSource` taking the lock that
activation takes would close it. `GuardInv` is what a guarded command knows: once it has the Source's validity, the
active Profiles that refer to the Source are locked or about to be. It is kept because a Profile is activated only with the validity of all its
Sources in hand (`ActivationInv`), and a Profile that is not active when its row is reached is not returned. That a list of locks in row order
has all the rows of the set it was made of (`InOrderRange`) is proved by counting.

`DigestLifecycleProofs` proves about `DigestSpec`, for any number of evaluations and attempts, any timeout, margin and
slot length, with both faults: `DigestTypeOK`, `OneRunningAttempt`, `OneAttemptPerSlot`,
`ActiveDigestSucceeded`, `EndedAttemptsStayEnded`, `LateAnswersAreDropped`. The invariant is
`DigestInv`: the first four, and that an evaluation past its claim knows its attempt (`EvalsOK`). `Effect` sorts every
step by what it does to the tables: nothing but perhaps a suppression, ending one running attempt, or
a claim over the table or over the table with a stale attempt abandoned. The table in the middle of a
recovering claim is no state of the system, which is why the two uniqueness lemmas
speak of any table. That none of this needs an assumption about time is the content of the theorems:
the clock decides when an attempt is recovered, never whether exclusion holds.

It proves `ContradictedAnswersAreDropped` and `SanctionedDigestSurvives` about `HistorySpec`, whose histories (`DigestHistories`) are
those of every run. For the first, an evaluation that is behind its validation carries what it has read: the settings may have changed
since, but an answer contradicted ever since it was given was contradicted at either read. For the second, an evaluation
about to suppress the active digest has misread it, or judged its own answer, or is suppressing what was not sanctioned when it was read, in
which case `lapsed` says so. What survives is less than `SanctionedDigestKept`, which is false already when articles change twice: an
evaluation suppresses the active digest when an article of its own answer is withdrawn, although the active digest rests on others
(`lifecycle.ts:707`).

`ProfileSyncProofs` proves `ReadsAreWhole`, that one run at a time is under way, and that the synchronizer implements `LastKnownGood`
(`SitesShowTheLastKnownGood`), for any number of overlapping cron runs, any articles, page size, credentials and bounds, with edits between
any two requests, answers lost or damaged, disk errors and crashes anywhere. The conjuncts of `SyncInv`, for the files: whoever is past
the lock holds it (`LockInv`); files are numbered without gaps, and the manifest names a file that carries its own
revision (`ManifestInv`), since what is committed is the file that was written last (`CommitInv`); and the file
that a page is about to open is the active one, or the previous one after one activation, so that pruning
spares it, and only after two may it be gone (`ReadingInv`). The page takes no lock, so its part of the invariant is kept by
every step of every run. `KnownInv` relates a run to the history of the server: a walk behind its first pages has the first `n` articles of one
snapshot that was present when it began, and its cursor stands at the `n`-th (`Continued`); a page that is answered
goes on from there (`PageContinues`), because a cursor is refused once the revision is another and because no two
articles have one position (`ArticlesStandApart`, by counting: the ranks of the eligible articles are a permutation);
a 304 or a suppression speaks of a state at least as recent as the one shown, because the lock keeps other runs from
the manifest meanwhile (`AnswerKnown`). The place `at` in the history that the refinement needs is a history variable of the model.

Assumptions: sets of runs, executions and connections are finite; markers such as `NoJob` are no ids; durations are positive
numbers; those that say what the program starts from (`PoolAssumption`, `CommandsAssumption`, `CatalogsAssumption`); and those that close the
world of a fetch (`WorldAssumption`: every URL redirected to has a server and a host with answers, which are sequences of
addresses; `DocumentsAssumption`: a document is a sequence of items with finitely many overlong fields), `PreferenceAssumption`, that Source priorities and what they are compared with are integers, and `RowsAssumption`, that there are
finitely many articles, whose ids and ranks are numbers. TLC evaluates them in every run.

Proved and not repeated by a run: `QueueTypeOK`, `RowShape`, `OneOutstanding`, `StartedJobsOnlyEnd`, `RuntimeTypeOK`, `DigestTypeOK`,
`CapacityTypeOK`, `PoolCanMove`, `PrimaryIsMember`, `MergesCommit`, `SplitsCommit`.

Model-checked only:

* liveness (`EveryJobEnds`, `NoAttemptRunsForever`, `EveryExecutionEnds`, `EveryAttemptEnds`, `EventuallyCurrent`), which is out of the
  prover's reach;
* `SanctionedDigestKept`, which is false (see Findings). `FinalizationAccepted` and `ActiveProfilesAreUsable` are false as they stand and theorems
  under the premises that the code lacks.

## Plan

What the next step should bring, in order of use:

| module | proof |
|---|---|
| `MachineAccess` | that buckets never exceed their policy |

## Not modelled

* **Public feed and publication presentation**: read-only pages over committed articles, and one row of settings.
* **Database layer and migrations**: the runner, backup and probes work before or beside the program. Transactions are the atomic
  steps of every module; the constraints of the schema are in the modules where they decide something.
* **Web application**: routing, rendering and browser code around the services, which are modelled.
* **Observability and operations**: read-only snapshots, deployment checks, packaging.
* Startup and shutdown of the Worker, and a pool that has failed while idle (`database.ts:68`): every later call of
  the process fails, which to the others is the crash of the Worker model.
* Text (conversion, dates, excerpts, tracking parameters, prompts, the wording of digests), sockets, TLS and decompression, SQL plans.
  Cadence and staleness of the PHP integration, which need a clock of the site, and damage to its committed files.
* `terminal_at >= claimed_at` and the other order constraints of timestamps across Workers'
  clocks: a violation rolls the statement back, which is no step.
