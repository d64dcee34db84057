------------------------ MODULE SourceAdministration ------------------------
(***************************************************************************)
(* The administration's commands on Sources, their endpoints, Categories   *)
(* and Distribution Profiles, as the transactions they are.                *)
(*                                                                         *)
(* A command is a transaction of a few statements.  Each statement that    *)
(* locks rows decides from what it sees when it begins which rows those    *)
(* are, and then waits for them one after the other; what it has locked    *)
(* stays locked until the transaction ends.  So a command passes through   *)
(* stages: Plan is the locks a stage asks for, Acquire takes the next one, *)
(* Proceed begins the next statement, Commit decides and writes.           *)
(* Everything else of a command happens under its locks and is invisible   *)
(* to the others until it commits.                                         *)
(***************************************************************************)
EXTENDS Integers, FiniteSets, Sequences, SequencesExt

CONSTANTS Admins,        \* requests served at the same time
          Sources, Endpoints, Profiles, Categories, RelevanceRules,
          Order,         \* the ids of all rows in their order
          Owner,         \* the Source of each endpoint key
          Commands,      \* the commands administrators send
          Catalogs,      \* the catalogs they begin with
          MaxCommands,   \* bound
          None

ASSUME AdministrationAssumption ==
  /\ Owner \in [Endpoints -> Sources]
  /\ Order \in Seq(Range(Order))
  /\ Sources \union Endpoints \union Profiles \subseteq Range(Order)
  /\ Sources \intersect (Endpoints \union Profiles) = {}
  /\ Endpoints \intersect Profiles = {}
  /\ MaxCommands \in Nat

Policy == INSTANCE FetchPolicy WITH NoUrl <- None

VARIABLES sources,     \* rows of sources with their domain rules
          endpoints,   \* rows of source_endpoints with theirs
          profiles,    \* rows of distribution_profiles with their Sources
          categories,  \* the Categories there are
          relevance,   \* rows of relevance_rules
          admin,       \* each request in progress
          answer,      \* the last command answered, and its answer
          spent        \* commands begun

catalog == <<sources, endpoints, profiles, categories, relevance>>
vars == <<catalog, admin, answer, spent>>

\* What a command's body says: a value, a row to relate, a configuration.  The
\* configuration of a Source is its rules and default Category, and the
\* HTML listing profile of an rss_atom endpoint is None.
NoConfig == [url |-> [host |-> <<>>, path |-> ""], rules |-> {},
             type |-> "rss_atom", listing |-> None, category |-> None]
Command(kind, on, value, with, config) ==
  [kind |-> kind, on |-> on, value |-> value, with |-> with, config |-> config]
Silence == Command("none", None, "", None, NoConfig)

\* Locks: a row, or the advisory lock on a Source's validity for Profiles.
Row(x) == <<"row", x>>
Validity(s) == <<"validity", s>>
Rank(x) == CHOOSE i \in DOMAIN Order : Order[i] = x
Before(S, x) == {y \in S : Rank(y) < Rank(x)}
InOrder(S) ==
  [i \in 1..Cardinality(S) |-> CHOOSE x \in S : Cardinality(Before(S, x)) = i - 1]
Rows(S) == LET ids == InOrder(S) IN [i \in 1..Len(ids) |-> Row(ids[i])]

Idle == [stage |-> 0, cmd |-> Silence, todo |-> <<>>, held |-> {},
         profiles |-> {},   \* the active Profiles a Source command has locked
         rules |-> {}]      \* the Source's rules an endpoint command has read

Init ==
  /\ \E c \in Catalogs : /\ sources = c.sources /\ endpoints = c.endpoints
                         /\ profiles = c.profiles
                         /\ categories = c.categories
                         /\ relevance = c.relevance
  /\ admin = [a \in Admins |-> Idle]
  /\ answer = [cmd |-> Silence, code |-> "none"]
  /\ spent = 0

-----------------------------------------------------------------------------
(* Locks.                                                                  *)

Exists(row) == row.lifecycle # "absent"
OwnEndpoints(s) == {e \in Endpoints : Owner[e] = s /\ Exists(endpoints[e])}

SourceCommand == {"source_configure", "source_operational"}
GuardedCommand == {"source_approval", "source_lifecycle"}
EndpointCommand == {"endpoint_create", "endpoint_configure", "endpoint_approval",
                    "endpoint_lifecycle", "endpoint_operational", "check_now"}
ProfileCommand == {"profile_lifecycle", "profile_add", "profile_remove"}

\* The Source would not be usable afterwards.
TakesAway(c) == c.value \in {"unapproved", "archived"}

\* lockActiveDistributionProfilesReferencingSource, as its snapshot has it.
ActiveProfilesOf(s) ==
  {p \in Profiles : profiles[p].lifecycle = "active" /\ s \in profiles[p].sources}

SourcesOf(ps) == UNION {profiles[p].sources : p \in ps}

\* lifecycleAction
TransitionAllowed(from, to) ==
  <<from, to>> \in {<<"draft", "active">>, <<"active", "disabled">>,
                    <<"disabled", "active">>}

\* Mutant of ValidityPlan: activation does not coordinate with Source commands.
ValidityPlanMissing(ids) == <<>>

\* acquireDistributionProfileSourceValidityLocks
ValidityPlan(ids) == [i \in 1..Len(ids) |-> Validity(ids[i])]

\* Source before endpoint, as every administrative mutation has it.
EndpointPlan(stage, e) == IF stage = 1 THEN <<Row(Owner[e])>> ELSE <<Row(e)>>

\* updateSourceStateWithProfileGuard: the validity lock, the active Profiles
\* that refer to the Source, and then their Sources and the Source itself.
GuardedPlan(a, stage, c) ==
  CASE stage = 1 -> IF TakesAway(c) THEN ValidityPlan(<<c.on>>) ELSE <<>>
    [] stage = 2 -> Rows(ActiveProfilesOf(c.on))
    [] stage = 3 -> LET others == SourcesOf(admin[a].profiles) IN
                    IF c.on \in others THEN Rows(others)
                    ELSE Append(Rows(others), Row(c.on))

ProfilePlan(stage, c) ==
  LET p == profiles[c.on]
      activating == c.kind = "profile_lifecycle" /\ c.value = "active"
                    /\ TransitionAllowed(p.lifecycle, c.value) IN
  CASE stage = 1 -> <<Row(c.on)>>
    [] stage = 2 -> IF activating THEN ValidityPlan(InOrder(p.sources)) ELSE <<>>
    [] stage = 3 -> IF activating \/ c.kind = "profile_remove" THEN Rows(p.sources)
                    ELSE IF c.kind = "profile_add" THEN <<Row(c.with)>> ELSE <<>>

\* normalizeDomainRules: a host is named once.  A body that says otherwise is
\* refused before anything is locked.
RulesWellFormed(rules) ==
  \A one, other \in rules : one.host = other.host => one = other

Stages(kind) == CASE kind \in GuardedCommand \union ProfileCommand -> 3
                  [] kind \in SourceCommand \union EndpointCommand -> 2
                  [] OTHER -> 1

Plan(a, stage, c) ==
  CASE c.kind \in SourceCommand ->
         IF ~RulesWellFormed(c.config.rules) THEN <<>>
         ELSE IF stage = 1 THEN <<Row(c.on)>>
         ELSE IF c.kind = "source_configure" THEN Rows(OwnEndpoints(c.on)) ELSE <<>>
    [] c.kind \in GuardedCommand -> GuardedPlan(a, stage, c)
    [] c.kind \in EndpointCommand -> EndpointPlan(stage, c.on)
    [] c.kind \in ProfileCommand -> ProfilePlan(stage, c)
    [] OTHER -> <<>>

\* Category and rule commands, and creations, lock nothing beforehand.
Begin(a, c) ==
  /\ admin[a].stage = 0 /\ spent < MaxCommands
  /\ admin' = [admin EXCEPT ![a] = [Idle EXCEPT !.stage = 1, !.cmd = c,
                                                !.todo = Plan(a, 1, c)]]
  /\ spent' = spent + 1
  /\ UNCHANGED <<catalog, answer>>

\* Mutant of Held: Sources are locked FOR SHARE.
HeldUnlessShared(l) == l[2] \notin Sources /\ \E b \in Admins : l \in admin[b].held

Held(l) == \E b \in Admins : l \in admin[b].held

\* FOR UPDATE waits for the row and looks at it again: what is not there, or a
\* Profile that is not active any more, is not returned, and not locked.
Returned(a, l) ==
  \/ l[1] = "validity"
  \/ l[2] \in Sources /\ Exists(sources[l[2]])
  \/ l[2] \in Endpoints /\ Exists(endpoints[l[2]])
  \/ /\ l[2] \in Profiles /\ Exists(profiles[l[2]])
     /\ admin[a].cmd.kind \in GuardedCommand => profiles[l[2]].lifecycle = "active"

Acquire(a) ==
  LET l == Head(admin[a].todo)
      now == IF Returned(a, l) THEN {l} ELSE {} IN
  /\ admin[a].todo # <<>> /\ (~Held(l) \/ l \in admin[a].held)
  /\ admin' = [admin EXCEPT
       ![a].todo = Tail(@),
       ![a].held = @ \union now,
       ![a].profiles = @ \union {p \in Profiles : Row(p) \in now}]
  /\ UNCHANGED <<catalog, answer, spent>>

\* What a command has not locked was not there.
Locked(a, x) == Row(x) \in admin[a].held

\* loadSourceDomainRules: an endpoint command reads its Source's rules after
\* the Source's row is its own; the others read none.
RulesRead(a, c) ==
  IF c.kind \in EndpointCommand THEN sources[Owner[c.on]].rules ELSE admin[a].rules

\* The next statement.
Proceed(a) ==
  LET c == admin[a].cmd
      next == admin[a].stage + 1 IN
  /\ admin[a].stage > 0 /\ admin[a].todo = <<>> /\ next <= Stages(c.kind)
  /\ admin' = [admin EXCEPT
       ![a].stage = next, ![a].todo = Plan(a, next, c),
       ![a].rules = RulesRead(a, c)]
  /\ UNCHANGED <<catalog, answer, spent>>

\* The process or its connection is lost, or PostgreSQL breaks a deadlock:
\* nothing of the command is kept.
Fail(a) ==
  /\ admin[a].stage > 0
  /\ admin' = [admin EXCEPT ![a] = Idle]
  /\ UNCHANGED <<catalog, answer, spent>>

-----------------------------------------------------------------------------
(* What a command decides and writes, under its locks.                     *)

Done(a, code) ==
  /\ answer' = [cmd |-> admin[a].cmd, code |-> code]
  /\ admin' = [admin EXCEPT ![a] = Idle]

Refuse(a, code) == Done(a, code) /\ UNCHANGED catalog

\* A default or target Category that a command names and that is gone by the
\* time it is written: it was missed, or it was there when it was looked up.
KnownCategory(cat) == cat = None \/ cat \in categories
Uncategorized(a) == \E code \in {"category_not_found", "internal_error"} : Refuse(a, code)

\* normalizeSourceEndpointConfiguration
PolicyRefusal(rules, approval, config) ==
  IF ~RulesWellFormed(config.rules) THEN "invalid_request"
  ELSE IF \/ Policy!Widens(rules, config.rules)
          \/ /\ approval = "approved"
             /\ ~Policy!Approved(config.url.host,
                                 [source |-> rules, endpoint |-> config.rules])
  THEN "endpoint_domain_policy_conflict"
  ELSE IF (config.type = "html_listing") # (config.listing # None)
  THEN "invalid_request"
  ELSE "accepted"

\* The Source's rules and default Category are replaced whole.
WithConfiguration(row, config) ==
  [row EXCEPT !.rules = config.rules, !.category = config.category]

CreateSource(a, c) ==
  IF ~RulesWellFormed(c.config.rules) THEN Refuse(a, "invalid_request")
  ELSE IF Exists(sources[c.on]) THEN Refuse(a, "source_config_key_conflict")
  ELSE IF ~KnownCategory(c.config.category) THEN Uncategorized(a)
  ELSE /\ sources' = [sources EXCEPT ![c.on] =
            [approval |-> c.value, lifecycle |-> "active", operational |-> "enabled",
             rules |-> c.config.rules, category |-> c.config.category]]
       /\ Done(a, "ok")
       /\ UNCHANGED <<endpoints, profiles, categories, relevance>>

\* validateRetainedEndpointPolicies, on the stored type and profile's behalf
\* nothing is asked.
RetainedPolicyConflict(s, rules) ==
  \E e \in OwnEndpoints(s) :
    PolicyRefusal(rules, endpoints[e].approval,
                  [endpoints[e].config EXCEPT !.type = "rss_atom", !.listing = None])
      # "accepted"

ConfigureSource(a, c) ==
  IF ~RulesWellFormed(c.config.rules) THEN Refuse(a, "invalid_request")
  ELSE IF ~Locked(a, c.on) THEN Refuse(a, "source_not_found")
  ELSE IF ~KnownCategory(c.config.category) THEN Uncategorized(a)
  ELSE IF RetainedPolicyConflict(c.on, c.config.rules)
  THEN Refuse(a, "source_domain_policy_conflict")
  ELSE /\ sources' = [sources EXCEPT ![c.on] = WithConfiguration(@, c.config)]
       /\ Done(a, "ok")
       /\ UNCHANGED <<endpoints, profiles, categories, relevance>>

\* Mutant of Changed: restoring leaves the switch as it was set meanwhile.
ChangedInPlace(row, c) ==
  CASE c.kind \in {"source_approval", "endpoint_approval"} ->
         [row EXCEPT !.approval = c.value]
    [] c.kind \in {"source_operational", "endpoint_operational"} ->
         [row EXCEPT !.operational = c.value]
    [] c.kind \in {"source_lifecycle", "endpoint_lifecycle"} ->
         [row EXCEPT !.lifecycle = c.value]

\* The lifecycle commands disable collection, also when they restore.
Changed(row, c) ==
  CASE c.kind \in {"source_approval", "endpoint_approval"} ->
         [row EXCEPT !.approval = c.value]
    [] c.kind \in {"source_operational", "endpoint_operational"} ->
         [row EXCEPT !.operational = c.value]
    [] c.kind \in {"source_lifecycle", "endpoint_lifecycle"} ->
         [row EXCEPT !.lifecycle = c.value, !.operational = "disabled"]

Usable(row) == row.approval = "approved" /\ row.lifecycle = "active"

\* requireActiveProfilesRemainUsable, over the Profiles that were locked.
RequiredByProfile(a, c) ==
  /\ TakesAway(c)
  /\ \E p \in admin[a].profiles : \A s \in profiles[p].sources :
       s = c.on \/ ~Usable(sources[s])

ChangeSource(a, c) ==
  LET row == sources[c.on] IN
  IF ~Locked(a, c.on) THEN Refuse(a, "source_not_found")
  ELSE IF c.kind = "source_operational" /\ row.lifecycle = "archived"
  THEN Refuse(a, "source_archived")
  ELSE IF /\ c.kind \in GuardedCommand
          /\ c.value \notin {row.approval, row.lifecycle}
          /\ RequiredByProfile(a, c)
  THEN Refuse(a, "source_required_by_active_profile")
  ELSE /\ sources' = [sources EXCEPT ![c.on] = Changed(row, c)]
       /\ Done(a, "ok")
       /\ UNCHANGED <<endpoints, profiles, categories, relevance>>

-----------------------------------------------------------------------------

UrlTaken(e, url) ==
  \E f \in OwnEndpoints(Owner[e]) \ {e} : endpoints[f].config.url = url

\* normalizeEndpointCreateCommand and normalizeMutableEndpointConfiguration: the
\* body against the rules the transaction read, whatever they are by now.
BodyRefusal(a, approval) ==
  PolicyRefusal(admin[a].rules, approval, admin[a].cmd.config)

CreateEndpoint(a, c) ==
  LET s == Owner[c.on]
      refusal == BodyRefusal(a, c.value) IN
  IF ~Locked(a, s) THEN Refuse(a, "source_not_found")
  ELSE IF sources[s].lifecycle = "archived" THEN Refuse(a, "source_archived")
  ELSE IF refusal # "accepted" THEN Refuse(a, refusal)
  ELSE IF ~KnownCategory(c.config.category) THEN Uncategorized(a)
  ELSE IF Exists(endpoints[c.on]) THEN Refuse(a, "endpoint_config_key_conflict")
  ELSE IF UrlTaken(c.on, c.config.url) THEN Refuse(a, "endpoint_url_conflict")
  ELSE /\ endpoints' = [endpoints EXCEPT ![c.on] =
            [approval |-> c.value, lifecycle |-> "active", operational |-> "enabled",
             config |-> c.config,
             revision |-> IF c.config.type = "html_listing" THEN 1 ELSE 0]]
       /\ Done(a, "ok")
       /\ UNCHANGED <<sources, profiles, categories, relevance>>

\* Mutant of NextRevision: what follows no revision is no revision.
RevisionAfterNull(row, config) ==
  IF config.type # "html_listing" \/ row.revision = 0 THEN 0
  ELSE IF row.config.listing = config.listing
  THEN row.revision ELSE row.revision + 1

\* 0 is NULL: an HTML endpoint that turns to RSS forgets its revision.
NextRevision(row, config) ==
  IF config.type # "html_listing" THEN 0
  ELSE IF row.config.type = "html_listing" /\ row.config.listing = config.listing
  THEN row.revision ELSE row.revision + 1

ConfigureEndpoint(a, c) ==
  LET row == endpoints[c.on]
      refusal == BodyRefusal(a, row.approval) IN
  IF ~Locked(a, Owner[c.on]) \/ ~Locked(a, c.on) THEN Refuse(a, "endpoint_not_found")
  ELSE IF refusal # "accepted" THEN Refuse(a, refusal)
  ELSE IF ~KnownCategory(c.config.category) THEN Uncategorized(a)
  ELSE IF UrlTaken(c.on, c.config.url) THEN Refuse(a, "endpoint_url_conflict")
  ELSE /\ endpoints' = [endpoints EXCEPT ![c.on].config = c.config,
                          ![c.on].revision = NextRevision(row, c.config)]
       /\ Done(a, "ok")
       /\ UNCHANGED <<sources, profiles, categories, relevance>>

\* validateEndpointPolicy passes the stored configuration on, but not the
\* HTML listing profile.
ApprovalRefusal(a, c) ==
  PolicyRefusal(admin[a].rules, c.value, [endpoints[c.on].config EXCEPT !.listing = None])

ChangeEndpoint(a, c) ==
  LET row == endpoints[c.on] IN
  IF ~Locked(a, Owner[c.on]) \/ ~Locked(a, c.on) THEN Refuse(a, "endpoint_not_found")
  ELSE IF c.kind = "endpoint_operational" /\ row.lifecycle = "archived"
  THEN Refuse(a, "endpoint_archived")
  ELSE IF c.kind = "endpoint_approval" /\ ApprovalRefusal(a, c) # "accepted"
  THEN Refuse(a, ApprovalRefusal(a, c))
  ELSE /\ endpoints' = [endpoints EXCEPT ![c.on] = Changed(row, c)]
       /\ Done(a, "ok")
       /\ UNCHANGED <<sources, profiles, categories, relevance>>

\* endpointNotCollectableReason
NotCollectable(e) ==
  Policy!EligibilityOf(TRUE, sources[Owner[e]], endpoints[e]) # "eligible"

\* checkNow, up to the job it enqueues.
CheckNow(a, c) ==
  IF ~Locked(a, Owner[c.on]) \/ ~Locked(a, c.on)
  THEN Refuse(a, "endpoint_not_found")
  ELSE IF NotCollectable(c.on) THEN Refuse(a, "endpoint_not_collectable")
  ELSE Refuse(a, "queued")

-----------------------------------------------------------------------------
(* Distribution Profiles.                                                  *)

CreateProfile(a, c) ==
  IF Exists(profiles[c.on]) THEN Refuse(a, "profile_config_key_conflict")
  ELSE /\ profiles' = [profiles EXCEPT ![c.on].lifecycle = "draft"]
       /\ Done(a, "ok")
       /\ UNCHANGED <<sources, endpoints, categories, relevance>>

SetProfileLifecycle(a, c) ==
  LET p == profiles[c.on] IN
  IF ~TransitionAllowed(p.lifecycle, c.value)
  THEN Refuse(a, "profile_invalid_lifecycle_transition")
  ELSE IF c.value = "active" /\ \A s \in p.sources : ~Usable(sources[s])
  THEN Refuse(a, "profile_requires_usable_source")
  ELSE /\ profiles' = [profiles EXCEPT ![c.on].lifecycle = c.value]
       /\ Done(a, "ok")
       /\ UNCHANGED <<sources, endpoints, categories, relevance>>

\* Any Source that exists may be associated, in any state of either.
AddSource(a, c) ==
  IF ~Locked(a, c.with) THEN Refuse(a, "source_not_found")
  ELSE /\ profiles' = [profiles EXCEPT ![c.on].sources = @ \union {c.with}]
       /\ Done(a, "ok")
       /\ UNCHANGED <<sources, endpoints, categories, relevance>>

RemoveSource(a, c) ==
  LET p == profiles[c.on] IN
  IF c.with \notin p.sources THEN Refuse(a, "profile_association_not_found")
  ELSE IF p.lifecycle = "active" /\ \A s \in p.sources \ {c.with} : ~Usable(sources[s])
  THEN Refuse(a, "profile_requires_usable_source")
  ELSE /\ profiles' = [profiles EXCEPT ![c.on].sources = @ \ {c.with}]
       /\ Done(a, "ok")
       /\ UNCHANGED <<sources, endpoints, categories, relevance>>

ChangeProfile(a, c) ==
  IF ~Locked(a, c.on) THEN Refuse(a, "profile_not_found")
  ELSE CASE c.kind = "profile_lifecycle" -> SetProfileLifecycle(a, c)
         [] c.kind = "profile_add"       -> AddSource(a, c)
         [] c.kind = "profile_remove"    -> RemoveSource(a, c)

-----------------------------------------------------------------------------
(* Categories and relevance rules.                                         *)

SaveCategory(a, c) ==
  IF c.kind = "category_create" /\ c.on \in categories
  THEN Refuse(a, "category_config_key_conflict")
  ELSE IF c.kind = "category_update" /\ c.on \notin categories
  THEN Refuse(a, "category_not_found")
  ELSE /\ categories' = categories \union {c.on}
       /\ Done(a, "ok")
       /\ UNCHANGED <<sources, endpoints, profiles, relevance>>

\* What the foreign keys restrict.
CategoryInUse(cat) ==
  \/ \E s \in Sources : sources[s].category = cat
  \/ \E e \in Endpoints : endpoints[e].config.category = cat
  \/ \E r \in RelevanceRules : relevance[r].category = cat

\* Articles and the filters of Profiles hold on to a Category as well.
DeleteCategory(a, c) ==
  \/ c.on \notin categories /\ Refuse(a, "category_not_found")
  \/ c.on \in categories /\ Refuse(a, "category_in_use")
  \/ /\ c.on \in categories /\ ~CategoryInUse(c.on)
     /\ categories' = categories \ {c.on}
     /\ Done(a, "ok")
     /\ UNCHANGED <<sources, endpoints, profiles, relevance>>

NoRule == [action |-> "none", enabled |-> FALSE, category |-> None]

\* Only a categorizing rule has a target, and it must have one.
RuleMalformed(c) == (c.value = "categorize") # (c.config.category # None)

\* resolveCategory, in the transaction that writes the rule.
TargetMissing(c) == c.config.category \notin categories \union {None}

\* insertRelevanceRule.  The body's `enabled` is on: SwitchRule gives the other value.
RuleAs(c) == [action |-> c.value, enabled |-> TRUE, category |-> c.config.category]

\* Creation and replacement of a rule, and its switch.
SaveRule(a, c) ==
  LET known == relevance[c.on] # NoRule IN
  IF RuleMalformed(c) THEN Refuse(a, "invalid_request")
  ELSE IF c.kind = "rule_create" /\ known
  THEN Refuse(a, "relevance_rule_config_key_conflict")
  ELSE IF c.kind = "rule_update" /\ ~known THEN Refuse(a, "relevance_rule_not_found")
  ELSE IF TargetMissing(c) THEN Refuse(a, "relevance_rule_category_not_found")
  ELSE /\ relevance' = [relevance EXCEPT ![c.on] = RuleAs(c)]
       /\ Done(a, "ok")
       /\ UNCHANGED <<sources, endpoints, profiles, categories>>

SwitchRule(a, c) ==
  IF relevance[c.on] = NoRule THEN Refuse(a, "relevance_rule_not_found")
  ELSE /\ relevance' = [relevance EXCEPT ![c.on].enabled = (c.value = "enabled")]
       /\ Done(a, "ok")
       /\ UNCHANGED <<sources, endpoints, profiles, categories>>

\* A rule whose matches are kept on Articles cannot go.
DeleteRule(a, c) ==
  \/ relevance[c.on] = NoRule /\ Refuse(a, "relevance_rule_not_found")
  \/ relevance[c.on] # NoRule /\ Refuse(a, "relevance_rule_in_use")
  \/ /\ relevance[c.on] # NoRule
     /\ relevance' = [relevance EXCEPT ![c.on] = NoRule]
     /\ Done(a, "ok")
     /\ UNCHANGED <<sources, endpoints, profiles, categories>>

-----------------------------------------------------------------------------

Commit(a) ==
  LET c == admin[a].cmd IN
  /\ admin[a].stage = Stages(c.kind) /\ admin[a].stage > 0 /\ admin[a].todo = <<>>
  /\ spent' = spent
  /\ \/ c.kind = "source_create" /\ CreateSource(a, c)
     \/ c.kind = "source_configure" /\ ConfigureSource(a, c)
     \/ c.kind \in GuardedCommand \union {"source_operational"} /\ ChangeSource(a, c)
     \/ c.kind = "endpoint_create" /\ CreateEndpoint(a, c)
     \/ c.kind = "endpoint_configure" /\ ConfigureEndpoint(a, c)
     \/ /\ c.kind \in {"endpoint_approval", "endpoint_lifecycle", "endpoint_operational"}
        /\ ChangeEndpoint(a, c)
     \/ c.kind = "check_now" /\ CheckNow(a, c)
     \/ c.kind = "profile_create" /\ CreateProfile(a, c)
     \/ c.kind \in ProfileCommand /\ ChangeProfile(a, c)
     \/ c.kind \in {"category_create", "category_update"} /\ SaveCategory(a, c)
     \/ c.kind = "category_delete" /\ DeleteCategory(a, c)
     \/ c.kind \in {"rule_create", "rule_update"} /\ SaveRule(a, c)
     \/ c.kind = "rule_switch" /\ SwitchRule(a, c)
     \/ c.kind = "rule_delete" /\ DeleteRule(a, c)

Next ==
  \E a \in Admins :
    \/ \E c \in Commands : Begin(a, c)
    \/ Acquire(a) \/ Proceed(a) \/ Commit(a) \/ Fail(a)

Spec == Init /\ [][Next]_vars

-----------------------------------------------------------------------------
(* What the readers of rows demand of them.                                *)

\* mapHtmlListingProfileState: a profile and its revision, or neither.
ListingReads(row) ==
  IF row.config.type = "rss_atom" THEN row.config.listing = None /\ row.revision = 0
  ELSE row.config.listing # None /\ row.revision \in Nat \ {0}

\* mapEndpointReadRow, and mapEndpointRow of the collection.
EndpointReads(row) ==
  /\ row.approval \in {"approved", "unapproved"}
  /\ row.lifecycle \in {"active", "archived"}
  /\ row.operational \in {"enabled", "disabled", "paused"}
  /\ ListingReads(row)

\* mapRuleRow: a target for a rule that categorizes, and only for it.
RuleReads(row) == (row.action = "categorize") = (row.category # None)

\* What an endpoint may contact lies inside its Source's rules.
InsideRules(row, rules) ==
  /\ ~Policy!Widens(rules, row.config.rules)
  /\ row.approval = "approved" =>
       Policy!Approved(row.config.url.host,
                       [source |-> rules, endpoint |-> row.config.rules])

AtRest(row) == row.lifecycle = "archived" => row.operational = "disabled"

-----------------------------------------------------------------------------
(* What bodies can say, and what the administration is given to begin with. *)

Approvals == {"approved", "unapproved"}
Lifecycles == {"active", "archived"}
RuleActions == {"include", "exclude", "categorize"}
DomainRule == [host : Seq(STRING), sub : BOOLEAN]
Configuration ==
  [url : [host : Seq(STRING), path : STRING], rules : SUBSET DomainRule,
   type : {"rss_atom", "html_listing"}, listing : STRING \union {None},
   category : Categories \union {None}]

\* What a command of each kind is sent to, and the values its body admits.
Addressed(c) ==
  /\ c.kind \in {"source_create"} \union SourceCommand \union GuardedCommand =>
       c.on \in Sources
  /\ c.kind \in EndpointCommand => c.on \in Endpoints
  /\ c.kind \in {"profile_create"} \union ProfileCommand => c.on \in Profiles
  /\ c.kind = "profile_add" => c.with \in Sources
  /\ c.kind \in {"rule_create", "rule_update", "rule_switch", "rule_delete"} =>
       c.on \in RelevanceRules
Admitted(c) ==
  /\ c.kind \in {"source_create", "endpoint_create", "source_approval",
                  "endpoint_approval"} => c.value \in Approvals
  /\ c.kind \in {"source_lifecycle", "endpoint_lifecycle"} => c.value \in Lifecycles
  /\ c.kind \in {"source_operational", "endpoint_operational"} =>
       c.value \in {"enabled", "disabled", "paused"}
  /\ c.kind \in {"rule_create", "rule_update"} => c.value \in RuleActions

ASSUME CommandsAssumption ==
  \A c \in Commands : c.config \in Configuration /\ Addressed(c) /\ Admitted(c)

SourceRow ==
  [approval : Approvals, lifecycle : Lifecycles \union {"absent"},
   operational : {"enabled", "disabled", "paused"}, rules : SUBSET DomainRule,
   category : Categories \union {None}]
EndpointRow ==
  [approval : Approvals, lifecycle : Lifecycles \union {"absent"},
   operational : {"enabled", "disabled", "paused"}, config : Configuration,
   revision : Nat]
ProfileRow == [lifecycle : {"absent", "draft", "active", "disabled"}, sources : SUBSET Sources]
RuleRow == [action : RuleActions \union {"none"}, enabled : BOOLEAN,
            category : Categories \union {None}]

\* The catalog the commands begin with is one that commands can leave behind.
ASSUME CatalogsAssumption ==
  \A c \in Catalogs :
    /\ c.sources \in [Sources -> SourceRow]
    /\ c.endpoints \in [Endpoints -> EndpointRow]
    /\ c.profiles \in [Profiles -> ProfileRow]
    /\ c.relevance \in [RelevanceRules -> RuleRow]
    /\ \A s \in Sources : AtRest(c.sources[s])
    /\ \A e \in Endpoints : AtRest(c.endpoints[e])
    /\ \A e \in Endpoints : Exists(c.endpoints[e]) =>
         /\ Exists(c.sources[Owner[e]])
         /\ InsideRules(c.endpoints[e], c.sources[Owner[e]].rules)
         /\ EndpointReads(c.endpoints[e])
    /\ \A r \in RelevanceRules : c.relevance[r] # NoRule => RuleReads(c.relevance[r])

-----------------------------------------------------------------------------
(* What the commands keep, together.                                       *)

\* No endpoint's rules widen those of its Source, and the host of an approved
\* endpoint is inside the rules it collects under, however commands on the
\* Source and on the endpoint overlap (source-and-collection-contract.md:76).
EndpointsInsideTheirSource ==
  \A e \in Endpoints : Exists(endpoints[e]) =>
    InsideRules(endpoints[e], sources[Owner[e]].rules)

\* distribution-and-integration-contract.md:31: no interleaving of activation,
\* association, unapproval and archival leaves an active Profile without a
\* Source that is approved and active.
ActiveProfilesAreUsable ==
  \A p \in Profiles : profiles[p].lifecycle = "active" =>
    \E s \in profiles[p].sources : Usable(sources[s])

\* What is archived collects nothing, and being restored does not make it:
\* collection resumes by a command of its own.
NothingResumesByItself ==
  /\ \A s \in Sources : AtRest(sources[s])
  /\ \A e \in Endpoints : AtRest(endpoints[e])

\* Every row that commands leave behind can be read: one that cannot makes
\* every list it is on fail, and its collection.
EveryRowReads ==
  /\ \A e \in Endpoints : Exists(endpoints[e]) => EndpointReads(endpoints[e])
  /\ \A r \in RelevanceRules : relevance[r] # NoRule => RuleReads(relevance[r])

=============================================================================
