---------------------- MODULE SourceAdministrationProofs ----------------------
(***************************************************************************)
(* What the administration's commands keep for every catalog they may      *)
(* begin with and any number of administrators.                            *)
(*                                                                         *)
(* A command on an endpoint decides by the rules it read when it locked    *)
(* the endpoint's Source.  That they are still the Source's rules when it  *)
(* commits is the invariant the locks are there for: RequestInv and        *)
(* Exclusive.                                                              *)
(*                                                                         *)
(* A command that takes a Source away decides by the active Profiles it    *)
(* found.  That there are no others when it commits is ProfilesInv, and it *)
(* holds as far as associations are coordinated: JoinsCoordinated.         *)
(***************************************************************************)
EXTENDS SourceAdministration, FiniteSetTheorems, TLAPS

\* The fields of a request that the proofs speak of.  What a stage asks for
\* is any sequence of locks.
Request(r) ==
  r \in [stage : Nat, cmd : Commands \union {Silence}, todo : {r.todo},
         held : {r.held}, profiles : {r.profiles}, rules : {r.rules}]

\* An endpoint command: in its first stage it asks for the Source's row, in
\* the second it has the rules that are the Source's as long as it holds it.
EndpointInv(a) ==
  LET r == admin[a]
      s == Owner[r.cmd.on] IN
  /\ r.cmd.kind \in EndpointCommand /\ r.stage = 2 =>
       /\ r.todo \in {<<>>, <<Row(r.cmd.on)>>}
       /\ Row(s) \in r.held => r.rules = sources[s].rules

RequestInv(a) ==
  /\ Request(admin[a])
  /\ admin[a].stage > 0 => admin[a].cmd \in Commands
  /\ admin[a].stage = 0 => admin[a].held = {} /\ admin[a].todo = <<>>
  /\ \A s \in Sources : Row(s) \in admin[a].held => Exists(sources[s])
  /\ \A e \in Endpoints : Row(e) \in admin[a].held => Exists(endpoints[e])
  /\ EndpointInv(a)

Exclusive ==
  \A a, b \in Admins : a # b => admin[a].held \intersect admin[b].held = {}

CatalogType ==
  /\ sources \in [Sources -> SourceRow]
  /\ endpoints \in [Endpoints -> EndpointRow]
  /\ relevance \in [RelevanceRules -> RuleRow]

OwnersExist ==
  \A e \in Endpoints : Exists(endpoints[e]) => Exists(sources[Owner[e]])

CatalogInv ==
  /\ CatalogType /\ OwnersExist
  /\ EndpointsInsideTheirSource /\ NothingResumesByItself /\ EveryRowReads

RequestsInv ==
  /\ admin = [a \in Admins |-> admin[a]]
  /\ \A a \in Admins : RequestInv(a)
  /\ Exclusive

AdminInv == CatalogInv /\ RequestsInv

\* A request that is over asks for nothing and holds nothing.
LEMMA IdleRequest ==
  ASSUME NEW a, admin[a] = Idle PROVE RequestInv(a)
<1>1. /\ Idle.stage = 0 /\ Idle.cmd = Silence /\ Idle.held = {} /\ Idle.todo = <<>>
  BY DEF Idle
<1>2. Request(Idle)
  BY DEF Request, Idle
<1>3. EndpointInv(a)
  BY <1>1 DEF EndpointInv
<1> QED BY <1>1, <1>2, <1>3 DEF RequestInv

-----------------------------------------------------------------------------
(* The beginning.                                                          *)

\* The commands begin on a catalog that is in order, and with no lock taken.
LEMMA AdminInit == Init => AdminInv
<1> SUFFICES ASSUME Init PROVE AdminInv
  OBVIOUS
<1> USE DEF Init
<1>1. PICK c \in Catalogs : /\ sources = c.sources /\ endpoints = c.endpoints
                            /\ relevance = c.relevance
  OBVIOUS
<1>2. CatalogType /\ OwnersExist /\ NothingResumesByItself
  BY <1>1, CatalogsAssumption DEF CatalogType, OwnersExist, NothingResumesByItself, Exists
<1>3. EndpointsInsideTheirSource
  BY <1>1, CatalogsAssumption DEF EndpointsInsideTheirSource
<1>4. EveryRowReads
  BY <1>1, CatalogsAssumption DEF EveryRowReads
<1>5. RequestsInv
  <2>1. ASSUME NEW a \in Admins PROVE RequestInv(a)
    BY <2>1, IdleRequest
  <2> QED BY <2>1 DEF RequestsInv, Exclusive, Idle
<1> QED BY <1>2, <1>3, <1>4, <1>5 DEF AdminInv, CatalogInv

-----------------------------------------------------------------------------
(* The steps that take locks.  They leave the catalog alone.               *)

\* What the invariant says of the catalog is kept by whatever leaves it.
LEMMA CatalogUnchanged ==
  ASSUME CatalogInv, UNCHANGED <<sources, endpoints, relevance>> PROVE CatalogInv'
BY DEF CatalogInv, CatalogType, OwnersExist, EndpointsInsideTheirSource,
       NothingResumesByItself, EveryRowReads, Exists

\* No row goes, and the Sources that a request has locked keep their rules.
Undisturbed(b) ==
  /\ \A s \in Sources : Row(s) \in admin[b].held /\ Exists(sources[s]) =>
       Exists(sources'[s]) /\ sources'[s].rules = sources[s].rules
  /\ \A e \in Endpoints : Exists(endpoints[e]) => Exists(endpoints'[e])

\* A request that does not move keeps what is said of it while the rows it
\* has locked keep their rules and stay.
LEMMA OtherRequest ==
  ASSUME NEW a \in Admins, RequestInv(a), admin'[a] = admin[a], Undisturbed(a)
  PROVE RequestInv(a)'
<1>1. EndpointInv(a)'
  <2> SUFFICES ASSUME admin[a].cmd.kind \in EndpointCommand, admin[a].stage = 2
      PROVE /\ admin[a].todo \in {<<>>, <<Row(admin[a].cmd.on)>>}
            /\ Row(Owner[admin[a].cmd.on]) \in admin[a].held =>
                 admin[a].rules = sources'[Owner[admin[a].cmd.on]].rules
    BY DEF EndpointInv
  <2>1. admin[a].cmd \in Commands
    BY DEF RequestInv
  <2>2. admin[a].cmd.on \in Endpoints /\ Owner[admin[a].cmd.on] \in Sources
    BY <2>1, CommandsAssumption, AdministrationAssumption DEF Addressed
  <2> QED BY <2>2 DEF RequestInv, EndpointInv, Undisturbed
<1>2. Request(admin'[a])
  BY DEF RequestInv, Request
<1> QED BY <1>1, <1>2 DEF RequestInv, Undisturbed, Request, Exists

\* A step of one request keeps the invariant if the request keeps it, takes
\* no lock of another, and leaves the Sources that others have locked.
LEMMA OneMoves ==
  ASSUME NEW a \in Admins, RequestsInv, RequestInv(a)',
         admin' = [admin EXCEPT ![a] = admin'[a]],
         \A b \in Admins \ {a} : admin'[a].held \intersect admin[b].held = {},
         \A b \in Admins \ {a} : Undisturbed(b)
  PROVE RequestsInv'
<1>1. admin' = [b \in Admins |-> admin'[b]]
  BY DEF RequestsInv
<1>2. \A b \in Admins \ {a} : admin'[b] = admin[b]
  BY DEF RequestsInv
<1>3. ASSUME NEW b \in Admins PROVE RequestInv(b)'
  <2>1. CASE b = a
    BY <2>1
  <2>2. CASE b # a
    <3>1. RequestInv(b) /\ admin'[b] = admin[b]
      BY <1>2, <2>2 DEF RequestsInv
    <3> QED BY <2>2, <3>1, OtherRequest
  <2> QED BY <2>1, <2>2
<1>4. Exclusive'
  BY <1>2 DEF RequestsInv, Exclusive
<1> QED BY <1>1, <1>3, <1>4 DEF RequestsInv

\* A request that begins holds nothing.
LEMMA BeginKeeps ==
  ASSUME AdminInv, NEW a \in Admins, NEW c \in Commands, Begin(a, c)
  PROVE RequestsInv'
<1> DEFINE r == [Idle EXCEPT !.stage = 1, !.cmd = c, !.todo = Plan(a, 1, c)]
<1>1. admin' = [admin EXCEPT ![a] = r] /\ UNCHANGED catalog
  BY DEF Begin
<1>2. r.stage = 1 /\ r.cmd = c /\ r.held = {} /\ Request(r)
  <2> DEFINE q == Plan(a, 1, c)
  <2> HIDE DEF q
  <2>1. r = [Idle EXCEPT !.stage = 1, !.cmd = c, !.todo = q]
    BY DEF q
  <2>2. Idle \in [stage : Nat, cmd : Commands \union {Silence}, todo : {<<>>, q},
                  held : {{}}, profiles : {{}}, rules : {{}}]
    BY DEF Idle
  <2>3. /\ r \in [stage : Nat, cmd : Commands \union {Silence}, todo : {<<>>, q},
                   held : {{}}, profiles : {{}}, rules : {{}}]
        /\ r.stage = 1 /\ r.cmd = c
    BY <2>1, <2>2
  <2> QED BY <2>3 DEF Request
<1>3. RequestsInv
  BY DEF AdminInv
<1> HIDE DEF r
<1>4. admin'[a] = r
  BY <1>1, <1>3 DEF RequestsInv
<1>6. RequestInv(a)'
  BY <1>2, <1>4 DEF RequestInv, EndpointInv
<1> QED BY <1>1, <1>2, <1>3, <1>4, <1>6, OneMoves DEF catalog, Undisturbed

\* A lock is taken only when nobody else has it, and of a row that is there.
LEMMA AcquireKeeps ==
  ASSUME AdminInv, NEW a \in Admins, Acquire(a) PROVE RequestsInv'
<1> DEFINE l == Head(admin[a].todo)
           now == IF Returned(a, l) THEN {l} ELSE {}
           r == admin'[a]
<1>1. RequestsInv /\ UNCHANGED catalog /\ RequestInv(a) /\ Request(admin[a])
  BY DEF AdminInv, RequestsInv, RequestInv, Acquire
<1>2. /\ r.stage = admin[a].stage /\ r.cmd = admin[a].cmd
      /\ r.todo = Tail(admin[a].todo) /\ r.held = admin[a].held \union now
      /\ r.rules = admin[a].rules /\ Request(r)
      /\ admin' = [admin EXCEPT ![a] = r]
  BY <1>1 DEF RequestsInv, Acquire, Request
<1> HIDE DEF now, r, l
<1>3. /\ \A s \in Sources : Row(s) \in now => Exists(sources[s])
      /\ \A e \in Endpoints : Row(e) \in now => Exists(endpoints[e])
  <2>1. \A x : Row(x) \in now => l[1] = "row" /\ l[2] = x /\ Returned(a, l)
    BY DEF now, Row
  <2> QED BY <2>1, AdministrationAssumption DEF Returned
<1>4. ASSUME r.cmd.kind \in EndpointCommand, r.stage = 2
      PROVE /\ r.todo \in {<<>>, <<Row(r.cmd.on)>>}
            /\ Row(Owner[r.cmd.on]) \in r.held => r.rules = sources[Owner[r.cmd.on]].rules
  <2>1. admin[a].cmd \in Commands /\ admin[a].todo \in {<<>>, <<Row(r.cmd.on)>>}
    BY <1>1, <1>2, <1>4 DEF RequestInv, EndpointInv
  <2>2. r.cmd.on \in Endpoints /\ Owner[r.cmd.on] \in Sources
    BY <1>2, <1>4, <2>1, CommandsAssumption, AdministrationAssumption DEF Addressed
  <2>3. admin[a].todo = <<Row(r.cmd.on)>>
    BY <2>1 DEF Acquire
  <2>4. l = Row(r.cmd.on) /\ r.todo = <<>>
    BY <1>2, <2>3 DEF l
  <2>5. Row(Owner[r.cmd.on]) # l
    BY <2>2, <2>4, AdministrationAssumption DEF Row
  <2> QED BY <1>1, <1>2, <1>4, <2>4, <2>5 DEF RequestInv, EndpointInv, now
<1>5. admin[a].stage # 0
  BY <1>1 DEF RequestInv, Acquire
<1>6. RequestInv(a)'
  BY <1>1, <1>2, <1>3, <1>4, <1>5 DEF RequestInv, EndpointInv, r, catalog, Exists
<1>7. \A b \in Admins \ {a} : r.held \intersect admin[b].held = {}
  BY <1>1, <1>2 DEF Acquire, Held, Exclusive, RequestsInv, now, l
<1> QED BY <1>1, <1>2, <1>6, <1>7, OneMoves DEF r, catalog, Undisturbed

\* The next statement of an endpoint command reads the rules of the Source
\* whose row the first has locked.
LEMMA ProceedKeeps ==
  ASSUME AdminInv, NEW a \in Admins, Proceed(a) PROVE RequestsInv'
<1> DEFINE c == admin[a].cmd
           r == admin'[a]
<1>1. RequestsInv /\ UNCHANGED catalog /\ RequestInv(a) /\ Request(admin[a])
  BY DEF AdminInv, RequestsInv, RequestInv, Proceed
<1>2. /\ r.stage = admin[a].stage + 1 /\ r.cmd = c
      /\ r.todo = Plan(a, admin[a].stage + 1, c) /\ r.held = admin[a].held
      /\ r.rules = RulesRead(a, c) /\ Request(r)
      /\ admin' = [admin EXCEPT ![a] = r]
  <2> DEFINE n == admin[a].stage + 1
             q == Plan(a, n, c)
             old == RulesRead(a, c)
  <2>1. n \in Nat
    BY <1>1 DEF Request
  <2> HIDE DEF n, q, old
  <2>2. admin' = [admin EXCEPT ![a].stage = n, ![a].todo = q, ![a].rules = old]
    BY DEF Proceed, n, q, old
  <2>3. r.stage = n /\ r.cmd = c /\ r.todo = q /\ r.held = admin[a].held /\ r.rules = old
    BY <1>1, <2>1, <2>2 DEF RequestsInv, Request
  <2>4. Request(r) /\ admin' = [admin EXCEPT ![a] = r]
    BY <1>1, <2>1, <2>2 DEF RequestsInv, Request
  <2> QED BY <2>3, <2>4 DEF n, q, old
<1> HIDE DEF r
<1>3. /\ admin[a].stage \in Nat /\ admin[a].stage > 0 /\ c \in Commands
      /\ r.stage \in Nat /\ r.stage > 0
  BY <1>1, <1>2 DEF RequestInv, Request, Proceed
<1>4. ASSUME c.kind \in EndpointCommand, r.stage = 2
      PROVE /\ r.todo \in {<<>>, <<Row(c.on)>>}
            /\ r.rules = sources[Owner[c.on]].rules
  <2>1. c.kind \notin SourceCommand \union GuardedCommand \union ProfileCommand
    BY <1>4 DEF EndpointCommand, SourceCommand, GuardedCommand, ProfileCommand
  <2>2. r.todo \in {<<>>, <<Row(c.on)>>}
    BY <1>2, <1>4, <2>1 DEF Plan, EndpointPlan
  <2> QED BY <1>2, <1>4, <2>2 DEF RulesRead
<1>5. RequestInv(a)'
  BY <1>1, <1>2, <1>3, <1>4 DEF RequestInv, EndpointInv, r, catalog, Exists
<1>6. \A b \in Admins \ {a} : r.held \intersect admin[b].held = {}
  BY <1>1, <1>2 DEF Exclusive, RequestsInv
<1> QED BY <1>1, <1>2, <1>5, <1>6, OneMoves DEF r, catalog, Undisturbed

\* A request that is over lets go of all it held.
LEMMA OverKeeps ==
  ASSUME RequestsInv, NEW a \in Admins, admin' = [admin EXCEPT ![a] = Idle],
         \A b \in Admins \ {a} : Undisturbed(b)
  PROVE RequestsInv'
<1>1. admin'[a] = Idle
  BY DEF RequestsInv
<1>2. Idle.stage = 0 /\ Idle.held = {} /\ Idle.todo = <<>> /\ Request(Idle)
  BY DEF Idle, Request
<1>3. RequestInv(a)'
  BY <1>1, <1>2 DEF RequestInv, EndpointInv
<1> QED BY <1>1, <1>2, <1>3, OneMoves

-----------------------------------------------------------------------------
(* The commands.                                                           *)

\* normalizeSourceEndpointConfiguration accepts what lies inside the rules,
\* with a listing profile for an HTML listing and only for it.
LEMMA PolicyAccepts ==
  ASSUME NEW rules, NEW approval, NEW config,
         PolicyRefusal(rules, approval, config) = "accepted"
  PROVE  /\ ~Policy!Widens(rules, config.rules)
         /\ approval = "approved" =>
              Policy!Approved(config.url.host, [source |-> rules, endpoint |-> config.rules])
         /\ (config.type = "html_listing") <=> (config.listing # None)
BY DEF PolicyRefusal

\* What a command does to the catalog: it keeps it in order, no row goes,
\* and the rules of one that was there change under its lock.
CatalogStep(a) ==
  /\ CatalogInv'
  /\ \A s \in Sources : Exists(sources[s]) =>
       /\ Exists(sources'[s])
       /\ Row(s) \notin admin[a].held => sources'[s].rules = sources[s].rules
  /\ \A e \in Endpoints : Exists(endpoints[e]) => Exists(endpoints'[e])

\* A command that is refused, or that writes Profiles or Categories only.
LEMMA QuietStep ==
  ASSUME CatalogInv, NEW a, UNCHANGED <<sources, endpoints, relevance>>
  PROVE  CatalogStep(a)
BY CatalogUnchanged DEF CatalogStep

\* A Source that was not there has no endpoint its rules could leave outside.
LEMMA CreateSourceStep ==
  ASSUME AdminInv, NEW a \in Admins, NEW c \in Commands, c.kind = "source_create",
         CreateSource(a, c)
  PROVE  CatalogStep(a)
<1>1. CASE UNCHANGED catalog
  BY <1>1, QuietStep DEF AdminInv, catalog
<1>2. CASE ~UNCHANGED catalog
  <2> DEFINE row == [approval |-> c.value, lifecycle |-> "active", operational |-> "enabled",
                     rules |-> c.config.rules, category |-> c.config.category]
  <2>1. /\ ~Exists(sources[c.on]) /\ sources' = [sources EXCEPT ![c.on] = row]
        /\ UNCHANGED <<endpoints, relevance>>
    BY <1>2 DEF CreateSource, Refuse, Uncategorized
  <2>2. c.on \in Sources /\ row \in SourceRow /\ AtRest(row)
    BY CommandsAssumption DEF Addressed, Admitted, Configuration, SourceRow, Lifecycles,
                              Approvals, AtRest
  <2>3. row.lifecycle = "active"
    OBVIOUS
  <2> HIDE DEF row
  <2>4. CatalogInv
    BY DEF AdminInv
  <2>5. /\ sources'[c.on] = row
        /\ \A s \in Sources \ {c.on} : sources'[s] = sources[s]
    BY <2>1, <2>2, <2>4 DEF CatalogInv, CatalogType
  <2>6. CatalogType'
    BY <2>1, <2>2, <2>4 DEF CatalogInv, CatalogType
  <2>7. \A e \in Endpoints : Exists(endpoints[e]) => Owner[e] # c.on /\ Owner[e] \in Sources
    BY <2>1, <2>4, AdministrationAssumption DEF CatalogInv, OwnersExist
  <2>8. OwnersExist' /\ EndpointsInsideTheirSource'
    BY <2>1, <2>4, <2>5, <2>7
       DEF CatalogInv, OwnersExist, EndpointsInsideTheirSource, Exists
  <2>9. NothingResumesByItself' /\ EveryRowReads'
    BY <2>1, <2>2, <2>4, <2>5 DEF CatalogInv, NothingResumesByItself, EveryRowReads, Exists
  <2> QED BY <2>1, <2>3, <2>5, <2>6, <2>8, <2>9 DEF CatalogStep, CatalogInv, Exists
<1> QED BY <1>1, <1>2

\* The endpoints of the Source were looked at under its lock, and each is
\* inside the rules it gets.
LEMMA ConfigureSourceStep ==
  ASSUME AdminInv, NEW a \in Admins, NEW c \in Commands, c.kind = "source_configure",
         ConfigureSource(a, c)
  PROVE  CatalogStep(a)
<1>1. CASE UNCHANGED catalog
  BY <1>1, QuietStep DEF AdminInv, catalog
<1>2. CASE ~UNCHANGED catalog
  <2> DEFINE row == WithConfiguration(sources[c.on], c.config)
  <2>1. /\ Row(c.on) \in admin[a].held /\ sources' = [sources EXCEPT ![c.on] = row]
        /\ ~RetainedPolicyConflict(c.on, c.config.rules)
        /\ UNCHANGED <<endpoints, relevance>>
    BY <1>2 DEF ConfigureSource, Refuse, Uncategorized, Locked
  <2>2. CatalogInv /\ c.on \in Sources /\ c.config \in Configuration
    BY CommandsAssumption DEF AdminInv, Addressed, SourceCommand
  <2>3. sources[c.on] \in SourceRow
    BY <2>2 DEF CatalogInv, CatalogType
  <2>4. /\ row \in SourceRow /\ row.rules = c.config.rules
        /\ row.lifecycle = sources[c.on].lifecycle
        /\ row.operational = sources[c.on].operational
    BY <2>2, <2>3 DEF WithConfiguration, SourceRow, Configuration
  <2> HIDE DEF row
  <2>5. /\ sources'[c.on] = row
        /\ \A s \in Sources \ {c.on} : sources'[s] = sources[s]
    BY <2>1, <2>2 DEF CatalogInv, CatalogType
  <2>6. CatalogType'
    BY <2>1, <2>2, <2>4 DEF CatalogInv, CatalogType
  <2>7. /\ \A s \in Sources : Exists(sources[s]) => Exists(sources'[s])
        /\ \A s \in Sources : AtRest(sources[s]) => AtRest(sources'[s])
    BY <2>4, <2>5 DEF Exists, AtRest
  <2>8. OwnersExist' /\ NothingResumesByItself' /\ EveryRowReads'
    BY <2>1, <2>2, <2>7, AdministrationAssumption
       DEF CatalogInv, OwnersExist, NothingResumesByItself, EveryRowReads, Exists
  <2>9. ASSUME NEW e \in Endpoints, Exists(endpoints[e]), Owner[e] = c.on
        PROVE  InsideRules(endpoints[e], row.rules)
    <3> DEFINE old == endpoints[e].config
               new == [old EXCEPT !.type = "rss_atom", !.listing = None]
    <3>1. old \in Configuration
      BY <2>2 DEF CatalogInv, CatalogType, EndpointRow
    <3>2. new.rules = old.rules /\ new.url = old.url
      BY <3>1 DEF Configuration
    <3>3. PolicyRefusal(row.rules, endpoints[e].approval, new) = "accepted"
      BY <2>1, <2>4, <2>9 DEF RetainedPolicyConflict, OwnEndpoints
    <3> HIDE DEF new, old
    <3> QED BY <3>2, <3>3, PolicyAccepts DEF InsideRules, old
  <2>10. EndpointsInsideTheirSource'
    BY <2>1, <2>2, <2>5, <2>9, AdministrationAssumption
       DEF CatalogInv, EndpointsInsideTheirSource, Exists
  <2> QED BY <2>1, <2>5, <2>6, <2>7, <2>8, <2>10 DEF CatalogStep, CatalogInv
<1> QED BY <1>1, <1>2

\* Approval, lifecycle and switch keep the rules, and what leaves the archive
\* or enters it is switched off.
LEMMA ChangedRow ==
  ASSUME NEW c \in Commands, NEW row,
         \/ /\ row \in SourceRow
            /\ c.kind \in {"source_approval", "source_lifecycle", "source_operational"}
         \/ /\ row \in EndpointRow
            /\ c.kind \in {"endpoint_approval", "endpoint_lifecycle", "endpoint_operational"}
  PROVE  /\ row \in SourceRow => Changed(row, c) \in SourceRow
                                 /\ Changed(row, c).rules = row.rules
         /\ row \in EndpointRow => /\ Changed(row, c) \in EndpointRow
                                   /\ Changed(row, c).config = row.config
                                   /\ Changed(row, c).revision = row.revision
         /\ Exists(row) => Exists(Changed(row, c))
         /\ AtRest(row) /\ (row.lifecycle = "archived" => ~(c.kind \in
              {"source_operational", "endpoint_operational"})) => AtRest(Changed(row, c))
         /\ Changed(row, c).approval =
              IF c.kind \in {"source_approval", "endpoint_approval"} THEN c.value
              ELSE row.approval
<1> DEFINE new == Changed(row, c)
<1>1. CASE c.kind \in {"source_approval", "endpoint_approval"}
  <2>1. new = [row EXCEPT !.approval = c.value] /\ c.value \in Approvals
    BY <1>1, CommandsAssumption DEF Changed, Admitted
  <2> QED BY <1>1, <2>1 DEF SourceRow, EndpointRow, Exists, AtRest
<1>2. CASE c.kind \in {"source_operational", "endpoint_operational"}
  <2>1. /\ new = [row EXCEPT !.operational = c.value]
        /\ c.value \in {"enabled", "disabled", "paused"}
    BY <1>2, CommandsAssumption DEF Changed, Admitted
  <2> QED BY <1>2, <2>1 DEF SourceRow, EndpointRow, Exists, AtRest
<1>3. CASE c.kind \in {"source_lifecycle", "endpoint_lifecycle"}
  <2>1. /\ new = [row EXCEPT !.lifecycle = c.value, !.operational = "disabled"]
        /\ c.value \in Lifecycles
    BY <1>3, CommandsAssumption DEF Changed, Admitted
  <2> QED BY <1>3, <2>1 DEF SourceRow, EndpointRow, Exists, AtRest, Lifecycles
<1> QED BY <1>1, <1>2, <1>3

\* A Source's approval, lifecycle and switch.
LEMMA ChangeSourceStep ==
  ASSUME AdminInv, NEW a \in Admins, NEW c \in Commands,
         c.kind \in GuardedCommand \union {"source_operational"}, ChangeSource(a, c)
  PROVE  CatalogStep(a)
<1>1. CASE UNCHANGED catalog
  BY <1>1, QuietStep DEF AdminInv, catalog
<1>2. CASE ~UNCHANGED catalog
  <2> DEFINE old == sources[c.on]
             row == Changed(old, c)
  <2>1. /\ sources' = [sources EXCEPT ![c.on] = row]
        /\ ~(c.kind = "source_operational" /\ old.lifecycle = "archived")
        /\ UNCHANGED <<endpoints, relevance>>
    BY <1>2 DEF ChangeSource, Refuse
  <2>2. CatalogInv /\ c.on \in Sources
    BY CommandsAssumption DEF AdminInv, Addressed, SourceCommand, GuardedCommand
  <2>3. old \in SourceRow /\ AtRest(old)
    BY <2>2 DEF CatalogInv, CatalogType, NothingResumesByItself
  <2>4. /\ row \in SourceRow /\ row.rules = old.rules
        /\ Exists(old) => Exists(row)
        /\ AtRest(row)
    BY <2>1, <2>3, ChangedRow DEF GuardedCommand
  <2>5. /\ sources'[c.on] = row
        /\ \A s \in Sources \ {c.on} : sources'[s] = sources[s]
    BY <2>1, <2>2 DEF CatalogInv, CatalogType
  <2> HIDE DEF row
  <2>6. CatalogType'
    BY <2>1, <2>2, <2>4 DEF CatalogInv, CatalogType
  <2>7. \A s \in Sources : /\ Exists(sources[s]) => Exists(sources'[s])
                           /\ sources'[s].rules = sources[s].rules
                           /\ AtRest(sources'[s])
    BY <2>2, <2>4, <2>5 DEF CatalogInv, NothingResumesByItself
  <2>8. /\ OwnersExist' /\ EndpointsInsideTheirSource'
        /\ NothingResumesByItself' /\ EveryRowReads'
    BY <2>1, <2>2, <2>7, AdministrationAssumption
       DEF CatalogInv, OwnersExist, EndpointsInsideTheirSource, NothingResumesByItself,
           EveryRowReads, Exists
  <2> QED BY <2>1, <2>6, <2>7, <2>8 DEF CatalogStep, CatalogInv
<1> QED BY <1>1, <1>2

\* A command that writes one endpoint, fit for the Source it has.
LEMMA EndpointWritten ==
  ASSUME CatalogInv, NEW a, NEW e \in Endpoints, NEW row \in EndpointRow,
         endpoints' = [endpoints EXCEPT ![e] = row], UNCHANGED <<sources, relevance>>,
         Exists(row), AtRest(row), Exists(sources[Owner[e]]),
         InsideRules(row, sources[Owner[e]].rules), EndpointReads(row)
  PROVE  CatalogStep(a)
<1>1. /\ endpoints'[e] = row
      /\ \A f \in Endpoints \ {e} : endpoints'[f] = endpoints[f]
  BY DEF CatalogInv, CatalogType
<1>2. CatalogType'
  BY DEF CatalogInv, CatalogType
<1>3. OwnersExist' /\ EndpointsInsideTheirSource'
  BY <1>1 DEF CatalogInv, OwnersExist, EndpointsInsideTheirSource, Exists
<1>4. NothingResumesByItself' /\ EveryRowReads'
  BY <1>1 DEF CatalogInv, NothingResumesByItself, EveryRowReads, Exists
<1> QED BY <1>1, <1>2, <1>3, <1>4 DEF CatalogStep, CatalogInv

\* What an endpoint command knows when it commits: it holds its Source, which
\* is there, and the rules it has read are still the Source's.
LEMMA RulesAreCurrent ==
  ASSUME AdminInv, NEW a \in Admins, admin[a].stage = Stages(admin[a].cmd.kind),
         admin[a].stage > 0, admin[a].cmd.kind \in EndpointCommand,
         Locked(a, Owner[admin[a].cmd.on])
  PROVE  LET e == admin[a].cmd.on
             s == Owner[e] IN
         /\ e \in Endpoints /\ s \in Sources /\ Exists(sources[s])
         /\ admin[a].rules = sources[s].rules
         /\ Row(e) \in admin[a].held => Exists(endpoints[e])
<1>1. RequestInv(a)
  BY DEF AdminInv, RequestsInv
<1>2. admin[a].cmd \in Commands
  BY <1>1 DEF RequestInv
<1>3. admin[a].cmd.on \in Endpoints /\ Owner[admin[a].cmd.on] \in Sources
  BY <1>2, CommandsAssumption, AdministrationAssumption DEF Addressed
<1>4. admin[a].stage = 2
  BY DEF Stages, EndpointCommand, GuardedCommand, ProfileCommand
<1> QED BY <1>1, <1>3, <1>4 DEF RequestInv, EndpointInv, Locked

\* A new endpoint is inside its Source's rules.
LEMMA CreateEndpointStep ==
  ASSUME AdminInv, NEW a \in Admins, NEW c \in Commands, c = admin[a].cmd,
         admin[a].stage = Stages(c.kind), admin[a].stage > 0,
         c.kind = "endpoint_create", CreateEndpoint(a, c)
  PROVE  CatalogStep(a)
<1>1. CASE UNCHANGED catalog
  BY <1>1, QuietStep DEF AdminInv, catalog
<1>2. CASE ~UNCHANGED catalog
  <2> DEFINE n == IF c.config.type = "html_listing" THEN 1 ELSE 0
             row == [approval |-> c.value, lifecycle |-> "active",
                     operational |-> "enabled", config |-> c.config, revision |-> n]
  <2>1. /\ Locked(a, Owner[c.on]) /\ endpoints' = [endpoints EXCEPT ![c.on] = row]
        /\ BodyRefusal(a, c.value) = "accepted"
        /\ UNCHANGED <<sources, relevance>>
    BY <1>2 DEF CreateEndpoint, Refuse, Uncategorized
  <2>2. /\ c.on \in Endpoints /\ Exists(sources[Owner[c.on]])
        /\ admin[a].rules = sources[Owner[c.on]].rules
    BY <2>1, RulesAreCurrent DEF EndpointCommand
  <2>3. c.config \in Configuration /\ c.value \in Approvals /\ n \in Nat
    BY CommandsAssumption DEF Admitted
  <2>4. row \in EndpointRow /\ AtRest(row) /\ Exists(row)
    BY <2>3 DEF EndpointRow, Lifecycles, AtRest, Exists
  <2>5. /\ ~Policy!Widens(sources[Owner[c.on]].rules, c.config.rules)
        /\ c.value = "approved" =>
             Policy!Approved(c.config.url.host, [source |-> sources[Owner[c.on]].rules,
                                                 endpoint |-> c.config.rules])
        /\ (c.config.type = "html_listing") <=> (c.config.listing # None)
    <3>1. PolicyRefusal(sources[Owner[c.on]].rules, c.value, c.config) = "accepted"
      BY <2>1, <2>2 DEF BodyRefusal
    <3> QED BY <3>1, PolicyAccepts
  <2>6. InsideRules(row, sources[Owner[c.on]].rules)
    BY <2>5 DEF InsideRules
  <2>7. EndpointReads(row)
    BY <2>3, <2>5 DEF EndpointReads, ListingReads, Approvals, Configuration
  <2> HIDE DEF row
  <2> QED BY <2>1, <2>2, <2>4, <2>6, <2>7, EndpointWritten DEF AdminInv
<1> QED BY <1>1, <1>2

\* A revision follows what the endpoint becomes: none for a feed, one more for
\* a listing profile that changes.
LEMMA RevisionRead ==
  ASSUME NEW row \in EndpointRow, NEW config \in Configuration, ListingReads(row)
  PROVE  /\ NextRevision(row, config) \in Nat
         /\ config.type = "html_listing" => NextRevision(row, config) > 0
         /\ config.type = "rss_atom" => NextRevision(row, config) = 0
<1>1. row.revision \in Nat
  BY DEF EndpointRow
<1>2. row.config.type = "html_listing" => row.revision > 0
  BY <1>1 DEF ListingReads
<1> QED BY <1>1, <1>2 DEF NextRevision

\* An endpoint that is configured stays inside its Source's rules, with its
\* approval or without.
LEMMA ConfigureEndpointStep ==
  ASSUME AdminInv, NEW a \in Admins, NEW c \in Commands, c = admin[a].cmd,
         admin[a].stage = Stages(c.kind), admin[a].stage > 0,
         c.kind = "endpoint_configure", ConfigureEndpoint(a, c)
  PROVE  CatalogStep(a)
<1>1. CASE UNCHANGED catalog
  BY <1>1, QuietStep DEF AdminInv, catalog
<1>2. CASE ~UNCHANGED catalog
  <2> DEFINE old == endpoints[c.on]
             n == NextRevision(old, c.config)
             row == [old EXCEPT !.config = c.config, !.revision = n]
  <2>1. /\ Locked(a, Owner[c.on]) /\ Locked(a, c.on)
        /\ endpoints' = [endpoints EXCEPT ![c.on].config = c.config, ![c.on].revision = n]
        /\ BodyRefusal(a, old.approval) = "accepted"
        /\ UNCHANGED <<sources, relevance>>
    BY <1>2 DEF ConfigureEndpoint, Refuse, Uncategorized
  <2>2. /\ c.on \in Endpoints /\ Exists(sources[Owner[c.on]])
        /\ admin[a].rules = sources[Owner[c.on]].rules
        /\ Exists(old)
    BY <2>1, RulesAreCurrent DEF EndpointCommand, Locked
  <2>3. CatalogInv /\ c.config \in Configuration
    BY CommandsAssumption DEF AdminInv
  <2>4. old \in EndpointRow /\ AtRest(old) /\ EndpointReads(old)
    BY <2>2, <2>3 DEF CatalogInv, CatalogType, NothingResumesByItself, EveryRowReads
  <2>5. /\ n \in Nat
        /\ c.config.type = "html_listing" => n > 0
        /\ c.config.type = "rss_atom" => n = 0
    BY <2>3, <2>4, RevisionRead DEF EndpointReads
  <2> HIDE DEF n
  <2>6. /\ row \in EndpointRow /\ row.config = c.config /\ row.revision = n
        /\ row.approval = old.approval /\ row.lifecycle = old.lifecycle
        /\ row.operational = old.operational
    BY <2>3, <2>4, <2>5 DEF EndpointRow
  <2>7. endpoints' = [endpoints EXCEPT ![c.on] = row]
    BY <2>1, <2>2, <2>3, <2>4 DEF CatalogInv, CatalogType
  <2> HIDE DEF row, old
  <2>8. /\ ~Policy!Widens(sources[Owner[c.on]].rules, c.config.rules)
        /\ old.approval = "approved" =>
             Policy!Approved(c.config.url.host, [source |-> sources[Owner[c.on]].rules,
                                                 endpoint |-> c.config.rules])
        /\ (c.config.type = "html_listing") <=> (c.config.listing # None)
    <3>1. PolicyRefusal(sources[Owner[c.on]].rules, old.approval, c.config) = "accepted"
      BY <2>1, <2>2 DEF BodyRefusal
    <3> QED BY <3>1, PolicyAccepts
  <2>9. InsideRules(row, sources[Owner[c.on]].rules)
    BY <2>6, <2>8 DEF InsideRules
  <2>10. ListingReads(row)
    <3>1. c.config.type \in {"rss_atom", "html_listing"}
      BY <2>3 DEF Configuration
    <3> QED BY <2>5, <2>6, <2>8, <3>1 DEF ListingReads
  <2>11. EndpointReads(row) /\ AtRest(row) /\ Exists(row)
    BY <2>2, <2>4, <2>6, <2>10 DEF EndpointReads, AtRest, Exists
  <2> QED BY <2>2, <2>3, <2>6, <2>7, <2>9, <2>11, <2>1, EndpointWritten
<1> QED BY <1>1, <1>2

\* An endpoint is approved only if its host is inside the rules it has.
LEMMA ChangeEndpointStep ==
  ASSUME AdminInv, NEW a \in Admins, NEW c \in Commands, c = admin[a].cmd,
         admin[a].stage = Stages(c.kind), admin[a].stage > 0,
         c.kind \in {"endpoint_approval", "endpoint_lifecycle", "endpoint_operational"},
         ChangeEndpoint(a, c)
  PROVE  CatalogStep(a)
<1>1. CASE UNCHANGED catalog
  BY <1>1, QuietStep DEF AdminInv, catalog
<1>2. CASE ~UNCHANGED catalog
  <2> DEFINE old == endpoints[c.on]
             row == Changed(old, c)
  <2>1. /\ Locked(a, Owner[c.on]) /\ Locked(a, c.on)
        /\ endpoints' = [endpoints EXCEPT ![c.on] = row]
        /\ ~(c.kind = "endpoint_operational" /\ old.lifecycle = "archived")
        /\ c.kind = "endpoint_approval" => ApprovalRefusal(a, c) = "accepted"
        /\ UNCHANGED <<sources, relevance>>
    BY <1>2 DEF ChangeEndpoint, Refuse
  <2>2. /\ c.on \in Endpoints /\ Exists(sources[Owner[c.on]])
        /\ admin[a].rules = sources[Owner[c.on]].rules
        /\ Exists(old)
    BY <2>1, RulesAreCurrent DEF EndpointCommand, Locked
  <2>3. CatalogInv
    BY DEF AdminInv
  <2>4. /\ old \in EndpointRow /\ AtRest(old) /\ EndpointReads(old)
        /\ InsideRules(old, sources[Owner[c.on]].rules)
    BY <2>2, <2>3 DEF CatalogInv, CatalogType, NothingResumesByItself, EveryRowReads,
                      EndpointsInsideTheirSource
  <2>5. /\ row \in EndpointRow /\ row.config = old.config /\ row.revision = old.revision
        /\ Exists(row) /\ AtRest(row)
        /\ row.approval = IF c.kind = "endpoint_approval" THEN c.value ELSE old.approval
    BY <2>1, <2>2, <2>4, ChangedRow
  <2> HIDE DEF row
  <2>6. InsideRules(row, sources[Owner[c.on]].rules)
    <3>1. CASE c.kind = "endpoint_approval"
      <4> DEFINE asked == [old.config EXCEPT !.listing = None]
      <4>1. asked.rules = old.config.rules /\ asked.url = old.config.url
        BY <2>4 DEF EndpointRow, Configuration
      <4>2. PolicyRefusal(sources[Owner[c.on]].rules, c.value, asked) = "accepted"
        BY <2>1, <2>2, <3>1 DEF ApprovalRefusal
      <4> HIDE DEF asked, old
      <4> QED BY <2>5, <3>1, <4>1, <4>2, PolicyAccepts DEF InsideRules
    <3>2. CASE c.kind # "endpoint_approval"
      BY <2>4, <2>5, <3>2 DEF InsideRules
    <3> QED BY <3>1, <3>2
  <2>7. EndpointReads(row)
    BY <2>4, <2>5 DEF EndpointReads, ListingReads, EndpointRow, Exists, Lifecycles, Approvals
  <2> QED BY <2>1, <2>2, <2>3, <2>5, <2>6, <2>7, EndpointWritten
<1> QED BY <1>1, <1>2

\* A command that writes one relevance rule, or removes it.
LEMMA RuleWritten ==
  ASSUME CatalogInv, NEW a, NEW r \in RelevanceRules, NEW row \in RuleRow,
         relevance' = [relevance EXCEPT ![r] = row], UNCHANGED <<sources, endpoints>>,
         row # NoRule => RuleReads(row)
  PROVE  CatalogStep(a)
<1>1. /\ relevance'[r] = row
      /\ \A q \in RelevanceRules \ {r} : relevance'[q] = relevance[q]
  BY DEF CatalogInv, CatalogType
<1>2. CatalogType'
  BY DEF CatalogInv, CatalogType
<1>3. OwnersExist' /\ EndpointsInsideTheirSource' /\ NothingResumesByItself'
  BY DEF CatalogInv, OwnersExist, EndpointsInsideTheirSource, NothingResumesByItself, Exists
<1>4. EveryRowReads'
  BY <1>1 DEF CatalogInv, EveryRowReads, Exists
<1> QED BY <1>2, <1>3, <1>4 DEF CatalogStep, CatalogInv

\* A rule that is saved has a target if it categorizes, and only then.
LEMMA SaveRuleStep ==
  ASSUME AdminInv, NEW a \in Admins, NEW c \in Commands,
         c.kind \in {"rule_create", "rule_update"}, SaveRule(a, c)
  PROVE  CatalogStep(a)
<1>1. CASE UNCHANGED catalog
  BY <1>1, QuietStep DEF AdminInv, catalog
<1>2. CASE ~UNCHANGED catalog
  <2>1. /\ relevance' = [relevance EXCEPT ![c.on] = RuleAs(c)]
        /\ ~RuleMalformed(c) /\ UNCHANGED <<sources, endpoints>>
    BY <1>2 DEF SaveRule, Refuse
  <2>2. c.on \in RelevanceRules /\ c.value \in RuleActions /\ c.config \in Configuration
    BY CommandsAssumption DEF Addressed, Admitted
  <2>3. RuleAs(c) \in RuleRow
    BY <2>2 DEF RuleAs, RuleRow, Configuration
  <2>4. RuleReads(RuleAs(c))
    BY <2>1 DEF RuleReads, RuleAs, RuleMalformed
  <2> QED BY <2>1, <2>2, <2>3, <2>4, RuleWritten DEF AdminInv
<1> QED BY <1>1, <1>2

\* Its switch changes nothing else.
LEMMA SwitchRuleStep ==
  ASSUME AdminInv, NEW a \in Admins, NEW c \in Commands, c.kind = "rule_switch",
         SwitchRule(a, c)
  PROVE  CatalogStep(a)
<1>1. CASE UNCHANGED catalog
  BY <1>1, QuietStep DEF AdminInv, catalog
<1>2. CASE ~UNCHANGED catalog
  <2> DEFINE on == (c.value = "enabled")
             old == relevance[c.on]
             row == [old EXCEPT !.enabled = on]
  <2>1. /\ relevance' = [relevance EXCEPT ![c.on].enabled = on]
        /\ old # NoRule /\ UNCHANGED <<sources, endpoints>>
    BY <1>2 DEF SwitchRule, Refuse
  <2>2. c.on \in RelevanceRules /\ CatalogInv /\ on \in BOOLEAN
    BY CommandsAssumption DEF Addressed, AdminInv
  <2>3. old \in RuleRow /\ RuleReads(old)
    BY <2>1, <2>2 DEF CatalogInv, CatalogType, EveryRowReads
  <2> HIDE DEF on, old
  <2>4. row \in RuleRow /\ row.action = old.action /\ row.category = old.category
    BY <2>2, <2>3 DEF RuleRow
  <2>5. relevance' = [relevance EXCEPT ![c.on] = row]
    BY <2>1, <2>2 DEF CatalogInv, CatalogType, old
  <2>6. RuleReads(row)
    BY <2>3, <2>4 DEF RuleReads
  <2> QED BY <2>1, <2>2, <2>4, <2>5, <2>6, RuleWritten
<1> QED BY <1>1, <1>2

LEMMA DeleteRuleStep ==
  ASSUME AdminInv, NEW a \in Admins, NEW c \in Commands, c.kind = "rule_delete",
         DeleteRule(a, c)
  PROVE  CatalogStep(a)
<1>1. CASE UNCHANGED catalog
  BY <1>1, QuietStep DEF AdminInv, catalog
<1>2. CASE ~UNCHANGED catalog
  <2>1. /\ relevance' = [relevance EXCEPT ![c.on] = NoRule]
        /\ UNCHANGED <<sources, endpoints>>
    BY <1>2 DEF DeleteRule, Refuse
  <2>2. c.on \in RelevanceRules
    BY CommandsAssumption DEF Addressed
  <2>3. NoRule \in RuleRow
    BY DEF NoRule, RuleRow
  <2> QED BY <2>1, <2>2, <2>3, RuleWritten DEF AdminInv
<1> QED BY <1>1, <1>2

-----------------------------------------------------------------------------
(* The end of a command.                                                   *)

\* However a command is answered, its request is over.
LEMMA CommitEnds ==
  ASSUME NEW a \in Admins, Commit(a) PROVE admin' = [admin EXCEPT ![a] = Idle]
<1> DEFINE c == admin[a].cmd
<1> USE DEF Refuse, Uncategorized, Done
<1>1. CreateSource(a, c) => admin' = [admin EXCEPT ![a] = Idle]
  BY DEF CreateSource
<1>2. ConfigureSource(a, c) => admin' = [admin EXCEPT ![a] = Idle]
  BY DEF ConfigureSource
<1>3. ChangeSource(a, c) => admin' = [admin EXCEPT ![a] = Idle]
  BY DEF ChangeSource
<1>4. CreateEndpoint(a, c) => admin' = [admin EXCEPT ![a] = Idle]
  BY DEF CreateEndpoint
<1>5. ConfigureEndpoint(a, c) => admin' = [admin EXCEPT ![a] = Idle]
  BY DEF ConfigureEndpoint
<1>6. ChangeEndpoint(a, c) => admin' = [admin EXCEPT ![a] = Idle]
  BY DEF ChangeEndpoint
<1>7. CheckNow(a, c) => admin' = [admin EXCEPT ![a] = Idle]
  BY DEF CheckNow
<1>8. CreateProfile(a, c) => admin' = [admin EXCEPT ![a] = Idle]
  BY DEF CreateProfile
<1>9. c.kind \in ProfileCommand /\ ChangeProfile(a, c) => admin' = [admin EXCEPT ![a] = Idle]
  <2>1. SetProfileLifecycle(a, c) => admin' = [admin EXCEPT ![a] = Idle]
    BY DEF SetProfileLifecycle
  <2>2. AddSource(a, c) => admin' = [admin EXCEPT ![a] = Idle]
    BY DEF AddSource
  <2>3. RemoveSource(a, c) => admin' = [admin EXCEPT ![a] = Idle]
    BY DEF RemoveSource
  <2> QED BY <2>1, <2>2, <2>3 DEF ChangeProfile, ProfileCommand
<1>10. SaveCategory(a, c) => admin' = [admin EXCEPT ![a] = Idle]
  BY DEF SaveCategory
<1>11. DeleteCategory(a, c) => admin' = [admin EXCEPT ![a] = Idle]
  BY DEF DeleteCategory
<1>12. SaveRule(a, c) => admin' = [admin EXCEPT ![a] = Idle]
  BY DEF SaveRule
<1>13. SwitchRule(a, c) => admin' = [admin EXCEPT ![a] = Idle]
  BY DEF SwitchRule
<1>14. DeleteRule(a, c) => admin' = [admin EXCEPT ![a] = Idle]
  BY DEF DeleteRule
<1> QED BY <1>1, <1>2, <1>3, <1>4, <1>5, <1>6, <1>7, <1>8, <1>9, <1>10, <1>11, <1>12,
           <1>13, <1>14 DEF Commit

\* Commands on Profiles and Categories write nothing that the invariant is about.
LEMMA ProfilesApart ==
  ASSUME NEW a \in Admins, NEW c \in Commands
  PROVE  /\ CheckNow(a, c) => UNCHANGED <<sources, endpoints, relevance>>
         /\ CreateProfile(a, c) => UNCHANGED <<sources, endpoints, relevance>>
         /\ c.kind \in ProfileCommand /\ ChangeProfile(a, c) =>
              UNCHANGED <<sources, endpoints, relevance>>
         /\ SaveCategory(a, c) => UNCHANGED <<sources, endpoints, relevance>>
         /\ DeleteCategory(a, c) => UNCHANGED <<sources, endpoints, relevance>>
<1> USE DEF Refuse, catalog
<1>1. SetProfileLifecycle(a, c) => UNCHANGED <<sources, endpoints, relevance>>
  BY DEF SetProfileLifecycle
<1>2. AddSource(a, c) => UNCHANGED <<sources, endpoints, relevance>>
  BY DEF AddSource
<1>3. RemoveSource(a, c) => UNCHANGED <<sources, endpoints, relevance>>
  BY DEF RemoveSource
<1>4. CheckNow(a, c) => UNCHANGED <<sources, endpoints, relevance>>
  BY DEF CheckNow
<1>5. CreateProfile(a, c) => UNCHANGED <<sources, endpoints, relevance>>
  BY DEF CreateProfile
<1>6. SaveCategory(a, c) => UNCHANGED <<sources, endpoints, relevance>>
  BY DEF SaveCategory
<1>7. DeleteCategory(a, c) => UNCHANGED <<sources, endpoints, relevance>>
  BY DEF DeleteCategory
<1>8. c.kind \in ProfileCommand /\ ChangeProfile(a, c) =>
        UNCHANGED <<sources, endpoints, relevance>>
  BY <1>1, <1>2, <1>3 DEF ChangeProfile, ProfileCommand
<1> QED BY <1>4, <1>5, <1>6, <1>7, <1>8

\* Every command leaves the catalog in order.
LEMMA CommitWrites ==
  ASSUME AdminInv, NEW a \in Admins, Commit(a) PROVE CatalogStep(a)
<1> DEFINE c == admin[a].cmd
<1>1. admin[a].stage = Stages(c.kind) /\ admin[a].stage > 0
  BY DEF Commit
<1>2. c \in Commands
  BY <1>1 DEF AdminInv, RequestsInv, RequestInv
<1>3. CASE c.kind = "source_create" /\ CreateSource(a, c)
  BY <1>2, <1>3, CreateSourceStep
<1>4. CASE c.kind = "source_configure" /\ ConfigureSource(a, c)
  BY <1>2, <1>4, ConfigureSourceStep
<1>5. CASE c.kind \in GuardedCommand \union {"source_operational"} /\ ChangeSource(a, c)
  BY <1>2, <1>5, ChangeSourceStep
<1>6. CASE c.kind = "endpoint_create" /\ CreateEndpoint(a, c)
  BY <1>1, <1>2, <1>6, CreateEndpointStep
<1>7. CASE c.kind = "endpoint_configure" /\ ConfigureEndpoint(a, c)
  BY <1>1, <1>2, <1>7, ConfigureEndpointStep
<1>8. CASE /\ c.kind \in {"endpoint_approval", "endpoint_lifecycle", "endpoint_operational"}
           /\ ChangeEndpoint(a, c)
  BY <1>1, <1>2, <1>8, ChangeEndpointStep
<1>9. CASE \/ c.kind = "check_now" /\ CheckNow(a, c)
           \/ c.kind = "profile_create" /\ CreateProfile(a, c)
           \/ c.kind \in ProfileCommand /\ ChangeProfile(a, c)
           \/ c.kind \in {"category_create", "category_update"} /\ SaveCategory(a, c)
           \/ c.kind = "category_delete" /\ DeleteCategory(a, c)
  <2>1. UNCHANGED <<sources, endpoints, relevance>>
    BY <1>2, <1>9, ProfilesApart
  <2> QED BY <2>1, QuietStep DEF AdminInv
<1>10. CASE c.kind \in {"rule_create", "rule_update"} /\ SaveRule(a, c)
  BY <1>2, <1>10, SaveRuleStep
<1>11. CASE c.kind = "rule_switch" /\ SwitchRule(a, c)
  BY <1>2, <1>11, SwitchRuleStep
<1>12. CASE c.kind = "rule_delete" /\ DeleteRule(a, c)
  BY <1>2, <1>12, DeleteRuleStep
<1> QED BY <1>3, <1>4, <1>5, <1>6, <1>7, <1>8, <1>9, <1>10, <1>11, <1>12 DEF Commit

\* And no row that another has locked is written.
LEMMA CommitKeeps ==
  ASSUME AdminInv, NEW a \in Admins, Commit(a) PROVE AdminInv'
<1>1. CatalogStep(a) /\ admin' = [admin EXCEPT ![a] = Idle]
  BY CommitWrites, CommitEnds
<1>2. ASSUME NEW b \in Admins \ {a} PROVE Undisturbed(b)
  <2>1. admin[a].held \intersect admin[b].held = {}
    BY DEF AdminInv, RequestsInv, Exclusive
  <2> QED BY <1>1, <2>1 DEF CatalogStep, Undisturbed
<1>3. RequestsInv'
  BY <1>1, <1>2, OverKeeps DEF AdminInv
<1> QED BY <1>1, <1>3 DEF AdminInv, CatalogStep

-----------------------------------------------------------------------------
(* The theorems.                                                           *)

LEMMA AdminStep == AdminInv /\ [Next]_vars => AdminInv'
<1> SUFFICES ASSUME AdminInv, [Next]_vars PROVE AdminInv'
  OBVIOUS
<1>1. ASSUME UNCHANGED catalog, RequestsInv' PROVE AdminInv'
  BY <1>1, CatalogUnchanged DEF AdminInv, catalog
<1>2. ASSUME NEW a \in Admins, NEW c \in Commands, Begin(a, c) PROVE AdminInv'
  <2>1. UNCHANGED catalog
    BY <1>2 DEF Begin
  <2> QED BY <1>1, <1>2, <2>1, BeginKeeps
<1>3. ASSUME NEW a \in Admins, Acquire(a) PROVE AdminInv'
  <2>1. UNCHANGED catalog
    BY <1>3 DEF Acquire
  <2> QED BY <1>1, <1>3, <2>1, AcquireKeeps
<1>4. ASSUME NEW a \in Admins, Proceed(a) PROVE AdminInv'
  <2>1. UNCHANGED catalog
    BY <1>4 DEF Proceed
  <2> QED BY <1>1, <1>4, <2>1, ProceedKeeps
<1>5. ASSUME NEW a \in Admins, Fail(a) PROVE AdminInv'
  <2>1. UNCHANGED catalog /\ admin' = [admin EXCEPT ![a] = Idle]
    BY <1>5 DEF Fail
  <2>2. \A b \in Admins : Undisturbed(b)
    BY <2>1 DEF Undisturbed, catalog
  <2> QED BY <1>1, <2>1, <2>2, OverKeeps DEF AdminInv
<1>6. ASSUME UNCHANGED vars PROVE AdminInv'
  <2>1. UNCHANGED catalog /\ UNCHANGED admin
    BY <1>6 DEF vars
  <2>2. \A b \in Admins : RequestInv(b)'
    BY <2>1, OtherRequest DEF AdminInv, RequestsInv, Undisturbed, catalog
  <2>3. RequestsInv'
    BY <2>1, <2>2 DEF AdminInv, RequestsInv, Exclusive
  <2> QED BY <1>1, <2>1, <2>3
<1> QED BY <1>2, <1>3, <1>4, <1>5, <1>6, CommitKeeps DEF Next

LEMMA AdminInvariant == Spec => []AdminInv
BY AdminInit, AdminStep, PTL DEF Spec

\* No endpoint's rules widen those of its Source, and the host of an approved
\* endpoint is inside the rules it collects under, in whatever order and
\* however interleaved the commands on the Source and on the endpoint are.
THEOREM EndpointsStayInside == Spec => []EndpointsInsideTheirSource
<1>1. AdminInv => EndpointsInsideTheirSource
  BY DEF AdminInv, CatalogInv
<1> QED BY <1>1, AdminInvariant, PTL

\* What is archived is switched off, and stays so when it is restored.
THEOREM ArchivedIsSwitchedOff == Spec => []NothingResumesByItself
<1>1. AdminInv => NothingResumesByItself
  BY DEF AdminInv, CatalogInv
<1> QED BY <1>1, AdminInvariant, PTL

\* Every endpoint and every relevance rule that commands leave can be read.
THEOREM RowsCanBeRead == Spec => []EveryRowReads
<1>1. AdminInv => EveryRowReads
  BY DEF AdminInv, CatalogInv
<1> QED BY <1>1, AdminInvariant, PTL

\* A request never holds a row that another holds, and what an endpoint
\* command has read of its Source stays true while it holds the Source.
THEOREM LocksProtectWhatWasRead ==
  Spec => [](Exclusive /\ \A a \in Admins : EndpointInv(a))
<1>1. AdminInv => Exclusive /\ \A a \in Admins : EndpointInv(a)
  BY DEF AdminInv, RequestsInv, RequestInv
<1> QED BY <1>1, AdminInvariant, PTL

-----------------------------------------------------------------------------
(* Profiles.  A command that takes a Source away holds the Source's        *)
(* validity from its first stage on, so that nobody can activate a Profile *)
(* that refers to it: the active Profiles it finds in its second are all   *)
(* there are when it commits, unless one is joined meanwhile.              *)

\* The Profile that an activation is about has its Sources' validity locked.
ActivationInv(a) ==
  LET r == admin[a]
      p == r.cmd.on IN
  r.cmd.kind = "profile_lifecycle" /\ r.stage > 0 =>
    /\ r.todo \in Seq(Range(r.todo))
    /\ r.stage > 1 =>
         /\ Row(p) \notin Range(r.todo)
         /\ Row(p) \in r.held /\ r.cmd.value = "active"
            /\ TransitionAllowed(profiles[p].lifecycle, "active") =>
              \A s \in profiles[p].sources : Validity(s) \in r.held \union Range(r.todo)

\* The active Profiles of a Source that is taken away are locked.
GuardInv(a) ==
  LET r == admin[a]
      s == r.cmd.on IN
  r.cmd.kind \in GuardedCommand /\ TakesAway(r.cmd) /\ r.stage > 0 =>
    /\ r.stage \in {1, 2} => r.todo \in Seq(Range(r.todo))
    /\ Validity(s) \in r.held \/ (r.stage = 1 /\ Validity(s) \in Range(r.todo))
    /\ r.stage > 1 => \A p \in ActiveProfilesOf(s) :
         Row(p) \in r.held \/ (r.stage = 2 /\ Row(p) \in Range(r.todo))

ProfileRequestInv(a) ==
  /\ admin[a].profiles = {p \in Profiles : Row(p) \in admin[a].held}
  /\ \A p \in Profiles : Row(p) \in admin[a].held => Exists(profiles[p])
  /\ ActivationInv(a) /\ GuardInv(a)

ProfilesInv ==
  /\ profiles \in [Profiles -> ProfileRow]
  /\ \A a \in Admins : ProfileRequestInv(a)

\* A Source joins an active Profile only while nobody has its validity locked:
\* addSource does not lock it, and the row of the Source does not stand for it.
JoinsCoordinated ==
  \A p \in Profiles, s \in Sources :
    /\ profiles[p].lifecycle = "active"
    /\ s \in profiles'[p].sources \ profiles[p].sources
    => ~Held(Validity(s))

LEMMA TailRange ==
  ASSUME NEW q, q \in Seq(Range(q)), q # <<>>
  PROVE  Tail(q) \in Seq(Range(Tail(q))) /\ Range(q) = {Head(q)} \union Range(Tail(q))
<1> DEFINE t == Tail(q)
<1>1. /\ Len(q) \in Nat /\ Len(q) > 0 /\ DOMAIN q = 1..Len(q) /\ Head(q) = q[1]
      /\ Range(q) = {q[i] : i \in 1..Len(q)}
  BY DEF Range
<1>2. /\ t \in Seq(Range(q)) /\ Len(t) = Len(q) - 1 /\ DOMAIN t = 1..(Len(q) - 1)
      /\ \A i \in 1..(Len(q) - 1) : t[i] = q[i + 1]
  BY <1>1
<1> HIDE DEF t
<1>3. Range(t) = {t[i] : i \in 1..(Len(q) - 1)} /\ t \in Seq(Range(t))
  <2>1. Range(t) = {t[i] : i \in 1..(Len(q) - 1)}
    BY <1>2 DEF Range
  <2>2. Len(q) - 1 \in Nat /\ t = [i \in 1..(Len(q) - 1) |-> t[i]]
    BY <1>1, <1>2
  <2>3. \A i \in 1..(Len(q) - 1) : t[i] \in Range(t)
    BY <2>1
  <2> QED BY <2>1, <2>2, <2>3
<1>4. ASSUME NEW x \in Range(q), x # Head(q) PROVE x \in Range(t)
  <2>1. PICK i \in 1..Len(q) : x = q[i]
    BY <1>1
  <2>2. i - 1 \in 1..(Len(q) - 1) /\ (i - 1) + 1 = i
    BY <1>1, <1>4, <2>1
  <2>3. t[i - 1] = q[i]
    BY <1>2, <2>2
  <2> QED BY <1>3, <2>1, <2>2, <2>3
<1>5. ASSUME NEW x \in Range(t) PROVE x \in Range(q)
  <2>1. PICK i \in 1..(Len(q) - 1) : x = t[i]
    BY <1>3
  <2>2. i + 1 \in 1..Len(q)
    BY <1>1, <2>1
  <2> QED BY <1>1, <1>2, <2>1, <2>2
<1>6. Head(q) \in Range(q)
  BY <1>1
<1> QED BY <1>3, <1>4, <1>5, <1>6 DEF t

LEMMA OrderFinite == IsFiniteSet(Range(Order))
<1>1. /\ Order \in Seq(Range(Order)) /\ Len(Order) \in Nat /\ DOMAIN Order = 1..Len(Order)
  BY AdministrationAssumption
<1>2. Order \in Surjection(1..Len(Order), Range(Order)) /\ IsFiniteSet(1..Len(Order))
  BY <1>1, FS_Interval DEF Surjection, Range
<1> QED BY <1>2, FS_Surjection

\* The rank of an id tells it from the others.
LEMMA RankTells ==
  ASSUME NEW x \in Range(Order) PROVE Rank(x) \in Nat /\ Order[Rank(x)] = x
<1>1. Order \in Seq(Range(Order)) /\ \E i \in DOMAIN Order : Order[i] = x
  BY AdministrationAssumption DEF Range
<1>2. Rank(x) \in DOMAIN Order /\ Order[Rank(x)] = x
  BY <1>1 DEF Rank
<1> QED BY <1>1, <1>2

\* What is put in order is all there, and nothing else.
LEMMA InOrderRange ==
  ASSUME NEW S \in SUBSET Range(Order)
  PROVE  InOrder(S) \in Seq(S) /\ Range(InOrder(S)) = S
<1> DEFINE n == Cardinality(S)
           f == [x \in S |-> Cardinality(Before(S, x))]
<1>1. IsFiniteSet(S) /\ n \in Nat
  BY OrderFinite, FS_Subset, FS_CardinalityType
<1>2. \A x \in S : Rank(x) \in Nat /\ Order[Rank(x)] = x
  BY RankTells
<1>3. ASSUME NEW x \in S PROVE IsFiniteSet(Before(S, x)) /\ f[x] \in Nat /\ f[x] < n
  <2>1. Before(S, x) \subseteq S /\ x \notin Before(S, x)
    BY <1>2 DEF Before
  <2>2. IsFiniteSet(Before(S, x)) /\ f[x] \in Nat /\ f[x] <= n
    BY <1>1, <2>1, FS_Subset, FS_CardinalityType
  <2>3. f[x] = n => Before(S, x) = S
    BY <1>1, <2>1, FS_Subset
  <2> QED BY <1>1, <2>1, <2>2, <2>3
<1>4. ASSUME NEW x \in S, NEW y \in S, Rank(x) < Rank(y) PROVE f[x] < f[y]
  <2>1. Before(S, x) \subseteq Before(S, y) /\ x \in Before(S, y) /\ x \notin Before(S, x)
    BY <1>2, <1>4 DEF Before
  <2>2. f[x] <= f[y] /\ (f[x] = f[y] => Before(S, x) = Before(S, y))
    BY <1>3, <2>1, FS_Subset
  <2> QED BY <1>3, <2>1, <2>2
<1>5. ASSUME NEW x \in S, NEW y \in S, f[x] = f[y] PROVE x = y
  BY <1>2, <1>3, <1>4, <1>5
<1>6. f \in [S -> 0..(n - 1)]
  BY <1>1, <1>3
<1> HIDE DEF f
<1>7. f \in Injection(S, 0..(n - 1))
  BY <1>5, <1>6 DEF Injection, IsInjective
<1>8. IsFiniteSet(0..(n - 1)) /\ Cardinality(0..(n - 1)) = n
  BY <1>1, FS_Interval
<1>9. f \in Surjection(S, 0..(n - 1))
  BY <1>7, <1>8, FS_Injection
<1>10. ASSUME NEW i \in 1..n
       PROVE  /\ InOrder(S)[i] \in S /\ f[InOrder(S)[i]] = i - 1
  <2>1. i - 1 \in 0..(n - 1)
    BY <1>1
  <2>2. \E x \in S : Cardinality(Before(S, x)) = i - 1
    BY <1>9, <2>1 DEF Surjection, f
  <2> QED BY <2>2 DEF InOrder, f
<1>11. DOMAIN InOrder(S) = 1..n /\ InOrder(S) = [i \in 1..n |-> InOrder(S)[i]]
  BY DEF InOrder
<1>12. InOrder(S) \in Seq(S)
  BY <1>1, <1>10, <1>11
<1>13. ASSUME NEW x \in S PROVE x \in Range(InOrder(S))
  <2>1. f[x] + 1 \in 1..n /\ (f[x] + 1) - 1 = f[x]
    BY <1>1, <1>6
  <2>2. InOrder(S)[f[x] + 1] = x
    BY <1>5, <1>10, <2>1
  <2> QED BY <1>11, <2>1, <2>2 DEF Range
<1> QED BY <1>10, <1>11, <1>12, <1>13 DEF Range

\* The locks that are asked for, row by row or validity by validity.
LEMMA PlansRange ==
  ASSUME NEW S \in SUBSET Range(Order)
  PROVE  /\ Rows(S) \in Seq(Range(Rows(S))) /\ Range(Rows(S)) = {Row(x) : x \in S}
         /\ ValidityPlan(InOrder(S)) \in Seq(Range(ValidityPlan(InOrder(S))))
         /\ Range(ValidityPlan(InOrder(S))) = {Validity(x) : x \in S}
<1> DEFINE q == InOrder(S)
<1>1. q \in Seq(S) /\ Range(q) = S
  BY InOrderRange
<1> HIDE DEF q
<1>2. Len(q) \in Nat /\ DOMAIN q = 1..Len(q)
  BY <1>1
<1>3. Rows(S) = [i \in 1..Len(q) |-> Row(q[i])]
  BY DEF Rows, q
<1>4. ValidityPlan(q) = [i \in 1..Len(q) |-> Validity(q[i])]
  BY DEF ValidityPlan
<1>5. Range(Rows(S)) = {Row(x) : x \in S} /\ Range(ValidityPlan(q)) = {Validity(x) : x \in S}
  BY <1>1, <1>2, <1>3, <1>4 DEF Range
<1>6. Rows(S) \in Seq(Range(Rows(S))) /\ ValidityPlan(q) \in Seq(Range(ValidityPlan(q)))
  BY <1>2, <1>3, <1>4 DEF Range
<1> QED BY <1>5, <1>6 DEF q

LEMMA ShortRange ==
  /\ <<>> \in Seq(Range(<<>>)) /\ Range(<<>>) = {}
  /\ \A x : <<x>> \in Seq(Range(<<x>>)) /\ Range(<<x>>) = {x}
<1>1. Range(<<>>) = {} /\ <<>> \in Seq({})
  BY DEF Range
<1>2. ASSUME NEW x PROVE <<x>> \in Seq(Range(<<x>>)) /\ Range(<<x>>) = {x}
  <2>1. DOMAIN <<x>> = {1} /\ <<x>>[1] = x
    OBVIOUS
  <2>2. Range(<<x>>) = {x}
    BY <2>1 DEF Range
  <2> QED BY <2>2
<1> QED BY <1>1, <1>2

LEMMA ProfileRequestIdle ==
  ASSUME NEW a, admin[a] = Idle PROVE ProfileRequestInv(a)
<1>1. /\ Idle.stage = 0 /\ Idle.held = {} /\ Idle.profiles = {}
      /\ Idle.cmd.kind = "none"
  BY DEF Idle, Silence, Command
<1> QED BY <1>1 DEF ProfileRequestInv, ActivationInv, GuardInv, GuardedCommand

LEMMA ProfilesInit == Init => ProfilesInv
<1> SUFFICES ASSUME Init PROVE ProfilesInv
  OBVIOUS
<1>1. profiles \in [Profiles -> ProfileRow]
  BY CatalogsAssumption DEF Init
<1>2. ASSUME NEW a \in Admins PROVE ProfileRequestInv(a)
  BY ProfileRequestIdle DEF Init
<1> QED BY <1>1, <1>2 DEF ProfilesInv

\* What others may do to Profiles: one that a request has locked stays as it
\* is, and none becomes active again that refers to a Source it has locked.
ProfilesLeft(b) ==
  /\ \A p \in Profiles : Row(p) \in admin[b].held => profiles'[p] = profiles[p]
  /\ \A s \in Sources, p \in Profiles :
       Validity(s) \in admin[b].held /\ p \in ActiveProfilesOf(s)' => p \in ActiveProfilesOf(s)

LEMMA AddressedTo ==
  ASSUME NEW a \in Admins, RequestInv(a), admin[a].stage > 0
  PROVE  /\ admin[a].cmd \in Commands
         /\ admin[a].cmd.kind \in ProfileCommand => admin[a].cmd.on \in Profiles
         /\ admin[a].cmd.kind \in GuardedCommand => admin[a].cmd.on \in Sources
<1>1. admin[a].cmd \in Commands
  BY DEF RequestInv
<1>2. Addressed(admin[a].cmd)
  BY <1>1, CommandsAssumption
<1> QED BY <1>1, <1>2 DEF Addressed

LEMMA OthersProfiles ==
  ASSUME NEW b \in Admins, RequestInv(b), ProfileRequestInv(b), admin'[b] = admin[b],
         ProfilesLeft(b)
  PROVE  ProfileRequestInv(b)'
<1> DEFINE r == admin[b]
<1>1. \A p \in Profiles : Row(p) \in r.held => profiles'[p] = profiles[p]
  BY DEF ProfilesLeft
<1>2. r.profiles = {p \in Profiles : Row(p) \in r.held}
      /\ \A p \in Profiles : Row(p) \in r.held => Exists(profiles[p])
  BY DEF ProfileRequestInv
<1>3. ActivationInv(b)'
  <2> SUFFICES ASSUME r.cmd.kind = "profile_lifecycle", r.stage > 0
      PROVE  ActivationInv(b)'
    BY DEF ActivationInv
  <2>1. r.cmd.on \in Profiles
    BY AddressedTo DEF ProfileCommand
  <2>2. ActivationInv(b)
    BY DEF ProfileRequestInv
  <2> QED BY <1>1, <2>1, <2>2 DEF ActivationInv
<1>4. GuardInv(b)'
  <2> SUFFICES ASSUME r.cmd.kind \in GuardedCommand, TakesAway(r.cmd), r.stage > 0
      PROVE  GuardInv(b)'
    BY DEF GuardInv
  <2>1. r.cmd.on \in Sources
    BY AddressedTo
  <2>2. GuardInv(b)
    BY DEF ProfileRequestInv
  <2>3. /\ r.stage \in {1, 2} => r.todo \in Seq(Range(r.todo))
        /\ Validity(r.cmd.on) \in r.held
           \/ (r.stage = 1 /\ Validity(r.cmd.on) \in Range(r.todo))
        /\ r.stage > 1 => \A p \in ActiveProfilesOf(r.cmd.on) :
             Row(p) \in r.held \/ (r.stage = 2 /\ Row(p) \in Range(r.todo))
    BY <2>2 DEF GuardInv
  <2>4. ASSUME r.stage > 1, NEW p \in ActiveProfilesOf(r.cmd.on)'
        PROVE  Row(p) \in r.held \/ (r.stage = 2 /\ Row(p) \in Range(r.todo))
    <3>1. Validity(r.cmd.on) \in r.held /\ p \in Profiles
      BY <2>3, <2>4 DEF ActiveProfilesOf
    <3>2. p \in ActiveProfilesOf(r.cmd.on)
      BY <2>1, <2>4, <3>1 DEF ProfilesLeft
    <3> QED BY <2>3, <2>4, <3>2
  <2> QED BY <2>3, <2>4 DEF GuardInv
<1> QED BY <1>1, <1>2, <1>3, <1>4 DEF ProfileRequestInv

LEMMA OneMovesProfiles ==
  ASSUME NEW a \in Admins, RequestsInv, ProfilesInv, ProfileRequestInv(a)',
         profiles' \in [Profiles -> ProfileRow],
         \A b \in Admins \ {a} : admin'[b] = admin[b] /\ ProfilesLeft(b)
  PROVE  ProfilesInv'
<1>1. ASSUME NEW b \in Admins PROVE ProfileRequestInv(b)'
  <2>1. CASE b = a
    BY <2>1
  <2>2. CASE b # a
    <3>1. RequestInv(b) /\ ProfileRequestInv(b) /\ admin'[b] = admin[b] /\ ProfilesLeft(b)
      BY <2>2 DEF RequestsInv, ProfilesInv
    <3> QED BY <3>1, OthersProfiles
  <2> QED BY <2>1, <2>2
<1> QED BY <1>1 DEF ProfilesInv

LEMMA ProfilesUnchanged ==
  ASSUME UNCHANGED profiles, NEW b PROVE ProfilesLeft(b)
BY DEF ProfilesLeft, ActiveProfilesOf

\* A command that takes a Source away asks for its validity first of all.
LEMMA BeginProfiles ==
  ASSUME AdminInv, ProfilesInv, NEW a \in Admins, NEW c \in Commands, Begin(a, c)
  PROVE  ProfilesInv'
<1> DEFINE q == Plan(a, 1, c)
           r == admin'[a]
<1>1. RequestsInv /\ UNCHANGED profiles
  BY DEF AdminInv, Begin, catalog
<1>2. r.stage = 1 /\ r.cmd = c /\ r.todo = q /\ r.held = {} /\ r.profiles = {}
  <2> HIDE DEF q
  <2>1. admin' = [admin EXCEPT ![a] = [Idle EXCEPT !.stage = 1, !.cmd = c, !.todo = q]]
    BY DEF Begin, q
  <2>2. r = [Idle EXCEPT !.stage = 1, !.cmd = c, !.todo = q]
    BY <1>1, <2>1 DEF RequestsInv
  <2> QED BY <2>2 DEF Idle
<1>3. c.kind = "profile_lifecycle" => q = <<Row(c.on)>>
  BY DEF Plan, ProfilePlan, ProfileCommand, SourceCommand, GuardedCommand, EndpointCommand
<1>4. c.kind \in GuardedCommand /\ TakesAway(c) => q = <<Validity(c.on)>>
  <2>1. ValidityPlan(<<c.on>>) = <<Validity(c.on)>>
    BY DEF ValidityPlan
  <2>2. ASSUME c.kind \in GuardedCommand
        PROVE  q = GuardedPlan(a, 1, c)
    BY <2>2 DEF Plan, SourceCommand, GuardedCommand, EndpointCommand, ProfileCommand
  <2> QED BY <2>1, <2>2 DEF GuardedPlan
<1> HIDE DEF q, r
<1>5. ActivationInv(a)'
  <2>1. r.cmd.kind = "profile_lifecycle" => r.todo \in Seq(Range(r.todo))
    BY <1>2, <1>3, ShortRange
  <2> QED BY <1>2, <2>1 DEF ActivationInv, r
<1>6. GuardInv(a)'
  BY <1>2, <1>4, ShortRange DEF GuardInv, r
<1>7. ProfileRequestInv(a)'
  BY <1>2, <1>5, <1>6 DEF ProfileRequestInv, r
<1>8. admin' = [admin EXCEPT ![a] = r]
  BY <1>1 DEF Begin, RequestsInv, r
<1>9. profiles' \in [Profiles -> ProfileRow]
  BY <1>1 DEF ProfilesInv
<1> QED BY <1>1, <1>7, <1>8, <1>9, OneMovesProfiles, ProfilesUnchanged DEF RequestsInv

\* What is asked for is taken, except a Profile that is not active any more
\* on behalf of a command that takes its Source away.
LEMMA AcquireProfiles ==
  ASSUME AdminInv, ProfilesInv, NEW a \in Admins, Acquire(a)
  PROVE  ProfilesInv'
<1> DEFINE o == admin[a]
           l == Head(o.todo)
           now == IF Returned(a, l) THEN {l} ELSE {}
           r == admin'[a]
<1>1. RequestsInv /\ UNCHANGED profiles /\ RequestInv(a) /\ Request(o)
      /\ o.todo # <<>> /\ ProfileRequestInv(a)
  BY DEF AdminInv, RequestsInv, RequestInv, Acquire, catalog, ProfilesInv
<1>2. /\ r.stage = o.stage /\ r.cmd = o.cmd /\ r.todo = Tail(o.todo)
      /\ r.held = o.held \union now
      /\ r.profiles = o.profiles \union {p \in Profiles : Row(p) \in now}
  BY <1>1 DEF RequestsInv, Acquire, Request
<1>3. /\ \A p \in Profiles : Row(p) \in now => Exists(profiles[p])
      /\ now \subseteq {l}
      /\ \A s : l = Validity(s) => l \in now
      /\ \A p \in Profiles : l = Row(p) /\ Exists(profiles[p])
           /\ profiles[p].lifecycle = "active" => l \in now
  <2>1. \A x : Row(x) = l => l[1] = "row" /\ l[2] = x
    BY DEF Row
  <2>2. \A s : Validity(s) = l => l[1] = "validity"
    BY DEF Validity
  <2> QED BY <2>1, <2>2, AdministrationAssumption DEF Returned
<1>4. o.todo \in Seq(Range(o.todo)) =>
        r.todo \in Seq(Range(r.todo)) /\ Range(o.todo) = {l} \union Range(r.todo)
  BY <1>1, <1>2, TailRange
<1> HIDE DEF now, l
<1>5. ActivationInv(a)'
  <2> SUFFICES ASSUME r.cmd.kind = "profile_lifecycle", r.stage > 0
      PROVE  ActivationInv(a)'
    BY DEF ActivationInv
  <2>1. ActivationInv(a) /\ o.cmd.on \in Profiles
    BY <1>1, <1>2, AddressedTo DEF ProfileCommand, ProfileRequestInv
  <2>2. o.todo \in Seq(Range(o.todo))
    BY <1>2, <2>1 DEF ActivationInv
  <2> DEFINE p == o.cmd.on
  <2>3. r.stage > 1 => /\ Row(p) \notin Range(o.todo)
                       /\ Row(p) \in o.held /\ o.cmd.value = "active"
                          /\ TransitionAllowed(profiles[p].lifecycle, "active") =>
                            \A s \in profiles[p].sources :
                              Validity(s) \in o.held \union Range(o.todo)
    BY <1>2, <2>1 DEF ActivationInv
  <2>4. ASSUME r.stage > 1
        PROVE  /\ Row(p) \notin Range(r.todo)
               /\ Row(p) \in r.held => Row(p) \in o.held
               /\ \A s : Validity(s) \in o.held \union Range(o.todo) =>
                    Validity(s) \in r.held \union Range(r.todo)
    BY <1>2, <1>3, <1>4, <2>2, <2>3, <2>4
  <2> QED BY <1>1, <1>2, <1>4, <2>2, <2>3, <2>4 DEF ActivationInv
<1>6. GuardInv(a)'
  <2> SUFFICES ASSUME r.cmd.kind \in GuardedCommand, TakesAway(r.cmd), r.stage > 0
      PROVE  GuardInv(a)'
    BY DEF GuardInv
  <2> DEFINE s == o.cmd.on
  <2>1. GuardInv(a)
    BY <1>1 DEF ProfileRequestInv
  <2>2. /\ r.stage \in {1, 2} => o.todo \in Seq(Range(o.todo))
        /\ Validity(s) \in o.held \/ (r.stage = 1 /\ Validity(s) \in Range(o.todo))
        /\ r.stage > 1 => \A p \in ActiveProfilesOf(s) :
             Row(p) \in o.held \/ (r.stage = 2 /\ Row(p) \in Range(o.todo))
    BY <1>2, <2>1 DEF GuardInv
  <2>3. Validity(s) \in r.held \/ (r.stage = 1 /\ Validity(s) \in Range(r.todo))
    BY <1>2, <1>3, <1>4, <2>2
  <2>4. ASSUME r.stage > 1, NEW p \in ActiveProfilesOf(s)
        PROVE  Row(p) \in r.held \/ (r.stage = 2 /\ Row(p) \in Range(r.todo))
    <3>1. p \in Profiles /\ profiles[p].lifecycle = "active" /\ Exists(profiles[p])
      BY <2>4 DEF ActiveProfilesOf, Exists
    <3> QED BY <1>2, <1>3, <1>4, <2>2, <2>4, <3>1
  <2>5. r.cmd.on = s /\ \A p : p \in ActiveProfilesOf(admin[a].cmd.on)' => p \in ActiveProfilesOf(s)
    BY <1>1, <1>2 DEF ActiveProfilesOf
  <2> QED BY <1>2, <1>4, <2>2, <2>3, <2>4, <2>5 DEF GuardInv
<1>7. ProfileRequestInv(a)'
  BY <1>1, <1>2, <1>3, <1>5, <1>6 DEF ProfileRequestInv
<1>8. \A b \in Admins \ {a} : admin'[b] = admin[b]
  BY <1>1 DEF Acquire, RequestsInv
<1>9. profiles' \in [Profiles -> ProfileRow]
  BY <1>1 DEF ProfilesInv
<1> QED BY <1>1, <1>7, <1>8, <1>9, OneMovesProfiles, ProfilesUnchanged

\* The second stage of an activation asks for the validity of all the Sources
\* of the Profile, that of a command that takes a Source away for all the
\* active Profiles that refer to it.
LEMMA ProceedProfiles ==
  ASSUME AdminInv, ProfilesInv, NEW a \in Admins, Proceed(a)
  PROVE  ProfilesInv'
<1> DEFINE o == admin[a]
           c == o.cmd
           n == o.stage + 1
           q == Plan(a, n, c)
           r == admin'[a]
<1>1. RequestsInv /\ UNCHANGED profiles /\ RequestInv(a) /\ Request(o)
      /\ o.todo = <<>> /\ ProfileRequestInv(a) /\ o.stage > 0 /\ n <= Stages(c.kind)
  BY DEF AdminInv, RequestsInv, RequestInv, Proceed, catalog, ProfilesInv
<1>2. r.stage = n /\ r.cmd = c /\ r.todo = q /\ r.held = o.held /\ r.profiles = o.profiles
  BY <1>1 DEF RequestsInv, Proceed, Request
<1>3. Range(o.todo) = {} /\ o.stage \in Nat /\ n \in Nat
  BY <1>1, ShortRange DEF Request
<1>4. \A p \in Profiles : profiles[p].sources \in SUBSET Range(Order)
        /\ profiles[p].sources \in SUBSET Sources
  BY AdministrationAssumption DEF ProfilesInv, ProfileRow
<1>5. ActivationInv(a)'
  <2> SUFFICES ASSUME c.kind = "profile_lifecycle"
      PROVE  ActivationInv(a)'
    BY <1>2 DEF ActivationInv
  <2> DEFINE p == c.on
             S == profiles[p].sources
             activating == c.value = "active" /\ TransitionAllowed(profiles[p].lifecycle, c.value)
  <2>1. ActivationInv(a) /\ p \in Profiles
    BY <1>1, AddressedTo DEF ProfileCommand, ProfileRequestInv
  <2>2. n \in {2, 3} /\ (n = 3 => o.stage > 1)
    BY <1>1, <1>3 DEF Stages, ProfileCommand, GuardedCommand
  <2>3. q = ProfilePlan(n, c)
    BY DEF Plan, ProfileCommand, SourceCommand, GuardedCommand, EndpointCommand
  <2>4. /\ n = 2 => q = IF activating THEN ValidityPlan(InOrder(S)) ELSE <<>>
        /\ n = 3 => q = IF activating THEN Rows(S) ELSE <<>>
    BY <2>2, <2>3 DEF ProfilePlan
  <2>5. S \in SUBSET Range(Order) /\ S \in SUBSET Sources
    BY <1>4, <2>1
  <2>6. /\ Rows(S) \in Seq(Range(Rows(S))) /\ Range(Rows(S)) = {Row(x) : x \in S}
        /\ ValidityPlan(InOrder(S)) \in Seq(Range(ValidityPlan(InOrder(S))))
        /\ Range(ValidityPlan(InOrder(S))) = {Validity(x) : x \in S}
    BY <2>5, PlansRange
  <2> HIDE DEF q, activating, S
  <2>7. q \in Seq(Range(q))
    BY <2>2, <2>4, <2>6, ShortRange
  <2>8. Row(p) \notin Range(q)
    <3>1. Row(p) \notin {Validity(x) : x \in S}
      BY DEF Row, Validity
    <3>2. Row(p) \notin {Row(x) : x \in S}
      BY <2>1, <2>5, AdministrationAssumption DEF Row
    <3> QED BY <2>2, <2>4, <2>6, <3>1, <3>2, ShortRange
  <2>9. Row(p) \in r.held /\ activating => \A s \in S : Validity(s) \in r.held \union Range(q)
    <3>1. CASE n = 2
      BY <2>4, <2>6, <3>1
    <3>2. CASE n = 3
      BY <1>2, <1>3, <2>1, <2>2, <3>2 DEF ActivationInv, activating, S
    <3> QED BY <2>2, <3>1, <3>2
  <2> QED BY <1>1, <1>2, <2>7, <2>8, <2>9 DEF ActivationInv, activating, S
<1>6. GuardInv(a)'
  <2> SUFFICES ASSUME c.kind \in GuardedCommand, TakesAway(c)
      PROVE  GuardInv(a)'
    BY <1>2 DEF GuardInv
  <2> DEFINE s == c.on
             A == ActiveProfilesOf(s)
  <2>1. GuardInv(a) /\ s \in Sources
    BY <1>1, AddressedTo DEF ProfileRequestInv
  <2>2. n \in {2, 3} /\ (n = 3 => o.stage = 2)
    BY <1>1, <1>3 DEF Stages, ProfileCommand, GuardedCommand
  <2>3. n = 2 => q = Rows(A)
    <3>1. q = GuardedPlan(a, n, c)
      BY DEF Plan, SourceCommand, GuardedCommand, EndpointCommand, ProfileCommand
    <3> QED BY <3>1 DEF GuardedPlan
  <2>4. A \subseteq Range(Order)
    BY AdministrationAssumption DEF ActiveProfilesOf
  <2>5. Rows(A) \in Seq(Range(Rows(A))) /\ Range(Rows(A)) = {Row(x) : x \in A}
    BY <2>4, PlansRange
  <2>6. Validity(s) \in r.held
    BY <1>1, <1>2, <1>3, <2>1 DEF GuardInv
  <2> HIDE DEF q
  <2>7. \A p \in A : Row(p) \in r.held \/ (n = 2 /\ Row(p) \in Range(q))
    <3>1. CASE n = 2
      BY <2>3, <2>5, <3>1
    <3>2. CASE n = 3
      BY <1>2, <1>3, <2>1, <2>2, <3>2 DEF GuardInv
    <3> QED BY <2>2, <3>1, <3>2
  <2>8. \A p : p \in ActiveProfilesOf(admin[a].cmd.on)' => p \in A
    BY <1>1, <1>2 DEF ActiveProfilesOf
  <2> QED BY <1>2, <2>2, <2>3, <2>5, <2>6, <2>7, <2>8 DEF GuardInv
<1>7. ProfileRequestInv(a)'
  BY <1>1, <1>2, <1>5, <1>6 DEF ProfileRequestInv
<1>8. \A b \in Admins \ {a} : admin'[b] = admin[b]
  BY <1>1 DEF Proceed, RequestsInv
<1>9. profiles' \in [Profiles -> ProfileRow]
  BY <1>1 DEF ProfilesInv
<1> QED BY <1>1, <1>7, <1>8, <1>9, OneMovesProfiles, ProfilesUnchanged

\* What a command writes of Profiles: one it has locked, or a new one; and it
\* activates a Profile only under the validity of all its Sources.
ProfilesStep(a) ==
  /\ profiles' \in [Profiles -> ProfileRow]
  /\ \A p \in Profiles : Exists(profiles[p]) /\ Row(p) \notin admin[a].held =>
       profiles'[p] = profiles[p]
  /\ \A p \in Profiles : profiles'[p].lifecycle = "active" =>
       \/ profiles[p].lifecycle = "active"
       \/ \A s \in profiles'[p].sources : Validity(s) \in admin[a].held

\* A command that writes one Profile, locked or new.
LEMMA ProfileWritten ==
  ASSUME ProfilesInv, ActiveProfilesAreUsable, NEW a, NEW p \in Profiles, NEW row \in ProfileRow,
         profiles' = [profiles EXCEPT ![p] = row], UNCHANGED sources,
         Row(p) \in admin[a].held \/ ~Exists(profiles[p]),
         row.lifecycle = "active" =>
           /\ \E s \in row.sources : Usable(sources[s])
           /\ \/ profiles[p].lifecycle = "active"
              \/ \A s \in row.sources : Validity(s) \in admin[a].held
  PROVE  ProfilesStep(a) /\ ActiveProfilesAreUsable'
<1>1. /\ profiles'[p] = row
      /\ \A q \in Profiles \ {p} : profiles'[q] = profiles[q]
      /\ profiles' \in [Profiles -> ProfileRow]
  BY DEF ProfilesInv
<1>2. ProfilesStep(a)
  BY <1>1 DEF ProfilesStep
<1>3. ActiveProfilesAreUsable'
  BY <1>1 DEF ActiveProfilesAreUsable
<1> QED BY <1>2, <1>3

\* A command that leaves Profiles alone.
LEMMA ProfilesAside ==
  ASSUME ProfilesInv, UNCHANGED profiles, NEW a PROVE ProfilesStep(a)
BY DEF ProfilesInv, ProfilesStep

LEMMA CreateProfileStep ==
  ASSUME ProfilesInv, ActiveProfilesAreUsable, NEW a \in Admins, NEW c \in Commands,
         c.kind = "profile_create", CreateProfile(a, c)
  PROVE  ProfilesStep(a) /\ ActiveProfilesAreUsable'
<1>1. CASE UNCHANGED catalog
  BY <1>1, ProfilesAside DEF catalog, ActiveProfilesAreUsable
<1>2. CASE ~UNCHANGED catalog
  <2> DEFINE row == [profiles[c.on] EXCEPT !.lifecycle = "draft"]
  <2>1. /\ ~Exists(profiles[c.on]) /\ UNCHANGED sources
        /\ profiles' = [profiles EXCEPT ![c.on].lifecycle = "draft"]
    BY <1>2 DEF CreateProfile, Refuse
  <2>2. c.on \in Profiles
    BY CommandsAssumption DEF Addressed
  <2>3. row \in ProfileRow /\ row.lifecycle = "draft"
    BY <2>2 DEF ProfilesInv, ProfileRow
  <2>4. profiles' = [profiles EXCEPT ![c.on] = row]
    BY <2>1
  <2> HIDE DEF row
  <2> QED BY <2>1, <2>2, <2>3, <2>4, ProfileWritten
<1> QED BY <1>1, <1>2

\* Activation finds a usable Source, under the validity of all of them.
LEMMA SetProfileLifecycleStep ==
  ASSUME AdminInv, ProfilesInv, ActiveProfilesAreUsable, NEW a \in Admins, NEW c \in Commands,
         c = admin[a].cmd, admin[a].stage = 3, admin[a].todo = <<>>,
         c.kind = "profile_lifecycle", Locked(a, c.on), SetProfileLifecycle(a, c)
  PROVE  ProfilesStep(a) /\ ActiveProfilesAreUsable'
<1>1. CASE UNCHANGED catalog
  BY <1>1, ProfilesAside DEF catalog, ActiveProfilesAreUsable
<1>2. CASE ~UNCHANGED catalog
  <2> DEFINE p == profiles[c.on]
             row == [p EXCEPT !.lifecycle = c.value]
  <2>1. /\ TransitionAllowed(p.lifecycle, c.value) /\ UNCHANGED sources
        /\ c.value = "active" => \E s \in p.sources : Usable(sources[s])
        /\ profiles' = [profiles EXCEPT ![c.on].lifecycle = c.value]
    BY <1>2 DEF SetProfileLifecycle, Refuse
  <2>2. c.on \in Profiles /\ ActivationInv(a)
    BY CommandsAssumption DEF Addressed, ProfileCommand, ProfilesInv, ProfileRequestInv
  <2>3. c.value \in {"active", "disabled"}
    BY <2>1 DEF TransitionAllowed
  <2>4. row \in ProfileRow /\ row.lifecycle = c.value /\ row.sources = p.sources
    BY <2>2, <2>3 DEF ProfilesInv, ProfileRow
  <2>5. c.value = "active" => \A s \in p.sources : Validity(s) \in admin[a].held
    BY <2>1, <2>2, ShortRange DEF ActivationInv, Locked
  <2>6. profiles' = [profiles EXCEPT ![c.on] = row]
    BY <2>1
  <2>7. Row(c.on) \in admin[a].held
    BY DEF Locked
  <2> HIDE DEF row
  <2> QED BY <2>1, <2>2, <2>4, <2>5, <2>6, <2>7, ProfileWritten
<1> QED BY <1>1, <1>2

LEMMA AddSourceStep ==
  ASSUME ProfilesInv, ActiveProfilesAreUsable, NEW a \in Admins, NEW c \in Commands,
         c.kind = "profile_add", Locked(a, c.on), AddSource(a, c)
  PROVE  ProfilesStep(a) /\ ActiveProfilesAreUsable'
<1>1. CASE UNCHANGED catalog
  BY <1>1, ProfilesAside DEF catalog, ActiveProfilesAreUsable
<1>2. CASE ~UNCHANGED catalog
  <2> DEFINE p == profiles[c.on]
             row == [p EXCEPT !.sources = @ \union {c.with}]
  <2>1. /\ UNCHANGED sources
        /\ profiles' = [profiles EXCEPT ![c.on].sources = @ \union {c.with}]
    BY <1>2 DEF AddSource, Refuse
  <2>2. c.on \in Profiles /\ c.with \in Sources
    BY CommandsAssumption DEF Addressed, ProfileCommand
  <2>3. /\ row \in ProfileRow /\ row.lifecycle = p.lifecycle
        /\ row.sources = p.sources \union {c.with}
    BY <2>2 DEF ProfilesInv, ProfileRow
  <2>4. profiles' = [profiles EXCEPT ![c.on] = row]
    BY <2>1
  <2>5. row.lifecycle = "active" => \E s \in row.sources : Usable(sources[s])
    BY <2>2, <2>3 DEF ActiveProfilesAreUsable
  <2>6. Row(c.on) \in admin[a].held
    BY DEF Locked
  <2> HIDE DEF row
  <2> QED BY <2>1, <2>2, <2>3, <2>4, <2>5, <2>6, ProfileWritten
<1> QED BY <1>1, <1>2

\* A removal leaves an active Profile another Source that is usable.
LEMMA RemoveSourceStep ==
  ASSUME ProfilesInv, ActiveProfilesAreUsable, NEW a \in Admins, NEW c \in Commands,
         c.kind = "profile_remove", Locked(a, c.on), RemoveSource(a, c)
  PROVE  ProfilesStep(a) /\ ActiveProfilesAreUsable'
<1>1. CASE UNCHANGED catalog
  BY <1>1, ProfilesAside DEF catalog, ActiveProfilesAreUsable
<1>2. CASE ~UNCHANGED catalog
  <2> DEFINE p == profiles[c.on]
             row == [p EXCEPT !.sources = @ \ {c.with}]
  <2>1. /\ UNCHANGED sources
        /\ p.lifecycle = "active" => \E s \in p.sources \ {c.with} : Usable(sources[s])
        /\ profiles' = [profiles EXCEPT ![c.on].sources = @ \ {c.with}]
    BY <1>2 DEF RemoveSource, Refuse
  <2>2. c.on \in Profiles
    BY CommandsAssumption DEF Addressed, ProfileCommand
  <2>3. /\ row \in ProfileRow /\ row.lifecycle = p.lifecycle
        /\ row.sources = p.sources \ {c.with}
    BY <2>2 DEF ProfilesInv, ProfileRow
  <2>4. profiles' = [profiles EXCEPT ![c.on] = row]
    BY <2>1
  <2>5. row.lifecycle = "active" => profiles[c.on].lifecycle = "active"
                                    /\ \E s \in row.sources : Usable(sources[s])
    BY <2>1, <2>3
  <2>6. Row(c.on) \in admin[a].held
    BY DEF Locked
  <2> HIDE DEF row, p
  <2> QED BY <2>1, <2>2, <2>3, <2>4, <2>5, <2>6, ProfileWritten
<1> QED BY <1>1, <1>2

\* A command that writes one Source and leaves it usable if it was.
LEMMA SourceStaysUsable ==
  ASSUME ProfilesInv, ActiveProfilesAreUsable, NEW s \in Sources, UNCHANGED profiles,
         \A x \in Sources \ {s} : sources'[x] = sources[x],
         Usable(sources[s]) => Usable(sources'[s])
  PROVE  ActiveProfilesAreUsable'
<1>1. \A p \in Profiles : profiles[p].sources \subseteq Sources
  BY DEF ProfilesInv, ProfileRow
<1> QED BY <1>1 DEF ActiveProfilesAreUsable

LEMMA CreateSourceUsable ==
  ASSUME AdminInv, ProfilesInv, ActiveProfilesAreUsable, NEW a \in Admins,
         NEW c \in Commands, c.kind = "source_create", CreateSource(a, c)
  PROVE  ProfilesStep(a) /\ ActiveProfilesAreUsable'
<1>1. CASE UNCHANGED catalog
  BY <1>1, ProfilesAside DEF catalog, ActiveProfilesAreUsable
<1>2. CASE ~UNCHANGED catalog
  <2> DEFINE row == [approval |-> c.value, lifecycle |-> "active", operational |-> "enabled",
                     rules |-> c.config.rules, category |-> c.config.category]
  <2>1. /\ ~Exists(sources[c.on]) /\ sources' = [sources EXCEPT ![c.on] = row]
        /\ UNCHANGED profiles
    BY <1>2 DEF CreateSource, Refuse, Uncategorized
  <2>2. c.on \in Sources /\ sources = [s \in Sources |-> sources[s]]
    BY CommandsAssumption DEF Addressed, AdminInv, CatalogInv, CatalogType
  <2> HIDE DEF row
  <2>3. ~Usable(sources[c.on]) /\ \A x \in Sources \ {c.on} : sources'[x] = sources[x]
    BY <2>1, <2>2 DEF Usable, Exists
  <2> QED BY <2>1, <2>2, <2>3, SourceStaysUsable, ProfilesAside
<1> QED BY <1>1, <1>2

LEMMA ConfigureSourceUsable ==
  ASSUME AdminInv, ProfilesInv, ActiveProfilesAreUsable, NEW a \in Admins,
         NEW c \in Commands, c.kind = "source_configure", ConfigureSource(a, c)
  PROVE  ProfilesStep(a) /\ ActiveProfilesAreUsable'
<1>1. CASE UNCHANGED catalog
  BY <1>1, ProfilesAside DEF catalog, ActiveProfilesAreUsable
<1>2. CASE ~UNCHANGED catalog
  <2> DEFINE old == sources[c.on]
             row == WithConfiguration(old, c.config)
  <2>1. sources' = [sources EXCEPT ![c.on] = row] /\ UNCHANGED profiles
    BY <1>2 DEF ConfigureSource, Refuse, Uncategorized
  <2>2. /\ c.on \in Sources /\ sources = [s \in Sources |-> sources[s]]
        /\ old \in SourceRow
    BY CommandsAssumption DEF Addressed, SourceCommand, AdminInv, CatalogInv, CatalogType
  <2>3. row.approval = old.approval /\ row.lifecycle = old.lifecycle
    BY <2>2 DEF WithConfiguration, SourceRow
  <2> HIDE DEF row
  <2>4. Usable(old) => Usable(sources'[c.on])
    BY <2>1, <2>2, <2>3 DEF Usable
  <2>5. \A x \in Sources \ {c.on} : sources'[x] = sources[x]
    BY <2>1, <2>2
  <2> QED BY <2>1, <2>2, <2>4, <2>5, SourceStaysUsable, ProfilesAside
<1> QED BY <1>1, <1>2

\* A Source is taken away from the Profiles that were locked, and they are all
\* the active Profiles that refer to it: each has another that is usable.
LEMMA ChangeSourceUsable ==
  ASSUME AdminInv, ProfilesInv, ActiveProfilesAreUsable, NEW a \in Admins,
         NEW c \in Commands, c = admin[a].cmd, admin[a].stage = Stages(c.kind),
         c.kind \in GuardedCommand \union {"source_operational"}, ChangeSource(a, c)
  PROVE  ProfilesStep(a) /\ ActiveProfilesAreUsable'
<1>1. CASE UNCHANGED catalog
  BY <1>1, ProfilesAside DEF catalog, ActiveProfilesAreUsable
<1>2. CASE ~UNCHANGED catalog
  <2> DEFINE old == sources[c.on]
             row == Changed(old, c)
  <2>1. /\ sources' = [sources EXCEPT ![c.on] = row] /\ UNCHANGED profiles
        /\ c.kind \in GuardedCommand /\ c.value \notin {old.approval, old.lifecycle} =>
             ~RequiredByProfile(a, c)
    BY <1>2 DEF ChangeSource, Refuse
  <2>2. /\ c.on \in Sources /\ sources = [s \in Sources |-> sources[s]]
        /\ old \in SourceRow
    BY CommandsAssumption
       DEF Addressed, SourceCommand, GuardedCommand, AdminInv, CatalogInv, CatalogType
  <2>3. /\ c.kind = "source_approval" =>
             row.approval = c.value /\ row.lifecycle = old.lifecycle /\ c.value \in Approvals
        /\ c.kind = "source_lifecycle" =>
             row.approval = old.approval /\ row.lifecycle = c.value /\ c.value \in Lifecycles
        /\ c.kind = "source_operational" =>
             row.approval = old.approval /\ row.lifecycle = old.lifecycle
    BY <2>2, CommandsAssumption DEF Changed, SourceRow, Admitted
  <2>4. /\ \A x \in Sources \ {c.on} : sources'[x] = sources[x]
        /\ sources'[c.on] = row
    BY <2>1, <2>2
  <2> HIDE DEF row
  <2>5. CASE Usable(old) => Usable(row)
    BY <2>1, <2>2, <2>4, <2>5, SourceStaysUsable, ProfilesAside
  <2>6. CASE Usable(old) /\ ~Usable(row)
    <3>1. /\ c.kind \in GuardedCommand /\ TakesAway(c)
          /\ c.value \notin {old.approval, old.lifecycle}
      BY <2>3, <2>6 DEF Usable, TakesAway, GuardedCommand, Approvals, Lifecycles
    <3>2. \A p \in ActiveProfilesOf(c.on) : p \in admin[a].profiles
      <4>1. GuardInv(a) /\ admin[a].profiles = {p \in Profiles : Row(p) \in admin[a].held}
        BY DEF ProfilesInv, ProfileRequestInv
      <4>2. admin[a].stage = 3
        BY <3>1 DEF Stages, GuardedCommand, ProfileCommand, SourceCommand, EndpointCommand
      <4>3. \A p \in ActiveProfilesOf(c.on) : Row(p) \in admin[a].held
        BY <3>1, <4>1, <4>2 DEF GuardInv
      <4> QED BY <4>1, <4>3 DEF ActiveProfilesOf
    <3>3. ASSUME NEW p \in Profiles, profiles[p].lifecycle = "active"
          PROVE  \E s \in profiles[p].sources : s # c.on /\ Usable(sources[s])
      <4>1. CASE c.on \in profiles[p].sources
        <5>1. p \in admin[a].profiles
          BY <3>2, <3>3, <4>1 DEF ActiveProfilesOf
        <5> QED BY <2>1, <3>1, <5>1 DEF RequiredByProfile
      <4>2. CASE c.on \notin profiles[p].sources
        BY <3>3, <4>2 DEF ActiveProfilesAreUsable
      <4> QED BY <4>1, <4>2
    <3>4. \A p \in Profiles : profiles[p].sources \subseteq Sources
      BY DEF ProfilesInv, ProfileRow
    <3>5. ActiveProfilesAreUsable'
      BY <2>1, <2>4, <3>3, <3>4 DEF ActiveProfilesAreUsable
    <3> QED BY <2>1, <3>5, ProfilesAside
  <2> QED BY <2>5, <2>6
<1> QED BY <1>1, <1>2

\* No command that commits leaves an active Profile without a usable Source.
LEMMA CommitUsable ==
  ASSUME AdminInv, ProfilesInv, ActiveProfilesAreUsable, NEW a \in Admins, Commit(a)
  PROVE  ProfilesStep(a) /\ ActiveProfilesAreUsable'
<1> DEFINE c == admin[a].cmd
<1>1. admin[a].stage = Stages(c.kind) /\ admin[a].stage > 0 /\ admin[a].todo = <<>>
  BY DEF Commit
<1>2. c \in Commands
  BY <1>1 DEF AdminInv, RequestsInv, RequestInv
<1>3. ASSUME UNCHANGED <<sources, profiles>>
      PROVE  ProfilesStep(a) /\ ActiveProfilesAreUsable'
  BY <1>3, ProfilesAside DEF ActiveProfilesAreUsable
<1>4. CASE c.kind = "source_create" /\ CreateSource(a, c)
  BY <1>2, <1>4, CreateSourceUsable
<1>5. CASE c.kind = "source_configure" /\ ConfigureSource(a, c)
  BY <1>2, <1>5, ConfigureSourceUsable
<1>6. CASE c.kind \in GuardedCommand \union {"source_operational"} /\ ChangeSource(a, c)
  BY <1>1, <1>2, <1>6, ChangeSourceUsable
<1>7. CASE c.kind = "profile_create" /\ CreateProfile(a, c)
  BY <1>2, <1>7, CreateProfileStep
<1>8. CASE c.kind \in ProfileCommand /\ ChangeProfile(a, c)
  <2>1. CASE ~Locked(a, c.on)
    BY <1>3, <1>8, <2>1 DEF ChangeProfile, Refuse, catalog
  <2>2. CASE Locked(a, c.on)
    <3>1. admin[a].stage = 3
      BY <1>1, <1>8 DEF Stages, GuardedCommand, ProfileCommand, SourceCommand, EndpointCommand
    <3>2. /\ c.kind = "profile_lifecycle" => SetProfileLifecycle(a, c)
          /\ c.kind = "profile_add" => AddSource(a, c)
          /\ c.kind = "profile_remove" => RemoveSource(a, c)
      BY <1>8, <2>2 DEF ChangeProfile
    <3>3. CASE c.kind = "profile_lifecycle"
      BY <1>1, <1>2, <2>2, <3>1, <3>2, <3>3, SetProfileLifecycleStep
    <3>4. CASE c.kind = "profile_add"
      BY <1>2, <2>2, <3>2, <3>4, AddSourceStep
    <3>5. CASE c.kind = "profile_remove"
      BY <1>2, <2>2, <3>2, <3>5, RemoveSourceStep
    <3> QED BY <1>8, <3>3, <3>4, <3>5 DEF ProfileCommand
  <2> QED BY <2>1, <2>2
<1>9. CASE \/ CreateEndpoint(a, c) \/ ConfigureEndpoint(a, c) \/ ChangeEndpoint(a, c)
           \/ CheckNow(a, c) \/ SaveCategory(a, c) \/ DeleteCategory(a, c)
           \/ SaveRule(a, c) \/ SwitchRule(a, c) \/ DeleteRule(a, c)
  <2> USE DEF Refuse, Uncategorized, catalog
  <2>1. CreateEndpoint(a, c) => UNCHANGED <<sources, profiles>>
    BY DEF CreateEndpoint
  <2>2. ConfigureEndpoint(a, c) => UNCHANGED <<sources, profiles>>
    BY DEF ConfigureEndpoint
  <2>3. ChangeEndpoint(a, c) => UNCHANGED <<sources, profiles>>
    BY DEF ChangeEndpoint
  <2>4. CheckNow(a, c) => UNCHANGED <<sources, profiles>>
    BY DEF CheckNow
  <2>5. SaveCategory(a, c) => UNCHANGED <<sources, profiles>>
    BY DEF SaveCategory
  <2>6. DeleteCategory(a, c) => UNCHANGED <<sources, profiles>>
    BY DEF DeleteCategory
  <2>7. SaveRule(a, c) => UNCHANGED <<sources, profiles>>
    BY DEF SaveRule
  <2>8. SwitchRule(a, c) => UNCHANGED <<sources, profiles>>
    BY DEF SwitchRule
  <2>9. DeleteRule(a, c) => UNCHANGED <<sources, profiles>>
    BY DEF DeleteRule
  <2> QED BY <1>3, <1>9, <2>1, <2>2, <2>3, <2>4, <2>5, <2>6, <2>7, <2>8, <2>9
<1> QED BY <1>4, <1>5, <1>6, <1>7, <1>8, <1>9 DEF Commit

\* And it writes no Profile that another has locked, and activates none that
\* refers to a Source that another is about to take away.
LEMMA CommitProfiles ==
  ASSUME AdminInv, ProfilesInv, ActiveProfilesAreUsable, JoinsCoordinated,
         NEW a \in Admins, Commit(a)
  PROVE  ProfilesInv' /\ ActiveProfilesAreUsable'
<1>1. ProfilesStep(a) /\ ActiveProfilesAreUsable' /\ admin' = [admin EXCEPT ![a] = Idle]
  BY CommitUsable, CommitEnds
<1>2. RequestsInv /\ admin'[a] = Idle /\ \A b \in Admins \ {a} : admin'[b] = admin[b]
  BY <1>1 DEF AdminInv, RequestsInv
<1>3. ASSUME NEW b \in Admins \ {a} PROVE ProfilesLeft(b)
  <2>1. admin[a].held \intersect admin[b].held = {}
    BY <1>2 DEF RequestsInv, Exclusive
  <2>2. ASSUME NEW p \in Profiles, Row(p) \in admin[b].held PROVE profiles'[p] = profiles[p]
    <3>1. Exists(profiles[p]) /\ Row(p) \notin admin[a].held
      BY <2>1, <2>2 DEF ProfilesInv, ProfileRequestInv
    <3> QED BY <1>1, <3>1 DEF ProfilesStep
  <2>3. ASSUME NEW s \in Sources, NEW p \in Profiles, Validity(s) \in admin[b].held,
               p \in ActiveProfilesOf(s)'
        PROVE  p \in ActiveProfilesOf(s)
    <3>1. /\ profiles'[p].lifecycle = "active" /\ s \in profiles'[p].sources
          /\ Validity(s) \notin admin[a].held
      BY <2>1, <2>3 DEF ActiveProfilesOf
    <3>2. profiles[p].lifecycle = "active"
      BY <1>1, <3>1 DEF ProfilesStep
    <3>3. s \in profiles[p].sources
      BY <2>3, <3>1, <3>2 DEF JoinsCoordinated, Held
    <3> QED BY <3>2, <3>3 DEF ActiveProfilesOf
  <2> QED BY <2>2, <2>3 DEF ProfilesLeft
<1>4. ProfileRequestInv(a)'
  <2>1. /\ Idle.stage = 0 /\ Idle.held = {} /\ Idle.profiles = {} /\ Idle.cmd.kind = "none"
    BY DEF Idle, Silence, Command
  <2> QED BY <1>2, <2>1 DEF ProfileRequestInv, ActivationInv, GuardInv, GuardedCommand
<1> QED BY <1>1, <1>2, <1>3, <1>4, OneMovesProfiles DEF ProfilesStep

LEMMA FailProfiles ==
  ASSUME AdminInv, ProfilesInv, NEW a \in Admins, Fail(a)
  PROVE  ProfilesInv'
<1>1. RequestsInv /\ UNCHANGED profiles /\ admin' = [admin EXCEPT ![a] = Idle]
  BY DEF AdminInv, Fail, catalog
<1>2. admin'[a] = Idle /\ \A b \in Admins \ {a} : admin'[b] = admin[b]
  BY <1>1 DEF RequestsInv
<1>3. ProfileRequestInv(a)'
  <2>1. /\ Idle.stage = 0 /\ Idle.held = {} /\ Idle.profiles = {} /\ Idle.cmd.kind = "none"
    BY DEF Idle, Silence, Command
  <2> QED BY <1>2, <2>1 DEF ProfileRequestInv, ActivationInv, GuardInv, GuardedCommand
<1>4. profiles' \in [Profiles -> ProfileRow]
  BY <1>1 DEF ProfilesInv
<1> QED BY <1>1, <1>2, <1>3, <1>4, OneMovesProfiles, ProfilesUnchanged

LEMMA ProfilesStill ==
  AdminInv /\ ProfilesInv /\ ActiveProfilesAreUsable /\ [Next]_vars /\ [JoinsCoordinated]_vars =>
    ProfilesInv' /\ ActiveProfilesAreUsable'
<1> SUFFICES ASSUME AdminInv, ProfilesInv, ActiveProfilesAreUsable,
                    [Next]_vars, [JoinsCoordinated]_vars
    PROVE  ProfilesInv' /\ ActiveProfilesAreUsable'
  OBVIOUS
<1>1. ASSUME UNCHANGED catalog PROVE ActiveProfilesAreUsable'
  BY <1>1 DEF catalog, ActiveProfilesAreUsable
<1>2. ASSUME NEW a \in Admins, NEW c \in Commands, Begin(a, c)
      PROVE  ProfilesInv' /\ ActiveProfilesAreUsable'
  BY <1>1, <1>2, BeginProfiles DEF Begin
<1>3. ASSUME NEW a \in Admins, Acquire(a) PROVE ProfilesInv' /\ ActiveProfilesAreUsable'
  BY <1>1, <1>3, AcquireProfiles DEF Acquire
<1>4. ASSUME NEW a \in Admins, Proceed(a) PROVE ProfilesInv' /\ ActiveProfilesAreUsable'
  BY <1>1, <1>4, ProceedProfiles DEF Proceed
<1>5. ASSUME NEW a \in Admins, Fail(a) PROVE ProfilesInv' /\ ActiveProfilesAreUsable'
  BY <1>1, <1>5, FailProfiles DEF Fail
<1>6. ASSUME UNCHANGED vars PROVE ProfilesInv' /\ ActiveProfilesAreUsable'
  <2>1. UNCHANGED catalog /\ UNCHANGED admin
    BY <1>6 DEF vars
  <2>2. \A b \in Admins : RequestInv(b) /\ ProfileRequestInv(b) /\ ProfilesLeft(b)
    BY <2>1, ProfilesUnchanged DEF AdminInv, RequestsInv, ProfilesInv, catalog
  <2>3. \A b \in Admins : ProfileRequestInv(b)'
    BY <2>1, <2>2, OthersProfiles
  <2>4. UNCHANGED profiles
    BY <2>1 DEF catalog
  <2> QED BY <1>1, <2>1, <2>3, <2>4 DEF ProfilesInv
<1>7. ASSUME NEW a \in Admins, Commit(a), JoinsCoordinated
      PROVE  ProfilesInv' /\ ActiveProfilesAreUsable'
  BY <1>7, CommitProfiles
<1> QED BY <1>2, <1>3, <1>4, <1>5, <1>6, <1>7 DEF Next

\* distribution-and-integration-contract.md:31, for every catalog and any
\* number of administrators: as long as a Source joins an active Profile only
\* while nobody has its validity locked, no interleaving of activation,
\* association, removal, unapproval and archival leaves an active Profile
\* without a Source that is approved and active.
THEOREM ProfilesStayUsable ==
  Spec /\ ActiveProfilesAreUsable /\ [][JoinsCoordinated]_vars => []ActiveProfilesAreUsable
<1>1. Init /\ ActiveProfilesAreUsable => ProfilesInv /\ ActiveProfilesAreUsable
  BY ProfilesInit
<1> QED BY <1>1, ProfilesStill, AdminInvariant, PTL DEF Spec

=============================================================================
