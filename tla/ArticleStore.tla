----------------------------- MODULE ArticleStore -----------------------------
(***************************************************************************)
(* The Article tables under concurrent collectors and an operator.         *)
(*                                                                         *)
(* A collector's transaction takes the candidate's identity locks and      *)
(* resolves it, writes the Article (holding its row), detects duplicate    *)
(* evidence (holding the candidate rows), then groups and commits under    *)
(* the duplicate topology lock.  What it has written is its own until the  *)
(* commit.  Every other step is the transaction of an operator's command.  *)
(* PostgreSQL may fail any open transaction, by a deadlock or a lost       *)
(* connection, and nothing of it remains.                                  *)
(***************************************************************************)
EXTENDS DuplicateGroups

CONSTANTS Collectors,
          RunTime,         \* when each collector observed what it reports
          MaxWork,         \* bound: observations and commands together
          Edited,          \* bound: the Sources whose settings are edited
          Categories,
          Excluded         \* the decision that keeps a candidate out

ASSUME TimesAssumption == RunTime \in [Collectors -> Nat \ {0}]

VARIABLES articles,  \* the committed rows, by id: [source, ext, url, title,
                     \* quality, first, last, cats, mod]
          topo,      \* the committed duplicate topology
          setting,   \* what each Source's rules and defaults decide now
          tx,        \* the open transaction of each collector
          observed,  \* article_observations: the times each Article was
                     \* observed, and under 0 the excluded observations
          audit,     \* the audit events of each Article, oldest first
          spent      \* observations and commands so far

vars == <<articles, topo, setting, tx, observed, audit, spent>>

Idle == [pc |-> "idle", item |-> Absent, decided |-> Absent, seen |-> Absent,
         id |-> 0, row |-> Absent, found |-> <<>>]

Open == {c \in Collectors : tx[c].pc # "idle"}
Writing == {c \in Collectors : tx[c].pc \in {"written", "detected"}}

RowLocks(c) == IF c \in Writing THEN {tx[c].id} ELSE {}
CandLocks(c) == DOMAIN tx[c].found
RowsFree(S, C) == \A c \in C : RowLocks(c) \intersect S = {}
CandsFree(P, C) == \A c \in C : CandLocks(c) \intersect P = {}

\* A row put in its place among others.
With(rows, id, row) ==
  [a \in DOMAIN rows \union {id} |-> IF a = id THEN row ELSE rows[a]]

\* What a statement of c sees: the committed rows and its own.
View(c) == IF c \in Writing THEN With(articles, tx[c].id, tx[c].row) ELSE articles

\* What a relevance decision can be: a Category to file under, or Excluded.
Decisions == Categories \union {Excluded}

Init == /\ articles = <<>> /\ topo = EmptyTopology
        /\ setting = [s \in Sources |-> CHOOSE k \in Categories : TRUE]
        /\ tx = [c \in Collectors |-> Idle]
        /\ observed = [a \in {0} |-> {}] /\ audit = <<>>
        /\ spent = 0

-----------------------------------------------------------------------------
(* Collectors.                                                             *)

\* The observation row insertObservation or insertExcludedObservation adds.
ObservedAt(a, c) ==
  With(observed, a,
       (IF a \in DOMAIN observed THEN observed[a] ELSE {}) \union {RunTime[c]})

Locks(c) == IF tx[c].pc = "idle" THEN {} ELSE IdentityLocks(tx[c].item)

\* resolveIdentity under the candidate's locks.  The relevance decision was
\* made with the settings of the moment; an ambiguous candidate is refused.
Begin(c, item) ==
  LET found == Resolved(articles, item) IN
    /\ tx[c].pc = "idle" /\ spent < MaxWork /\ Valid(item)
    /\ \A d \in Collectors \ {c} : Locks(d) \intersect IdentityLocks(item) = {}
    /\ setting[item.source] # Excluded /\ ~Ambiguous(articles, item)
    /\ tx' = [tx EXCEPT ![c] =
         [Idle EXCEPT !.pc = "resolved", !.item = item,
                      !.decided = setting[item.source],
                      !.id = IF found = {} THEN 0 ELSE Min(found),
                      !.seen = IF found = {} THEN Absent ELSE articles[Min(found)]]]
    /\ spent' = spent + 1
    /\ UNCHANGED <<articles, topo, setting, observed, audit>>

\* persistExcludedArticleObservation: one transaction, without identity.
Exclude(c, item) ==
  /\ tx[c].pc = "idle" /\ spent < MaxWork /\ Valid(item)
  /\ setting[item.source] = Excluded
  /\ observed' = ObservedAt(0, c)
  /\ spent' = spent + 1
  /\ UNCHANGED <<articles, topo, setting, tx, audit>>

Taken == DOMAIN articles \union UNION {RowLocks(c) : c \in Collectors}

\* The row c is about to write.  An UPDATE works on the committed row.
NextRow(c) ==
  LET t == tx[c] IN
    IF t.id = 0 THEN NewRow(t.item, RunTime[c])
    ELSE Observed(articles[t.id], t.seen, t.item, RunTime[c])

\* resolveRelevancePersistenceInput: the rules and defaults the decision
\* names must still be there and still say what it says.
StillGoverned(c) == setting[tx[c].item.source] = tx[c].decided

\* reconcileArticleCategories replaces the automatic categories.
Filed(row, decision) == [row EXCEPT !.cats = {decision}]

\* persistResolvedArticle and what follows it, or the rollback of
\* invalid_relevance_decision.
Write(c) ==
  LET t == tx[c] IN
    /\ t.pc = "resolved"
    /\ t.id = 0 => Articles \ Taken # {}
    /\ t.id # 0 => RowsFree({t.id}, Collectors \ {c})
    /\ tx' = [tx EXCEPT ![c] =
         IF ~StillGoverned(c) THEN Idle
         ELSE [t EXCEPT !.pc = "written",
                        !.id = IF t.id = 0 THEN Min(Articles \ Taken) ELSE t.id,
                        !.row = Filed(NextRow(c), t.decided)]]
    /\ UNCHANGED <<articles, topo, setting, observed, audit, spent>>

\* detectDuplicateReviewsInTransaction: INSERT ... ON CONFLICT DO NOTHING
\* waits for another transaction that has written the same pair.
Suspects(c) == {a \in DOMAIN articles \ {tx[c].id} : HasEvidence(articles[a], tx[c].row)}

Detect(c) ==
  LET P == PairsAcross({tx[c].id}, Suspects(c))
      ev(p) == Evidence(View(c)[p[1]], View(c)[p[2]]) IN
    /\ tx[c].pc = "written"
    /\ CandsFree(P, Collectors \ {c})
    /\ tx' = [tx EXCEPT ![c] =
         [@ EXCEPT !.pc = "detected",
                   !.found = [p \in P |-> Reviewed(CandOf(topo, p), ev(p))]]]
    /\ UNCHANGED <<articles, topo, setting, observed, audit, spent>>

StrongPending(c) ==
  {p \in DOMAIN tx[c].found : /\ tx[c].found[p].state = "pending"
                              /\ Strong(tx[c].found[p].evidence)}

\* Grouping locks both Articles of each pair and every member it may make
\* Primary, then the transaction commits.
GroupAndCommit(c) ==
  LET t == tx[c]
      rows == View(c)
      read == UNION {Component(topo, {p[1], p[2]}) : p \in StrongPending(c)} IN
    /\ t.pc = "detected"
    /\ RowsFree(read, Collectors \ {c})
    /\ articles' = rows
    /\ topo' = GroupedAll(Detected(topo, t.found), rows, t.id, StrongPending(c))
    /\ observed' = ObservedAt(t.id, c)
    /\ audit' = IF t.id \in DOMAIN audit THEN audit ELSE With(audit, t.id, <<>>)
    /\ tx' = [tx EXCEPT ![c] = Idle]
    /\ UNCHANGED <<setting, spent>>

\* A deadlock, a lost connection or any error: the transaction rolls back.
Fail(c) ==
  /\ c \in Open
  /\ tx' = [tx EXCEPT ![c] = Idle]
  /\ UNCHANGED <<articles, topo, setting, observed, audit, spent>>

-----------------------------------------------------------------------------
(* The operator: each command is one transaction that waits for the rows   *)
(* it changes.                                                             *)

Command == /\ spent < MaxWork
           /\ spent' = spent + 1

\* no_op, conflict, or a transaction that fails: nothing changes.
Refused == UNCHANGED vars

\* The deferred foreign key decides whether a new topology is committed.
TryTopology(t) ==
  IF PrimaryIsMember(t)
  THEN /\ Command /\ topo' = t
       /\ UNCHANGED <<articles, setting, tx, observed, audit>>
  ELSE Refused

\* A command that finds the Article as it would make it writes no event.
Changes(a, f, v) == articles[a].mod[f] # v

AuditEvent(a, f, v) == [field |-> f, prior |-> articles[a].mod[f], new |-> v]

\* One UPDATE, or the override row and its Categories.
WithOverride(a, f, v) == [articles EXCEPT ![a].mod[f] = v]

\* mutateVisibility, set/clearDisplayTitleOverride, set/clearCategoryOverride
Moderate(a, f, v) ==
  /\ RowsFree({a}, Collectors)
  /\ Changes(a, f, v)
  /\ Command
  /\ articles' = WithOverride(a, f, v)
  /\ audit' = [audit EXCEPT ![a] = Append(@, AuditEvent(a, f, v))]
  /\ UNCHANGED <<topo, setting, tx, observed>>

Dismiss(p) ==
  /\ CandsFree({p}, Collectors)
  /\ IF topo.cand[p].state = "pending"
     THEN TryTopology(CandStates(topo, {p}, "dismissed"))
     ELSE Refused

Merge(S, chosen) ==
  /\ CandsFree(PairsOf(Component(topo, S)), Collectors)
  /\ RowsFree(Component(topo, S), Collectors)
  /\ IF MergeConflict(topo, S, chosen) THEN Refused
     ELSE TryTopology(Merged(topo, articles, S, chosen))

Split(g, R) ==
  /\ CandsFree(PairsAcross(R, Members(topo, g)), Collectors)
  /\ RowsFree(Members(topo, g), Collectors)
  /\ TryTopology(SplitOff(topo, articles, g, R))

ChoosePrimary(g, a) ==
  IF topo.primary[g] = [art |-> a, origin |-> "manual"] THEN Refused
  ELSE TryTopology([topo EXCEPT !.primary[g] = [art |-> a, origin |-> "manual"]])

\* Editorial administration changes what a Source's candidates become.
EditSetting(s, k) ==
  /\ setting[s] # k
  /\ Command
  /\ setting' = [setting EXCEPT ![s] = k]
  /\ UNCHANGED <<articles, topo, tx, observed, audit>>

OperatorNext ==
  \/ \E a \in DOMAIN articles, f \in Moderated : \E v \in ModeratedValues(f) : Moderate(a, f, v)
  \/ \E p \in DOMAIN topo.cand : Dismiss(p)
  \/ \E S \in SUBSET DOMAIN articles, chosen \in {{}} \union {{a} : a \in DOMAIN articles} :
       Cardinality(S) >= 2 /\ Merge(S, chosen)
  \/ \E g \in DOMAIN topo.primary :
       \/ \E R \in SUBSET Members(topo, g) \ {{}} : Split(g, R)
       \/ \E a \in Members(topo, g) : ChoosePrimary(g, a)
  \/ \E s \in Edited, k \in Decisions : EditSetting(s, k)

CollectorNext(c) ==
  \/ \E item \in Feed : Begin(c, item) \/ Exclude(c, item)
  \/ Write(c) \/ Detect(c) \/ GroupAndCommit(c) \/ Fail(c)

Next == (\E c \in Collectors : CollectorNext(c)) \/ OperatorNext

Spec == Init /\ [][Next]_vars
-----------------------------------------------------------------------------
(* Safety.                                                                 *)

\* The unique indexes never fire: whoever has resolved a candidate, nobody
\* else has committed or written an Article with the key it will write.
\* Identity resolution reads without row locks, so this rests on the
\* advisory locks alone.
UniqueKeysNeverClash ==
  \A c \in Collectors : tx[c].pc = "resolved" =>
    /\ \A a \in DOMAIN articles \ {tx[c].id} : ~SameKey(articles[a], NextRow(c))
    /\ \A d \in Writing : tx[d].id # tx[c].id => ~SameKey(tx[d].row, NextRow(c))

\* Observations may be stored in any order: the seen window of an Article
\* still spans every time it was observed.
SeenWindowSpansObservations ==
  \A a \in DOMAIN articles : \A t \in observed[a] :
    articles[a].first <= t /\ t <= articles[a].last

\* A Duplicate group has two members or more, and the reviews that a merge
\* has settled, its own or an operator's, name Articles of one group.
GroupsMatchReviews ==
  /\ \A g \in DOMAIN topo.primary : Cardinality(Members(topo, g)) >= 2
  /\ \A p \in DOMAIN topo.cand : topo.cand[p].state = "merged" =>
       GroupOf(topo, p[1]) # {} /\ GroupOf(topo, p[1]) = GroupOf(topo, p[2])

\* A manual split is authoritative: no chain of evidence puts separated
\* Articles back into one group, directly or through a third.
SeparationHolds ==
  \A p \in topo.seps : GroupOf(topo, p[1]) = {} \/ GroupOf(topo, p[1]) # GroupOf(topo, p[2])

\* What the contract calls valid duplicate topology, after any order of
\* detection, grouping and operator commands.
TopologySound == GroupsMatchReviews /\ SeparationHolds

\* What an operator has decided about an Article is what its audit events
\* say, whatever collectors write over the row.
LastSays(events, f, v) ==
  LET about == {i \in DOMAIN events : events[i].field = f} IN
    IF about = {} THEN v = Untouched[f]
    ELSE \E i \in about : events[i].new = v /\ \A j \in about : j <= i
ModerationSurvives ==
  \A a \in DOMAIN articles, f \in Moderated : LastSays(audit[a], f, articles[a].mod[f])

\* A collector joins two Articles only on the evidence they have when it
\* commits, never on what they were when it looked.
GroupingHasEvidence ==
  [][\A c \in Collectors : tx'[c] # tx[c] =>
       \A p \in DOMAIN topo'.cand :
         topo'.cand[p].state = "merged" /\ CandOf(topo, p).state # "merged" =>
           articles'[p[1]].url = articles'[p[2]].url]_vars

\* A dismissed review stays dismissed while its evidence is the same, until
\* an operator merges the Articles.
DismissalSticks ==
  [][\A p \in DOMAIN topo.cand :
       topo.cand[p].state = "dismissed" /\ topo'.cand[p].state # "dismissed" =>
         topo'.cand[p].evidence # topo.cand[p].evidence \/ UNCHANGED tx]_vars

=============================================================================
