--------------------------- MODULE DuplicateGroups ---------------------------
(***************************************************************************)
(* Duplicate evidence, review candidates and groups: the tables            *)
(* duplicate_review_candidates, duplicate_groups, their memberships and    *)
(* duplicate_manual_separations as one record, and what detection,         *)
(* automatic grouping and the operator's commands make of it.              *)
(*                                                                         *)
(* A topology is [cand, member, primary, seps]: a candidate row for each   *)
(* pair that has one, the group of each grouped Article, the Primary and   *)
(* its origin for each group, and the separated pairs.                     *)
(***************************************************************************)
EXTENDS ArticleIdentity, Functions

Pairs == {p \in Articles \X Articles : p[1] < p[2]}   \* canonicalizeArticlePair
PairOf(a, b) == IF a < b THEN <<a, b>> ELSE <<b, a>>
PairsOf(S) == {p \in Pairs : p[1] \in S /\ p[2] \in S}
PairsAcross(S, T) == {p \in Pairs : \/ p[1] \in S /\ p[2] \in T
                                    \/ p[1] \in T /\ p[2] \in S}
GroupIds == Articles   \* more than there can be groups

EmptyTopology == [cand |-> <<>>, member |-> <<>>, primary |-> <<>>, seps |-> {}]

\* evaluateDuplicateEvidence; the fingerprint is the values that are equal.
Evidence(x, y) == [url |-> IF x.url = y.url THEN x.url ELSE Absent,
                   title |-> IF x.title = y.title THEN x.title ELSE Absent]
HasEvidence(x, y) == /\ x.source # y.source
                     /\ Evidence(x, y) # [url |-> Absent, title |-> Absent]
Strong(ev) == ev.url # Absent

\* Mutant of Reviewed: a dismissed pair is pending again at every detection.
ReviewedAfresh(old, ev) ==
  [state |-> IF old.state \in {"absent", "dismissed"} THEN "pending" ELSE old.state,
   evidence |-> ev]

\* persistReviewEvidence: the candidate row of a pair after detection.
Reviewed(old, ev) ==
  IF old.state = "absent" THEN [state |-> "pending", evidence |-> ev]
  ELSE IF old.state = "superseded" \/ old.evidence = ev THEN old
  ELSE [state |-> IF old.state = "dismissed" THEN "pending" ELSE old.state,
        evidence |-> ev]

CandOf(t, p) == IF p \in DOMAIN t.cand THEN t.cand[p]
                ELSE [state |-> "absent", evidence |-> Absent]

\* What detection makes of the candidate rows: found are the rows it writes.
Detected(t, found) ==
  [t EXCEPT !.cand = [p \in DOMAIN t.cand \union DOMAIN found |->
                        IF p \in DOMAIN found THEN found[p] ELSE t.cand[p]]]

GroupOf(t, a) == IF a \in DOMAIN t.member THEN {t.member[a]} ELSE {}
GroupsOf(t, S) == UNION {GroupOf(t, a) : a \in S}
Members(t, g) == {a \in DOMAIN t.member : t.member[a] = g}
Component(t, S) == S \union UNION {Members(t, g) : g \in GroupsOf(t, S)}
ManualPrimaries(t, S) == {t.primary[g].art : g \in {h \in GroupsOf(t, S) :
                                                t.primary[h].origin = "manual"}}

\* comparePrimaryCandidates
Preferred(rows, a, b) ==
  LET rank(x) == <<-Priority[rows[x].source], -rows[x].quality, rows[x].first, x>>
      d == CHOOSE i \in 1..4 : /\ rank(a)[i] # rank(b)[i]
                               /\ \A j \in 1..(i - 1) : rank(a)[j] = rank(b)[j]
  IN rank(a)[d] < rank(b)[d]
SelectPrimary(rows, S) == CHOOSE a \in S : \A b \in S \ {a} : Preferred(rows, a, b)

\* reselectPrimary sets the Primary and leaves primary_selection_origin.
Reselected(t, rows, g) ==
  [t EXCEPT !.primary[g].art = SelectPrimary(rows, Members(t, g))]

\* retainOrReselectPrimary
Settled(t, rows, g) ==
  IF t.primary[g].origin = "manual" /\ t.primary[g].art \in Members(t, g)
  THEN t ELSE Reselected(t, rows, g)

\* One group of everything S is connected to, on the lowest id of theirs.
\* New ids are random in the code; only their order among groups matters.
Joined(t, S, chosen) ==
  LET gs == GroupsOf(t, S)
      g == IF gs = {} THEN Min(GroupIds \ DOMAIN t.primary) ELSE Min(gs)
      manual == chosen \union ManualPrimaries(t, S)
      all == Component(t, S)
  IN [t EXCEPT
        !.member = [a \in all \union DOMAIN t.member |->
                      IF a \in all THEN g ELSE t.member[a]],
        !.primary = [h \in {g} \union (DOMAIN t.primary \ gs) |->
                       IF h # g THEN t.primary[h]
                       ELSE IF Cardinality(manual) = 1
                       THEN [art |-> CHOOSE m \in manual : TRUE, origin |-> "manual"]
                       ELSE IF g \in DOMAIN t.primary THEN t.primary[g]
                       ELSE [art |-> Min(all), origin |-> "automatic"]]]

\* Mutants of NotActionable: the evidence found by detection is trusted;
\* only the pair itself is looked up among the separations.
NotActionableAsDetected(t, rows, p) ==
  LET c == CandOf(t, p) IN
    \/ c.state # "pending" \/ ~Strong(c.evidence)
    \/ PairsOf(Component(t, {p[1], p[2]})) \intersect t.seps # {}
    \/ Cardinality(ManualPrimaries(t, {p[1], p[2]})) > 1
NotActionableByPair(t, rows, p) ==
  LET c == CandOf(t, p) IN
    \/ c.state # "pending"
    \/ c.evidence # Evidence(rows[p[1]], rows[p[2]]) \/ ~Strong(c.evidence)
    \/ p \in t.seps
    \/ Cardinality(ManualPrimaries(t, {p[1], p[2]})) > 1

\* groupStrongDuplicateCandidateInTransaction refuses a pair whose evidence
\* has changed since detection, that an operator has separated, or whose
\* groups each have a Primary an operator chose.
NotActionable(t, rows, p) ==
  LET c == CandOf(t, p) IN
    \/ c.state # "pending"
    \/ c.evidence # Evidence(rows[p[1]], rows[p[2]]) \/ ~Strong(c.evidence)
    \/ PairsOf(Component(t, {p[1], p[2]})) \intersect t.seps # {}
    \/ Cardinality(ManualPrimaries(t, {p[1], p[2]})) > 1

Grouped(t, rows, p) ==
  IF NotActionable(t, rows, p) THEN t
  ELSE LET j == Joined(t, {p[1], p[2]}, {})
           k == Settled(j, rows, j.member[p[1]])
       IN [k EXCEPT !.cand[p].state = "merged"]

\* processIncludedArticle groups the pairs of S, all of them pairs of the
\* Article a, in their canonical order: the order of the other Article.
GroupedAll(t, rows, a, S) ==
  LET after[b \in 0..MaxArticles] ==
        IF b = 0 THEN t
        ELSE IF PairOf(a, b) \in S THEN Grouped(after[b - 1], rows, PairOf(a, b))
        ELSE after[b - 1]
  IN after[MaxArticles]

CandStates(t, P, s) ==
  [t EXCEPT !.cand = [p \in DOMAIN t.cand |->
     IF p \in P THEN [t.cand[p] EXCEPT !.state = s] ELSE t.cand[p]]]

\* mergeInTransaction.  chosen is the Primary the operator names, or empty.
MergeConflict(t, S, chosen) ==
  \/ chosen = {} /\ Cardinality(ManualPrimaries(t, S)) > 1
  \/ ~(chosen \subseteq Component(t, S))
Merged(t, rows, S, chosen) ==
  LET j == IF chosen = {} THEN Joined(t, S, {})
           ELSE [Joined(t, S, {}) EXCEPT
                   !.primary[Joined(t, S, {}).member[Min(S)]] =
                     [art |-> Min(chosen), origin |-> "manual"]]
      g == j.member[Min(S)]
      k == IF chosen # {} \/ Cardinality(ManualPrimaries(t, S)) = 1
           THEN j ELSE Reselected(j, rows, g)
      all == Members(k, g)
  IN CandStates([k EXCEPT !.seps = @ \ PairsOf(all)], PairsOf(all), "merged")

\* splitDuplicateGroup, for the members R of g.  The rest stays a group if
\* two are left; a new Primary is selected only if the old one was manual.
WithoutMembers(t, rows, g, R) ==
  LET rest == Members(t, g) \ R
      left == [t EXCEPT !.member = Restrict(t.member, DOMAIN t.member \ R)]
  IN IF Cardinality(rest) < 2
     THEN [t EXCEPT !.member = Restrict(t.member, DOMAIN t.member \ Members(t, g)),
                    !.primary = Restrict(t.primary, DOMAIN t.primary \ {g})]
     ELSE IF t.primary[g].origin = "manual" /\ t.primary[g].art \in R
     THEN Reselected(left, rows, g) ELSE left

SplitOff(t, rows, g, R) ==
  LET u == WithoutMembers(t, rows, g, R)
      apart == PairsAcross(R, Members(t, g))
      undone == {p \in apart \intersect DOMAIN t.cand : t.cand[p].state = "merged"}
  IN CandStates([u EXCEPT !.seps = @ \union apart], undone, "dismissed")

\* duplicate_groups_primary_membership_fk, checked when a transaction commits
PrimaryIsMember(t) ==
  \A g \in DOMAIN t.primary : t.primary[g].art \in Members(t, g)
=============================================================================
