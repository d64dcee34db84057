---------------------------- MODULE OutwardFeed ----------------------------
(***************************************************************************)
(* What a Distribution Profile shows to the outside: which stored articles *)
(* are eligible, in which order, the revision of the whole representation, *)
(* and the pages and cursors it is handed out in.  Pure operators; the     *)
(* state they are applied to is in DistributionApi.                        *)
(*                                                                         *)
(* An article is a natural number, its id.  Its row says whether it is     *)
(* visible, whether it is a secondary of a duplicate group, its topic (all *)
(* that the phrase and category filters look at), its headline and the     *)
(* rank of its feed date (the newer, the greater).                         *)
(***************************************************************************)
EXTENDS Integers, Sequences, FiniteSets

CONSTANTS PageSize,      \* articles of a page (50 in the code)
          ResultLimit    \* articles of a profile's snapshot

ASSUME PageSizeAssumption == PageSize \in Nat \ {0}
ASSUME ResultLimitAssumption == ResultLimit \in Nat \ {0}

-----------------------------------------------------------------------------
(* The snapshot: canonical-outward-articles.ts and profile-snapshot.ts.    *)

Eligible(row, source, topics) ==
    /\ source.approval = "approved"
    /\ source.lifecycle = "active"
    /\ row.visible
    /\ ~row.secondary
    /\ topics = {} \/ row.topic \in topics

Position(a, rows) == [date |-> rows[a].date, id |-> a]

\* effective_feed_date DESC, first_seen_at DESC, article_id ASC.
Precedes(p, q) == p.date > q.date \/ (p.date = q.date /\ p.id < q.id)

\* The i-th is the one that i of the eligible stand no later than.
OutwardArticles(rows, source, topics) ==
    LET eligible == {a \in DOMAIN rows : Eligible(rows[a], source, topics)}
        Rank(a)  == Cardinality({b \in eligible :
                        ~Precedes(Position(a, rows), Position(b, rows))})
        Nth(i)   == CHOOSE a \in eligible : Rank(a) = i
        count    == Cardinality(eligible)
    IN  [i \in 1 .. IF count < ResultLimit THEN count ELSE ResultLimit |->
            [position |-> Position(Nth(i), rows), headline |-> rows[Nth(i)].headline]]

\* The outward state of an active profile, read in one repeatable-read
\* transaction; `internal` are the selections of the profile, which the
\* revision covers although no page shows them.
Snapshot(rows, source, profile, digest) ==
    [articles |-> OutwardArticles(rows, source, profile.topics),
     digest   |-> digest,
     internal |-> [topics |-> profile.topics, source |-> source]]

\* What a consumer is shown of it.
Representation(snapshot) ==
    [articles |-> [i \in DOMAIN snapshot.articles |->
                      [id       |-> snapshot.articles[i].position.id,
                       date     |-> snapshot.articles[i].position.date,
                       headline |-> snapshot.articles[i].headline]],
     digest   |-> snapshot.digest]

\* The SHA-256 of every governed field, taken for injective.
Revision(snapshot) == snapshot

-----------------------------------------------------------------------------
(* Pages and cursors: profile-page.ts and cursor.ts.                       *)

NoCursor == [kind |-> "none"]

Cursor(revision, position) ==
    [kind |-> "after", revision |-> revision, position |-> position]

\* 0 when no article of the snapshot stands at the cursor's position.
ContinuationIndex(articles, position) ==
    LET at == {i \in DOMAIN articles : articles[i].position = position}
    IN  IF at = {} THEN 0 ELSE (CHOOSE i \in at : \A j \in at : i <= j) + 1

Slice(snapshot, from) ==
    LET articles == snapshot.articles
        last     == IF from + PageSize - 1 < Len(articles)
                    THEN from + PageSize - 1 ELSE Len(articles)
    IN  [kind     |-> "page",
         revision |-> Revision(snapshot),
         items    |-> SubSeq(Representation(snapshot).articles, from, last),
         digest   |-> snapshot.digest,
         next     |-> IF last < Len(articles)
                      THEN Cursor(Revision(snapshot), articles[last].position)
                      ELSE NoCursor]

Page(snapshot, cursor) ==
    IF cursor = NoCursor THEN Slice(snapshot, 1)
    ELSE IF cursor.revision # Revision(snapshot)
         THEN [kind |-> "snapshot_changed"]
         ELSE LET from == ContinuationIndex(snapshot.articles, cursor.position)
              IN  IF from = 0 THEN [kind |-> "invalid_request"]
                  ELSE Slice(snapshot, from)

=============================================================================
