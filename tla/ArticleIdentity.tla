--------------------------- MODULE ArticleIdentity ---------------------------
(***************************************************************************)
(* Which stored Article an observed candidate is, and what the observation *)
(* makes of it: operators over a set of rows, without state.               *)
(*                                                                         *)
(* Text is abstracted to what identity and duplicate evidence compare: an  *)
(* external id, a canonical URL and a normalized title are members of      *)
(* small sets, and "quality" stands for the other material fields, ordered *)
(* as Primary selection prefers them.                                      *)
(***************************************************************************)
EXTENDS Integers, FiniteSets, Sequences, SequencesExt, FiniteSetsExt

CONSTANTS Sources,
          Priority,    \* sources.priority
          Feed,        \* the candidates the Sources can publish
          MaxArticles, \* bound: Articles ever stored
          Moderated,   \* the fields an operator moderates
          Absent       \* a missing optional value

ASSUME ModeratedAssumption ==
  Moderated \subseteq {"visibility", "displayTitleOverride", "categoryOverride"}
ASSUME ArticlesAssumption == MaxArticles \in Nat
\* comparePrimaryCandidates compares them; sources.priority is an integer.
ASSUME PreferenceAssumption ==
  Priority \in [Sources -> Int] /\ \A item \in Feed : item.quality \in Int

Articles == 1..MaxArticles   \* ids, in the order of creation

\* What an operator may set a moderated field to, the untouched value first.
ModeratedValues(f) == IF f = "visibility" THEN {"visible", "hidden"}
              ELSE {Absent, "override"}

Untouched == [f \in Moderated |-> IF f = "visibility" THEN "visible" ELSE Absent]

\* validateCandidate: a candidate that fails it never reaches the store.
Valid(item) == item.source \in Sources /\ item.url # Absent

\* Mutant of IdentityLocks: only the canonical URL is locked.
CanonicalUrlLock(item) == {<<item.source, "canonical_url", item.url>>}

\* articleIdentityLockKey, for the values acquireArticleIdentityLocks locks
IdentityLocks(item) ==
  {<<item.source, "canonical_url", item.url>>} \union
  (IF item.ext = Absent THEN {} ELSE {<<item.source, "external_id", item.ext>>})

OfSource(rows, s) == {a \in DOMAIN rows : rows[a].source = s}
ByExternal(rows, item) == {a \in OfSource(rows, item.source) : rows[a].ext = item.ext}
ByCanonical(rows, item) == {a \in OfSource(rows, item.source) : rows[a].url = item.url}

\* A candidate without an external id whose URL several Articles have.
Ambiguous(rows, item) ==
  item.ext = Absent /\ Cardinality(ByCanonical(rows, item)) > 1

\* A candidate with an external id takes over the one Article of its URL,
\* if that Article has none.
Promotable(rows, item) ==
  IF \A a \in ByCanonical(rows, item) : rows[a].ext = Absent
  THEN ByCanonical(rows, item) ELSE {}

\* resolveIdentity: the Article the candidate is; empty for a new one.
Resolved(rows, item) ==
  IF item.ext = Absent THEN ByCanonical(rows, item)
  ELSE IF ByExternal(rows, item) # {} THEN ByExternal(rows, item)
  ELSE Promotable(rows, item)

\* The values the partial unique indexes on articles compare.
SameKey(x, y) ==
  /\ x.source = y.source
  /\ \/ x.ext # Absent /\ x.ext = y.ext
     \/ x.ext = Absent /\ y.ext = Absent /\ x.url = y.url

\* insertArticle
NewRow(item, time) ==
  [source |-> item.source, ext |-> item.ext, url |-> item.url,
   title |-> item.title, quality |-> item.quality,
   first |-> time, last |-> time, cats |-> {}, mod |-> Untouched]

\* materialChange, against the row resolveIdentity read
Material(seen, item) ==
  \/ item.ext \notin {Absent, seen.ext}
  \/ item.url # seen.url \/ item.title # seen.title \/ item.quality # seen.quality

\* Mutant of SeenAt: runs are taken to report in the order they observed.
SeenLately(row, time) == [row EXCEPT !.last = time]

SeenAt(row, time) ==
  [row EXCEPT !.first = IF time < @ THEN time ELSE @,
              !.last = IF time > @ THEN time ELSE @]

\* Mutant of Observed: the whole row read before the lock is written back.
ObservedWholeRow(row, seen, item, time) ==
  [SeenAt(seen, time) EXCEPT
     !.ext = IF item.ext = Absent THEN @ ELSE item.ext,
     !.url = item.url, !.title = item.title, !.quality = item.quality]

\* The UPDATE of persistResolvedArticle, on the row as it now is: the
\* candidate's values overwrite it, whichever observation is the older.
Observed(row, seen, item, time) ==
  IF Material(seen, item)
  THEN [SeenAt(row, time) EXCEPT
          !.ext = IF item.ext = Absent THEN seen.ext ELSE item.ext,
          !.url = item.url, !.title = item.title, !.quality = item.quality]
  ELSE SeenAt(row, time)
=============================================================================
