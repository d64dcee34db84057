-------------------------- MODULE ArticleStoreProofs --------------------------
(***************************************************************************)
(* What the Article tables keep for any number of collectors, Sources and  *)
(* Articles: the unique indexes are never violated, seen windows span what *)
(* was observed, what an operator has decided stays, and Duplicate groups  *)
(* agree with the reviews and the manual separations, and have one of      *)
(* their members as their Primary.                                         *)
(*                                                                         *)
(* A collector resolves its candidate without locking a row, and writes    *)
(* what it resolved later.  That nothing comes between rests on the        *)
(* advisory locks on the candidate's identity: Resolution says what stays  *)
(* true of the committed rows as long as they are held.                    *)
(***************************************************************************)
EXTENDS ArticleStore, FiniteSetTheorems, WellFoundedInduction, TLAPS

\* What a moderated field can hold.
FieldValues == {"visible", "hidden", "override", Absent}
Event == [field : Moderated, prior : FieldValues, new : FieldValues]

\* The fields of an Article's row that the proofs count with are numbers;
\* the others are any value.
ArticleRow(r) ==
  r \in [source : {r.source}, ext : {r.ext}, url : {r.url}, title : {r.title},
         quality : {r.quality}, first : Nat, last : Nat, cats : {r.cats},
         mod : [Moderated -> FieldValues]]

Transaction(t) ==
  t \in [pc : {"idle", "resolved", "written", "detected"}, item : {t.item},
         decided : {t.decided}, seen : {t.seen}, id : Articles \union {0},
         row : {t.row}, found : {t.found}]

RowsType(rows) ==
  /\ DOMAIN rows \subseteq Articles
  /\ rows = [a \in DOMAIN rows |-> rows[a]]
  /\ \A a \in DOMAIN rows : ArticleRow(rows[a])

\* The unique indexes hold of the committed rows.
KeysDiffer(rows) == \A a, b \in DOMAIN rows : SameKey(rows[a], rows[b]) => a = b

\* While its locks are held, the candidate of t is the Article that was
\* resolved: no other has its external id, or, if it has none, its URL.
Resolution(t, rows) ==
  /\ t.item.ext # Absent => \A a \in DOMAIN rows :
       rows[a].source = t.item.source /\ rows[a].ext = t.item.ext => a = t.id
  /\ t.item.ext = Absent => \A a \in DOMAIN rows :
       rows[a].source = t.item.source /\ rows[a].ext = Absent /\ rows[a].url = t.item.url
         => a = t.id
  /\ t.id \in DOMAIN rows =>
       /\ rows[t.id].source = t.item.source
       /\ t.item.ext # Absent => rows[t.id].ext \in {Absent, t.item.ext}
       /\ rows[t.id].ext = Absent => rows[t.id].url = t.item.url

\* The key that t writes: the candidate's external id, or the one its Article
\* has, and otherwise the candidate's URL.
Keyed(t, r, rows) ==
  /\ r.source = t.item.source
  /\ r.ext = IF t.item.ext # Absent THEN t.item.ext
             ELSE IF t.id \in DOMAIN rows THEN rows[t.id].ext ELSE Absent
  /\ r.ext = Absent => r.url = t.item.url

\* The row that t writes covers the window it had and the time of this
\* observation, and leaves what an operator has decided.
Covers(t, r, time, rows) ==
  /\ r.first <= time /\ time <= r.last
  /\ t.id \in DOMAIN rows => /\ r.first <= rows[t.id].first /\ rows[t.id].last <= r.last
                             /\ r.mod = rows[t.id].mod
  /\ t.id \notin DOMAIN rows => r.mod = Untouched

CollectorInv(t, time, rows) ==
  /\ Transaction(t)
  /\ t.pc = "resolved" /\ t.id # 0 =>
       t.id \in DOMAIN rows /\ t.seen.ext = rows[t.id].ext
  /\ t.pc # "idle" => Resolution(t, rows)
  /\ t.pc \in {"written", "detected"} =>
       t.id # 0 /\ ArticleRow(t.row) /\ Keyed(t, t.row, rows) /\ Covers(t, t.row, time, rows)

StoreInv ==
  /\ RowsType(articles) /\ KeysDiffer(articles)
  /\ DOMAIN observed = {0} \union DOMAIN articles
  /\ \A a \in DOMAIN articles : observed[a] \subseteq Nat
  /\ audit \in [DOMAIN articles -> Seq(Event)]
  /\ SeenWindowSpansObservations /\ ModerationSurvives

\* Identity locks and row locks are exclusive.
Apart ==
  \A c, d \in Collectors : c # d =>
    /\ Locks(c) \intersect Locks(d) = {}
    /\ c \in Writing /\ d \in Writing => tx[c].id # tx[d].id

CollectorsInv ==
  /\ tx = [c \in Collectors |-> tx[c]]
  /\ \A c \in Collectors : CollectorInv(tx[c], RunTime[c], articles)
  /\ Apart

ArticlesInv == StoreInv /\ CollectorsInv
-----------------------------------------------------------------------------
(* Facts about the operators.                                              *)

\* A set of numbers that is not empty has a least one.
LEMMA Least ==
  ASSUME NEW S \in SUBSET Nat, S # {}
  PROVE  Min(S) \in S /\ \A y \in S : Min(S) <= y
<1>1. PICK m \in S : \A k \in S : <<k, m>> \notin OpToRel(<, Nat)
  BY WFMin, NatLessThanWellFounded, Zenon
<1>2. \A k \in S : ~(k < m)
  BY <1>1, Zenon DEF OpToRel
<1>3. \A k \in S : m <= k
  BY <1>2
<1> QED BY <1>3 DEF Min

\* Two members make a finite set larger than one.
LEMMA AtMostOne ==
  ASSUME NEW S, IsFiniteSet(S), Cardinality(S) <= 1, NEW x \in S, NEW y \in S
  PROVE  x = y
<1> SUFFICES ASSUME x # y PROVE FALSE
  OBVIOUS
<1>1. IsFiniteSet({x}) /\ Cardinality({x}) = 1
  BY FS_Singleton
<1>2. Cardinality({x} \union {y}) = Cardinality({x}) + 1
  BY <1>1, FS_AddElement
<1>3. Cardinality({x} \union {y}) <= Cardinality(S)
  BY FS_Subset
<1>4. Cardinality(S) \in Nat
  BY FS_CardinalityType
<1> QED BY <1>1, <1>2, <1>3, <1>4

\* Resolution finds the Article of a candidate, if there is one.
LEMMA ResolvedFinds ==
  ASSUME NEW rows, RowsType(rows), KeysDiffer(rows), NEW item, ~Ambiguous(rows, item),
         NEW t, t.item = item,
         t.id = IF Resolved(rows, item) = {} THEN 0 ELSE Min(Resolved(rows, item))
  PROVE  /\ Resolution(t, rows)
         /\ t.id # 0 => t.id \in DOMAIN rows
         /\ Resolved(rows, item) # {} => t.id # 0
<1> DEFINE found == Resolved(rows, item)
<1>1. DOMAIN rows \subseteq Nat \ {0} /\ IsFiniteSet(DOMAIN rows)
  BY ArticlesAssumption, FS_Interval, FS_Subset DEF RowsType, Articles
<1>2. found \subseteq DOMAIN rows
  BY DEF Resolved, ByExternal, ByCanonical, Promotable, OfSource
<1>3. found # {} => t.id \in found
  BY <1>1, <1>2, Least
<1> HIDE DEF found
<1>4. t.id # 0 => t.id \in found
  BY <1>3 DEF found
<1>5. ASSUME item.ext # Absent, NEW a \in DOMAIN rows,
             rows[a].source = item.source, rows[a].ext = item.ext
      PROVE  a = t.id
  <2>1. a \in ByExternal(rows, item) /\ found = ByExternal(rows, item)
    BY <1>5 DEF ByExternal, OfSource, Resolved, found
  <2>2. t.id \in ByExternal(rows, item)
    BY <1>3, <2>1
  <2>3. t.id \in DOMAIN rows /\ SameKey(rows[a], rows[t.id])
    BY <1>5, <2>2 DEF ByExternal, OfSource, SameKey
  <2> QED BY <2>3 DEF KeysDiffer
<1>6. ASSUME item.ext = Absent, NEW a \in DOMAIN rows, rows[a].source = item.source,
             rows[a].url = item.url
      PROVE  a = t.id
  <2>1. a \in ByCanonical(rows, item) /\ found = ByCanonical(rows, item)
    BY <1>6 DEF ByCanonical, OfSource, Resolved, found
  <2>2. t.id \in ByCanonical(rows, item)
    BY <1>3, <2>1
  <2>3. IsFiniteSet(ByCanonical(rows, item))
    BY <1>1, FS_Subset DEF ByCanonical, OfSource
  <2>4. Cardinality(ByCanonical(rows, item)) <= 1
    BY <1>6, <2>3, FS_CardinalityType DEF Ambiguous
  <2> QED BY <2>1, <2>2, <2>3, <2>4, AtMostOne
<1>7. ASSUME t.id \in found
      PROVE  /\ rows[t.id].source = item.source
             /\ item.ext # Absent => rows[t.id].ext \in {Absent, item.ext}
             /\ rows[t.id].ext = Absent => rows[t.id].url = item.url
  BY <1>7 DEF found, Resolved, ByExternal, ByCanonical, Promotable, OfSource
<1>8. t.id \in DOMAIN rows => t.id \in found
  BY <1>1, <1>4
<1> QED BY <1>1, <1>2, <1>3, <1>4, <1>5, <1>6, <1>7, <1>8 DEF Resolution, found

\* The row that a resolved candidate is about to write.
LEMMA NextRowWritten ==
  ASSUME NEW c \in Collectors, RowsType(articles), CollectorInv(tx[c], RunTime[c], articles),
         tx[c].pc = "resolved"
  PROVE  LET r == NextRow(c) IN
         /\ ArticleRow(r) /\ Keyed(tx[c], r, articles)
         /\ Covers(tx[c], r, RunTime[c], articles)
<1> DEFINE t == tx[c]
           r == NextRow(c)
<1>1. RunTime[c] \in Nat /\ 0 \notin DOMAIN articles
  BY TimesAssumption DEF RowsType, Articles
<1>2. Resolution(t, articles) /\ (t.id # 0 => t.id \in DOMAIN articles)
  BY DEF CollectorInv
<1>3. CASE t.id = 0
  <2>1. r = NewRow(t.item, RunTime[c])
    BY <1>3 DEF NextRow
  <2>2. Untouched \in [Moderated -> FieldValues]
    BY DEF Untouched, FieldValues
  <2>3. /\ r.source = t.item.source /\ r.ext = t.item.ext /\ r.url = t.item.url
        /\ r.first = RunTime[c] /\ r.last = RunTime[c] /\ r.mod = Untouched
        /\ ArticleRow(r)
    BY <1>1, <2>1, <2>2 DEF NewRow, ArticleRow
  <2> QED BY <1>1, <1>3, <2>3 DEF Keyed, Covers
<1>4. CASE t.id # 0
  <2> DEFINE row == articles[t.id]
             seen == SeenAt(row, RunTime[c])
  <2>1. /\ r = Observed(row, t.seen, t.item, RunTime[c]) /\ t.seen.ext = row.ext
        /\ t.id \in DOMAIN articles
    BY <1>2, <1>4 DEF NextRow, CollectorInv
  <2>2. ArticleRow(row)
    BY <2>1 DEF RowsType
  <2> HIDE DEF row
  <2>3. /\ ArticleRow(seen) /\ seen.mod = row.mod /\ seen.source = row.source
        /\ seen.ext = row.ext /\ seen.url = row.url
        /\ seen.first = IF RunTime[c] < row.first THEN RunTime[c] ELSE row.first
        /\ seen.last = IF RunTime[c] > row.last THEN RunTime[c] ELSE row.last
    <3> DEFINE n == IF RunTime[c] < row.first THEN RunTime[c] ELSE row.first
               m == IF RunTime[c] > row.last THEN RunTime[c] ELSE row.last
    <3>1. n \in Nat /\ m \in Nat /\ row.first \in Nat /\ row.last \in Nat
      BY <1>1, <2>2 DEF ArticleRow
    <3>2. seen = [row EXCEPT !.first = n, !.last = m]
      BY <2>2 DEF SeenAt, ArticleRow
    <3> HIDE DEF n, m
    <3>3. /\ seen.mod = row.mod /\ seen.source = row.source /\ seen.ext = row.ext
          /\ seen.url = row.url /\ seen.first = n /\ seen.last = m /\ ArticleRow(seen)
      BY <2>2, <3>1, <3>2 DEF ArticleRow
    <3> QED BY <3>3 DEF n, m
  <2>4. /\ seen.first <= RunTime[c] /\ RunTime[c] <= seen.last
        /\ seen.first <= row.first /\ row.last <= seen.last
    BY <1>1, <2>2, <2>3 DEF ArticleRow
  <2> HIDE DEF seen
  <2>5. /\ ArticleRow(r) /\ r.mod = seen.mod /\ r.source = seen.source
        /\ r.first = seen.first /\ r.last = seen.last
    <3>1. CASE Material(t.seen, t.item)
      <4> DEFINE ext == IF t.item.ext = Absent THEN t.seen.ext ELSE t.item.ext
      <4> HIDE DEF ext
      <4>1. r = [seen EXCEPT !.ext = ext, !.url = t.item.url, !.title = t.item.title,
                             !.quality = t.item.quality]
        BY <2>1, <3>1 DEF Observed, seen, ext
      <4> QED BY <2>3, <4>1 DEF ArticleRow
    <3>2. CASE ~Material(t.seen, t.item)
      BY <2>1, <2>3, <3>2 DEF Observed, seen
    <3> QED BY <3>1, <3>2
  <2>6. Keyed(t, r, articles)
    <3>0. t.seen.ext = articles[t.id].ext /\ row = articles[t.id]
      BY <2>1 DEF row
    <3>1. CASE Material(t.seen, t.item)
      <4> DEFINE ext == IF t.item.ext = Absent THEN t.seen.ext ELSE t.item.ext
      <4> HIDE DEF ext
      <4>1. r = [seen EXCEPT !.ext = ext, !.url = t.item.url, !.title = t.item.title,
                             !.quality = t.item.quality]
        BY <2>1, <3>1 DEF Observed, seen, ext
      <4>2. r.ext = ext /\ r.url = t.item.url
        BY <2>3, <4>1 DEF ArticleRow
      <4> QED BY <1>2, <2>1, <2>3, <2>5, <3>0, <4>2 DEF Keyed, Resolution, ext
    <3>2. CASE ~Material(t.seen, t.item)
      <4>1. r.ext = row.ext /\ r.url = row.url
        BY <2>1, <2>3, <3>2 DEF Observed, seen
      <4>2. t.item.ext \in {Absent, row.ext}
        BY <2>1, <3>2 DEF Material
      <4> QED BY <1>2, <2>1, <2>3, <2>5, <3>0, <4>1, <4>2 DEF Keyed, Resolution
    <3> QED BY <3>1, <3>2
  <2>7. Covers(t, r, RunTime[c], articles)
    BY <2>1, <2>3, <2>4, <2>5 DEF Covers, row
  <2> QED BY <2>5, <2>6, <2>7
<1> QED BY <1>3, <1>4

\* No committed Article but its own has the key of a row that is written
\* under the locks.
LEMMA NoClashWithCommitted ==
  ASSUME NEW t, NEW r, NEW rows, KeysDiffer(rows), Resolution(t, rows), Keyed(t, r, rows),
         NEW a \in DOMAIN rows, a # t.id
  PROVE  ~SameKey(rows[a], r)
<1> SUFFICES ASSUME SameKey(rows[a], r) PROVE FALSE
  OBVIOUS
<1>1. rows[a].source = t.item.source
  BY DEF SameKey, Keyed
<1>2. CASE t.item.ext # Absent
  <2>1. rows[a].ext = t.item.ext
    BY <1>2 DEF SameKey, Keyed
  <2> QED BY <1>1, <1>2, <2>1 DEF Resolution
<1>3. CASE t.item.ext = Absent /\ r.ext = Absent
  <2>1. rows[a].ext = Absent /\ rows[a].url = t.item.url
    BY <1>3 DEF SameKey, Keyed
  <2> QED BY <1>1, <1>3, <2>1 DEF Resolution
<1>4. CASE t.item.ext = Absent /\ r.ext # Absent
  <2>1. t.id \in DOMAIN rows /\ rows[t.id].ext = r.ext /\ rows[t.id].source = r.source
    BY <1>4 DEF Keyed, Resolution
  <2>2. SameKey(rows[a], rows[t.id])
    BY <1>4, <2>1 DEF SameKey
  <2> QED BY <2>1, <2>2 DEF KeysDiffer
<1> QED BY <1>2, <1>3, <1>4

\* Nor has a row that another transaction writes.
LEMMA NoClashBetweenWriters ==
  ASSUME NEW t, NEW u, NEW r, NEW q, NEW rows, KeysDiffer(rows),
         Resolution(t, rows), Keyed(t, r, rows), Resolution(u, rows), Keyed(u, q, rows),
         IdentityLocks(t.item) \intersect IdentityLocks(u.item) = {}, t.id # u.id
  PROVE  ~SameKey(q, r)
<1> SUFFICES ASSUME SameKey(q, r) PROVE FALSE
  OBVIOUS
<1>1. t.item.source = u.item.source
  BY DEF SameKey, Keyed
<1>2. t.item.url # u.item.url
  BY <1>1 DEF IdentityLocks
<1>3. t.item.ext # Absent => u.item.ext # t.item.ext
  BY <1>1 DEF IdentityLocks
<1>4. r.ext # Absent /\ q.ext = r.ext
  BY <1>2 DEF SameKey, Keyed
<1>5. CASE t.item.ext # Absent
  <2>1. u.item.ext = Absent /\ u.id \in DOMAIN rows /\ rows[u.id].ext = t.item.ext
    BY <1>3, <1>4, <1>5 DEF Keyed
  <2> QED BY <1>1, <1>5, <2>1 DEF Resolution
<1>6. CASE u.item.ext # Absent
  <2>1. t.item.ext = Absent /\ t.id \in DOMAIN rows /\ rows[t.id].ext = u.item.ext
    BY <1>3, <1>4, <1>6 DEF Keyed
  <2> QED BY <1>1, <1>6, <2>1 DEF Resolution
<1>7. CASE t.item.ext = Absent /\ u.item.ext = Absent
  <2>1. /\ t.id \in DOMAIN rows /\ rows[t.id].ext = r.ext /\ rows[t.id].source = t.item.source
        /\ u.id \in DOMAIN rows /\ rows[u.id].ext = r.ext /\ rows[u.id].source = u.item.source
    BY <1>4, <1>7 DEF Keyed, Resolution
  <2>2. SameKey(rows[t.id], rows[u.id])
    BY <1>1, <1>4, <2>1 DEF SameKey
  <2> QED BY <2>1, <2>2 DEF KeysDiffer
<1> QED BY <1>5, <1>6, <1>7

-----------------------------------------------------------------------------
(* Committing a row.                                                       *)

Committed(rows, t) == With(rows, t.id, t.row)

\* A commit replaces one row, or adds it.
LEMMA OneRowPlaced ==
  ASSUME NEW rows, NEW t
  PROVE  LET new == Committed(rows, t) IN
         /\ DOMAIN new = DOMAIN rows \union {t.id}
         /\ new[t.id] = t.row
         /\ \A a \in DOMAIN rows \ {t.id} : new[a] = rows[a]
         /\ new = [a \in DOMAIN new |-> new[a]]
BY DEF Committed, With

\* A transaction that has written, and the rows once it has committed.
LEMMA CommittedRows ==
  ASSUME NEW rows, RowsType(rows), KeysDiffer(rows), NEW t, NEW time,
         CollectorInv(t, time, rows), t.pc \in {"written", "detected"}
  PROVE  RowsType(Committed(rows, t)) /\ KeysDiffer(Committed(rows, t))
<1> DEFINE new == Committed(rows, t)
<1>1. /\ DOMAIN new = DOMAIN rows \union {t.id} /\ new[t.id] = t.row
      /\ \A a \in DOMAIN rows \ {t.id} : new[a] = rows[a]
      /\ new = [a \in DOMAIN new |-> new[a]]
  BY OneRowPlaced
<1>2. /\ t.id \in Articles /\ ArticleRow(t.row)
      /\ Resolution(t, rows) /\ Keyed(t, t.row, rows)
  BY DEF CollectorInv, Transaction
<1> HIDE DEF new
<1>3. RowsType(new)
  BY <1>1, <1>2 DEF RowsType
<1>4. \A a \in DOMAIN rows \ {t.id} : ~SameKey(rows[a], t.row)
  BY <1>2, NoClashWithCommitted
<1>5. \A a \in DOMAIN rows \ {t.id} : ~SameKey(t.row, rows[a])
  BY <1>4 DEF SameKey
<1>6. KeysDiffer(new)
  BY <1>1, <1>4, <1>5 DEF KeysDiffer
<1> QED BY <1>3, <1>6 DEF new

\* What another collector has resolved or written stays what it was.
LEMMA OthersKeepTheirs ==
  ASSUME NEW rows, RowsType(rows), NEW t, NEW time, CollectorInv(t, time, rows),
         t.pc \in {"written", "detected"},
         NEW u, NEW late, CollectorInv(u, late, rows),
         u.pc # "idle" => IdentityLocks(t.item) \intersect IdentityLocks(u.item) = {},
         u.pc \in {"written", "detected"} => t.id # u.id
  PROVE  CollectorInv(u, late, Committed(rows, t))
<1> DEFINE new == Committed(rows, t)
<1>1. /\ DOMAIN new = DOMAIN rows \union {t.id} /\ new[t.id] = t.row
      /\ \A a \in DOMAIN rows \ {t.id} : new[a] = rows[a]
  BY OneRowPlaced
<1>2. Resolution(t, rows) /\ Keyed(t, t.row, rows)
  BY DEF CollectorInv
<1> HIDE DEF new
<1>3. ASSUME u.pc # "idle" PROVE t.row.source = u.item.source =>
        t.item.url # u.item.url /\ (t.item.ext = Absent \/ t.item.ext # u.item.ext)
  BY <1>2, <1>3 DEF IdentityLocks, Keyed
<1>4. ASSUME u.pc # "idle", u.id = t.id, t.id \in DOMAIN rows
      PROVE  /\ rows[t.id].ext # Absent /\ t.row.ext = rows[t.id].ext
             /\ t.row.source = u.item.source
             /\ u.item.ext # Absent => t.row.ext \in {Absent, u.item.ext}
  <2>1. Resolution(u, rows)
    BY <1>4 DEF CollectorInv
  <2>2. t.row.source = t.item.source /\ t.item.source = u.item.source
    BY <1>2, <1>4, <2>1 DEF Keyed, Resolution
  <2>3. rows[t.id].ext # Absent
    BY <1>2, <1>3, <1>4, <2>1, <2>2 DEF Resolution
  <2>4. t.row.ext = rows[t.id].ext
    BY <1>2, <1>4, <2>3 DEF Keyed, Resolution
  <2> QED BY <1>4, <2>1, <2>2, <2>3, <2>4 DEF Resolution
<1>5. ASSUME u.pc # "idle" PROVE Resolution(u, new)
  <2>1. Resolution(u, rows)
    BY <1>5 DEF CollectorInv
  <2>2. ASSUME u.item.ext # Absent, NEW a \in DOMAIN new, new[a].source = u.item.source,
               new[a].ext = u.item.ext
        PROVE  a = u.id
    <3>1. CASE a # t.id
      BY <1>1, <2>1, <2>2, <3>1 DEF Resolution
    <3>2. CASE a = t.id
      <4>1. t.id \in DOMAIN rows /\ rows[t.id].ext = u.item.ext
        BY <1>1, <1>2, <1>3, <1>5, <2>2, <3>2 DEF Keyed
      <4>2. rows[t.id].source = u.item.source
        BY <1>1, <1>2, <2>2, <3>2, <4>1 DEF Keyed, Resolution
      <4> QED BY <2>1, <2>2, <3>2, <4>1, <4>2 DEF Resolution
    <3> QED BY <3>1, <3>2
  <2>3. ASSUME u.item.ext = Absent, NEW a \in DOMAIN new, new[a].source = u.item.source,
               new[a].ext = Absent, new[a].url = u.item.url
        PROVE  a = u.id
    <3>1. CASE a # t.id
      BY <1>1, <2>1, <2>3, <3>1 DEF Resolution
    <3>2. CASE a = t.id
      BY <1>1, <1>2, <1>3, <1>5, <2>3, <3>2 DEF Keyed
    <3> QED BY <3>1, <3>2
  <2>4. ASSUME u.id \in DOMAIN new
        PROVE  /\ new[u.id].source = u.item.source
               /\ u.item.ext # Absent => new[u.id].ext \in {Absent, u.item.ext}
               /\ new[u.id].ext = Absent => new[u.id].url = u.item.url
    <3>1. CASE u.id # t.id
      BY <1>1, <2>1, <2>4, <3>1 DEF Resolution
    <3>2. CASE u.id = t.id
      <4>1. t.id \in DOMAIN rows
        BY <1>5, <3>2 DEF CollectorInv, Transaction
      <4> QED BY <1>1, <1>4, <1>5, <3>2, <4>1
    <3> QED BY <3>1, <3>2
  <2> QED BY <2>2, <2>3, <2>4 DEF Resolution
<1>6. ASSUME u.pc = "resolved", u.id # 0
      PROVE  u.id \in DOMAIN new /\ u.seen.ext = new[u.id].ext
  <2>1. u.id \in DOMAIN rows /\ u.seen.ext = rows[u.id].ext
    BY <1>6 DEF CollectorInv
  <2> QED BY <1>1, <1>4, <1>6, <2>1
<1>7. ASSUME u.pc \in {"written", "detected"}
      PROVE  Keyed(u, u.row, new) /\ Covers(u, u.row, late, new)
  <2>1. /\ Keyed(u, u.row, rows) /\ Covers(u, u.row, late, rows)
        /\ u.id \in DOMAIN new <=> u.id \in DOMAIN rows
        /\ u.id \in DOMAIN rows => new[u.id] = rows[u.id]
    BY <1>1, <1>7 DEF CollectorInv
  <2> QED BY <2>1 DEF Keyed, Covers
<1> QED BY <1>5, <1>6, <1>7 DEF CollectorInv, new

-----------------------------------------------------------------------------
(* The steps of a collector.                                               *)

\* What the invariant says of the tables is kept by whatever leaves them.
LEMMA StoreUnchanged ==
  ASSUME StoreInv, UNCHANGED <<articles, observed, audit>> PROVE StoreInv'
BY DEF StoreInv, SeenWindowSpansObservations, ModerationSurvives

\* The locks of a transaction.
LocksOf(t) == IF t.pc = "idle" THEN {} ELSE IdentityLocks(t.item)

\* One collector moves without committing.
LEMMA OneCollectorMoves ==
  ASSUME CollectorsInv, NEW c \in Collectors, NEW t, tx' = [tx EXCEPT ![c] = t],
         UNCHANGED articles, CollectorInv(t, RunTime[c], articles),
         \A d \in Collectors \ {c} : LocksOf(t) \intersect Locks(d) = {},
         t.pc \in {"written", "detected"} => \A d \in Writing \ {c} : tx[d].id # t.id
  PROVE  CollectorsInv'
<1>1. tx'[c] = t /\ \A d \in Collectors \ {c} : tx'[d] = tx[d]
  BY DEF CollectorsInv
<1>2. tx' = [d \in Collectors |-> tx'[d]]
  BY DEF CollectorsInv
<1>3. \A d \in Collectors : CollectorInv(tx'[d], RunTime[d], articles')
  BY <1>1 DEF CollectorsInv
<1>4. /\ Locks(c)' = LocksOf(t)
      /\ \A d \in Collectors \ {c} : Locks(d)' = Locks(d)
  BY <1>1 DEF Locks, LocksOf
<1>5. /\ c \in Writing' <=> t.pc \in {"written", "detected"}
      /\ \A d \in Collectors \ {c} : d \in Writing' <=> d \in Writing
  BY <1>1 DEF Writing
<1>6. ASSUME NEW a \in Collectors, NEW b \in Collectors, a # b
      PROVE  /\ Locks(a)' \intersect Locks(b)' = {}
             /\ a \in Writing' /\ b \in Writing' => tx'[a].id # tx'[b].id
  <2>1. CASE a = c
    BY <1>1, <1>4, <1>5, <1>6, <2>1
  <2>2. CASE b = c
    BY <1>1, <1>4, <1>5, <1>6, <2>2
  <2>3. CASE a # c /\ b # c
    BY <1>1, <1>4, <1>5, <1>6, <2>3 DEF CollectorsInv, Apart
  <2> QED BY <2>1, <2>2, <2>3
<1>7. Apart'
  BY <1>6 DEF Apart
<1> QED BY <1>2, <1>3, <1>7 DEF CollectorsInv

\* A transaction that is over holds nothing.
LEMMA IdleTransaction ==
  ASSUME NEW time, NEW rows
  PROVE  CollectorInv(Idle, time, rows) /\ LocksOf(Idle) = {} /\ Idle.pc = "idle"
BY DEF CollectorInv, Transaction, Idle, LocksOf

\* A collector that resolves a candidate finds its Article, and its locks are
\* its own.
LEMMA BeginKeeps ==
  ASSUME ArticlesInv, NEW c \in Collectors, NEW item, Begin(c, item) PROVE ArticlesInv'
<1> DEFINE found == Resolved(articles, item)
           decided == setting[item.source]
           id == IF found = {} THEN 0 ELSE Min(found)
           seen == IF found = {} THEN Absent ELSE articles[Min(found)]
           t == [Idle EXCEPT !.pc = "resolved", !.item = item, !.decided = decided,
                             !.id = id, !.seen = seen]
<1>1. /\ tx' = [tx EXCEPT ![c] = t] /\ UNCHANGED <<articles, observed, audit>>
      /\ ~Ambiguous(articles, item)
      /\ \A d \in Collectors \ {c} : Locks(d) \intersect IdentityLocks(item) = {}
  BY DEF Begin
<1>2. /\ t.item = item /\ t.pc = "resolved"
      /\ t.id = IF Resolved(articles, item) = {} THEN 0 ELSE Min(Resolved(articles, item))
      /\ t.seen = seen
      /\ t.id \in Articles \union {0} => Transaction(t)
  <2> HIDE DEF decided, id, seen
  <2>1. Idle \in [pc : {"idle"}, item : {Absent}, decided : {Absent}, seen : {Absent},
                  id : {0}, row : {Absent}, found : {<<>>}]
    BY DEF Idle
  <2>2. t \in [pc : {"resolved"}, item : {item}, decided : {decided}, seen : {seen},
               id : {id}, row : {Absent}, found : {<<>>}]
    BY <2>1
  <2>3. t.item = item /\ t.pc = "resolved" /\ t.id = id /\ t.seen = seen
    BY <2>2
  <2>4. t.id \in Articles \union {0} => Transaction(t)
    BY <2>2, <2>3 DEF Transaction
  <2> HIDE DEF t
  <2> QED BY <2>3, <2>4 DEF id
<1>3. RowsType(articles) /\ KeysDiffer(articles)
  BY DEF ArticlesInv, StoreInv
<1> HIDE DEF t
<1>4. /\ Resolution(t, articles)
      /\ t.id # 0 => t.id \in DOMAIN articles
      /\ found # {} => t.id # 0
  BY <1>1, <1>2, <1>3, ResolvedFinds
<1>5. t.id # 0 => t.seen = articles[t.id]
  BY <1>2
<1>6. Transaction(t)
  BY <1>2, <1>3, <1>4 DEF RowsType
<1>7. CollectorInv(t, RunTime[c], articles)
  BY <1>2, <1>4, <1>5, <1>6 DEF CollectorInv
<1>8. LocksOf(t) = IdentityLocks(item)
  BY <1>2 DEF LocksOf
<1>9. \A d \in Collectors \ {c} : LocksOf(t) \intersect Locks(d) = {}
  BY <1>1, <1>8
<1>10. t.pc \notin {"written", "detected"}
  BY <1>2
<1>11. CollectorsInv'
  <2> HIDE DEF found, decided, id, seen
  <2> QED BY <1>1, <1>7, <1>9, <1>10, OneCollectorMoves DEF ArticlesInv
<1> QED BY <1>1, <1>11, StoreUnchanged DEF ArticlesInv

\* An excluded candidate is observed, and nothing else.
LEMMA ExcludeKeeps ==
  ASSUME ArticlesInv, NEW c \in Collectors, NEW item, Exclude(c, item) PROVE ArticlesInv'
<1>1. UNCHANGED <<articles, tx, audit>> /\ observed' = ObservedAt(0, c)
  BY DEF Exclude
<1>2. 0 \notin DOMAIN articles
  BY ArticlesAssumption DEF ArticlesInv, StoreInv, RowsType, Articles
<1>3. /\ DOMAIN observed' = DOMAIN observed \union {0}
      /\ \A a \in DOMAIN articles : observed'[a] = observed[a]
  BY <1>1, <1>2 DEF ObservedAt, With, ArticlesInv, StoreInv
<1>4. StoreInv'
  BY <1>1, <1>3 DEF ArticlesInv, StoreInv, SeenWindowSpansObservations, ModerationSurvives
<1>5. CollectorsInv'
  BY <1>1 DEF ArticlesInv, CollectorsInv, Apart, Locks, Writing
<1> QED BY <1>4, <1>5 DEF ArticlesInv

\* A row is written under its lock, or as a new Article that nobody else has
\* taken.
LEMMA WriteKeeps ==
  ASSUME ArticlesInv, NEW c \in Collectors, Write(c) PROVE ArticlesInv'
<1> DEFINE t == tx[c]
           id == IF t.id = 0 THEN Min(Articles \ Taken) ELSE t.id
           row == Filed(NextRow(c), t.decided)
           u == [t EXCEPT !.pc = "written", !.id = id, !.row = row]
<1>1. /\ t.pc = "resolved" /\ UNCHANGED <<articles, observed, audit>>
      /\ t.id = 0 => Articles \ Taken # {}
      /\ t.id # 0 => RowsFree({t.id}, Collectors \ {c})
      /\ tx' = [tx EXCEPT ![c] = IF ~StillGoverned(c) THEN Idle ELSE u]
  BY DEF Write, ArticlesInv, CollectorsInv
<1>2. CollectorsInv /\ StoreInv /\ CollectorInv(t, RunTime[c], articles)
  BY DEF ArticlesInv, CollectorsInv
<1>3. CASE ~StillGoverned(c)
  <2>1. CollectorsInv'
    BY <1>1, <1>2, <1>3, IdleTransaction, OneCollectorMoves
  <2> QED BY <1>1, <2>1, StoreUnchanged DEF ArticlesInv
<1>4. CASE StillGoverned(c)
  <2>1. /\ ArticleRow(NextRow(c)) /\ Keyed(t, NextRow(c), articles)
        /\ Covers(t, NextRow(c), RunTime[c], articles)
    BY <1>1, <1>2, NextRowWritten DEF StoreInv
  <2>2. /\ ArticleRow(row) /\ row.source = NextRow(c).source /\ row.ext = NextRow(c).ext
        /\ row.url = NextRow(c).url /\ row.first = NextRow(c).first
        /\ row.last = NextRow(c).last /\ row.mod = NextRow(c).mod
    BY <2>1 DEF ArticleRow, Filed
  <2>3. \A d \in Writing \ {c} : tx[d].id # id
    <3>1. CASE t.id # 0
      BY <1>1, <1>2, <3>1 DEF RowsFree, RowLocks, Writing, CollectorInv, Transaction
    <3>2. CASE t.id = 0
      <4>1. Articles \ Taken \in SUBSET Nat
        BY ArticlesAssumption DEF Articles
      <4>2. id \in Articles \ Taken
        BY <1>1, <3>2, <4>1, Least
      <4> QED BY <4>2 DEF Taken, RowLocks, Writing
    <3> QED BY <3>1, <3>2
  <2>4. /\ id \in Articles
        /\ t.id = 0 => id \notin DOMAIN articles
        /\ t.id # 0 => id \in DOMAIN articles
    <3>1. CASE t.id # 0
      BY <1>1, <1>2, <3>1 DEF CollectorInv, StoreInv, RowsType
    <3>2. CASE t.id = 0
      <4>1. Articles \ Taken \in SUBSET Nat
        BY ArticlesAssumption DEF Articles
      <4>2. id \in Articles \ Taken
        BY <1>1, <3>2, <4>1, Least
      <4> QED BY <3>2, <4>2 DEF Taken
    <3> QED BY <3>1, <3>2
  <2>5. t.id # 0 => id = t.id
    OBVIOUS
  <2>6. id # 0 /\ 0 \notin DOMAIN articles
    BY <1>2, <2>4, ArticlesAssumption DEF Articles, StoreInv, RowsType
  <2> HIDE DEF id, row
  <2>7. /\ u.pc = "written" /\ u.item = t.item /\ u.id = id /\ u.row = row
        /\ Transaction(u)
    BY <1>2, <2>4 DEF CollectorInv, Transaction
  <2> HIDE DEF u
  <2>8. Resolution(u, articles)
    <3>1. Resolution(t, articles)
      BY <1>1, <1>2 DEF CollectorInv
    <3>2. CASE t.id # 0
      BY <2>5, <2>7, <3>1, <3>2 DEF Resolution
    <3>3. CASE t.id = 0
      BY <2>4, <2>6, <2>7, <3>1, <3>3 DEF Resolution
    <3> QED BY <3>2, <3>3
  <2>9. Keyed(u, row, articles)
    BY <2>1, <2>2, <2>4, <2>5, <2>6, <2>7 DEF Keyed
  <2>10. Covers(u, row, RunTime[c], articles)
    BY <2>1, <2>2, <2>4, <2>5, <2>6, <2>7 DEF Covers
  <2>11. CollectorInv(u, RunTime[c], articles)
    BY <2>2, <2>6, <2>7, <2>8, <2>9, <2>10 DEF CollectorInv
  <2>12. LocksOf(u) = Locks(c)
    BY <1>1, <2>7 DEF LocksOf, Locks
  <2>13. \A d \in Collectors \ {c} : LocksOf(u) \intersect Locks(d) = {}
    BY <1>2, <2>12 DEF CollectorsInv, Apart
  <2>14. CollectorsInv'
    BY <1>1, <1>2, <1>4, <2>3, <2>7, <2>11, <2>13, OneCollectorMoves
  <2> QED BY <1>1, <2>14, StoreUnchanged DEF ArticlesInv
<1> QED BY <1>3, <1>4

\* Detection writes candidates only.
LEMMA DetectKeeps ==
  ASSUME ArticlesInv, NEW c \in Collectors, Detect(c) PROVE ArticlesInv'
<1> DEFINE t == tx[c]
           found == tx'[c].found
           u == [t EXCEPT !.pc = "detected", !.found = found]
<1>1. /\ t.pc = "written" /\ UNCHANGED <<articles, observed, audit>>
      /\ tx' = [tx EXCEPT ![c] = u]
  BY DEF Detect, ArticlesInv, CollectorsInv, CollectorInv, Transaction
<1>2. CollectorsInv /\ CollectorInv(t, RunTime[c], articles)
  BY DEF ArticlesInv, CollectorsInv
<1> HIDE DEF found
<1>3. /\ u.pc = "detected" /\ u.item = t.item /\ u.id = t.id /\ u.row = t.row
      /\ Transaction(u)
  BY <1>2 DEF CollectorInv, Transaction
<1> HIDE DEF u
<1>4. CollectorInv(u, RunTime[c], articles)
  BY <1>1, <1>2, <1>3 DEF CollectorInv, Resolution, Keyed, Covers
<1>5. LocksOf(u) = Locks(c)
  BY <1>1, <1>3 DEF LocksOf, Locks
<1>6. \A d \in Writing \ {c} : tx[d].id # u.id
  BY <1>1, <1>2, <1>3 DEF CollectorsInv, Apart, Writing
<1>7. CollectorsInv'
  BY <1>1, <1>2, <1>4, <1>5, <1>6, OneCollectorMoves DEF CollectorsInv, Apart
<1> QED BY <1>1, <1>7, StoreUnchanged DEF ArticlesInv

LEMMA FailKeeps ==
  ASSUME ArticlesInv, NEW c \in Collectors, Fail(c) PROVE ArticlesInv'
<1>1. tx' = [tx EXCEPT ![c] = Idle] /\ UNCHANGED <<articles, observed, audit>>
  BY DEF Fail
<1>2. CollectorsInv'
  BY <1>1, IdleTransaction, OneCollectorMoves DEF ArticlesInv
<1> QED BY <1>1, <1>2, StoreUnchanged DEF ArticlesInv

\* A commit puts the row in its place: the window it leaves covers what was
\* observed, and what an operator has decided is in it.
LEMMA CommitKeepsStore ==
  ASSUME ArticlesInv, NEW c \in Collectors, GroupAndCommit(c) PROVE StoreInv'
<1> DEFINE t == tx[c]
<1>1. /\ t.pc = "detected" /\ observed' = ObservedAt(t.id, c)
      /\ audit' = IF t.id \in DOMAIN audit THEN audit ELSE With(audit, t.id, <<>>)
      /\ articles' = Committed(articles, t)
  BY DEF GroupAndCommit, View, Writing, Committed
<1>2. CollectorInv(t, RunTime[c], articles) /\ StoreInv
  BY DEF ArticlesInv, CollectorsInv
<1>3. /\ ArticleRow(t.row) /\ Covers(t, t.row, RunTime[c], articles)
      /\ t.id # 0 /\ RunTime[c] \in Nat
  BY <1>1, <1>2, TimesAssumption DEF CollectorInv
<1> HIDE DEF t
<1>4. /\ DOMAIN articles' = DOMAIN articles \union {t.id} /\ articles'[t.id] = t.row
      /\ \A a \in DOMAIN articles \ {t.id} : articles'[a] = articles[a]
  <2> DEFINE new == Committed(articles, t)
  <2>1. /\ DOMAIN new = DOMAIN articles \union {t.id} /\ new[t.id] = t.row
        /\ \A a \in DOMAIN articles \ {t.id} : new[a] = articles[a]
    BY OneRowPlaced
  <2> HIDE DEF new
  <2>2. articles' = new
    BY <1>1 DEF new
  <2> QED BY <2>1, <2>2
<1>5. RowsType(articles') /\ KeysDiffer(articles')
  BY <1>1, <1>2, CommittedRows DEF StoreInv
<1>6. /\ DOMAIN observed' = {0} \union DOMAIN articles'
      /\ \A a \in DOMAIN articles \ {t.id} : observed'[a] = observed[a]
      /\ observed'[t.id] = (IF t.id \in DOMAIN articles THEN observed[t.id] ELSE {})
                             \union {RunTime[c]}
  BY <1>1, <1>2, <1>3, <1>4 DEF ObservedAt, With, StoreInv
<1>7. \A a \in DOMAIN articles' : observed'[a] \subseteq Nat
  BY <1>2, <1>3, <1>4, <1>6 DEF StoreInv
<1>8. /\ audit' \in [DOMAIN articles' -> Seq(Event)]
      /\ \A a \in DOMAIN articles : audit'[a] = audit[a]
      /\ t.id \notin DOMAIN articles => audit'[t.id] = <<>>
  <2>1. audit \in [DOMAIN articles -> Seq(Event)] /\ <<>> \in Seq(Event)
    BY <1>2 DEF StoreInv
  <2>2. CASE t.id \in DOMAIN articles
    <3>1. audit' = audit /\ DOMAIN articles' = DOMAIN articles
      BY <1>1, <1>4, <2>1, <2>2
    <3> QED BY <2>1, <2>2, <3>1
  <2>3. CASE t.id \notin DOMAIN articles
    <3>1. audit' = [a \in DOMAIN articles' |-> IF a = t.id THEN <<>> ELSE audit[a]]
      BY <1>1, <1>4, <2>1, <2>3 DEF With
    <3> QED BY <1>4, <2>1, <2>3, <3>1
  <2> QED BY <2>2, <2>3
<1>9. SeenWindowSpansObservations'
  <2> SUFFICES ASSUME NEW a \in DOMAIN articles', NEW time \in observed'[a]
      PROVE articles'[a].first <= time /\ time <= articles'[a].last
    BY DEF SeenWindowSpansObservations
  <2>1. CASE a # t.id
    BY <1>2, <1>4, <1>6, <2>1 DEF StoreInv, SeenWindowSpansObservations
  <2>2. CASE a = t.id /\ time = RunTime[c]
    BY <1>3, <1>4, <2>2 DEF Covers
  <2>3. CASE a = t.id /\ time # RunTime[c]
    <3>1. t.id \in DOMAIN articles /\ time \in observed[t.id] /\ time \in Nat
      BY <1>2, <1>6, <2>3 DEF StoreInv
    <3>2. articles[t.id].first <= time /\ time <= articles[t.id].last
      BY <1>2, <3>1 DEF StoreInv, SeenWindowSpansObservations
    <3>3. t.row.first <= articles[t.id].first /\ articles[t.id].last <= t.row.last
      BY <1>3, <3>1 DEF Covers
    <3>4. /\ articles[t.id].first \in Nat /\ articles[t.id].last \in Nat
          /\ t.row.first \in Nat /\ t.row.last \in Nat
      BY <1>2, <1>3, <3>1 DEF StoreInv, RowsType, ArticleRow
    <3> QED BY <1>4, <2>3, <3>1, <3>2, <3>3, <3>4
  <2> QED BY <2>1, <2>2, <2>3
<1>10. ModerationSurvives'
  <2> SUFFICES ASSUME NEW a \in DOMAIN articles', NEW f \in Moderated
      PROVE LastSays(audit'[a], f, articles'[a].mod[f])
    BY DEF ModerationSurvives, LastSays
  <2>1. CASE a \in DOMAIN articles
    <3>1. articles'[a].mod = articles[a].mod
      BY <1>3, <1>4, <2>1 DEF Covers
    <3> QED BY <1>2, <1>8, <2>1, <3>1 DEF StoreInv, ModerationSurvives
  <2>2. CASE a \notin DOMAIN articles
    <3>1. a = t.id /\ articles'[a].mod = Untouched /\ audit'[a] = <<>>
      BY <1>3, <1>4, <1>8, <2>2 DEF Covers
    <3> QED BY <3>1 DEF LastSays
  <2> QED BY <2>1, <2>2
<1> QED BY <1>5, <1>6, <1>7, <1>8, <1>9, <1>10 DEF StoreInv

\* And it leaves what the others have resolved or written.
LEMMA CommitKeepsCollectors ==
  ASSUME ArticlesInv, NEW c \in Collectors, GroupAndCommit(c) PROVE CollectorsInv'
<1> DEFINE t == tx[c]
<1>1. /\ t.pc = "detected" /\ tx' = [tx EXCEPT ![c] = Idle]
      /\ articles' = Committed(articles, t)
  BY DEF GroupAndCommit, View, Writing, Committed
<1>2. /\ CollectorInv(t, RunTime[c], articles) /\ RowsType(articles) /\ CollectorsInv
  BY DEF ArticlesInv, CollectorsInv, StoreInv
<1> HIDE DEF t
<1>3. /\ tx'[c] = Idle /\ \A d \in Collectors \ {c} : tx'[d] = tx[d]
      /\ tx' = [d \in Collectors |-> tx'[d]]
  BY <1>1, <1>2 DEF CollectorsInv
<1>4. ASSUME NEW d \in Collectors \ {c} PROVE CollectorInv(tx[d], RunTime[d], articles')
  <2>1. CollectorInv(tx[d], RunTime[d], articles)
    BY <1>2 DEF CollectorsInv
  <2>2. tx[d].pc # "idle" => IdentityLocks(t.item) \intersect IdentityLocks(tx[d].item) = {}
    <3>1. Locks(c) \intersect Locks(d) = {}
      BY <1>2 DEF CollectorsInv, Apart
    <3> QED BY <1>1, <3>1 DEF Locks, t
  <2>3. tx[d].pc \in {"written", "detected"} => t.id # tx[d].id
    BY <1>1, <1>2 DEF CollectorsInv, Apart, Writing, t
  <2> QED BY <1>1, <1>2, <2>1, <2>2, <2>3, OthersKeepTheirs
<1>5. \A d \in Collectors : CollectorInv(tx'[d], RunTime[d], articles')
  BY <1>3, <1>4, IdleTransaction
<1>6. Apart'
  <2>1. Locks(c)' = {} /\ c \notin Writing'
    BY <1>3 DEF Locks, Writing, Idle
  <2>2. \A d \in Collectors \ {c} : Locks(d)' = Locks(d) /\ (d \in Writing' => d \in Writing)
    BY <1>3 DEF Locks, Writing
  <2> QED BY <1>2, <1>3, <2>1, <2>2 DEF CollectorsInv, Apart
<1> QED BY <1>3, <1>5, <1>6 DEF CollectorsInv
-----------------------------------------------------------------------------
(* The operator.                                                           *)

\* The last event on the field is the new one, and on the others it is the
\* one it was.
LEMMA EventAppended ==
  ASSUME NEW events \in Seq(Event), NEW e \in Event, NEW f \in Moderated, NEW v,
         f # e.field => LastSays(events, f, v), f = e.field => v = e.new
  PROVE  LastSays(Append(events, e), f, v)
<1> DEFINE n == Len(events)
           after == Append(events, e)
<1>1. /\ n \in Nat /\ DOMAIN events = 1..n /\ DOMAIN after = 1..(n + 1)
      /\ after[n + 1] = e /\ \A i \in 1..n : after[i] = events[i]
  OBVIOUS
<1> HIDE DEF n, after
<1> DEFINE about == {i \in DOMAIN events : events[i].field = f}
           now == {i \in DOMAIN after : after[i].field = f}
<1>2. CASE f = e.field
  <2>1. n + 1 \in now /\ \A j \in now : j <= n + 1
    BY <1>1, <1>2
  <2> QED BY <1>1, <1>2, <2>1 DEF LastSays, after
<1>3. CASE f # e.field
  <2>1. now = about /\ \A i \in about : after[i].new = events[i].new
    BY <1>1, <1>3
  <2>2. LastSays(events, f, v)
    BY <1>3
  <2>3. IF about = {} THEN v = Untouched[f]
        ELSE \E i \in about : events[i].new = v /\ \A j \in about : j <= i
    BY <2>2 DEF LastSays
  <2>4. IF now = {} THEN v = Untouched[f]
        ELSE \E i \in now : after[i].new = v /\ \A j \in now : j <= i
    <3> HIDE DEF about, now
    <3> QED BY <2>1, <2>3
  <2> QED BY <2>4 DEF LastSays, after
<1> QED BY <1>2, <1>3

\* A command on one Article changes its field and says so, and no open
\* transaction has written that Article.
LEMMA ModerateKeeps ==
  ASSUME ArticlesInv, NEW a \in DOMAIN articles, NEW f \in Moderated,
         NEW v \in ModeratedValues(f), Moderate(a, f, v)
  PROVE  ArticlesInv'
<1> DEFINE row == [articles[a] EXCEPT !.mod[f] = v]
           e == AuditEvent(a, f, v)
<1>1. /\ RowsFree({a}, Collectors) /\ articles' = [articles EXCEPT ![a].mod[f] = v]
      /\ audit' = [audit EXCEPT ![a] = Append(@, e)]
      /\ UNCHANGED <<tx, observed>>
  BY DEF Moderate, WithOverride
<1>2. StoreInv /\ CollectorsInv /\ RowsType(articles) /\ ArticleRow(articles[a])
  BY DEF ArticlesInv, StoreInv, RowsType
<1>3. v \in FieldValues
  BY DEF ModeratedValues, FieldValues
<1>4. e \in Event /\ e.field = f /\ e.new = v
  BY <1>2, <1>3 DEF AuditEvent, Event, ArticleRow
<1>5. /\ ArticleRow(row) /\ row.source = articles[a].source /\ row.ext = articles[a].ext
      /\ row.url = articles[a].url /\ row.first = articles[a].first
      /\ row.last = articles[a].last
      /\ row.mod = [articles[a].mod EXCEPT ![f] = v]
  <2> DEFINE mod == [articles[a].mod EXCEPT ![f] = v]
  <2>1. mod \in [Moderated -> FieldValues]
    BY <1>2, <1>3 DEF ArticleRow
  <2>2. row = [articles[a] EXCEPT !.mod = mod]
    BY <1>2 DEF ArticleRow
  <2> HIDE DEF mod, row
  <2>3. /\ ArticleRow(row) /\ row.source = articles[a].source /\ row.ext = articles[a].ext
        /\ row.url = articles[a].url /\ row.first = articles[a].first
        /\ row.last = articles[a].last /\ row.mod = mod
    BY <1>2, <2>1, <2>2 DEF ArticleRow
  <2> QED BY <2>3 DEF mod
<1>6. articles' = [articles EXCEPT ![a] = row]
  BY <1>1, <1>2 DEF RowsType
<1> HIDE DEF row, e
<1>7. /\ DOMAIN articles' = DOMAIN articles /\ articles'[a] = row
      /\ \A b \in DOMAIN articles \ {a} : articles'[b] = articles[b]
      /\ articles' = [b \in DOMAIN articles' |-> articles'[b]]
  BY <1>2, <1>6 DEF RowsType
<1>8. \A b \in DOMAIN articles :
        /\ articles'[b].source = articles[b].source /\ articles'[b].ext = articles[b].ext
        /\ articles'[b].url = articles[b].url /\ articles'[b].first = articles[b].first
        /\ articles'[b].last = articles[b].last
  BY <1>5, <1>7
<1>9. RowsType(articles') /\ KeysDiffer(articles')
  <2>1. RowsType(articles')
    BY <1>2, <1>5, <1>7 DEF RowsType
  <2>2. \A b, d \in DOMAIN articles :
          SameKey(articles'[b], articles'[d]) => SameKey(articles[b], articles[d])
    BY <1>8 DEF SameKey
  <2> QED BY <1>2, <1>7, <2>1, <2>2 DEF StoreInv, KeysDiffer
<1>10. SeenWindowSpansObservations'
  BY <1>1, <1>2, <1>7, <1>8 DEF StoreInv, SeenWindowSpansObservations
<1>11. /\ audit' \in [DOMAIN articles' -> Seq(Event)]
       /\ audit'[a] = Append(audit[a], e) /\ audit[a] \in Seq(Event)
       /\ \A b \in DOMAIN articles \ {a} : audit'[b] = audit[b]
  BY <1>1, <1>2, <1>4, <1>7 DEF StoreInv
<1>12. ModerationSurvives'
  <2> SUFFICES ASSUME NEW b \in DOMAIN articles', NEW g \in Moderated
      PROVE LastSays(audit'[b], g, articles'[b].mod[g])
    BY DEF ModerationSurvives, LastSays
  <2>1. LastSays(audit[b], g, articles[b].mod[g])
    BY <1>2, <1>7 DEF StoreInv, ModerationSurvives
  <2>2. CASE b # a
    BY <1>7, <1>11, <2>1, <2>2
  <2>3. CASE b = a
    <3>1. row.mod[g] = IF g = f THEN v ELSE articles[a].mod[g]
      BY <1>2, <1>5 DEF ArticleRow
    <3>2. LastSays(Append(audit[a], e), g, row.mod[g])
      BY <1>4, <1>11, <2>1, <2>3, <3>1, EventAppended
    <3> QED BY <1>7, <1>11, <2>3, <3>2
  <2> QED BY <2>2, <2>3
<1>13. StoreInv'
  BY <1>1, <1>2, <1>7, <1>9, <1>10, <1>11, <1>12 DEF StoreInv
<1>14. ASSUME NEW c \in Collectors PROVE CollectorInv(tx[c], RunTime[c], articles')
  <2>1. CollectorInv(tx[c], RunTime[c], articles)
    BY <1>2 DEF CollectorsInv
  <2>2. tx[c].pc \in {"written", "detected"} => tx[c].id # a
    BY <1>1 DEF RowsFree, RowLocks, Writing
  <2>3. tx[c].pc # "idle" => Resolution(tx[c], articles')
    BY <1>7, <1>8, <2>1 DEF CollectorInv, Resolution
  <2>4. tx[c].pc \in {"written", "detected"} =>
          Keyed(tx[c], tx[c].row, articles') /\ Covers(tx[c], tx[c].row, RunTime[c], articles')
    BY <1>7, <2>1, <2>2 DEF CollectorInv, Keyed, Covers
  <2> QED BY <1>7, <1>8, <2>1, <2>3, <2>4 DEF CollectorInv
<1>15. CollectorsInv'
  BY <1>1, <1>2, <1>14 DEF CollectorsInv, Apart, Locks, Writing
<1> QED BY <1>13, <1>15 DEF ArticlesInv

-----------------------------------------------------------------------------
(* The theorems.                                                           *)

LEMMA ArticlesInit == Init => ArticlesInv
<1> SUFFICES ASSUME Init PROVE ArticlesInv
  OBVIOUS
<1>1. /\ articles = <<>> /\ audit = <<>> /\ observed = [a \in {0} |-> {}]
      /\ tx = [c \in Collectors |-> Idle]
  BY DEF Init
<1>2. DOMAIN articles = {} /\ articles = [a \in {} |-> articles[a]]
  BY <1>1
<1>3. audit \in [{} -> Seq(Event)]
  BY <1>1
<1>4. StoreInv
  BY <1>1, <1>2, <1>3 DEF StoreInv, RowsType, KeysDiffer, SeenWindowSpansObservations,
                          ModerationSurvives
<1>5. CollectorsInv
  BY <1>1, IdleTransaction DEF CollectorsInv, Apart, Locks, Writing
<1> QED BY <1>4, <1>5 DEF ArticlesInv

\* The commands on the topology and on settings leave the rows alone.
LEMMA TopologyApart ==
  ASSUME NEW t PROVE TryTopology(t) => UNCHANGED <<articles, tx, observed, audit>>
BY DEF TryTopology, Refused, vars

LEMMA OperatorLeaves ==
  ASSUME OperatorNext,
         ~\E a \in DOMAIN articles, f \in Moderated : \E v \in ModeratedValues(f) :
            Moderate(a, f, v)
  PROVE  UNCHANGED <<articles, tx, observed, audit>>
<1>1. ASSUME NEW p, Dismiss(p) PROVE UNCHANGED <<articles, tx, observed, audit>>
  BY <1>1, TopologyApart DEF Dismiss, Refused, vars
<1>2. ASSUME NEW S, NEW chosen, Merge(S, chosen)
      PROVE UNCHANGED <<articles, tx, observed, audit>>
  BY <1>2, TopologyApart DEF Merge, Refused, vars
<1>3. ASSUME NEW g, NEW R, Split(g, R) PROVE UNCHANGED <<articles, tx, observed, audit>>
  BY <1>3, TopologyApart DEF Split
<1>4. ASSUME NEW g, NEW a, ChoosePrimary(g, a)
      PROVE UNCHANGED <<articles, tx, observed, audit>>
  BY <1>4, TopologyApart DEF ChoosePrimary, Refused, vars
<1>5. ASSUME NEW s, NEW k, EditSetting(s, k)
      PROVE UNCHANGED <<articles, tx, observed, audit>>
  BY <1>5 DEF EditSetting
<1> QED BY <1>1, <1>2, <1>3, <1>4, <1>5 DEF OperatorNext

LEMMA ArticlesStep == ArticlesInv /\ [Next]_vars => ArticlesInv'
<1> SUFFICES ASSUME ArticlesInv, [Next]_vars PROVE ArticlesInv'
  OBVIOUS
<1>1. ASSUME UNCHANGED <<articles, tx, observed, audit>> PROVE ArticlesInv'
  <2>1. StoreInv'
    BY <1>1, StoreUnchanged DEF ArticlesInv
  <2>2. CollectorsInv'
    BY <1>1 DEF ArticlesInv, CollectorsInv, Apart, Locks, Writing
  <2> QED BY <2>1, <2>2 DEF ArticlesInv
<1>2. ASSUME NEW c \in Collectors, CollectorNext(c) PROVE ArticlesInv'
  <2>1. CASE \E item \in Feed : Begin(c, item) \/ Exclude(c, item)
    BY <2>1, BeginKeeps, ExcludeKeeps
  <2>2. CASE Write(c)
    BY <2>2, WriteKeeps
  <2>3. CASE Detect(c)
    BY <2>3, DetectKeeps
  <2>4. CASE GroupAndCommit(c)
    BY <2>4, CommitKeepsStore, CommitKeepsCollectors DEF ArticlesInv
  <2>5. CASE Fail(c)
    BY <2>5, FailKeeps
  <2> QED BY <1>2, <2>1, <2>2, <2>3, <2>4, <2>5 DEF CollectorNext
<1>3. ASSUME OperatorNext PROVE ArticlesInv'
  BY <1>1, <1>3, ModerateKeeps, OperatorLeaves
<1>4. ASSUME UNCHANGED vars PROVE ArticlesInv'
  BY <1>1, <1>4 DEF vars
<1> QED BY <1>2, <1>3, <1>4 DEF Next

LEMMA ArticlesInvariant == Spec => []ArticlesInv
BY ArticlesInit, ArticlesStep, PTL DEF Spec

\* The unique indexes on articles never fire: identity is resolved without a
\* row lock, and the advisory locks are enough.
THEOREM NoKeyIsTakenTwice == Spec => []UniqueKeysNeverClash
<1>1. ArticlesInv => UniqueKeysNeverClash
  <2> SUFFICES ASSUME ArticlesInv, NEW c \in Collectors, tx[c].pc = "resolved"
      PROVE /\ \A a \in DOMAIN articles \ {tx[c].id} : ~SameKey(articles[a], NextRow(c))
            /\ \A d \in Writing : tx[d].id # tx[c].id => ~SameKey(tx[d].row, NextRow(c))
    BY DEF UniqueKeysNeverClash
  <2>1. /\ RowsType(articles) /\ KeysDiffer(articles)
        /\ \A d \in Collectors : CollectorInv(tx[d], RunTime[d], articles)
    BY DEF ArticlesInv, StoreInv, CollectorsInv
  <2>2. Resolution(tx[c], articles) /\ Keyed(tx[c], NextRow(c), articles)
    BY <2>1, NextRowWritten DEF CollectorInv
  <2>3. ASSUME NEW d \in Writing, tx[d].id # tx[c].id
        PROVE  ~SameKey(tx[d].row, NextRow(c))
    <3>1. d \in Collectors /\ tx[d].pc \in {"written", "detected"} /\ d # c
      BY <2>3 DEF Writing
    <3>2. Resolution(tx[d], articles) /\ Keyed(tx[d], tx[d].row, articles)
      BY <2>1, <3>1 DEF CollectorInv
    <3>3. IdentityLocks(tx[c].item) \intersect IdentityLocks(tx[d].item) = {}
      BY <3>1 DEF ArticlesInv, CollectorsInv, Apart, Locks
    <3> QED BY <2>1, <2>2, <2>3, <3>2, <3>3, NoClashBetweenWriters
  <2> QED BY <2>1, <2>2, <2>3, NoClashWithCommitted
<1> QED BY <1>1, ArticlesInvariant, PTL

\* In whatever order observations are stored, the seen window of an Article
\* spans them all.
THEOREM WindowsSpanObservations == Spec => []SeenWindowSpansObservations
<1>1. ArticlesInv => SeenWindowSpansObservations
  BY DEF ArticlesInv, StoreInv
<1> QED BY <1>1, ArticlesInvariant, PTL

\* What an operator has decided about an Article stays what the last audit
\* event says, whatever collectors write over the row.
THEOREM OperatorsDecisionsStay == Spec => []ModerationSurvives
<1>1. ArticlesInv => ModerationSurvives
  BY DEF ArticlesInv, StoreInv
<1> QED BY <1>1, ArticlesInvariant, PTL

\* While a collector holds the identity locks of its candidate, the candidate
\* stays the Article it was resolved to.
THEOREM ResolutionHolds ==
  Spec => [](\A c \in Collectors : tx[c].pc # "idle" => Resolution(tx[c], articles))
<1>1. ArticlesInv => \A c \in Collectors : tx[c].pc # "idle" => Resolution(tx[c], articles)
  BY DEF ArticlesInv, CollectorsInv, CollectorInv
<1> QED BY <1>1, ArticlesInvariant, PTL
-----------------------------------------------------------------------------
(* The duplicate topology.                                                 *)

\* The Articles of p are in one group.
Together(t, p) ==
  /\ p[1] \in DOMAIN t.member /\ p[2] \in DOMAIN t.member
  /\ t.member[p[1]] = t.member[p[2]]

TopologyType(t) ==
  /\ t \in [cand : {t.cand}, member : {t.member}, primary : {t.primary}, seps : {t.seps}]
  /\ t.seps \subseteq Pairs /\ DOMAIN t.cand \subseteq Pairs
  /\ \A p \in DOMAIN t.cand : t.cand[p] \in [state : {t.cand[p].state},
                                             evidence : {t.cand[p].evidence}]
  /\ DOMAIN t.member \subseteq Articles /\ t.member \in [DOMAIN t.member -> DOMAIN t.primary]
  /\ DOMAIN t.primary \subseteq GroupIds

Paired(t) == \A g \in DOMAIN t.primary : \E a, b \in Members(t, g) : a # b

Reconciled(t) == /\ \A p \in DOMAIN t.cand : t.cand[p].state = "merged" => Together(t, p)
                 /\ \A p \in t.seps : ~Together(t, p)

TopologyInv(t) == TopologyType(t) /\ Paired(t) /\ Reconciled(t)

LEMMA ArticlesFinite == IsFiniteSet(Articles) /\ Cardinality(Articles) \in Nat
BY ArticlesAssumption, FS_Interval, FS_CardinalityType DEF Articles

\* A topology has a group id to spare while an Article is in no group.
LEMMA GroupIdToSpare ==
  ASSUME NEW t, TopologyType(t), Paired(t), NEW x \in Articles, x \notin DOMAIN t.member
  PROVE  GroupIds \ DOMAIN t.primary # {}
<1> SUFFICES ASSUME DOMAIN t.primary = Articles PROVE FALSE
  BY DEF TopologyType, GroupIds
<1> DEFINE f == [g \in Articles |-> CHOOSE a \in Articles : a \in Members(t, g)]
<1>1. \A g \in Articles : f[g] \in Members(t, g)
  BY DEF Paired, Members, TopologyType
<1>2. \A g \in Articles : f[g] \in Articles \ {x} /\ t.member[f[g]] = g
  BY <1>1 DEF Members, TopologyType
<1>3. f \in [Articles -> Articles \ {x}]
  BY <1>2
<1> HIDE DEF f
<1>4. IsFiniteSet(Articles \ {x}) /\ Cardinality(Articles \ {x}) = Cardinality(Articles) - 1
  BY ArticlesFinite, FS_RemoveElement
<1>5. \E g, h \in Articles : g # h /\ f[g] = f[h]
  BY <1>3, <1>4, ArticlesFinite, FS_PigeonHole
<1> QED BY <1>2, <1>5

\* Joining puts everything S is connected to into one group, and leaves the
\* other groups as they are.
LEMMA JoinedGroups ==
  ASSUME NEW t, TopologyType(t), Paired(t), NEW S \in SUBSET Articles,
         NEW x \in S, NEW y \in S, x # y, NEW chosen
  PROVE  LET j == Joined(t, S, chosen)
             all == Component(t, S) IN
         /\ TopologyType(j) /\ Paired(j) /\ j.cand = t.cand /\ j.seps = t.seps
         /\ \A a \in S : /\ a \in all /\ a \in DOMAIN j.member
                         /\ j.member[a] \in DOMAIN j.primary /\ Members(j, j.member[a]) = all
         /\ \A p \in Pairs : Together(j, p) <=> Together(t, p) \/ p \in PairsOf(all)
<1> DEFINE j == Joined(t, S, chosen)
           all == Component(t, S)
           gs == GroupsOf(t, S)
           g == IF gs = {} THEN Min(GroupIds \ DOMAIN t.primary) ELSE Min(gs)
<1>1. gs = {t.member[a] : a \in S \intersect DOMAIN t.member}
  BY DEF GroupsOf, GroupOf
<1>2. gs \subseteq DOMAIN t.primary /\ DOMAIN t.primary \subseteq Articles /\ Articles \subseteq Nat
  BY <1>1 DEF TopologyType, GroupIds, Articles
<1>3. g \in Articles /\ (gs = {} => g \notin DOMAIN t.primary) /\ (gs # {} => g \in gs)
  <2>1. CASE gs = {}
    <3>1. x \notin DOMAIN t.member
      BY <1>1, <2>1
    <3>2. GroupIds \ DOMAIN t.primary # {} /\ GroupIds \ DOMAIN t.primary \subseteq Nat
      BY <1>2, <3>1, GroupIdToSpare DEF GroupIds
    <3> QED BY <2>1, <3>2, Least DEF GroupIds
  <2>2. CASE gs # {}
    BY <1>2, <2>2, Least
  <2> QED BY <2>1, <2>2
<1>4. \A a : a \in all <=> a \in S \/ (a \in DOMAIN t.member /\ t.member[a] \in gs)
  BY DEF Component, Members
<1>5. \A a \in S : a \in DOMAIN t.member => t.member[a] \in gs
  BY <1>1
<1> HIDE DEF gs, g, all
<1>6. /\ j \in [cand : {t.cand}, member : {j.member}, primary : {j.primary}, seps : {t.seps}]
      /\ j.member = [a \in all \union DOMAIN t.member |->
                       IF a \in all THEN g ELSE t.member[a]]
      /\ DOMAIN j.primary = {g} \union (DOMAIN t.primary \ gs)
  BY DEF Joined, TopologyType, gs, g, all
<1> HIDE DEF j
<1>7. /\ all \subseteq Articles /\ S \subseteq all
      /\ DOMAIN j.member = all \union DOMAIN t.member /\ j.cand = t.cand /\ j.seps = t.seps
      /\ \A a \in all : j.member[a] = g
      /\ \A a \in DOMAIN t.member \ all : j.member[a] = t.member[a] /\ t.member[a] # g
  BY <1>3, <1>4, <1>6 DEF TopologyType
<1>8. TopologyType(j)
  <2>1. \A a \in DOMAIN j.member : j.member[a] \in DOMAIN j.primary
    BY <1>4, <1>6, <1>7 DEF TopologyType
  <2>2. j.member \in [DOMAIN j.member -> DOMAIN j.primary]
    BY <1>6, <2>1
  <2> QED BY <1>2, <1>3, <1>6, <1>7, <2>2 DEF TopologyType, GroupIds
<1>9. Members(j, g) = all
  BY <1>7 DEF Members
<1>10. ASSUME NEW h \in DOMAIN j.primary, h # g PROVE \E a, b \in Members(j, h) : a # b
  <2>1. h \in DOMAIN t.primary \ gs
    BY <1>6, <1>10
  <2>2. \A a \in Members(t, h) : a \in DOMAIN t.member \ all /\ t.member[a] = h
    BY <1>4, <1>5, <2>1 DEF Members
  <2>3. Members(t, h) \subseteq Members(j, h)
    BY <1>7, <2>2 DEF Members
  <2> QED BY <2>1, <2>3 DEF Paired
<1>11. Paired(j)
  BY <1>7, <1>9, <1>10 DEF Paired
<1>12. ASSUME NEW p \in Pairs PROVE Together(j, p) <=> Together(t, p) \/ p \in PairsOf(all)
  <2>1. p \in PairsOf(all) <=> p[1] \in all /\ p[2] \in all
    BY DEF PairsOf
  <2>2. Together(t, p) => (p[1] \in all <=> p[2] \in all)
    BY <1>4, <1>5 DEF Together
  <2> QED BY <1>7, <2>1, <2>2 DEF Together
<1> QED BY <1>6, <1>7, <1>8, <1>9, <1>11, <1>12 DEF j, all

\* A new Primary changes no group.
LEMMA PrimaryAlone ==
  ASSUME NEW t, TopologyType(t), NEW u, u \in [cand : {t.cand}, member : {t.member},
                                               primary : {u.primary}, seps : {t.seps}],
         DOMAIN u.primary = DOMAIN t.primary
  PROVE  /\ TopologyType(u) /\ (Paired(t) => Paired(u))
         /\ \A p : Together(u, p) <=> Together(t, p)
         /\ \A g : Members(u, g) = Members(t, g)
BY DEF TopologyType, Paired, Together, Members

LEMMA SettledGroups ==
  ASSUME NEW t, TopologyType(t), NEW rows, NEW g, NEW u \in {t, Reselected(t, rows, g),
                                                            Settled(t, rows, g)}
  PROVE  /\ u \in [cand : {t.cand}, member : {t.member}, primary : {u.primary}, seps : {t.seps}]
         /\ DOMAIN u.primary = DOMAIN t.primary
BY DEF TopologyType, Settled, Reselected

\* What automatic grouping of pairs of S makes of t.
Kept(t, u, rows, S) ==
  /\ TopologyInv(u) /\ u.seps = t.seps /\ DOMAIN u.cand = DOMAIN t.cand
  /\ \A p \in DOMAIN t.cand :
       /\ u.cand[p].evidence = t.cand[p].evidence
       /\ u.cand[p] # t.cand[p] => /\ p \in S /\ t.cand[p].state = "pending"
                                   /\ u.cand[p].state = "merged"
                                   /\ rows[p[1]].url = rows[p[2]].url

LEMMA KeptTwice ==
  ASSUME NEW t, NEW u, NEW v, NEW rows, NEW S, Kept(t, u, rows, S), Kept(u, v, rows, S)
  PROVE  Kept(t, v, rows, S)
BY DEF Kept

LEMMA GroupedKeeps ==
  ASSUME NEW t, TopologyInv(t), NEW rows, NEW S \in SUBSET Pairs, NEW p \in S
  PROVE  Kept(t, Grouped(t, rows, p), rows, S)
<1>1. TopologyType(t) /\ Paired(t) /\ Reconciled(t)
  BY DEF TopologyInv
<1>2. CASE NotActionable(t, rows, p)
  BY <1>2 DEF Kept, Grouped
<1>3. CASE ~NotActionable(t, rows, p)
  <2> DEFINE T == {p[1], p[2]}
             all == Component(t, T)
             j == Joined(t, T, {})
             k == Settled(j, rows, j.member[p[1]])
             u == [k EXCEPT !.cand[p].state = "merged"]
  <2>1. /\ p \in DOMAIN t.cand /\ t.cand[p].state = "pending"
        /\ rows[p[1]].url = rows[p[2]].url /\ PairsOf(all) \intersect t.seps = {}
    BY <1>3 DEF NotActionable, CandOf, Evidence, Strong
  <2>2. T \in SUBSET Articles /\ p[1] \in T /\ p[2] \in T /\ p[1] # p[2] /\ p \in Pairs
    BY DEF Pairs, Articles
  <2>3. Grouped(t, rows, p) = u
    BY <1>3 DEF Grouped
  <2> HIDE DEF T
  <2>4. /\ TopologyType(j) /\ Paired(j) /\ j.cand = t.cand /\ j.seps = t.seps
        /\ p[1] \in all /\ p[2] \in all
        /\ \A q \in Pairs : Together(j, q) <=> Together(t, q) \/ q \in PairsOf(all)
    BY <1>1, <2>2, JoinedGroups
  <2> HIDE DEF j
  <2>5. /\ k \in [cand : {j.cand}, member : {j.member}, primary : {k.primary}, seps : {j.seps}]
        /\ DOMAIN k.primary = DOMAIN j.primary
    BY <2>4, SettledGroups
  <2> HIDE DEF k
  <2>6. /\ TopologyType(k) /\ Paired(k) /\ k.cand = t.cand /\ k.seps = t.seps
        /\ \A q \in Pairs : Together(k, q) <=> Together(t, q) \/ q \in PairsOf(all)
    BY <2>4, <2>5, PrimaryAlone
  <2>7. p \in PairsOf(all)
    BY <2>2, <2>4 DEF PairsOf
  <2> HIDE DEF all
  <2>8. /\ u \in [cand : {u.cand}, member : {k.member}, primary : {k.primary}, seps : {t.seps}]
        /\ DOMAIN u.cand = DOMAIN t.cand
        /\ u.cand[p] = [t.cand[p] EXCEPT !.state = "merged"]
        /\ \A q \in DOMAIN t.cand : q # p => u.cand[q] = t.cand[q]
    BY <2>1, <2>6 DEF TopologyType
  <2> HIDE DEF u
  <2>9. /\ u.cand[p].state = "merged" /\ u.cand[p].evidence = t.cand[p].evidence
        /\ u.cand[p] \in [state : {u.cand[p].state}, evidence : {u.cand[p].evidence}]
    BY <1>1, <2>1, <2>8 DEF TopologyType
  <2>10. /\ TopologyType(u) /\ Paired(u)
         /\ \A q \in Pairs : Together(u, q) <=> Together(t, q) \/ q \in PairsOf(all)
    BY <1>1, <2>6, <2>8, <2>9 DEF TopologyType, Paired, Members, Together
  <2>11. Reconciled(u)
    BY <1>1, <2>1, <2>7, <2>8, <2>10 DEF Reconciled, TopologyType
  <2> QED BY <1>1, <2>1, <2>3, <2>8, <2>9, <2>10, <2>11 DEF Kept, TopologyInv
<1> QED BY <1>2, <1>3

\* What the processing of one Article after another has made of t.
Processed(f, N, t, rows, a, S) ==
  f = [b \in 0..N |-> IF b = 0 THEN t
                      ELSE IF PairOf(a, b) \in S THEN Grouped(f[b - 1], rows, PairOf(a, b))
                      ELSE f[b - 1]]

LEMMA ProcessedExists ==
  ASSUME NEW N \in Nat, NEW t, NEW rows, NEW a, NEW S
  PROVE  \E f : Processed(f, N, t, rows, a, S)
<1> DEFINE bad == {n \in Nat : ~\E f : Processed(f, n, t, rows, a, S)}
<1> SUFFICES ASSUME bad # {} PROVE FALSE
  OBVIOUS
<1> DEFINE m == Min(bad)
<1>1. m \in bad /\ \A n \in bad : m <= n
  BY Least
<1> HIDE DEF m
<1>2. CASE m = 0
  <2>1. Processed([b \in 0..0 |-> t], 0, t, rows, a, S)
    BY DEF Processed
  <2> QED BY <1>1, <1>2, <2>1
<1>3. CASE m # 0
  <2>1. m \in Nat /\ m - 1 \in Nat /\ m - 1 \notin bad
    BY <1>1, <1>3
  <2>2. PICK f : Processed(f, m - 1, t, rows, a, S)
    BY <2>1
  <2> DEFINE next == IF PairOf(a, m) \in S THEN Grouped(f[m - 1], rows, PairOf(a, m))
                     ELSE f[m - 1]
             h == [b \in 0..m |-> IF b = m THEN next ELSE f[b]]
  <2> HIDE DEF next
  <2>3. \A b \in 0..(m - 1) : h[b] = f[b]
    BY <2>1
  <2>4. f[0] = t /\ \A b \in 1..(m - 1) :
          f[b] = IF PairOf(a, b) \in S THEN Grouped(f[b - 1], rows, PairOf(a, b)) ELSE f[b - 1]
    BY <2>1, <2>2 DEF Processed
  <2>5. ASSUME NEW b \in 0..m
        PROVE  h[b] = IF b = 0 THEN t
                      ELSE IF PairOf(a, b) \in S THEN Grouped(h[b - 1], rows, PairOf(a, b))
                      ELSE h[b - 1]
    <3>1. CASE b = 0
      BY <1>3, <2>1, <2>3, <2>4, <3>1
    <3>2. CASE b = m
      <4>1. h[b - 1] = f[b - 1]
        BY <1>3, <2>1, <2>3, <3>2
      <4> QED BY <1>3, <2>1, <3>2, <4>1 DEF next
    <3>3. CASE b # 0 /\ b # m
      <4>1. b \in 1..(m - 1) /\ b \in 0..(m - 1) /\ b - 1 \in 0..(m - 1)
        BY <2>1, <3>3
      <4>2. h[b - 1] = f[b - 1] /\ h[b] = f[b]
        BY <2>3, <4>1
      <4> QED BY <2>4, <3>3, <4>1, <4>2
    <3> QED BY <3>1, <3>2, <3>3
  <2>6. h = [b \in 0..m |-> h[b]]
    OBVIOUS
  <2> HIDE DEF h
  <2>7. Processed(h, m, t, rows, a, S)
    BY <2>5, <2>6, Zenon DEF Processed
  <2> QED BY <1>1, <2>7
<1> QED BY <1>2, <1>3

LEMMA GroupedAllKeeps ==
  ASSUME NEW t, TopologyInv(t), NEW rows, NEW a, NEW S \in SUBSET Pairs
  PROVE  Kept(t, GroupedAll(t, rows, a, S), rows, S)
<1> DEFINE f == CHOOSE f : Processed(f, MaxArticles, t, rows, a, S)
           bad == {n \in 0..MaxArticles : ~Kept(t, f[n], rows, S)}
<1>1. GroupedAll(t, rows, a, S) = f[MaxArticles]
  BY DEF GroupedAll, Processed
<1>2. Processed(f, MaxArticles, t, rows, a, S)
  BY ProcessedExists, ArticlesAssumption
<1> HIDE DEF f
<1>3. f[0] = t /\ \A b \in 1..MaxArticles :
        f[b] = IF PairOf(a, b) \in S THEN Grouped(f[b - 1], rows, PairOf(a, b)) ELSE f[b - 1]
  BY <1>2, ArticlesAssumption DEF Processed
<1>4. Kept(t, t, rows, S)
  BY DEF Kept
<1>5. ASSUME NEW b \in 1..MaxArticles, Kept(t, f[b - 1], rows, S) PROVE Kept(t, f[b], rows, S)
  <2>1. TopologyInv(f[b - 1])
    BY <1>5 DEF Kept
  <2>2. CASE PairOf(a, b) \in S
    <3>1. Kept(f[b - 1], f[b], rows, S)
      BY <1>3, <2>1, <2>2, GroupedKeeps
    <3> QED BY <1>5, <3>1, KeptTwice
  <2> QED BY <1>3, <1>5, <2>2
<1>6. ASSUME bad # {} PROVE FALSE
  <2> DEFINE m == Min(bad)
  <2>1. bad \subseteq Nat
    BY ArticlesAssumption
  <2>2. m \in bad /\ \A n \in bad : m <= n
    BY <1>6, <2>1, Least
  <2> HIDE DEF m
  <2>3. m \in 1..MaxArticles /\ m - 1 \in 0..MaxArticles /\ m - 1 \notin bad
    BY <1>3, <1>4, <2>2, ArticlesAssumption
  <2> QED BY <1>5, <2>2, <2>3
<1>7. MaxArticles \in 0..MaxArticles
  BY ArticlesAssumption
<1> QED BY <1>1, <1>6, <1>7

\* A finite set of two members or more has two that differ.
LEMMA TwoDiffer ==
  ASSUME NEW S, IsFiniteSet(S)
  PROVE  Cardinality(S) >= 2 <=> \E x, y \in S : x # y
<1>1. Cardinality(S) \in Nat
  BY FS_CardinalityType
<1>2. ASSUME Cardinality(S) >= 2 PROVE \E x, y \in S : x # y
  <2>1. PICK x \in S : TRUE
    BY <1>1, <1>2, FS_EmptySet
  <2>2. IsFiniteSet(S \ {x}) /\ Cardinality(S \ {x}) = Cardinality(S) - 1
    BY <2>1, FS_RemoveElement
  <2>3. S \ {x} # {}
    BY <1>1, <1>2, <2>2, FS_EmptySet
  <2> QED BY <2>1, <2>3
<1>3. ASSUME NEW x \in S, NEW y \in S, x # y PROVE Cardinality(S) >= 2
  BY <1>1, <1>3, AtMostOne
<1> QED BY <1>2, <1>3

\* What a command that changes only the candidate rows of P makes of t.
Commanded(t, u, P) ==
  /\ TopologyInv(u) /\ DOMAIN u.cand = DOMAIN t.cand
  /\ \A p \in DOMAIN t.cand \ P : u.cand[p] = t.cand[p]

LEMMA StatesAlone ==
  ASSUME NEW t, TopologyType(t), NEW P, NEW s
  PROVE  LET u == CandStates(t, P, s) IN
         /\ TopologyType(u) /\ (Paired(t) => Paired(u))
         /\ \A p : Together(u, p) <=> Together(t, p)
         /\ u.seps = t.seps /\ DOMAIN u.cand = DOMAIN t.cand
         /\ \A p \in DOMAIN t.cand \intersect P : u.cand[p].state = s
         /\ \A p \in DOMAIN t.cand \ P : u.cand[p] = t.cand[p]
<1> DEFINE u == CandStates(t, P, s)
           cand == [p \in DOMAIN t.cand |->
                      IF p \in P THEN [t.cand[p] EXCEPT !.state = s] ELSE t.cand[p]]
<1>1. u \in [cand : {cand}, member : {t.member}, primary : {t.primary}, seps : {t.seps}]
  BY DEF CandStates, TopologyType
<1>2. \A p \in DOMAIN t.cand \intersect P : cand[p] \in [state : {s}, evidence : {cand[p].evidence}]
  BY DEF TopologyType
<1>3. DOMAIN cand = DOMAIN t.cand /\ \A p \in DOMAIN t.cand \ P : cand[p] = t.cand[p]
  OBVIOUS
<1> HIDE DEF u, cand
<1>4. \A p \in DOMAIN cand : cand[p] \in [state : {cand[p].state}, evidence : {cand[p].evidence}]
  BY <1>2, <1>3 DEF TopologyType
<1>5. TopologyType(u)
  BY <1>1, <1>3, <1>4 DEF TopologyType
<1> QED BY <1>1, <1>2, <1>3, <1>5 DEF Paired, Members, Together, u

LEMMA DismissedKeeps ==
  ASSUME NEW t, TopologyInv(t), NEW P
  PROVE  Commanded(t, CandStates(t, P, "dismissed"), P)
<1> DEFINE u == CandStates(t, P, "dismissed")
<1>1. /\ TopologyType(u) /\ Paired(u) /\ u.seps = t.seps /\ DOMAIN u.cand = DOMAIN t.cand
      /\ \A p : Together(u, p) <=> Together(t, p)
      /\ \A p \in DOMAIN t.cand \intersect P : u.cand[p].state = "dismissed"
      /\ \A p \in DOMAIN t.cand \ P : u.cand[p] = t.cand[p]
  BY StatesAlone DEF TopologyInv
<1> HIDE DEF u
<1>2. Reconciled(u)
  BY <1>1 DEF Reconciled, TopologyInv
<1> QED BY <1>1, <1>2 DEF Commanded, TopologyInv, u

LEMMA MergedKeeps ==
  ASSUME NEW t, TopologyInv(t), NEW rows, NEW S \in SUBSET Articles,
         NEW x \in S, NEW y \in S, x # y, NEW chosen
  PROVE  Commanded(t, Merged(t, rows, S, chosen), PairsOf(Component(t, S)))
<1> DEFINE P == PairsOf(Component(t, S))
           i == Joined(t, S, {})
           g == i.member[Min(S)]
           j == IF chosen = {} THEN i
                ELSE [i EXCEPT !.primary[g] = [art |-> Min(chosen), origin |-> "manual"]]
           k == IF chosen # {} \/ Cardinality(ManualPrimaries(t, S)) = 1
                THEN j ELSE Reselected(j, rows, j.member[Min(S)])
           v == [k EXCEPT !.seps = @ \ PairsOf(Members(k, j.member[Min(S)]))]
           u == CandStates(v, PairsOf(Members(k, j.member[Min(S)])), "merged")
<1>1. u = Merged(t, rows, S, chosen)
  BY DEF Merged
<1>2. Min(S) \in S
  BY Least DEF Articles
<1>3. /\ TopologyType(i) /\ Paired(i) /\ i.cand = t.cand /\ i.seps = t.seps
      /\ g \in DOMAIN i.primary /\ Members(i, g) = Component(t, S)
      /\ \A p \in Pairs : Together(i, p) <=> Together(t, p) \/ p \in P
  BY <1>2, JoinedGroups DEF TopologyInv
<1> HIDE DEF i, g
<1>4. /\ j \in [cand : {i.cand}, member : {i.member}, primary : {j.primary}, seps : {i.seps}]
      /\ DOMAIN j.primary = DOMAIN i.primary
  BY <1>3 DEF TopologyType
<1> HIDE DEF j
<1>5. TopologyType(j) /\ Members(j, g) = Component(t, S) /\ j.member[Min(S)] = g
  BY <1>3, <1>4, PrimaryAlone DEF g
<1>6. /\ k \in [cand : {j.cand}, member : {j.member}, primary : {k.primary}, seps : {j.seps}]
      /\ DOMAIN k.primary = DOMAIN j.primary
  BY <1>5, SettledGroups
<1> HIDE DEF k
<1>7. /\ k \in [cand : {i.cand}, member : {i.member}, primary : {k.primary}, seps : {i.seps}]
      /\ DOMAIN k.primary = DOMAIN i.primary
  BY <1>4, <1>6
<1>8. /\ TopologyType(k) /\ Paired(k) /\ Members(k, g) = Component(t, S)
      /\ \A p : Together(k, p) <=> Together(i, p)
  BY <1>3, <1>7, PrimaryAlone
<1>9. /\ v \in [cand : {t.cand}, member : {k.member}, primary : {k.primary}, seps : {t.seps \ P}]
      /\ u = CandStates(v, P, "merged")
  BY <1>3, <1>5, <1>7, <1>8
<1> HIDE DEF v, P
<1>10. /\ TopologyType(v) /\ Paired(v) /\ v.seps = t.seps \ P /\ v.cand = t.cand
       /\ \A p \in Pairs : Together(v, p) <=> Together(t, p) \/ p \in P
  BY <1>3, <1>7, <1>8, <1>9 DEF TopologyType, Paired, Members, Together
<1>11. /\ TopologyType(u) /\ Paired(u) /\ u.seps = t.seps \ P /\ DOMAIN u.cand = DOMAIN t.cand
       /\ \A p \in Pairs : Together(u, p) <=> Together(t, p) \/ p \in P
       /\ \A p \in DOMAIN t.cand \ P : u.cand[p] = t.cand[p]
  BY <1>9, <1>10, StatesAlone
<1> HIDE DEF u
<1>12. Reconciled(u)
  BY <1>11 DEF Reconciled, TopologyInv, TopologyType
<1> QED BY <1>1, <1>11, <1>12 DEF Commanded, TopologyInv, P

\* Members leave a group: its pairs that are together no more are those of
\* the members that leave.
LEMMA WithoutGroups ==
  ASSUME NEW t, TopologyType(t), Paired(t), NEW rows, NEW g \in DOMAIN t.primary,
         NEW R \in SUBSET Members(t, g)
  PROVE  LET u == WithoutMembers(t, rows, g, R) IN
         /\ TopologyType(u) /\ Paired(u) /\ u.cand = t.cand /\ u.seps = t.seps
         /\ \A p \in Pairs : Together(u, p) <=> /\ Together(t, p)
                                                /\ p \notin PairsAcross(R, Members(t, g))
<1> DEFINE u == WithoutMembers(t, rows, g, R)
           M == Members(t, g)
           rest == M \ R
           left == [t EXCEPT !.member = Restrict(t.member, DOMAIN t.member \ R)]
<1>1. M \subseteq Articles /\ IsFiniteSet(rest) /\ Cardinality(rest) \in Nat
  <2>1. M \subseteq Articles /\ rest \subseteq Articles
    BY DEF Members, TopologyType
  <2>2. IsFiniteSet(rest)
    BY <2>1, ArticlesFinite, FS_Subset
  <2> QED BY <2>1, <2>2, FS_CardinalityType
<1>2. \A p \in Pairs : p[1] # p[2] /\ p[1] \in Articles /\ p[2] \in Articles
  BY DEF Pairs, Articles
<1>3. \A p \in Pairs : p \in PairsAcross(R, M) <=> \/ p[1] \in R /\ p[2] \in M
                                                   \/ p[1] \in M /\ p[2] \in R
  BY DEF PairsAcross
<1>4. \A a : a \in M <=> a \in DOMAIN t.member /\ t.member[a] = g
  BY DEF Members
<1> HIDE DEF M
<1>5. CASE Cardinality(rest) < 2
  <2>1. /\ u \in [cand : {t.cand}, member : {u.member}, primary : {u.primary}, seps : {t.seps}]
        /\ u.member = [a \in DOMAIN t.member \ M |-> t.member[a]]
        /\ DOMAIN u.primary = DOMAIN t.primary \ {g}
    BY <1>5 DEF WithoutMembers, TopologyType, Restrict, M
  <2> HIDE DEF u
  <2>2. TopologyType(u)
    BY <1>4, <2>1 DEF TopologyType
  <2>3. \A h \in DOMAIN t.primary : h # g => Members(u, h) = Members(t, h)
    BY <1>4, <2>1 DEF Members
  <2>4. Paired(u)
    BY <2>1, <2>3 DEF Paired
  <2>5. ASSUME NEW p \in Pairs, p[1] \in M, p[2] \in M PROVE p \in PairsAcross(R, M)
    BY <1>1, <1>2, <1>3, <1>5, <2>5, AtMostOne
  <2>6. ASSUME NEW p \in Pairs
        PROVE  Together(u, p) <=> Together(t, p) /\ p \notin PairsAcross(R, M)
    BY <1>3, <1>4, <2>1, <2>5 DEF Together
  <2> QED BY <2>1, <2>2, <2>4, <2>6 DEF u, M
<1>6. CASE ~(Cardinality(rest) < 2)
  <2>1. /\ left \in [cand : {t.cand}, member : {left.member}, primary : {t.primary}, seps : {t.seps}]
        /\ left.member = [a \in DOMAIN t.member \ R |-> t.member[a]]
        /\ u \in {left, Reselected(left, rows, g), Settled(left, rows, g)}
    BY <1>6 DEF WithoutMembers, TopologyType, Restrict, M
  <2> HIDE DEF left, u
  <2>2. TopologyType(left)
    BY <2>1 DEF TopologyType
  <2>3. \E a, b \in rest : a # b
    BY <1>1, <1>6, TwoDiffer
  <2>4. rest \subseteq Members(left, g)
    BY <1>4, <2>1 DEF Members
  <2>5. \A h \in DOMAIN t.primary : h # g => Members(left, h) = Members(t, h)
    BY <1>4, <2>1 DEF Members, M
  <2>6. Paired(left)
    BY <2>1, <2>3, <2>4, <2>5 DEF Paired
  <2>7. ASSUME NEW p \in Pairs
        PROVE  Together(left, p) <=> Together(t, p) /\ p \notin PairsAcross(R, M)
    BY <1>3, <1>4, <2>1 DEF Together, M
  <2>8. /\ u \in [cand : {left.cand}, member : {left.member}, primary : {u.primary},
                  seps : {left.seps}]
        /\ DOMAIN u.primary = DOMAIN left.primary
    BY <2>1, <2>2, SettledGroups
  <2>9. TopologyType(u) /\ Paired(u) /\ \A p : Together(u, p) <=> Together(left, p)
    BY <2>2, <2>6, <2>8, PrimaryAlone
  <2> QED BY <2>1, <2>7, <2>8, <2>9 DEF u, M
<1> QED BY <1>5, <1>6

LEMMA SplitKeeps ==
  ASSUME NEW t, TopologyInv(t), NEW rows, NEW g \in DOMAIN t.primary,
         NEW R \in SUBSET Members(t, g)
  PROVE  Commanded(t, SplitOff(t, rows, g, R), PairsAcross(R, Members(t, g)))
<1> DEFINE w == WithoutMembers(t, rows, g, R)
           apart == PairsAcross(R, Members(t, g))
           undone == {p \in apart \intersect DOMAIN t.cand : t.cand[p].state = "merged"}
           v == [w EXCEPT !.seps = @ \union apart]
           u == CandStates(v, undone, "dismissed")
<1>1. u = SplitOff(t, rows, g, R) /\ apart \subseteq Pairs
  BY DEF SplitOff, PairsAcross
<1>2. /\ TopologyType(w) /\ Paired(w) /\ w.cand = t.cand /\ w.seps = t.seps
      /\ \A p \in Pairs : Together(w, p) <=> Together(t, p) /\ p \notin apart
  BY WithoutGroups DEF TopologyInv
<1> HIDE DEF w, apart
<1>3. v \in [cand : {t.cand}, member : {w.member}, primary : {w.primary},
             seps : {t.seps \union apart}]
  BY <1>2 DEF TopologyType
<1> HIDE DEF v
<1>4. /\ TopologyType(v) /\ Paired(v) /\ v.seps = t.seps \union apart /\ v.cand = t.cand
      /\ \A p \in Pairs : Together(v, p) <=> Together(t, p) /\ p \notin apart
  BY <1>1, <1>2, <1>3 DEF TopologyType, Paired, Members, Together
<1>5. /\ TopologyType(u) /\ Paired(u) /\ u.seps = t.seps \union apart
      /\ DOMAIN u.cand = DOMAIN t.cand
      /\ \A p \in Pairs : Together(u, p) <=> Together(t, p) /\ p \notin apart
      /\ \A p \in DOMAIN t.cand \intersect undone : u.cand[p].state = "dismissed"
      /\ \A p \in DOMAIN t.cand \ undone : u.cand[p] = t.cand[p]
  BY <1>4, StatesAlone
<1> HIDE DEF u
<1>6. Reconciled(u)
  BY <1>1, <1>5 DEF Reconciled, TopologyInv, TopologyType
<1> QED BY <1>1, <1>5, <1>6 DEF Commanded, TopologyInv, apart

\* The rows that a collector has found stay what detection makes of the
\* committed ones: it holds them.
FoundIn(t, f) ==
  /\ DOMAIN f \subseteq Pairs
  /\ \A p \in DOMAIN f : \E ev : f[p] = Reviewed(CandOf(t, p), ev)

CandidatesInv ==
  /\ \A c \in Collectors : /\ FoundIn(topo, tx[c].found)
                           /\ tx[c].pc # "detected" => DOMAIN tx[c].found = {}
  /\ \A c, d \in Collectors : c # d => CandLocks(c) \intersect CandLocks(d) = {}

GroupsInv == TopologyInv(topo) /\ CandidatesInv

LEMMA ReviewedRow ==
  ASSUME NEW t, TopologyType(t), NEW p, NEW ev
  PROVE  LET old == CandOf(t, p)
             new == Reviewed(old, ev) IN
         /\ new \in [state : {new.state}, evidence : {new.evidence}]
         /\ new.state = "merged" => old.state = "merged"
         /\ old.state = "dismissed" =>
              new.state = "dismissed" \/ new.evidence # old.evidence
         /\ old.state = "merged" => p \in DOMAIN t.cand
BY DEF Reviewed, CandOf, TopologyType

\* One collector moves, the candidate rows it holds are new to the others.
LEMMA OneHolderMoves ==
  ASSUME CollectorsInv, CandidatesInv, NEW c \in Collectors, NEW t, tx' = [tx EXCEPT ![c] = t],
         UNCHANGED topo, FoundIn(topo, t.found), t.pc # "detected" => DOMAIN t.found = {},
         \A d \in Collectors \ {c} : DOMAIN t.found \intersect CandLocks(d) = {}
  PROVE  CandidatesInv'
<1>1. tx'[c] = t /\ \A d \in Collectors \ {c} : tx'[d] = tx[d]
  BY DEF CollectorsInv
<1>2. \A d \in Collectors : /\ FoundIn(topo', tx'[d].found)
                            /\ tx'[d].pc # "detected" => DOMAIN tx'[d].found = {}
  BY <1>1 DEF CandidatesInv
<1>3. CandLocks(c)' = DOMAIN t.found /\ \A d \in Collectors \ {c} : CandLocks(d)' = CandLocks(d)
  BY <1>1 DEF CandLocks
<1>4. \A a, b \in Collectors : a # b => CandLocks(a)' \intersect CandLocks(b)' = {}
  BY <1>3 DEF CandidatesInv
<1> QED BY <1>2, <1>4 DEF CandidatesInv

\* The topology changes, and the candidate rows that collectors hold do not.
LEMMA HeldRowsStay ==
  ASSUME CandidatesInv, NEW c \in Collectors,
         \A p \in CandLocks(c) : CandOf(topo', p) = CandOf(topo, p)
  PROVE  FoundIn(topo', tx[c].found)
BY DEF CandidatesInv, FoundIn, CandLocks

LEMMA NothingHeld ==
  ASSUME NEW t
  PROVE  Idle.pc # "detected" /\ DOMAIN Idle.found = {} /\ FoundIn(t, Idle.found)
BY DEF Idle, FoundIn

LEMMA WriteKeepsGroups ==
  ASSUME ArticlesInv, GroupsInv, NEW c \in Collectors,
         Fail(c) \/ Write(c) \/ \E item \in Feed : Begin(c, item)
  PROVE  GroupsInv'
<1>1. UNCHANGED topo /\ CollectorsInv /\ Transaction(tx[c])
  BY DEF Fail, Write, Begin, ArticlesInv, CollectorsInv, CollectorInv
<1>2. PICK t : tx' = [tx EXCEPT ![c] = t] /\ DOMAIN t.found = {}
  <2>1. CASE Fail(c)
    BY <2>1, NothingHeld DEF Fail
  <2>2. ASSUME NEW item, Begin(c, item) PROVE \E t : tx' = [tx EXCEPT ![c] = t] /\ DOMAIN t.found = {}
    <3> DEFINE t == tx'[c]
    <3>1. tx' = [tx EXCEPT ![c] = t] /\ t.found = Idle.found
      BY <1>1, <2>2 DEF Begin, CollectorsInv, Idle
    <3> QED BY <3>1, NothingHeld
  <2>3. CASE Write(c)
    <3> DEFINE t == tx'[c]
    <3>1. tx' = [tx EXCEPT ![c] = t] /\ t.found \in {tx[c].found, Idle.found}
      BY <1>1, <2>3 DEF Write, CollectorsInv, Transaction
    <3>2. DOMAIN tx[c].found = {}
      BY <2>3 DEF Write, GroupsInv, CandidatesInv
    <3> QED BY <3>1, <3>2, NothingHeld
  <2> QED BY <2>1, <2>2, <2>3
<1>3. FoundIn(topo, t.found)
  BY <1>2 DEF FoundIn
<1>4. CandidatesInv'
  BY <1>1, <1>2, <1>3, OneHolderMoves DEF GroupsInv
<1> QED BY <1>1, <1>4 DEF GroupsInv

LEMMA DetectKeepsGroups ==
  ASSUME ArticlesInv, GroupsInv, NEW c \in Collectors, Detect(c) PROVE GroupsInv'
<1> DEFINE P == PairsAcross({tx[c].id}, Suspects(c))
           ev(p) == Evidence(View(c)[p[1]], View(c)[p[2]])
           found == [p \in P |-> Reviewed(CandOf(topo, p), ev(p))]
           t == [tx[c] EXCEPT !.pc = "detected", !.found = found]
<1>1. /\ UNCHANGED topo /\ CollectorsInv /\ Transaction(tx[c])
      /\ tx' = [tx EXCEPT ![c] = t] /\ CandsFree(P, Collectors \ {c})
  BY DEF Detect, ArticlesInv, CollectorsInv, CollectorInv
<1>2. P \subseteq Pairs /\ DOMAIN found = P
  BY DEF PairsAcross
<1>3. FoundIn(topo, found)
  BY <1>2 DEF FoundIn
<1> HIDE DEF found, P
<1>4. t.pc = "detected" /\ t.found = found
  BY <1>1 DEF Transaction
<1> HIDE DEF t
<1>5. \A d \in Collectors \ {c} : DOMAIN t.found \intersect CandLocks(d) = {}
  BY <1>1, <1>2, <1>4 DEF CandsFree
<1>6. CandidatesInv'
  BY <1>1, <1>3, <1>4, <1>5, OneHolderMoves DEF GroupsInv
<1> QED BY <1>1, <1>6 DEF GroupsInv

\* The topology that detection leaves for grouping.
LEMMA DetectedGroups ==
  ASSUME GroupsInv, NEW c \in Collectors
  PROVE  LET t == Detected(topo, tx[c].found) IN
         /\ t \in [cand : {t.cand}, member : {topo.member}, primary : {topo.primary},
                   seps : {topo.seps}]
         /\ TopologyInv(t)
         /\ DOMAIN t.cand = DOMAIN topo.cand \union DOMAIN tx[c].found
         /\ \A p \in DOMAIN tx[c].found : t.cand[p] = tx[c].found[p]
         /\ \A p \in DOMAIN topo.cand \ DOMAIN tx[c].found : t.cand[p] = topo.cand[p]
<1> DEFINE f == tx[c].found
           t == Detected(topo, f)
<1>1. FoundIn(topo, f) /\ TopologyType(topo) /\ Paired(topo) /\ Reconciled(topo)
  BY DEF GroupsInv, CandidatesInv, TopologyInv
<1> HIDE DEF f
<1>2. /\ t \in [cand : {t.cand}, member : {topo.member}, primary : {topo.primary},
                seps : {topo.seps}]
      /\ DOMAIN t.cand = DOMAIN topo.cand \union DOMAIN f
      /\ \A p \in DOMAIN f : t.cand[p] = f[p]
      /\ \A p \in DOMAIN topo.cand \ DOMAIN f : t.cand[p] = topo.cand[p]
  BY <1>1 DEF Detected, TopologyType
<1> HIDE DEF t
<1>3. \A p \in DOMAIN f : /\ f[p] \in [state : {f[p].state}, evidence : {f[p].evidence}]
                          /\ f[p].state = "merged" =>
                               p \in DOMAIN topo.cand /\ topo.cand[p].state = "merged"
  BY <1>1, ReviewedRow DEF FoundIn, CandOf
<1>4. TopologyType(t)
  BY <1>1, <1>2, <1>3 DEF TopologyType, FoundIn
<1>5. Paired(t) /\ \A p : Together(t, p) <=> Together(topo, p)
  BY <1>1, <1>2 DEF Paired, Members, Together
<1>6. Reconciled(t)
  BY <1>1, <1>2, <1>3, <1>5 DEF Reconciled
<1> QED BY <1>2, <1>4, <1>5, <1>6 DEF TopologyInv, f, t

\* What a commit makes of the topology.
LEMMA CommittedGroups ==
  ASSUME GroupsInv, NEW c \in Collectors, GroupAndCommit(c)
  PROVE  /\ TopologyInv(topo')
         /\ DOMAIN topo'.cand = DOMAIN topo.cand \union DOMAIN tx[c].found
         /\ \A p \in DOMAIN topo.cand \ DOMAIN tx[c].found : topo'.cand[p] = topo.cand[p]
         /\ \A p \in DOMAIN tx[c].found : \E ev :
              LET new == Reviewed(CandOf(topo, p), ev) IN
              /\ topo'.cand[p].evidence = new.evidence
              /\ topo'.cand[p].state # new.state =>
                   /\ new.state = "pending" /\ topo'.cand[p].state = "merged"
                   /\ articles'[p[1]].url = articles'[p[2]].url
<1> DEFINE f == tx[c].found
           t == Detected(topo, f)
           S == StrongPending(c)
<1>1. FoundIn(topo, f)
  BY DEF GroupsInv, CandidatesInv
<1>2. topo' = GroupedAll(t, articles', tx[c].id, S) /\ S \subseteq DOMAIN f
  BY DEF GroupAndCommit, StrongPending
<1>3. /\ TopologyInv(t) /\ DOMAIN t.cand = DOMAIN topo.cand \union DOMAIN f
      /\ \A p \in DOMAIN f : t.cand[p] = f[p]
      /\ \A p \in DOMAIN topo.cand \ DOMAIN f : t.cand[p] = topo.cand[p]
  BY DetectedGroups
<1> HIDE DEF f, S, t
<1>4. Kept(t, topo', articles', S)
  BY <1>1, <1>2, <1>3, GroupedAllKeeps DEF FoundIn
<1>5. ASSUME NEW p \in DOMAIN topo.cand \ DOMAIN f PROVE topo'.cand[p] = topo.cand[p]
  BY <1>2, <1>3, <1>4 DEF Kept
<1>6. ASSUME NEW p \in DOMAIN f
       PROVE  \E ev : LET new == Reviewed(CandOf(topo, p), ev) IN
                /\ topo'.cand[p].evidence = new.evidence
                /\ topo'.cand[p].state # new.state =>
                     /\ new.state = "pending" /\ topo'.cand[p].state = "merged"
                     /\ articles'[p[1]].url = articles'[p[2]].url
  <2>1. PICK ev : f[p] = Reviewed(CandOf(topo, p), ev)
    BY <1>1 DEF FoundIn
  <2>2. p \in DOMAIN t.cand /\ t.cand[p] = Reviewed(CandOf(topo, p), ev)
    BY <1>3, <2>1
  <2> QED BY <1>4, <2>2 DEF Kept
<1> QED BY <1>3, <1>4, <1>5, <1>6 DEF Kept, f

LEMMA CommitKeepsGroups ==
  ASSUME ArticlesInv, GroupsInv, NEW c \in Collectors, GroupAndCommit(c) PROVE GroupsInv'
<1>1. /\ TopologyInv(topo')
      /\ DOMAIN topo'.cand = DOMAIN topo.cand \union CandLocks(c)
      /\ \A p \in DOMAIN topo.cand \ CandLocks(c) : topo'.cand[p] = topo.cand[p]
  BY CommittedGroups DEF CandLocks
<1>2. /\ tx'[c] = Idle /\ \A d \in Collectors \ {c} : tx'[d] = tx[d]
  BY DEF GroupAndCommit, ArticlesInv, CollectorsInv
<1>3. CandLocks(c)' = {} /\ \A d \in Collectors \ {c} : CandLocks(d)' = CandLocks(d)
  BY <1>2, NothingHeld DEF CandLocks
<1>4. ASSUME NEW d \in Collectors \ {c} PROVE FoundIn(topo', tx[d].found)
  <2>1. CandLocks(c) \intersect CandLocks(d) = {}
    BY DEF GroupsInv, CandidatesInv
  <2>2. \A p \in CandLocks(d) : CandOf(topo', p) = CandOf(topo, p)
    BY <1>1, <2>1 DEF CandOf
  <2> QED BY <2>2, HeldRowsStay DEF GroupsInv
<1>5. \A d \in Collectors : /\ FoundIn(topo', tx'[d].found)
                            /\ tx'[d].pc # "detected" => DOMAIN tx'[d].found = {}
  BY <1>2, <1>4, NothingHeld DEF GroupsInv, CandidatesInv
<1>6. \A a, b \in Collectors : a # b => CandLocks(a)' \intersect CandLocks(b)' = {}
  BY <1>3 DEF GroupsInv, CandidatesInv
<1> QED BY <1>1, <1>5, <1>6 DEF GroupsInv, CandidatesInv

\* A command leaves the rows alone that a collector holds.
LEMMA CommandKeepsGroups ==
  ASSUME GroupsInv, UNCHANGED tx, NEW P, CandsFree(P, Collectors), Commanded(topo, topo', P)
  PROVE  GroupsInv'
<1>1. ASSUME NEW c \in Collectors PROVE FoundIn(topo', tx[c].found)
  <2>1. CandLocks(c) \intersect P = {}
    BY DEF CandsFree
  <2>2. \A p \in CandLocks(c) : CandOf(topo', p) = CandOf(topo, p)
    BY <2>1 DEF CandOf, Commanded
  <2> QED BY <2>2, HeldRowsStay DEF GroupsInv
<1>2. CandidatesInv'
  BY <1>1 DEF GroupsInv, CandidatesInv, CandLocks
<1> QED BY <1>2 DEF GroupsInv, Commanded

LEMMA CommandsLeaveTransactions ==
  ASSUME OperatorNext PROVE UNCHANGED tx
<1>1. ASSUME NEW a, NEW f, NEW v, Moderate(a, f, v) PROVE UNCHANGED tx
  BY <1>1 DEF Moderate
<1> QED BY <1>1, OperatorLeaves

\* A topology as it was, and whatever changes no candidate row and no group.
LEMMA NothingChanges ==
  ASSUME GroupsInv, UNCHANGED <<topo, tx>> PROVE GroupsInv'
BY DEF GroupsInv, CandidatesInv, CandLocks

LEMMA ChoosePrimaryKeeps ==
  ASSUME NEW t, TopologyInv(t), NEW g, NEW x
  PROVE  Commanded(t, [t EXCEPT !.primary[g] = x], {})
<1> DEFINE u == [t EXCEPT !.primary[g] = x]
<1>1. /\ u \in [cand : {t.cand}, member : {t.member}, primary : {u.primary}, seps : {t.seps}]
      /\ DOMAIN u.primary = DOMAIN t.primary
  BY DEF TopologyInv, TopologyType
<1> HIDE DEF u
<1>2. TopologyType(u) /\ Paired(u) /\ \A p : Together(u, p) <=> Together(t, p)
  BY <1>1, PrimaryAlone DEF TopologyInv
<1>3. Reconciled(u)
  BY <1>1, <1>2 DEF Reconciled, TopologyInv
<1> QED BY <1>1, <1>2, <1>3 DEF Commanded, TopologyInv, u

LEMMA CommandsKeepGroups ==
  ASSUME ArticlesInv, GroupsInv, OperatorNext PROVE GroupsInv'
<1>1. ASSUME NEW t, TryTopology(t) PROVE topo' = t \/ UNCHANGED <<topo, tx>>
  BY <1>1 DEF TryTopology, Refused, vars
<1>2. ASSUME NEW t, TryTopology(t), NEW P, CandsFree(P, Collectors), Commanded(topo, t, P)
      PROVE  GroupsInv'
  BY <1>1, <1>2, CommandsLeaveTransactions, CommandKeepsGroups, NothingChanges
<1>3. ASSUME Refused PROVE GroupsInv'
  BY <1>3, NothingChanges DEF Refused, vars
<1>4. TopologyInv(topo)
  BY DEF GroupsInv
<1>5. ASSUME NEW p, Dismiss(p) PROVE GroupsInv'
  <2>1. Commanded(topo, CandStates(topo, {p}, "dismissed"), {p})
    BY <1>4, DismissedKeeps
  <2> QED BY <1>2, <1>3, <1>5, <2>1 DEF Dismiss
<1>6. ASSUME NEW S \in SUBSET DOMAIN articles, Cardinality(S) >= 2, NEW chosen, Merge(S, chosen)
      PROVE  GroupsInv'
  <2>1. S \subseteq Articles
    BY DEF ArticlesInv, StoreInv, RowsType
  <2>2. IsFiniteSet(S)
    BY <2>1, ArticlesFinite, FS_Subset
  <2>3. PICK x \in S, y \in S : x # y
    BY <1>6, <2>2, TwoDiffer
  <2>4. Commanded(topo, Merged(topo, articles, S, chosen), PairsOf(Component(topo, S)))
    BY <1>4, <2>1, <2>3, MergedKeeps
  <2> QED BY <1>2, <1>3, <1>6, <2>4 DEF Merge
<1>7. ASSUME NEW g \in DOMAIN topo.primary, NEW R \in SUBSET Members(topo, g), Split(g, R)
      PROVE  GroupsInv'
  <2>1. Commanded(topo, SplitOff(topo, articles, g, R), PairsAcross(R, Members(topo, g)))
    BY <1>4, SplitKeeps
  <2> QED BY <1>2, <1>7, <2>1 DEF Split
<1>8. ASSUME NEW g, NEW a, ChoosePrimary(g, a) PROVE GroupsInv'
  <2>1. CandsFree({}, Collectors)
    BY DEF CandsFree
  <2>2. \A x : Commanded(topo, [topo EXCEPT !.primary[g] = x], {})
    BY <1>4, ChoosePrimaryKeeps
  <2> QED BY <1>2, <1>3, <1>8, <2>1, <2>2 DEF ChoosePrimary
<1>9. ASSUME NEW s, NEW k, EditSetting(s, k) PROVE GroupsInv'
  BY <1>9, NothingChanges DEF EditSetting
<1>10. ASSUME NEW a, NEW f, NEW v, Moderate(a, f, v) PROVE GroupsInv'
  BY <1>10, NothingChanges DEF Moderate
<1> QED BY <1>5, <1>6, <1>7, <1>8, <1>9, <1>10 DEF OperatorNext

LEMMA GroupsInit == Init => GroupsInv
<1> SUFFICES ASSUME Init PROVE GroupsInv
  OBVIOUS
<1>1. topo = EmptyTopology /\ \A c \in Collectors : tx[c] = Idle
  BY DEF Init
<1>2. TopologyInv(EmptyTopology)
  BY DEF EmptyTopology, TopologyInv, TopologyType, Paired, Reconciled
<1>3. CandidatesInv
  BY <1>1, NothingHeld DEF CandidatesInv, CandLocks
<1> QED BY <1>1, <1>2, <1>3 DEF GroupsInv

LEMMA GroupsStep == ArticlesInv /\ GroupsInv /\ [Next]_vars => GroupsInv'
<1> SUFFICES ASSUME ArticlesInv, GroupsInv, [Next]_vars PROVE GroupsInv'
  OBVIOUS
<1>1. ASSUME NEW c \in Collectors, CollectorNext(c) PROVE GroupsInv'
  <2>1. CASE Fail(c) \/ Write(c) \/ \E item \in Feed : Begin(c, item)
    BY <2>1, WriteKeepsGroups
  <2>2. ASSUME NEW item, Exclude(c, item) PROVE GroupsInv'
    BY <2>2, NothingChanges DEF Exclude
  <2>3. CASE Detect(c)
    BY <2>3, DetectKeepsGroups
  <2>4. CASE GroupAndCommit(c)
    BY <2>4, CommitKeepsGroups
  <2> QED BY <1>1, <2>1, <2>2, <2>3, <2>4 DEF CollectorNext
<1>2. ASSUME UNCHANGED vars PROVE GroupsInv'
  BY <1>2, NothingChanges DEF vars
<1> QED BY <1>1, <1>2, CommandsKeepGroups DEF Next

LEMMA GroupsInvariant == Spec => [](ArticlesInv /\ GroupsInv)
BY ArticlesInit, ArticlesStep, GroupsInit, GroupsStep, PTL DEF Spec

\* Whatever the order of detection, grouping and operator's commands, a group
\* has two members or more, a merged review names Articles of one group, and
\* Articles an operator has separated are in different groups.
THEOREM TopologyHolds == Spec => []TopologySound
<1>1. GroupsInv => TopologySound
  <2> SUFFICES ASSUME TopologyInv(topo) PROVE GroupsMatchReviews /\ SeparationHolds
    BY DEF GroupsInv, TopologySound
  <2>1. ASSUME NEW g \in DOMAIN topo.primary PROVE Cardinality(Members(topo, g)) >= 2
    <3>1. Members(topo, g) \subseteq Articles
      BY DEF TopologyInv, TopologyType, Members
    <3>2. IsFiniteSet(Members(topo, g))
      BY <3>1, ArticlesFinite, FS_Subset
    <3> QED BY <3>2, TwoDiffer DEF TopologyInv, Paired
  <2>2. \A p : Together(topo, p) <=> /\ GroupOf(topo, p[1]) # {}
                                     /\ GroupOf(topo, p[1]) = GroupOf(topo, p[2])
    BY DEF Together, GroupOf
  <2> QED BY <2>1, <2>2 DEF TopologyInv, Reconciled, GroupsMatchReviews, SeparationHolds
<1> QED BY <1>1, GroupsInvariant, PTL

\* A collector joins only Articles whose canonical URLs are equal as it
\* commits.
THEOREM GroupsRestOnEvidence == Spec => GroupingHasEvidence
<1> DEFINE A == \A c \in Collectors : tx'[c] # tx[c] =>
                  \A p \in DOMAIN topo'.cand :
                    topo'.cand[p].state = "merged" /\ CandOf(topo, p).state # "merged" =>
                      articles'[p[1]].url = articles'[p[2]].url
<1>1. ASSUME ArticlesInv, GroupsInv, [Next]_vars PROVE [A]_vars
  <2> SUFFICES ASSUME NEW p \in DOMAIN topo'.cand, topo'.cand[p].state = "merged",
                      CandOf(topo, p).state # "merged", tx' # tx
               PROVE  articles'[p[1]].url = articles'[p[2]].url
    OBVIOUS
  <2>1. ASSUME topo' = topo PROVE FALSE
    BY <2>1 DEF CandOf
  <2>2. PICK c \in Collectors : CollectorNext(c)
    BY <1>1, CommandsLeaveTransactions DEF Next, vars
  <2>3. GroupAndCommit(c)
    BY <2>1, <2>2 DEF CollectorNext, Begin, Exclude, Write, Detect, Fail
  <2>4. p \in DOMAIN tx[c].found
    BY <1>1, <2>3, CommittedGroups DEF CandOf
  <2>5. PICK ev : LET new == Reviewed(CandOf(topo, p), ev) IN
          topo'.cand[p].state # new.state => articles'[p[1]].url = articles'[p[2]].url
    BY <1>1, <2>3, <2>4, CommittedGroups
  <2>6. Reviewed(CandOf(topo, p), ev).state # "merged"
    BY <1>1, ReviewedRow DEF GroupsInv, TopologyInv
  <2> QED BY <2>5, <2>6
<1>2. Spec => [][A]_vars
  BY <1>1, GroupsInvariant, PTL DEF Spec
<1> QED BY <1>2 DEF GroupingHasEvidence

\* Detection reopens a review that was dismissed only for other evidence.
THEOREM DismissalsStick == Spec => DismissalSticks
<1> DEFINE A == \A p \in DOMAIN topo.cand :
                  topo.cand[p].state = "dismissed" /\ topo'.cand[p].state # "dismissed" =>
                    topo'.cand[p].evidence # topo.cand[p].evidence \/ UNCHANGED tx
<1>1. ASSUME ArticlesInv, GroupsInv, [Next]_vars PROVE [A]_vars
  <2> SUFFICES ASSUME NEW p \in DOMAIN topo.cand, topo.cand[p].state = "dismissed",
                      topo'.cand[p].state # "dismissed", tx' # tx
               PROVE  topo'.cand[p].evidence # topo.cand[p].evidence
    OBVIOUS
  <2>1. topo' # topo
    OBVIOUS
  <2>2. PICK c \in Collectors : CollectorNext(c)
    BY <1>1, CommandsLeaveTransactions DEF Next, vars
  <2>3. GroupAndCommit(c)
    BY <2>1, <2>2 DEF CollectorNext, Begin, Exclude, Write, Detect, Fail
  <2>4. p \in DOMAIN tx[c].found
    BY <1>1, <2>1, <2>3, CommittedGroups
  <2>5. PICK ev : LET new == Reviewed(CandOf(topo, p), ev) IN
          /\ topo'.cand[p].evidence = new.evidence
          /\ topo'.cand[p].state # new.state => new.state = "pending"
    BY <1>1, <2>3, <2>4, CommittedGroups
  <2>6. LET new == Reviewed(CandOf(topo, p), ev) IN
          new.state = "dismissed" \/ new.evidence # topo.cand[p].evidence
    BY <1>1, ReviewedRow DEF GroupsInv, TopologyInv, CandOf
  <2> QED BY <2>5, <2>6
<1>2. Spec => [][A]_vars
  BY <1>1, GroupsInvariant, PTL DEF Spec
<1> QED BY <1>2 DEF DismissalSticks
-----------------------------------------------------------------------------
(* The Primary of a group.                                                 *)

\* What comparePrimaryCandidates compares, the first that differs deciding.
Quad == Int \X Int \X Int \X Int
Earlier(u, v) ==
  \/ u[1] < v[1]
  \/ u[1] = v[1] /\ u[2] < v[2]
  \/ u[1] = v[1] /\ u[2] = v[2] /\ u[3] < v[3]
  \/ u[1] = v[1] /\ u[2] = v[2] /\ u[3] = v[3] /\ u[4] < v[4]

LEMMA FirstDifference ==
  ASSUME NEW u \in Quad, NEW v \in Quad, u # v
  PROVE  LET d == CHOOSE i \in 1..4 : u[i] # v[i] /\ \A j \in 1..(i - 1) : u[j] = v[j]
         IN  u[d] < v[d] <=> Earlier(u, v)
<1> DEFINE First(i) == u[i] # v[i] /\ \A j \in 1..(i - 1) : u[j] = v[j]
           d == CHOOSE i \in 1..4 : First(i)
<1>1. /\ u = <<u[1], u[2], u[3], u[4]>> /\ v = <<v[1], v[2], v[3], v[4]>>
      /\ \A i \in 1..4 : u[i] \in Int /\ v[i] \in Int
  BY DEF Quad
<1>2. u[1] # v[1] \/ u[2] # v[2] \/ u[3] # v[3] \/ u[4] # v[4]
  BY <1>1
<1>3. \E i \in 1..4 : First(i)
  <2>1. CASE u[1] # v[1]
    <3>1. First(1)
      BY <2>1
    <3> QED BY <3>1
  <2>2. CASE u[1] = v[1] /\ u[2] # v[2]
    <3>1. First(2)
      BY <2>2
    <3> QED BY <3>1
  <2>3. CASE u[1] = v[1] /\ u[2] = v[2] /\ u[3] # v[3]
    <3>1. First(3)
      BY <2>3
    <3> QED BY <3>1
  <2>4. CASE u[1] = v[1] /\ u[2] = v[2] /\ u[3] = v[3] /\ u[4] # v[4]
    <3>1. First(4)
      BY <2>4
    <3> QED BY <3>1
  <2> QED BY <1>2, <2>1, <2>2, <2>3, <2>4
<1>4. d \in 1..4 /\ First(d)
  BY <1>3
<1> HIDE DEF d
<1>5. \A j \in 1..4 : j < d => u[j] = v[j]
  BY <1>4
<1>6. d = 1 \/ d = 2 \/ d = 3 \/ d = 4
  BY <1>4
<1>7. u[d] < v[d] <=> Earlier(u, v)
  BY <1>1, <1>4, <1>5, <1>6 DEF Earlier
<1> QED BY <1>7 DEF d

\* The values of a row that the choice of a Primary compares are numbers.
Rankable(r) == r.source \in Sources /\ r.quality \in Int /\ r.first \in Int
RankOf(rows, x) == <<-Priority[rows[x].source], -rows[x].quality, rows[x].first, x>>

LEMMA PreferredIsEarlier ==
  ASSUME NEW rows, NEW a \in Int, NEW b \in Int, a # b, Rankable(rows[a]), Rankable(rows[b])
  PROVE  /\ RankOf(rows, a) \in Quad /\ RankOf(rows, b) \in Quad
         /\ Preferred(rows, a, b) <=> Earlier(RankOf(rows, a), RankOf(rows, b))
<1> DEFINE u == RankOf(rows, a)
           v == RankOf(rows, b)
<1>1. -Priority[rows[a].source] \in Int /\ -Priority[rows[b].source] \in Int
  BY PreferenceAssumption DEF Rankable
<1>2. u \in Quad /\ v \in Quad /\ u[4] = a /\ v[4] = b
  BY <1>1 DEF Quad, Rankable, RankOf
<1>3. Preferred(rows, a, b)
        <=> LET d == CHOOSE i \in 1..4 : u[i] # v[i] /\ \A j \in 1..(i - 1) : u[j] = v[j]
            IN  u[d] < v[d]
  BY DEF Preferred, RankOf
<1> HIDE DEF u, v
<1>4. u # v
  BY <1>2
<1> QED BY <1>2, <1>3, <1>4, FirstDifference DEF u, v

\* Of Articles that can be compared, one is preferred to all others.
LEMMA PrimaryExists ==
  ASSUME NEW rows, NEW S \in SUBSET Articles, S # {}, \A a \in S : Rankable(rows[a])
  PROVE  /\ SelectPrimary(rows, S) \in S
         /\ \A b \in S \ {SelectPrimary(rows, S)} : Preferred(rows, SelectPrimary(rows, S), b)
<1> DEFINE T(n) == {a \in S : a <= n}
           Best(U, a) == a \in U /\ \A b \in U \ {a} : Preferred(rows, a, b)
           bad == {n \in Nat : T(n) # {} /\ ~\E a : Best(T(n), a)}
           m == Min(bad)
<1>1. S \subseteq Nat
  BY ArticlesAssumption DEF Articles
<1>2. \A a, b \in S : a # b => (Preferred(rows, a, b) <=> Earlier(RankOf(rows, a), RankOf(rows, b)))
  BY <1>1, PreferredIsEarlier
<1>3. \A a, b, c \in S : a # b /\ b # c /\ a # c /\ Preferred(rows, a, b) /\ Preferred(rows, b, c)
                          => Preferred(rows, a, c)
  <2> TAKE a, b, c \in S
  <2> DEFINE u == RankOf(rows, a)
             v == RankOf(rows, b)
             w == RankOf(rows, c)
  <2>1. HAVE a # b /\ b # c /\ a # c /\ Preferred(rows, a, b) /\ Preferred(rows, b, c)
  <2>2. u \in Quad /\ v \in Quad /\ w \in Quad
    BY <1>1, <2>1, PreferredIsEarlier
  <2>3. Earlier(u, v) /\ Earlier(v, w)
    BY <1>2, <2>1
  <2> HIDE DEF u, v, w
  <2>4. Earlier(u, w)
    BY <2>2, <2>3 DEF Earlier, Quad
  <2> QED BY <1>2, <2>1, <2>4 DEF u, w
<1>4. \A a, b \in S : a # b => Preferred(rows, a, b) \/ Preferred(rows, b, a)
  <2> TAKE a, b \in S
  <2> DEFINE u == RankOf(rows, a)
             v == RankOf(rows, b)
  <2>1. HAVE a # b
  <2>2. u \in Quad /\ v \in Quad
    BY <1>1, <2>1, PreferredIsEarlier
  <2>3. u[4] # v[4]
    BY <2>1 DEF RankOf
  <2> HIDE DEF u, v
  <2>4. Earlier(u, v) \/ Earlier(v, u)
    BY <2>2, <2>3 DEF Earlier, Quad
  <2> QED BY <1>2, <2>1, <2>4 DEF u, v
<1>5. ASSUME bad # {} PROVE FALSE
  <2>1. m \in bad /\ \A n \in bad : m <= n
    BY <1>5, Least
  <2> HIDE DEF m
  <2>2. m \in Nat /\ T(m) # {} /\ ~\E a : Best(T(m), a)
    BY <2>1
  <2>3. CASE m \notin S
    <3>1. ASSUME NEW a \in S PROVE a <= m <=> a <= m - 1
      <4>1. a \in Nat /\ m \in Nat /\ a # m
        BY <1>1, <2>2, <2>3
      <4> QED BY <4>1
    <3>2. m - 1 \in Nat /\ m - 1 < m
      BY <1>1, <2>2, <3>1
    <3>3. T(m - 1) = T(m)
      BY <3>1
    <3>4. m - 1 \in bad
      BY <2>2, <3>2, <3>3
    <3> QED BY <2>1, <3>2, <3>4
  <2>4. CASE m \in S /\ \A b \in S : b < m => FALSE
    <3>1. T(m) = {m}
      BY <2>2, <2>4
    <3> QED BY <2>2, <3>1
  <2>5. CASE m \in S /\ \E b \in S : b < m
    <3>1. m - 1 \in Nat /\ T(m - 1) # {} /\ m - 1 \notin bad
      BY <1>1, <2>1, <2>2, <2>5
    <3>2. PICK a : Best(T(m - 1), a)
      BY <3>1
    <3>3. T(m) = T(m - 1) \union {m} /\ m \notin T(m - 1)
      <4>1. ASSUME NEW b \in S PROVE b <= m <=> b <= m - 1 \/ b = m
        <5>1. b \in Nat /\ m \in Nat
          BY <1>1, <2>2
        <5> QED BY <5>1
      <4>2. ~(m <= m - 1)
        BY <2>2
      <4> QED BY <2>5, <4>1, <4>2
    <3>4. a \in S /\ a # m /\ \A b \in T(m - 1) : b \in S /\ b # m
      BY <3>2, <3>3
    <3>5. CASE Preferred(rows, a, m)
      <4>1. Best(T(m), a)
        BY <3>2, <3>3, <3>5
      <4> QED BY <2>2, <4>1
    <3>6. CASE Preferred(rows, m, a)
      <4>1. \A b \in T(m - 1) : Preferred(rows, m, b)
        BY <1>3, <2>5, <3>2, <3>4, <3>6
      <4>2. Best(T(m), m)
        BY <3>3, <4>1
      <4> QED BY <2>2, <4>2
    <3> QED BY <1>4, <2>5, <3>4, <3>5, <3>6
  <2> QED BY <2>3, <2>4, <2>5
<1>6. T(MaxArticles) = S /\ MaxArticles \in Nat
  <2>1. \A a \in S : a <= MaxArticles
    BY ArticlesAssumption DEF Articles
  <2> QED BY <2>1, ArticlesAssumption
<1>7. \E a : Best(S, a)
  BY <1>5, <1>6
<1> QED BY <1>7 DEF SelectPrimary

\* The rows of groups are whole, and name Articles that are stored.
GroupRows(t, rows) ==
  /\ \A g \in DOMAIN t.primary :
       t.primary[g] \in [art : {t.primary[g].art}, origin : {t.primary[g].origin}]
  /\ DOMAIN t.member \subseteq DOMAIN rows

\* A Primary that an operator chose is in the group that the Articles of S
\* are connected to.
LEMMA ManualPrimariesInside ==
  ASSUME NEW t, TopologyType(t), PrimaryIsMember(t), NEW S
  PROVE  ManualPrimaries(t, S) \subseteq Component(t, S)
<1> SUFFICES ASSUME NEW h \in GroupsOf(t, S) PROVE t.primary[h].art \in Component(t, S)
  BY DEF ManualPrimaries
<1>1. h \in DOMAIN t.primary
  BY DEF GroupsOf, GroupOf, TopologyType
<1> QED BY <1>1 DEF PrimaryIsMember, Component

\* A joined group has one of its members as its Primary.
LEMMA JoinedPrimary ==
  ASSUME NEW t, TopologyType(t), Paired(t), PrimaryIsMember(t), NEW rows, RowsType(rows),
         GroupRows(t, rows), NEW S \in SUBSET DOMAIN rows, NEW x \in S, NEW y \in S, x # y
  PROVE  PrimaryIsMember(Joined(t, S, {})) /\ GroupRows(Joined(t, S, {}), rows)
<1> DEFINE j == Joined(t, S, {})
           all == Component(t, S)
           gs == GroupsOf(t, S)
           g == IF gs = {} THEN Min(GroupIds \ DOMAIN t.primary) ELSE Min(gs)
           manual == ManualPrimaries(t, S)
           head == IF Cardinality(manual) = 1
                   THEN [art |-> CHOOSE m \in manual : TRUE, origin |-> "manual"]
                   ELSE IF g \in DOMAIN t.primary THEN t.primary[g]
                   ELSE [art |-> Min(all), origin |-> "automatic"]
<1>1. S \subseteq Articles /\ DOMAIN rows \subseteq Articles
  BY DEF RowsType
<1>2. gs \subseteq DOMAIN t.primary /\ gs \subseteq Nat
  BY ArticlesAssumption DEF GroupsOf, GroupOf, TopologyType, GroupIds, Articles
<1>3. \A h \in DOMAIN t.primary \ gs : \A a \in Members(t, h) : a \notin all
  BY DEF Component, Members, GroupsOf, GroupOf
<1>4. /\ all \subseteq DOMAIN rows /\ S \subseteq all /\ all \subseteq Nat
      /\ \A h \in gs : Members(t, h) \subseteq all
  BY <1>1, ArticlesAssumption DEF Component, Members, GroupRows, Articles
<1>5. gs # {} => g \in gs
  BY <1>2, Least
<1>6. gs = {} => g \notin DOMAIN t.primary
  <2>1. ASSUME gs = {} PROVE x \notin DOMAIN t.member
    BY <2>1 DEF GroupsOf, GroupOf
  <2>2. ASSUME gs = {} PROVE GroupIds \ DOMAIN t.primary # {}
    BY <1>1, <2>1, <2>2, GroupIdToSpare DEF GroupIds
  <2>3. GroupIds \ DOMAIN t.primary \in SUBSET Nat
    BY ArticlesAssumption DEF GroupIds, Articles
  <2> QED BY <2>2, <2>3, Least
<1>7. manual \subseteq all /\ manual = {} \union manual
  BY ManualPrimariesInside
<1> HIDE DEF gs, all, manual
<1>8. /\ j.member = [a \in all \union DOMAIN t.member |-> IF a \in all THEN g ELSE t.member[a]]
      /\ j.primary = [h \in {g} \union (DOMAIN t.primary \ gs) |->
                        IF h # g THEN t.primary[h] ELSE head]
  BY <1>7, Zenon DEF Joined, TopologyType, gs, all, manual
<1>9. head \in [art : all, origin : {head.origin}]
  <2>1. CASE Cardinality(manual) = 1
    <3>1. manual # {}
      BY <2>1, FS_EmptySet
    <3> QED BY <1>7, <2>1, <3>1
  <2>2. CASE Cardinality(manual) # 1 /\ g \in DOMAIN t.primary
    <3>1. g \in gs /\ t.primary[g].art \in Members(t, g)
      BY <1>5, <1>6, <2>2 DEF PrimaryIsMember
    <3> QED BY <1>4, <2>2, <3>1 DEF GroupRows
  <2>3. CASE Cardinality(manual) # 1 /\ g \notin DOMAIN t.primary
    BY <1>4, <2>3, Least
  <2> QED BY <2>1, <2>2, <2>3
<1> HIDE DEF head, g, j
<1>10. Members(j, g) = all
  <2>1. \A a \in DOMAIN t.member : t.member[a] = g => a \in all
    BY <1>4, <1>5, <1>6 DEF Members, TopologyType
  <2> QED BY <1>8, <2>1 DEF Members
<1>11. ASSUME NEW h \in DOMAIN t.primary \ gs, h # g PROVE Members(t, h) \subseteq Members(j, h)
  BY <1>3, <1>8, <1>11 DEF Members
<1>12. \A h \in DOMAIN j.primary :
         /\ j.primary[h].art \in Members(j, h)
         /\ j.primary[h] \in [art : {j.primary[h].art}, origin : {j.primary[h].origin}]
  <2>1. j.primary[g] = head /\ g \in DOMAIN j.primary
    BY <1>8
  <2>2. \A h \in DOMAIN j.primary \ {g} : h \in DOMAIN t.primary \ gs /\ j.primary[h] = t.primary[h]
    BY <1>8
  <2> QED BY <1>9, <1>10, <1>11, <2>1, <2>2 DEF PrimaryIsMember, GroupRows
<1>13. DOMAIN j.member \subseteq DOMAIN rows
  BY <1>4, <1>8 DEF GroupRows
<1> QED BY <1>12, <1>13 DEF PrimaryIsMember, GroupRows, j

\* A Primary that is selected again is a member of its group.
LEMMA ReselectedPrimary ==
  ASSUME NEW t, TopologyType(t), NEW rows, RowsType(rows), GroupRows(t, rows),
         \A a \in DOMAIN rows : Rankable(rows[a]),
         NEW g \in DOMAIN t.primary, Members(t, g) # {},
         \A h \in DOMAIN t.primary \ {g} : t.primary[h].art \in Members(t, h)
  PROVE  LET u == Reselected(t, rows, g) IN PrimaryIsMember(u) /\ GroupRows(u, rows)
<1> DEFINE u == Reselected(t, rows, g)
           new == SelectPrimary(rows, Members(t, g))
<1>1. Members(t, g) \subseteq DOMAIN rows /\ Members(t, g) \subseteq Articles
  BY DEF Members, GroupRows, RowsType
<1>2. new \in Members(t, g)
  BY <1>1, PrimaryExists
<1> HIDE DEF new
<1>3. u = [t EXCEPT !.primary[g].art = new]
  BY DEF Reselected, new
<1> HIDE DEF u
<1>4. /\ u.member = t.member /\ DOMAIN u.primary = DOMAIN t.primary
      /\ u.primary[g] = [t.primary[g] EXCEPT !.art = new]
      /\ \A h \in DOMAIN t.primary \ {g} : u.primary[h] = t.primary[h]
  BY <1>3 DEF TopologyType
<1>5. \A h : Members(u, h) = Members(t, h)
  BY <1>4 DEF Members
<1>6. u.primary[g] \in [art : {new}, origin : {u.primary[g].origin}]
  BY <1>4 DEF GroupRows
<1> QED BY <1>2, <1>4, <1>5, <1>6 DEF PrimaryIsMember, GroupRows, u

LEMMA SettledPrimary ==
  ASSUME NEW t, TopologyType(t), Paired(t), PrimaryIsMember(t), NEW rows, RowsType(rows),
         GroupRows(t, rows), \A a \in DOMAIN rows : Rankable(rows[a]), NEW g \in DOMAIN t.primary,
         NEW u \in {t, Reselected(t, rows, g), Settled(t, rows, g)}
  PROVE  PrimaryIsMember(u) /\ GroupRows(u, rows)
<1>1. u = t \/ u = Reselected(t, rows, g)
  BY DEF Settled
<1>2. PrimaryIsMember(Reselected(t, rows, g)) /\ GroupRows(Reselected(t, rows, g), rows)
  BY ReselectedPrimary DEF PrimaryIsMember
<1> QED BY <1>1, <1>2

\* Automatic grouping leaves every Primary in its group.
LEMMA GroupedPrimary ==
  ASSUME NEW t, TopologyInv(t), PrimaryIsMember(t), NEW rows, RowsType(rows), GroupRows(t, rows),
         \A a \in DOMAIN rows : Rankable(rows[a]), NEW p \in PairsOf(DOMAIN rows)
  PROVE  PrimaryIsMember(Grouped(t, rows, p)) /\ GroupRows(Grouped(t, rows, p), rows)
<1> DEFINE S == {p[1], p[2]}
           j == Joined(t, S, {})
           k == Settled(j, rows, j.member[p[1]])
           u == [k EXCEPT !.cand[p].state = "merged"]
<1>1. TopologyType(t) /\ Paired(t)
  BY DEF TopologyInv
<1>2. /\ S \in SUBSET DOMAIN rows /\ S \in SUBSET Articles
      /\ p[1] \in S /\ p[2] \in S /\ p[1] # p[2]
  BY DEF PairsOf, Pairs, Articles
<1>3. Grouped(t, rows, p) \in {t, u}
  BY DEF Grouped
<1> HIDE DEF S
<1>4. PrimaryIsMember(j) /\ GroupRows(j, rows)
  BY <1>1, <1>2, JoinedPrimary
<1>5. TopologyType(j) /\ Paired(j) /\ j.member[p[1]] \in DOMAIN j.primary
  BY <1>1, <1>2, JoinedGroups
<1> HIDE DEF j
<1>6. PrimaryIsMember(k) /\ GroupRows(k, rows)
  BY <1>4, <1>5, SettledPrimary
<1>7. k.member = u.member /\ k.primary = u.primary
  <2>1. k \in [cand : {j.cand}, member : {j.member}, primary : {k.primary}, seps : {j.seps}]
    BY <1>5, SettledGroups
  <2> HIDE DEF k
  <2> QED BY <2>1
<1> HIDE DEF k, u
<1>8. PrimaryIsMember(u) /\ GroupRows(u, rows)
  BY <1>6, <1>7 DEF PrimaryIsMember, GroupRows, Members
<1> QED BY <1>3, <1>8

LEMMA GroupedAllPrimary ==
  ASSUME NEW t, TopologyInv(t), PrimaryIsMember(t), NEW rows, RowsType(rows), GroupRows(t, rows),
         \A x \in DOMAIN rows : Rankable(rows[x]), NEW a, NEW S \in SUBSET PairsOf(DOMAIN rows)
  PROVE  LET u == GroupedAll(t, rows, a, S) IN PrimaryIsMember(u) /\ GroupRows(u, rows)
<1> DEFINE f == CHOOSE f : Processed(f, MaxArticles, t, rows, a, S)
           Sound(u) == TopologyInv(u) /\ PrimaryIsMember(u) /\ GroupRows(u, rows)
           bad == {n \in 0..MaxArticles : ~Sound(f[n])}
<1>1. GroupedAll(t, rows, a, S) = f[MaxArticles]
  BY DEF GroupedAll, Processed
<1>2. Processed(f, MaxArticles, t, rows, a, S)
  BY ProcessedExists, ArticlesAssumption
<1> HIDE DEF f
<1>3. f[0] = t /\ \A b \in 1..MaxArticles :
        f[b] = IF PairOf(a, b) \in S THEN Grouped(f[b - 1], rows, PairOf(a, b)) ELSE f[b - 1]
  BY <1>2, ArticlesAssumption DEF Processed
<1>4. ASSUME NEW u, Sound(u), NEW p \in S PROVE Sound(Grouped(u, rows, p))
  <2>1. S \in SUBSET Pairs
    BY DEF PairsOf
  <2>2. TopologyInv(Grouped(u, rows, p))
    BY <1>4, <2>1, GroupedKeeps DEF Kept
  <2> QED BY <1>4, <2>2, GroupedPrimary
<1>5. Sound(t)
  OBVIOUS
<1> HIDE DEF Sound
<1>6. ASSUME bad # {} PROVE FALSE
  <2> DEFINE m == Min(bad)
  <2>1. bad \subseteq Nat
    BY ArticlesAssumption
  <2>2. m \in bad /\ \A n \in bad : m <= n
    BY <1>6, <2>1, Least
  <2> HIDE DEF m
  <2>3. m \in 1..MaxArticles /\ m - 1 \in 0..MaxArticles /\ m - 1 \notin bad
    BY <1>3, <1>5, <2>2, ArticlesAssumption
  <2> QED BY <1>3, <1>4, <2>2, <2>3
<1>7. MaxArticles \in 0..MaxArticles
  BY ArticlesAssumption
<1> QED BY <1>1, <1>6, <1>7 DEF Sound

\* So does a merge, whoever chooses the Primary.
LEMMA MergedPrimary ==
  ASSUME NEW t, TopologyInv(t), PrimaryIsMember(t), NEW rows, RowsType(rows), GroupRows(t, rows),
         \A a \in DOMAIN rows : Rankable(rows[a]),
         NEW S \in SUBSET DOMAIN rows, NEW x \in S, NEW y \in S, x # y,
         NEW chosen \in {{}} \union {{a} : a \in DOMAIN rows}, chosen \subseteq Component(t, S)
  PROVE  LET u == Merged(t, rows, S, chosen) IN PrimaryIsMember(u) /\ GroupRows(u, rows)
<1> DEFINE i == Joined(t, S, {})
           g == i.member[Min(S)]
           j == IF chosen = {} THEN i
                ELSE [i EXCEPT !.primary[g] = [art |-> Min(chosen), origin |-> "manual"]]
           h == j.member[Min(S)]
           k == IF chosen # {} \/ Cardinality(ManualPrimaries(t, S)) = 1
                THEN j ELSE Reselected(j, rows, h)
           v == [k EXCEPT !.seps = @ \ PairsOf(Members(k, h))]
           u == CandStates(v, PairsOf(Members(k, h)), "merged")
<1>1. u = Merged(t, rows, S, chosen)
  BY DEF Merged
<1>2. TopologyType(t) /\ Paired(t) /\ S \in SUBSET Articles /\ S \in SUBSET Nat
  BY ArticlesAssumption DEF TopologyInv, RowsType, Articles
<1>3. Min(S) \in S
  BY <1>2, Least
<1>4. /\ TopologyType(i) /\ Paired(i) /\ g \in DOMAIN i.primary
      /\ Members(i, g) = Component(t, S)
  BY <1>2, <1>3, JoinedGroups
<1>5. PrimaryIsMember(i) /\ GroupRows(i, rows)
  BY <1>2, JoinedPrimary
<1>6. chosen # {} => Min(chosen) \in Component(t, S)
  <2>1. chosen \in SUBSET Nat
    BY ArticlesAssumption DEF RowsType, Articles
  <2> QED BY <2>1, Least
<1> HIDE DEF i, g
<1>7. /\ j \in [cand : {i.cand}, member : {i.member}, primary : {j.primary}, seps : {i.seps}]
      /\ DOMAIN j.primary = DOMAIN i.primary
      /\ \A f \in DOMAIN i.primary : j.primary[f] # i.primary[f] =>
           f = g /\ chosen # {} /\ j.primary[f] = [art |-> Min(chosen), origin |-> "manual"]
  BY <1>4 DEF TopologyType
<1> HIDE DEF j
<1>8. /\ TopologyType(j) /\ Paired(j) /\ h \in DOMAIN j.primary
      /\ \A f : Members(j, f) = Members(i, f)
  BY <1>4, <1>7, PrimaryAlone DEF g
<1>9. PrimaryIsMember(j) /\ GroupRows(j, rows)
  BY <1>4, <1>5, <1>6, <1>7, <1>8 DEF PrimaryIsMember, GroupRows
<1> HIDE DEF h
<1>10. PrimaryIsMember(k) /\ GroupRows(k, rows)
  BY <1>8, <1>9, SettledPrimary
<1>11. u.member = k.member /\ u.primary = k.primary
  <2>1. k \in [cand : {j.cand}, member : {j.member}, primary : {k.primary}, seps : {j.seps}]
    BY <1>8, SettledGroups
  <2> HIDE DEF k
  <2> QED BY <2>1 DEF CandStates
<1> HIDE DEF u, k
<1>12. PrimaryIsMember(u) /\ GroupRows(u, rows)
  BY <1>10, <1>11 DEF PrimaryIsMember, GroupRows, Members
<1> QED BY <1>1, <1>12

\* A split keeps the Primary in its group, except where it takes off a
\* Primary that was selected automatically and leaves a group.
LEMMA SplitPrimary ==
  ASSUME NEW t, TopologyType(t), Paired(t), PrimaryIsMember(t), NEW rows, RowsType(rows),
         GroupRows(t, rows), \A a \in DOMAIN rows : Rankable(rows[a]),
         NEW g \in DOMAIN t.primary, NEW R \in SUBSET Members(t, g)
  PROVE  LET u == SplitOff(t, rows, g, R) IN
         /\ GroupRows(u, rows)
         /\ PrimaryIsMember(u) <=> \/ t.primary[g].art \notin R \/ t.primary[g].origin = "manual"
                                  \/ Cardinality(Members(t, g) \ R) < 2
<1> DEFINE M == Members(t, g)
           w == WithoutMembers(t, rows, g, R)
           u == SplitOff(t, rows, g, R)
           left == [t EXCEPT !.member = Restrict(t.member, DOMAIN t.member \ R)]
<1>1. \A a : a \in M <=> a \in DOMAIN t.member /\ t.member[a] = g
  BY DEF Members
<1>2. /\ left \in [cand : {t.cand}, member : {left.member}, primary : {t.primary}, seps : {t.seps}]
      /\ left.member = [a \in DOMAIN t.member \ R |-> t.member[a]]
  BY DEF TopologyType, Restrict
<1>3. u.member = w.member /\ u.primary = w.primary
  <2>1. w \in [cand : {w.cand}, member : {w.member}, primary : {w.primary}, seps : {w.seps}]
    BY WithoutGroups DEF TopologyType
  <2> HIDE DEF w
  <2> QED BY <2>1 DEF SplitOff, CandStates, w
<1>4. /\ GroupRows(u, rows) <=> GroupRows(w, rows)
      /\ PrimaryIsMember(u) <=> PrimaryIsMember(w)
  BY <1>3 DEF GroupRows, PrimaryIsMember, Members
<1> HIDE DEF u, M, left
<1>5. CASE Cardinality(M \ R) < 2
  <2>1. /\ w.member = [a \in DOMAIN t.member \ M |-> t.member[a]]
        /\ w.primary = [h \in DOMAIN t.primary \ {g} |-> t.primary[h]]
    BY <1>5 DEF WithoutMembers, TopologyType, Restrict, M
  <2> HIDE DEF w
  <2>2. \A h \in DOMAIN t.primary \ {g} : Members(w, h) = Members(t, h)
    BY <1>1, <2>1 DEF Members
  <2>3. GroupRows(w, rows) /\ PrimaryIsMember(w)
    BY <2>1, <2>2 DEF GroupRows, PrimaryIsMember
  <2> QED BY <1>4, <1>5, <2>3 DEF M, u
<1>6. CASE ~(Cardinality(M \ R) < 2)
  <2>1. \A h \in DOMAIN t.primary \ {g} : Members(left, h) = Members(t, h)
    BY <1>1, <1>2 DEF Members, M
  <2>2. Members(left, g) = M \ R
    BY <1>1, <1>2 DEF Members
  <2>3. GroupRows(left, rows) /\ TopologyType(left)
    BY <1>2 DEF GroupRows, TopologyType
  <2>4. CASE t.primary[g].origin = "manual" /\ t.primary[g].art \in R
    <3>1. w = Reselected(left, rows, g)
      BY <1>6, <2>4 DEF WithoutMembers, M, left
    <3>2. M \ R # {}
      BY <1>6, FS_EmptySet
    <3>3. \A h \in DOMAIN left.primary \ {g} : left.primary[h].art \in Members(left, h)
      BY <1>2, <2>1 DEF PrimaryIsMember
    <3>4. PrimaryIsMember(w) /\ GroupRows(w, rows)
      BY <1>2, <2>2, <2>3, <3>1, <3>2, <3>3, ReselectedPrimary
    <3> QED BY <1>4, <2>4, <3>4 DEF u
  <2>5. CASE ~(t.primary[g].origin = "manual" /\ t.primary[g].art \in R)
    <3>1. w = left
      BY <1>6, <2>5 DEF WithoutMembers, M, left
    <3>2. t.primary[g].art \in M
      BY DEF PrimaryIsMember, M
    <3>3. PrimaryIsMember(left) <=> t.primary[g].art \notin R
      BY <1>2, <2>1, <2>2, <3>2 DEF PrimaryIsMember
    <3> QED BY <1>4, <1>6, <2>3, <2>5, <3>1, <3>3 DEF u, M
  <2> QED BY <2>4, <2>5
<1> QED BY <1>5, <1>6

\* What collectors have in hand: candidates and rows that can be compared,
\* and candidate rows of pairs that are stored once they commit.
CollectorsRank ==
  \A c \in Collectors :
    /\ tx[c].pc # "idle" => tx[c].item.source \in Sources /\ tx[c].item.quality \in Int
    /\ tx[c].pc \in {"written", "detected"} => Rankable(tx[c].row)
    /\ DOMAIN tx[c].found \subseteq PairsOf(DOMAIN articles \union {tx[c].id})

PrimariesInv ==
  /\ PrimaryIsMember(topo) /\ GroupRows(topo, articles)
  /\ \A a \in DOMAIN articles : Rankable(articles[a])
  /\ CollectorsRank

\* One collector moves.
LEMMA OneCollectorRanks ==
  ASSUME CollectorsInv, PrimariesInv, NEW c \in Collectors, NEW t, tx' = [tx EXCEPT ![c] = t],
         UNCHANGED <<articles, topo>>,
         t.pc # "idle" => t.item.source \in Sources /\ t.item.quality \in Int,
         t.pc \in {"written", "detected"} => Rankable(t.row),
         DOMAIN t.found \subseteq PairsOf(DOMAIN articles \union {t.id})
  PROVE  PrimariesInv'
<1>1. tx'[c] = t /\ \A d \in Collectors \ {c} : tx'[d] = tx[d]
  BY DEF CollectorsInv
<1>2. CollectorsRank'
  BY <1>1 DEF CollectorsRank, PrimariesInv
<1> QED BY <1>2 DEF PrimariesInv

LEMMA IdleRanks ==
  ASSUME ArticlesInv, PrimariesInv, NEW c \in Collectors, tx' = [tx EXCEPT ![c] = Idle],
         UNCHANGED <<articles, topo>>
  PROVE  PrimariesInv'
<1>1. Idle.pc = "idle" /\ DOMAIN Idle.found = {}
  BY DEF Idle
<1> QED BY <1>1, OneCollectorRanks DEF ArticlesInv

LEMMA BeginRanks ==
  ASSUME ArticlesInv, PrimariesInv, NEW c \in Collectors, NEW item \in Feed, Begin(c, item)
  PROVE  PrimariesInv'
<1> DEFINE t == tx'[c]
<1>1. /\ tx' = [tx EXCEPT ![c] = t] /\ UNCHANGED <<articles, topo>>
      /\ t.pc = "resolved" /\ t.item = item /\ t.found = Idle.found
  BY DEF Begin, ArticlesInv, CollectorsInv, Idle
<1>2. item.source \in Sources /\ item.quality \in Int
  BY PreferenceAssumption DEF Begin, Valid
<1> HIDE DEF t
<1> QED BY <1>1, <1>2, NothingHeld, OneCollectorRanks DEF ArticlesInv

LEMMA WriteRanks ==
  ASSUME ArticlesInv, GroupsInv, PrimariesInv, NEW c \in Collectors, Write(c) PROVE PrimariesInv'
<1> DEFINE t == tx[c]
           row == Filed(NextRow(c), t.decided)
           u == tx'[c]
<1>1. CollectorInv(t, RunTime[c], articles) /\ StoreInv /\ CollectorsInv
  BY DEF ArticlesInv, CollectorsInv
<1>2. t.pc = "resolved" /\ UNCHANGED <<articles, topo>>
  BY DEF Write
<1>3. CASE ~StillGoverned(c)
  BY <1>2, <1>3, IdleRanks DEF Write
<1>4. CASE StillGoverned(c)
  <2>1. /\ tx' = [tx EXCEPT ![c] = u] /\ u.pc = "written" /\ u.item = t.item
        /\ u.row = row /\ u.found = t.found
    BY <1>1, <1>4 DEF Write, CollectorsInv, CollectorInv, Transaction
  <2>2. ArticleRow(NextRow(c))
    BY <1>1, <1>2, NextRowWritten DEF StoreInv
  <2>3. NextRow(c).source \in Sources /\ NextRow(c).quality \in Int
    <3>1. CASE t.id = 0
      BY <1>2, <3>1 DEF NextRow, NewRow, PrimariesInv, CollectorsRank
    <3>2. CASE t.id # 0
      <4>1. t.id \in DOMAIN articles
        BY <1>1, <1>2, <3>2 DEF CollectorInv
      <4>2. ArticleRow(articles[t.id]) /\ Rankable(articles[t.id])
        BY <1>1, <4>1 DEF StoreInv, RowsType, PrimariesInv
      <4>3. ArticleRow(SeenAt(articles[t.id], RunTime[c]))
            /\ SeenAt(articles[t.id], RunTime[c]).source = articles[t.id].source
            /\ SeenAt(articles[t.id], RunTime[c]).quality = articles[t.id].quality
        BY <4>2, TimesAssumption DEF SeenAt, ArticleRow
      <4>4. t.item.quality \in Int
        BY <1>2 DEF PrimariesInv, CollectorsRank
      <4> QED BY <3>2, <4>2, <4>3, <4>4 DEF NextRow, Observed, Rankable, ArticleRow
    <3> QED BY <3>1, <3>2
  <2>4. Rankable(row)
    BY <2>2, <2>3 DEF Rankable, Filed, ArticleRow
  <2>5. DOMAIN t.found = {}
    BY <1>2 DEF GroupsInv, CandidatesInv
  <2>6. t.item.source \in Sources /\ t.item.quality \in Int
    BY <1>2 DEF PrimariesInv, CollectorsRank
  <2> HIDE DEF u, row
  <2> QED BY <1>1, <1>2, <2>1, <2>4, <2>5, <2>6, OneCollectorRanks
<1> QED BY <1>3, <1>4

LEMMA DetectRanks ==
  ASSUME ArticlesInv, PrimariesInv, NEW c \in Collectors, Detect(c) PROVE PrimariesInv'
<1> DEFINE t == tx[c]
           P == PairsAcross({t.id}, Suspects(c))
           ev(p) == Evidence(View(c)[p[1]], View(c)[p[2]])
           found == [p \in P |-> Reviewed(CandOf(topo, p), ev(p))]
           u == [t EXCEPT !.pc = "detected", !.found = found]
<1>1. t.pc = "written" /\ UNCHANGED <<articles, topo>> /\ tx' = [tx EXCEPT ![c] = u]
  BY DEF Detect, ArticlesInv, CollectorsInv, CollectorInv
<1>2. DOMAIN found = P /\ P \subseteq PairsOf(DOMAIN articles \union {t.id})
  BY DEF PairsAcross, PairsOf, Suspects
<1>3. t.item.source \in Sources /\ t.item.quality \in Int /\ Rankable(t.row)
  BY <1>1 DEF PrimariesInv, CollectorsRank
<1>4. Transaction(t)
  BY DEF ArticlesInv, CollectorsInv, CollectorInv
<1> HIDE DEF found, P
<1>5. u.item = t.item /\ u.id = t.id /\ u.row = t.row /\ u.found = found
  BY <1>4 DEF Transaction
<1> HIDE DEF u
<1> QED BY <1>1, <1>2, <1>3, <1>5, OneCollectorRanks DEF ArticlesInv

\* A commit needs no check that the new Primaries are members: they are.
LEMMA CommitKeepsPrimaries ==
  ASSUME ArticlesInv, GroupsInv, PrimariesInv, NEW c \in Collectors, GroupAndCommit(c)
  PROVE  PrimariesInv'
<1> DEFINE f == tx[c].found
           t == Detected(topo, f)
           rows == Committed(articles, tx[c])
           S == StrongPending(c)
<1>1. /\ tx[c].pc = "detected" /\ articles' = rows /\ S \subseteq DOMAIN f
      /\ topo' = GroupedAll(t, rows, tx[c].id, S)
  BY DEF GroupAndCommit, View, Writing, Committed, StrongPending
<1> HIDE DEF t, S, f
<1>2. RowsType(rows)
  <2>1. CollectorInv(tx[c], RunTime[c], articles) /\ RowsType(articles) /\ KeysDiffer(articles)
    BY DEF ArticlesInv, StoreInv, CollectorsInv
  <2> QED BY <1>1, <2>1, CommittedRows
<1>3. /\ DOMAIN rows = DOMAIN articles \union {tx[c].id} /\ rows[tx[c].id] = tx[c].row
      /\ \A a \in DOMAIN articles \ {tx[c].id} : rows[a] = articles[a]
  BY DEF Committed, With
<1> HIDE DEF rows
<1>4. \A a \in DOMAIN rows : Rankable(rows[a])
  BY <1>1, <1>3 DEF PrimariesInv, CollectorsRank
<1>5. S \in SUBSET PairsOf(DOMAIN rows)
  BY <1>1, <1>3 DEF PrimariesInv, CollectorsRank, f
<1>6. TopologyInv(t) /\ t.member = topo.member /\ t.primary = topo.primary
  BY DetectedGroups DEF f, t
<1>7. PrimaryIsMember(t) /\ GroupRows(t, rows)
  BY <1>3, <1>6 DEF PrimariesInv, PrimaryIsMember, GroupRows, Members
<1>8. PrimaryIsMember(topo') /\ GroupRows(topo', articles')
  BY <1>1, <1>2, <1>4, <1>5, <1>6, <1>7, GroupedAllPrimary
<1>9. /\ tx'[c] = Idle /\ Idle.pc = "idle" /\ DOMAIN Idle.found = {}
      /\ \A d \in Collectors \ {c} : tx'[d] = tx[d]
  BY DEF GroupAndCommit, ArticlesInv, CollectorsInv, Idle
<1>10. ASSUME NEW d \in Collectors
       PROVE  /\ tx'[d].pc # "idle" => tx'[d].item.source \in Sources /\ tx'[d].item.quality \in Int
              /\ tx'[d].pc \in {"written", "detected"} => Rankable(tx'[d].row)
              /\ DOMAIN tx'[d].found \subseteq PairsOf(DOMAIN articles' \union {tx'[d].id})
  <2>1. CASE d = c
    BY <1>9, <2>1
  <2>2. CASE d # c
    <3>1. tx'[d] = tx[d] /\ DOMAIN articles \subseteq DOMAIN articles'
      BY <1>1, <1>3, <1>9, <2>2
    <3> QED BY <3>1 DEF PrimariesInv, CollectorsRank, PairsOf
  <2> QED BY <2>1, <2>2
<1>11. CollectorsRank'
  BY <1>10 DEF CollectorsRank
<1> QED BY <1>1, <1>4, <1>8, <1>11 DEF PrimariesInv

\* A command whose topology the foreign key accepts.
LEMMA CommandKeepsPrimaries ==
  ASSUME PrimariesInv, NEW t, GroupRows(t, articles), TryTopology(t) PROVE PrimariesInv'
BY DEF TryTopology, Refused, vars, PrimariesInv, CollectorsRank

LEMMA CommandsKeepPrimaries ==
  ASSUME ArticlesInv, GroupsInv, PrimariesInv, OperatorNext PROVE PrimariesInv'
<1>1. ASSUME Refused PROVE PrimariesInv'
  BY <1>1 DEF Refused, vars, PrimariesInv, CollectorsRank
<1>2. /\ TopologyInv(topo) /\ TopologyType(topo) /\ Paired(topo) /\ RowsType(articles)
      /\ PrimaryIsMember(topo) /\ GroupRows(topo, articles)
      /\ \A a \in DOMAIN articles : Rankable(articles[a])
  BY DEF GroupsInv, TopologyInv, ArticlesInv, StoreInv, PrimariesInv
<1>3. ASSUME NEW p, Dismiss(p) PROVE PrimariesInv'
  <2>1. GroupRows(CandStates(topo, {p}, "dismissed"), articles)
    BY <1>2 DEF CandStates, TopologyType, GroupRows
  <2> QED BY <1>1, <1>3, <2>1, CommandKeepsPrimaries DEF Dismiss
<1>4. ASSUME NEW S \in SUBSET DOMAIN articles, Cardinality(S) >= 2,
             NEW chosen \in {{}} \union {{a} : a \in DOMAIN articles}, Merge(S, chosen)
      PROVE  PrimariesInv'
  <2>1. CASE MergeConflict(topo, S, chosen)
    BY <1>1, <1>4, <2>1 DEF Merge
  <2>2. CASE ~MergeConflict(topo, S, chosen)
    <3>1. IsFiniteSet(S)
      BY <1>2, ArticlesFinite, FS_Subset DEF RowsType
    <3>2. PICK x \in S, y \in S : x # y
      BY <1>4, <3>1, TwoDiffer
    <3>3. chosen \subseteq Component(topo, S)
      BY <2>2 DEF MergeConflict
    <3>4. GroupRows(Merged(topo, articles, S, chosen), articles)
      BY <1>2, <3>2, <3>3, MergedPrimary
    <3> QED BY <1>4, <2>2, <3>4, CommandKeepsPrimaries DEF Merge
  <2> QED BY <2>1, <2>2
<1>5. ASSUME NEW g \in DOMAIN topo.primary, NEW R \in SUBSET Members(topo, g), Split(g, R)
      PROVE  PrimariesInv'
  <2>1. GroupRows(SplitOff(topo, articles, g, R), articles)
    BY <1>2, SplitPrimary
  <2> QED BY <1>5, <2>1, CommandKeepsPrimaries DEF Split
<1>6. ASSUME NEW g \in DOMAIN topo.primary, NEW a, ChoosePrimary(g, a) PROVE PrimariesInv'
  <2>1. GroupRows([topo EXCEPT !.primary[g] = [art |-> a, origin |-> "manual"]], articles)
    BY <1>2 DEF TopologyType, GroupRows
  <2> QED BY <1>1, <1>6, <2>1, CommandKeepsPrimaries DEF ChoosePrimary
<1>7. ASSUME NEW s, NEW k, EditSetting(s, k) PROVE PrimariesInv'
  BY <1>7 DEF EditSetting, PrimariesInv, CollectorsRank
<1>8. ASSUME NEW a \in DOMAIN articles, NEW f, NEW v, Moderate(a, f, v) PROVE PrimariesInv'
  <2>1. UNCHANGED <<topo, tx>> /\ articles' = [articles EXCEPT ![a].mod[f] = v]
    BY <1>8 DEF Moderate, WithOverride
  <2>2. ArticleRow(articles[a])
    BY <1>2 DEF RowsType
  <2>3. /\ DOMAIN articles' = DOMAIN articles
        /\ \A b \in DOMAIN articles : Rankable(articles[b]) => Rankable(articles'[b])
    BY <2>1, <2>2 DEF Rankable, ArticleRow
  <2> QED BY <1>2, <2>1, <2>3 DEF PrimariesInv, CollectorsRank, GroupRows
<1> QED BY <1>3, <1>4, <1>5, <1>6, <1>7, <1>8 DEF OperatorNext

LEMMA PrimariesInit == Init => PrimariesInv
BY NothingHeld DEF Init, EmptyTopology, Idle, PrimariesInv, CollectorsRank, PrimaryIsMember,
                   GroupRows

LEMMA PrimariesStep == ArticlesInv /\ GroupsInv /\ PrimariesInv /\ [Next]_vars => PrimariesInv'
<1> SUFFICES ASSUME ArticlesInv, GroupsInv, PrimariesInv, [Next]_vars PROVE PrimariesInv'
  OBVIOUS
<1>1. ASSUME NEW c \in Collectors, CollectorNext(c) PROVE PrimariesInv'
  <2>1. ASSUME NEW item \in Feed, Exclude(c, item) PROVE PrimariesInv'
    BY <2>1 DEF Exclude, PrimariesInv, CollectorsRank
  <2>2. CASE Fail(c)
    BY <2>2, IdleRanks DEF Fail
  <2> QED BY <1>1, <2>1, <2>2, BeginRanks, WriteRanks, DetectRanks, CommitKeepsPrimaries
             DEF CollectorNext
<1>2. ASSUME UNCHANGED vars PROVE PrimariesInv'
  BY <1>2 DEF vars, PrimariesInv, CollectorsRank
<1> QED BY <1>1, <1>2, CommandsKeepPrimaries DEF Next

LEMMA PrimariesInvariant == Spec => [](ArticlesInv /\ GroupsInv /\ PrimariesInv)
BY ArticlesInit, ArticlesStep, GroupsInit, GroupsStep, PrimariesInit, PrimariesStep, PTL DEF Spec

\* The Primary of every group is one of its members, though a collector's
\* commit does not look: the deferred foreign key never refuses one.
THEOREM PrimariesAreMembers == Spec => []PrimaryIsMember(topo)
<1>1. PrimariesInv => PrimaryIsMember(topo)
  BY DEF PrimariesInv
<1> QED BY <1>1, PrimariesInvariant, PTL

\* A merge that finds no conflict is committed, whoever chooses the Primary.
MergesCommit ==
  \A S \in SUBSET DOMAIN articles, chosen \in {{}} \union {{a} : a \in DOMAIN articles} :
    Cardinality(S) >= 2 /\ ~MergeConflict(topo, S, chosen) =>
      PrimaryIsMember(Merged(topo, articles, S, chosen))

\* A split is committed, unless it takes off a Primary that was selected
\* automatically and leaves a group.
SplitsCommit ==
  \A g \in DOMAIN topo.primary : \A R \in SUBSET Members(topo, g) :
    PrimaryIsMember(SplitOff(topo, articles, g, R)) <=>
      \/ topo.primary[g].art \notin R \/ topo.primary[g].origin = "manual"
      \/ Cardinality(Members(topo, g) \ R) < 2

\* What the deferred foreign key refuses of an operator: no merge of
\* mergeInTransaction, and splitDuplicateGroup exactly when it takes an
\* automatic Primary off a group that keeps two members.
THEOREM CommandsTheKeyRefuses == Spec => [](MergesCommit /\ SplitsCommit)
<1>1. ASSUME ArticlesInv, GroupsInv, PrimariesInv PROVE MergesCommit /\ SplitsCommit
  <2>1. /\ TopologyInv(topo) /\ TopologyType(topo) /\ Paired(topo) /\ RowsType(articles)
        /\ PrimaryIsMember(topo) /\ GroupRows(topo, articles)
        /\ \A a \in DOMAIN articles : Rankable(articles[a])
    BY <1>1 DEF GroupsInv, TopologyInv, ArticlesInv, StoreInv, PrimariesInv
  <2>2. ASSUME NEW S \in SUBSET DOMAIN articles, Cardinality(S) >= 2,
               NEW chosen \in {{}} \union {{a} : a \in DOMAIN articles},
               ~MergeConflict(topo, S, chosen)
        PROVE  PrimaryIsMember(Merged(topo, articles, S, chosen))
    <3>1. IsFiniteSet(S)
      BY <2>1, ArticlesFinite, FS_Subset DEF RowsType
    <3>2. PICK x \in S, y \in S : x # y
      BY <2>2, <3>1, TwoDiffer
    <3> QED BY <2>1, <2>2, <3>2, MergedPrimary DEF MergeConflict
  <2>3. SplitsCommit
    BY <2>1, SplitPrimary DEF SplitsCommit
  <2> QED BY <2>2, <2>3 DEF MergesCommit
<1> QED BY <1>1, PrimariesInvariant, PTL
=============================================================================
