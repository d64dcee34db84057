------------------------- MODULE ProfileSyncProofs -------------------------
(***************************************************************************)
(* What the site shows and a page of it reads, for any number of           *)
(* overlapping cron runs, any articles, pages and credentials and any      *)
(* bounds, whatever is edited, lost or damaged and wherever a run dies.    *)
(***************************************************************************)
EXTENDS ProfileSync, FiniteSetTheorems, SequenceTheorems, TLAPS

-----------------------------------------------------------------------------
(* Pages.                                                                  *)

Listed(list) == \E S : list \in Seq(S)

LEMMA ListLength ==
  ASSUME NEW list, Listed(list)
  PROVE  Len(list) \in Nat /\ DOMAIN list = 1..Len(list)
<1>1. PICK S : list \in Seq(S)
  BY DEF Listed
<1> QED BY <1>1, LenProperties

LEMMA FunctionIsListed ==
  ASSUME NEW n \in Nat, NEW list, list = [i \in 1..n |-> list[i]]
  PROVE  Listed(list) /\ Len(list) = n
<1> DEFINE S == {list[i] : i \in 1..n}
<1>1. list \in [1..n -> S]
  OBVIOUS
<1> HIDE DEF S
<1>2. list \in Seq(S)
  BY <1>1
<1>3. Len(list) \in Nat /\ 1..Len(list) = 1..n
  BY <1>1, <1>2, LenProperties
<1>4. Len(list) = n
  BY <1>3
<1> QED BY <1>2, <1>4 DEF Listed

LEMMA AppendIsListed ==
  ASSUME NEW list, Listed(list), NEW e
  PROVE  /\ Listed(Append(list, e)) /\ Len(Append(list, e)) = Len(list) + 1
         /\ Append(list, e)[Len(list) + 1] = e
         /\ \A i \in 1..Len(list) : Append(list, e)[i] = list[i]
<1>1. PICK S : list \in Seq(S)
  BY DEF Listed
<1>2. list \in Seq(S \cup {e}) /\ e \in S \cup {e}
  BY <1>1, SeqMonotonic
<1> QED BY <1>2, AppendProperties, LenProperties DEF Listed

\* Every article of a snapshot has a position of its own.
PositionsApart(articles) ==
  /\ Listed(articles)
  /\ \A i, j \in DOMAIN articles : articles[i].position = articles[j].position => i = j

\* The articles of E that stand no later than a.
UpTo(a, E, rws) == {b \in E : ~Precedes(Position(a, rws), Position(b, rws))}

LEMMA RanksAreTaken ==
  ASSUME NEW E, IsFiniteSet(E), E \subseteq Nat, NEW rws, \A a \in E : rws[a].date \in Nat
  PROVE  \A i \in 1..Cardinality(E) : \E a \in E : Cardinality(UpTo(a, E, rws)) = i
<1> DEFINE N == Cardinality(E)
           rank == [a \in E |-> Cardinality(UpTo(a, E, rws))]
<1>1. N \in Nat /\ IsFiniteSet(1..N) /\ Cardinality(1..N) = N
  BY FS_CardinalityType, FS_Interval
<1>2. \A a, b \in E : b \in UpTo(a, E, rws) <=>
         rws[a].date < rws[b].date \/ (rws[a].date = rws[b].date /\ b <= a)
  BY DEF UpTo, Precedes, Position
<1>3. \A a \in E : /\ UpTo(a, E, rws) \subseteq E /\ a \in UpTo(a, E, rws)
                   /\ IsFiniteSet(UpTo(a, E, rws))
  <2> SUFFICES ASSUME NEW a \in E
               PROVE  /\ UpTo(a, E, rws) \subseteq E /\ a \in UpTo(a, E, rws)
                      /\ IsFiniteSet(UpTo(a, E, rws))
    OBVIOUS
  <2>1. UpTo(a, E, rws) \subseteq E
    BY DEF UpTo
  <2>2. a \in UpTo(a, E, rws)
    BY <1>2
  <2> QED BY <2>1, <2>2, FS_Subset
<1>4. \A a \in E : rank[a] \in 1..N
  <2> SUFFICES ASSUME NEW a \in E PROVE Cardinality(UpTo(a, E, rws)) \in 1..N
    OBVIOUS
  <2>1. Cardinality(UpTo(a, E, rws)) \in Nat /\ Cardinality(UpTo(a, E, rws)) <= N
    BY <1>3, FS_CardinalityType, FS_Subset
  <2>2. Cardinality(UpTo(a, E, rws)) # 0
    BY <1>3, FS_EmptySet
  <2> QED BY <1>1, <2>1, <2>2
<1>5. ASSUME NEW a \in E, NEW b \in E, rank[a] = rank[b], b \notin UpTo(a, E, rws) PROVE FALSE
  <2>1. UpTo(a, E, rws) \subseteq UpTo(b, E, rws)
    <3> SUFFICES ASSUME NEW c \in E, c \in UpTo(a, E, rws) PROVE c \in UpTo(b, E, rws)
      BY <1>3
    <3>1. rws[a].date \in Nat /\ rws[b].date \in Nat /\ rws[c].date \in Nat
          /\ a \in Nat /\ b \in Nat /\ c \in Nat
      OBVIOUS
    <3> QED BY <1>2, <1>5, <3>1
  <2>2. UpTo(a, E, rws) = UpTo(b, E, rws)
    BY <1>3, <1>5, <2>1, FS_Subset
  <2> QED BY <1>3, <1>5, <2>2
<1>6. rank \in Injection(E, 1..N)
  <2>1. ASSUME NEW a \in E, NEW b \in E, rank[a] = rank[b] PROVE a = b
    <3>1. b \in UpTo(a, E, rws) /\ a \in UpTo(b, E, rws)
      BY <1>5, <2>1
    <3> QED BY <1>2, <3>1
  <2> QED BY <1>4, <2>1 DEF Injection, IsInjective
<1>7. rank \in Surjection(E, 1..N)
  BY <1>1, <1>6, FS_Injection
<1> QED BY <1>7 DEF Surjection

LEMMA ArticlesStandApart ==
  ASSUME NEW rws, IsFiniteSet(DOMAIN rws), DOMAIN rws \subseteq Nat,
         \A a \in DOMAIN rws : rws[a].date \in Nat, NEW src, NEW topics
  PROVE  PositionsApart(OutwardArticles(rws, src, topics))
<1> DEFINE E == {a \in DOMAIN rws : Eligible(rws[a], src, topics)}
           N == Cardinality(E)
           n == IF N < ResultLimit THEN N ELSE ResultLimit
           Nth(i) == CHOOSE a \in E : Cardinality(UpTo(a, E, rws)) = i
           articles == OutwardArticles(rws, src, topics)
<1>1. E \subseteq DOMAIN rws
  OBVIOUS
<1>2. articles = [i \in 1..n |-> [position |-> Position(Nth(i), rws),
                                  headline |-> rws[Nth(i)].headline]]
  BY DEF OutwardArticles, UpTo
<1> HIDE DEF E, articles
<1>3. IsFiniteSet(E) /\ N \in Nat
  BY <1>1, FS_Subset, FS_CardinalityType
<1>4. n \in Nat /\ n <= N
  BY <1>3, ResultLimitAssumption
<1>5. \A i \in 1..N : Cardinality(UpTo(Nth(i), E, rws)) = i
  BY <1>1, <1>3, RanksAreTaken
<1> HIDE DEF Nth, N, n
<1>6. Listed(articles)
  BY <1>2, <1>4, FunctionIsListed
<1>7. \A i \in 1..n : articles[i].position.id = Nth(i)
  BY <1>2 DEF Position
<1>8. ASSUME NEW i \in DOMAIN articles, NEW j \in DOMAIN articles,
             articles[i].position = articles[j].position
      PROVE  i = j
  <2>1. i \in 1..N /\ j \in 1..N /\ Nth(i) = Nth(j)
    BY <1>2, <1>3, <1>4, <1>7, <1>8
  <2> QED BY <1>5, <2>1
<1> QED BY <1>6, <1>8 DEF PositionsApart, articles

\* What is shown of a snapshot has an item for each of its articles.
LEMMA ItemsOfSnapshot ==
  ASSUME NEW s, PositionsApart(s.articles)
  PROVE  /\ Len(s.articles) \in Nat /\ Listed(Representation(s).articles)
         /\ Len(Representation(s).articles) = Len(s.articles)
<1> DEFINE out == Representation(s).articles
<1>1. Len(s.articles) \in Nat /\ DOMAIN s.articles = 1..Len(s.articles)
  BY ListLength DEF PositionsApart
<1>2. out = [i \in 1..Len(s.articles) |-> out[i]]
  BY <1>1 DEF Representation
<1> HIDE DEF out
<1>3. Listed(out) /\ Len(out) = Len(s.articles)
  BY <1>1, <1>2, FunctionIsListed
<1> QED BY <1>1, <1>3 DEF out

\* A cursor leads to the article behind the one it was made of.
LEMMA CursorContinues ==
  ASSUME NEW articles, PositionsApart(articles), NEW k \in 1..Len(articles)
  PROVE  ContinuationIndex(articles, articles[k].position) = k + 1
<1>1. DOMAIN articles = 1..Len(articles)
  BY ListLength DEF PositionsApart
<1>2. {i \in DOMAIN articles : articles[i].position = articles[k].position} = {k}
  BY <1>1 DEF PositionsApart
<1>3. (CHOOSE i \in {k} : \A j \in {k} : i <= j) = k
  <2>1. k \in {k} /\ \A j \in {k} : k <= j
    BY <1>1
  <2> QED BY <2>1
<1>4. {k} # {}
  OBVIOUS
<1> QED BY <1>2, <1>3, <1>4 DEF ContinuationIndex

\* A page continues the articles before it, and its cursor tells how far.
LEMMA SliceContinues ==
  ASSUME NEW s, PositionsApart(s.articles), NEW k \in 0..Len(s.articles)
  PROVE  \E n \in 0..Len(s.articles) :
           /\ SubSeq(Representation(s).articles, 1, k) \o Slice(s, k + 1).items
                = SubSeq(Representation(s).articles, 1, n)
           /\ \/ Slice(s, k + 1).next = NoCursor /\ n = Len(s.articles)
              \/ /\ Slice(s, k + 1).next = Cursor(s, s.articles[n].position)
                 /\ n # 0 /\ n # Len(s.articles)
<1> DEFINE L == Len(s.articles)
           n == IF k + PageSize < L THEN k + PageSize ELSE L
           out == Representation(s).articles
           page == Slice(s, k + 1)
<1>1. L \in Nat
  BY ItemsOfSnapshot
<1>2. PICK S : out \in Seq(S) /\ Len(out) = L
  BY ItemsOfSnapshot DEF Listed
<1>3. n \in k..L /\ (k + 1) + PageSize - 1 = k + PageSize
  BY <1>1, PageSizeAssumption
<1>4. /\ page.items = SubSeq(out, k + 1, n)
      /\ page.next = IF n < L THEN Cursor(s, s.articles[n].position) ELSE NoCursor
  BY <1>3 DEF Slice, Revision
<1>5. n < L => n # 0
  BY <1>1, PageSizeAssumption
<1> HIDE DEF L, n, out, page
<1>6. SubSeq(out, 1, k) \o SubSeq(out, k + 1, n) = SubSeq(out, 1, n)
  BY <1>1, <1>2, <1>3, ConcatAdjacentSubSeq, 1 \in 1..Len(out) + 1, k \in 1 - 1..Len(out),
     n \in k..Len(out) DEF L
<1>7. n \in 0..L /\ (n < L \/ n = L)
  BY <1>1, <1>3 DEF L
<1>8. n < L \/ n = L
  BY <1>7
<1>9. n = L => ~(n < L)
  BY <1>1 DEF L
<1>10. /\ n \in 0..L /\ SubSeq(out, 1, k) \o page.items = SubSeq(out, 1, n)
       /\ \/ page.next = NoCursor /\ n = L
          \/ page.next = Cursor(s, s.articles[n].position) /\ n # 0 /\ n # L
  BY <1>4, <1>5, <1>6, <1>7, <1>8, <1>9
<1> QED BY <1>10 DEF L, out, page

-----------------------------------------------------------------------------
(* The invariant.                                                          *)

\* The holder of the lock alone is under way.
RunShape(run) ==
  run \in [step : {run.step}, cursor : {run.cursor}, items : {run.items}, pages : {run.pages},
           revision : {run.revision}, digest : {run.digest}, at : {run.at},
           answer : {run.answer}, retries : {run.retries}, restarts : {run.restarts}]

LockInv ==
  /\ sync \in [Processes -> Range(sync)]
  /\ \A p \in Processes : RunShape(sync[p]) /\ (sync[p].step # "idle" => lock = p)

\* A manifest names a file that is its own, and one before it.
ManifestInv(m, files) ==
  /\ m \in [active : 0..Len(files), previous : 0..Len(files), disabled : {m.disabled},
            etag : {m.etag}, revision : {m.revision}, at : {m.at}]
  /\ m.active # 0 => files[m.active].revision = m.revision

\* What is to be committed has been written last, and not been pruned.
CommitInv(run, files) ==
  run.step = "commit" => Len(files) # 0 /\ files[Len(files)].revision = run.revision

\* What Load makes of a manifest and the files it is given.
Loaded(m, files) ==
  IF m.active # 0 /\ files[m.active].revision # m.revision THEN Unavailable
  ELSE IF m.disabled THEN Suppressed
  ELSE IF m.active = 0 THEN Nothing
  ELSE files[m.active].shows

\* The file a page is about to open is kept until it is overtaken twice.
ReadingInv(r, m, files) ==
  /\ r.manifest.active \in 0..Len(files)
  /\ r.manifest.disabled => r.expects = Suppressed
  /\ \/ Loaded(r.manifest, files) = r.expects
     \/ r.activations = 2 /\ r.manifest.active # 0 /\ files[r.manifest.active] = Pruned
  /\ r.activations = 0 => r.manifest.active = m.active
  /\ r.activations = 1 => r.manifest.active = m.previous

ReaderInv(r, m, files) ==
  /\ r \in [step : {"before", "reading", "done"}, manifest : {r.manifest}, expects : {r.expects},
            result : {r.result}, activations : 0..2]
  /\ r.step = "before" => r.activations = 0
  /\ r.step = "reading" => ReadingInv(r, m, files)
  /\ r.step = "done" => \/ r.result = r.expects
                        \/ r.result = Unavailable /\ r.activations = 2

StoreInv ==
  /\ Listed(generations)
  /\ ManifestInv(manifest, generations)
  /\ ReaderInv(reader, manifest, generations)

SyncInv ==
  /\ LockInv
  /\ StoreInv
  /\ \A p \in Processes : CommitInv(sync[p], generations)

LEMMA LoadIsLoaded == \A m : Load(m) = Loaded(m, generations)
BY DEF Load, Loaded, Readable, Usable

LEMMA SyncStarts == Init => SyncInv
<1> SUFFICES ASSUME Init PROVE SyncInv
  OBVIOUS
<1>1. LockInv
  BY DEF Init, LockInv, RunShape, Idle, Range
<1>2. Listed(generations) /\ Len(generations) = 0
  BY EmptySeq DEF Init, StoreInit, Listed
<1>3. ManifestInv(manifest, generations)
  BY <1>2 DEF Init, StoreInit, NoManifest, ManifestInv
<1>4. ReaderInv(reader, manifest, generations)
  BY DEF Init, StoreInit, ReaderInv
<1>5. \A p \in Processes : CommitInv(sync[p], generations)
  BY DEF Init, Idle, CommitInv
<1> QED BY <1>1, <1>2, <1>3, <1>4, <1>5 DEF SyncInv, StoreInv

-----------------------------------------------------------------------------
(* The statements of the store.                                            *)

\* Only facts of the manifest change, not the files it names.
LEMMA FactsKeep ==
  ASSUME StoreInv, NEW m, UNCHANGED << generations, reader >>, manifest' = m,
         m \in [active : {manifest.active}, previous : {manifest.previous},
                disabled : {m.disabled}, etag : {m.etag},
                revision : {manifest.revision}, at : {m.at}]
  PROVE  StoreInv'
<1>1. ManifestInv(m, generations)
  BY DEF StoreInv, ManifestInv
<1>2. ReaderInv(reader, m, generations)
  BY DEF StoreInv, ReaderInv, ReadingInv
<1> QED BY <1>1, <1>2 DEF StoreInv

LEMMA RecordingKeeps ==
  ASSUME StoreInv, NEW etag, NEW at,
         \/ StoreUnchanged(etag, at)
         \/ StoreDisabled(at)
         \/ StoreFailure
  PROVE  StoreInv' /\ generations' = generations
<1>1. manifest \in [active : {manifest.active}, previous : {manifest.previous},
                    disabled : {manifest.disabled}, etag : {manifest.etag},
                    revision : {manifest.revision}, at : {manifest.at}]
  BY DEF StoreInv, ManifestInv
<1>2. UNCHANGED << generations, reader >>
  BY DEF StoreUnchanged, StoreDisabled, StoreFailure
<1>3. manifest' \in [active : {manifest.active}, previous : {manifest.previous},
                     disabled : {manifest'.disabled}, etag : {manifest'.etag},
                     revision : {manifest.revision}, at : {manifest'.at}]
  <2>1. CASE StoreUnchanged(etag, at)
    BY <1>1, <2>1 DEF StoreUnchanged, ManifestForFacts
  <2>2. CASE StoreDisabled(at)
    BY <1>1, <2>2 DEF StoreDisabled, ManifestForFacts
  <2>3. CASE StoreFailure
    BY <1>1, <2>3 DEF StoreFailure, ManifestForFacts
  <2> QED BY <2>1, <2>2, <2>3
<1> QED BY <1>2, <1>3, FactsKeep

\* A new file is named by nobody yet.
LEMMA WriteKeeps ==
  ASSUME StoreInv, NEW revision, NEW shows, NEW at, WriteGeneration(revision, shows, at)
  PROVE  /\ StoreInv'
         /\ Len(generations') # 0 /\ generations'[Len(generations')].revision = revision
<1> DEFINE file == [revision |-> revision, shows |-> shows, at |-> at]
           n == Len(generations)
<1>1. /\ generations' = Append(generations, file) /\ UNCHANGED << manifest, reader >>
      /\ file.revision = revision
  BY DEF WriteGeneration
<1> HIDE DEF file
<1> HIDE DEF n
<1>4. /\ Listed(generations') /\ Len(generations') = n + 1 /\ n = Len(generations)
      /\ generations'[n + 1] = file /\ n \in Nat
      /\ \A i \in 1..n : generations'[i] = generations[i]
  BY <1>1, AppendIsListed, ListLength DEF StoreInv, n
<1>5. ManifestInv(manifest', generations')
  BY <1>1, <1>4 DEF StoreInv, ManifestInv
<1>6. ReaderInv(reader', manifest', generations')
  <2>1. SUFFICES ASSUME reader.step = "reading" PROVE ReadingInv(reader, manifest, generations')
    BY <1>1 DEF StoreInv, ReaderInv
  <2>2. ReadingInv(reader, manifest, generations) /\ reader.manifest.active \in 0..n
    BY <1>4, <2>1 DEF StoreInv, ReaderInv, ReadingInv
  <2>3. reader.manifest.active # 0 =>
          generations'[reader.manifest.active] = generations[reader.manifest.active]
    BY <1>4, <2>2
  <2>4. Loaded(reader.manifest, generations') = Loaded(reader.manifest, generations)
    BY <2>3 DEF Loaded
  <2>5. reader.manifest.active \in 0..Len(generations')
    BY <1>4, <2>2
  <2> QED BY <2>2, <2>3, <2>4, <2>5 DEF ReadingInv
<1> QED BY <1>1, <1>4, <1>5, <1>6 DEF StoreInv

\* The file that was active is the previous one, for whoever reads it.
LEMMA CommitKeeps ==
  ASSUME StoreInv, NEW revision, NEW etag, Len(generations) # 0,
         generations[Len(generations)].revision = revision,
         CommitGeneration(Len(generations), revision, etag)
  PROVE  StoreInv' /\ generations' = generations
<1> DEFINE n == Len(generations)
           m == manifest'
           read == [reader EXCEPT !.activations = @ + 1]
<1>1. generations' = generations /\ n \in Nat /\ n # 0 /\ generations[n].revision = revision
  BY ListLength DEF StoreInv, CommitGeneration
<1>2. /\ m \in [active : {n}, previous : {manifest.active}, disabled : {FALSE},
                etag : {etag}, revision : {revision}, at : {m.at}]
  <2>1. manifest \in [active : {manifest.active}, previous : {manifest.previous},
                      disabled : {manifest.disabled}, etag : {manifest.etag},
                      revision : {manifest.revision}, at : {manifest.at}]
    BY DEF StoreInv, ManifestInv
  <2>2. m = [manifest EXCEPT !.disabled = FALSE, !.at = generations[n].at, !.active = n,
                             !.previous = manifest.active, !.revision = revision, !.etag = etag]
    BY DEF CommitGeneration, ManifestForFacts
  <2> HIDE DEF m, n
  <2> QED BY <2>1, <2>2
<1> HIDE DEF m
<1>3. manifest.active \in 0..n
  BY DEF StoreInv, ManifestInv
<1>4. ManifestInv(m, generations)
  BY <1>1, <1>2, <1>3 DEF ManifestInv
<1>5. ReaderInv(reader, manifest, generations)
  BY DEF StoreInv
<1>6. ReaderInv(reader', m, generations)
  <2>1. CASE reader.step # "reading"
    BY <1>5, <2>1 DEF CommitGeneration, ReaderInv
  <2>2. CASE reader.step = "reading" /\ reader.activations = 2
    BY <1>5, <2>2 DEF CommitGeneration, ReaderInv, ReadingInv
  <2>3. CASE reader.step = "reading" /\ reader.activations # 2
    <3>1. ReadingInv(reader, manifest, generations) /\ reader.activations \in {0, 1}
      BY <1>5, <2>3 DEF ReaderInv
    <3>2. reader' = read
      BY <2>3, <3>1 DEF CommitGeneration
    <3>3. /\ read \in [step : {"reading"}, manifest : {reader.manifest},
                       expects : {reader.expects}, result : {reader.result}, activations : 0..2]
          /\ read.activations = reader.activations + 1
      BY <1>5, <2>3, <3>1 DEF ReaderInv
    <3> HIDE DEF read
    <3>4. ReadingInv(read, m, generations)
      BY <1>2, <3>1, <3>3 DEF ReadingInv
    <3> QED BY <3>2, <3>3, <3>4 DEF ReaderInv
  <2> QED BY <2>1, <2>2, <2>3
<1> QED BY <1>1, <1>4, <1>6 DEF StoreInv, m

LEMMA PruneKeeps ==
  ASSUME StoreInv, PruneGenerations
  PROVE  StoreInv'
<1> DEFINE n == Len(generations)
           m == reader.manifest
           kept == {manifest.active, manifest.previous}
<1>1. /\ generations' = [g \in DOMAIN generations |-> IF g \in kept THEN generations[g] ELSE Pruned]
      /\ UNCHANGED << manifest, reader >>
  BY DEF PruneGenerations
<1>2. n \in Nat /\ DOMAIN generations = 1..n
  BY ListLength DEF StoreInv
<1>3. Listed(generations') /\ Len(generations') = n
  <2>1. generations' = [g \in 1..n |-> generations'[g]]
    BY <1>1, <1>2
  <2> QED BY <1>2, <2>1, FunctionIsListed
<1>4. \A g \in 1..n : generations'[g] = IF g \in kept THEN generations[g] ELSE Pruned
  BY <1>1, <1>2
<1> HIDE DEF kept
<1>5. ManifestInv(manifest, generations')
  BY <1>2, <1>3, <1>4 DEF StoreInv, ManifestInv, kept
<1>6. ReaderInv(reader, manifest, generations')
  <2>1. SUFFICES ASSUME reader.step = "reading" PROVE ReadingInv(reader, manifest, generations')
    BY DEF StoreInv, ReaderInv
  <2>2. /\ ReadingInv(reader, manifest, generations) /\ m.active \in 0..n
        /\ reader.activations \in 0..2
    BY <2>1 DEF StoreInv, ReaderInv, ReadingInv
  <2>3. m.active = 0 \/ m.active \in 1..n
    BY <1>2, <2>2
  <2>4. CASE m.active = 0 \/ m.active \in kept
    <3>1. m.active # 0 => generations'[m.active] = generations[m.active]
      BY <1>4, <2>3, <2>4
    <3>2. Loaded(m, generations') = Loaded(m, generations)
      BY <3>1 DEF Loaded
    <3> QED BY <1>3, <2>2, <3>1, <3>2 DEF ReadingInv
  <2>5. CASE m.active # 0 /\ m.active \notin kept
    <3>1. generations'[m.active] = Pruned
      BY <1>4, <2>3, <2>5
    <3>2. reader.activations = 2
      BY <2>2, <2>5 DEF ReadingInv, kept
    <3> QED BY <1>3, <2>2, <2>5, <3>1, <3>2 DEF ReadingInv
  <2> QED BY <2>4, <2>5
<1> QED BY <1>1, <1>3, <1>5, <1>6 DEF StoreInv

\* A page begins to read what the site shows, and ends with what it finds.
LEMMA PageKeeps ==
  ASSUME StoreInv, ReadManifest \/ ReadGeneration
  PROVE  StoreInv'
<1>1. /\ UNCHANGED << manifest, generations >> /\ ManifestInv(manifest, generations)
      /\ ReaderInv(reader, manifest, generations)
  BY DEF ReadManifest, ReadGeneration, StoreInv
<1>2. CASE ReadManifest
  <2>1. reader' = [reader EXCEPT !.step = "reading", !.manifest = manifest,
                                 !.expects = Loaded(manifest, generations)]
    BY <1>2, LoadIsLoaded DEF ReadManifest, Shown
  <2>2. /\ reader' \in [step : {"reading"}, manifest : {manifest}, result : {reader.result},
                        expects : {Loaded(manifest, generations)}, activations : {0}]
    BY <1>1, <1>2, <2>1 DEF ReadManifest, ReaderInv
  <2>3. manifest.disabled => Loaded(manifest, generations) = Suppressed
    BY <1>1 DEF ManifestInv, Loaded
  <2>4. manifest.active \in 0..Len(generations)
    BY <1>1 DEF ManifestInv
  <2>5. ReadingInv(reader', manifest, generations)
    BY <2>2, <2>3, <2>4 DEF ReadingInv
  <2>6. ReaderInv(reader', manifest, generations)
    BY <2>2, <2>5 DEF ReaderInv
  <2> QED BY <1>1, <2>6 DEF StoreInv
<1>3. CASE ReadGeneration
  <2>1. /\ reader.step = "reading"
        /\ reader' = [reader EXCEPT !.step = "done", !.result = Loaded(reader.manifest, generations),
                                    !.manifest = NoManifest]
    BY <1>3, LoadIsLoaded DEF ReadGeneration
  <2>2. reader' \in [step : {"done"}, manifest : {NoManifest}, expects : {reader.expects},
                     result : {Loaded(reader.manifest, generations)},
                     activations : {reader.activations}]
    BY <1>1, <2>1 DEF ReaderInv
  <2>3. ReadingInv(reader, manifest, generations) /\ reader.activations \in 0..2
    BY <1>1, <2>1 DEF ReaderInv
  <2>4. \/ Loaded(reader.manifest, generations) = reader.expects
        \/ Loaded(reader.manifest, generations) = Unavailable /\ reader.activations = 2
    BY <2>3 DEF ReadingInv, Loaded, Pruned
  <2>5. ReaderInv(reader', manifest, generations)
    BY <2>2, <2>3, <2>4 DEF ReaderInv
  <2> QED BY <1>1, <2>5 DEF StoreInv
<1> QED BY <1>2, <1>3

-----------------------------------------------------------------------------
(* The runs.                                                               *)

\* The holder goes on: nobody else is under way.
LEMMA HolderMoves ==
  ASSUME LockInv, NEW p \in Processes, sync[p].step # "idle", NEW run, RunShape(run),
         Move(p, run), lock' = lock
  PROVE  /\ LockInv' /\ sync'[p] = run
         /\ \A q \in Processes \ {p} : sync'[q].step = "idle"
<1>1. /\ sync' = [sync EXCEPT ![p] = run] /\ sync \in [Processes -> Range(sync)]
  BY DEF Move, LockInv
<1>2. sync'[p] = run /\ \A q \in Processes \ {p} : sync'[q] = sync[q]
  BY <1>1
<1>3. sync' \in [Processes -> Range(sync')]
  BY <1>1 DEF Range
<1>4. \A q \in Processes \ {p} : sync[q].step = "idle"
  BY DEF LockInv
<1> QED BY <1>2, <1>3, <1>4 DEF LockInv

LEMMA HolderFinishes ==
  ASSUME LockInv, NEW p \in Processes, sync[p].step # "idle", Finish(p)
  PROVE  LockInv' /\ \A q \in Processes : sync'[q].step = "idle"
<1>1. /\ sync' = [sync EXCEPT ![p] = Idle] /\ sync \in [Processes -> Range(sync)]
  BY DEF Finish, Move, LockInv
<1>2. sync'[p] = Idle /\ \A q \in Processes \ {p} : sync'[q] = sync[q]
  BY <1>1
<1>3. sync' \in [Processes -> Range(sync')]
  BY <1>1 DEF Range
<1>4. \A q \in Processes \ {p} : sync[q].step = "idle"
  BY DEF LockInv
<1>5. RunShape(Idle) /\ Idle.step = "idle"
  BY DEF RunShape, Idle
<1> QED BY <1>2, <1>3, <1>4, <1>5 DEF LockInv

LEMMA StartKeeps ==
  ASSUME SyncInv, NEW p \in Processes, Start(p)
  PROVE  SyncInv'
<1> DEFINE run == [Idle EXCEPT !.step = "ask"]
<1>1. /\ lock = NoProcess /\ lock' = p /\ sync' = [sync EXCEPT ![p] = run]
      /\ UNCHANGED storeVars /\ LockInv
  BY DEF Start, TryAcquire, Move, SyncInv
<1>2. RunShape(run) /\ run.step = "ask"
  BY DEF RunShape, Idle
<1> HIDE DEF run
<1>3. sync'[p] = run /\ \A q \in Processes \ {p} : sync'[q] = sync[q]
  BY <1>1 DEF LockInv
<1>4. \A q \in Processes : sync[q].step = "idle"
  BY <1>1, ProcessAssumption DEF LockInv
<1>5. sync' \in [Processes -> Range(sync')]
  BY <1>1 DEF LockInv, Range
<1>6. LockInv'
  BY <1>1, <1>2, <1>3, <1>4, <1>5 DEF LockInv
<1>7. StoreInv'
  BY <1>1 DEF SyncInv, StoreInv, storeVars
<1>8. \A q \in Processes : CommitInv(sync'[q], generations')
  BY <1>2, <1>3, <1>4 DEF CommitInv
<1> QED BY <1>6, <1>7, <1>8 DEF SyncInv

\* Requests and answers leave the store alone, and lead to no commit.
LEMMA RequestKeeps ==
  ASSUME SyncInv, NEW p \in Processes, sync[p].step # "idle", NEW run, RunShape(run),
         run.step # "commit", Move(p, run), lock' = lock, UNCHANGED storeVars
  PROVE  SyncInv'
<1>1. LockInv' /\ sync'[p] = run /\ \A q \in Processes \ {p} : sync'[q].step = "idle"
  BY HolderMoves DEF SyncInv
<1>2. StoreInv'
  BY DEF SyncInv, StoreInv, storeVars
<1>3. \A q \in Processes : CommitInv(sync'[q], generations')
  BY <1>1 DEF CommitInv
<1> QED BY <1>1, <1>2, <1>3 DEF SyncInv

LEMMA EndKeeps ==
  ASSUME SyncInv, NEW p \in Processes, sync[p].step # "idle", Finish(p), StoreInv'
  PROVE  SyncInv'
<1>1. LockInv' /\ \A q \in Processes : sync'[q].step = "idle"
  BY HolderFinishes DEF SyncInv
<1>2. \A q \in Processes : CommitInv(sync'[q], generations')
  BY <1>1 DEF CommitInv
<1> QED BY <1>1, <1>2 DEF SyncInv

LEMMA RequestsKeep ==
  ASSUME SyncInv, NEW p \in Processes,
         \/ Ask(p) \/ Authorise(p) \/ Serve(p) \/ AnswerLost(p) \/ AnswerDamaged(p)
  PROVE  SyncInv'
<1> DEFINE shape == RunShape(sync[p])
<1>0. shape
  BY DEF SyncInv, LockInv
<1>1. \A kind : RunShape(Got(p, kind)) /\ Got(p, kind).step = "answered"
  BY <1>0 DEF RunShape, Got
<1>2. CASE Ask(p)
  <2>1. RunShape([sync[p] EXCEPT !.step = "authenticate"])
        /\ [sync[p] EXCEPT !.step = "authenticate"].step = "authenticate"
    BY <1>0 DEF RunShape
  <2>2. sync[p].step # "idle" /\ lock' = lock /\ UNCHANGED storeVars
    BY <1>2 DEF Ask
  <2>3. Move(p, Got(p, "rate_limited")) \/ Move(p, [sync[p] EXCEPT !.step = "authenticate"])
    BY <1>2 DEF Ask
  <2> QED BY <1>1, <2>1, <2>2, <2>3, RequestKeeps
<1>3. CASE Authorise(p)
  <2>1. RunShape([sync[p] EXCEPT !.step = "read"]) /\ [sync[p] EXCEPT !.step = "read"].step = "read"
    BY <1>0 DEF RunShape
  <2>2. sync[p].step # "idle" /\ lock' = lock /\ UNCHANGED storeVars
    BY <1>3 DEF Authorise
  <2>3. (\E kind : Move(p, Got(p, kind))) \/ Move(p, [sync[p] EXCEPT !.step = "read"])
    BY <1>3 DEF Authorise
  <2> QED BY <1>1, <2>1, <2>2, <2>3, RequestKeeps
<1>4. CASE Serve(p)
  <2>1. \E answer, at :
          Move(p, [sync[p] EXCEPT !.step = "answered", !.answer = answer, !.at = at])
    BY <1>4 DEF Serve
  <2>2. \A answer, at :
          /\ RunShape([sync[p] EXCEPT !.step = "answered", !.answer = answer, !.at = at])
          /\ [sync[p] EXCEPT !.step = "answered", !.answer = answer, !.at = at].step = "answered"
    BY <1>0 DEF RunShape
  <2>3. sync[p].step # "idle" /\ lock' = lock /\ UNCHANGED storeVars
    BY <1>4 DEF Serve
  <2> QED BY <2>1, <2>2, <2>3, RequestKeeps
<1>5. CASE AnswerLost(p) \/ AnswerDamaged(p)
  <2>1. sync[p].step # "idle" /\ lock' = lock /\ UNCHANGED storeVars
    BY <1>5 DEF AnswerLost, AnswerDamaged
  <2>2. \E kind : Move(p, Got(p, kind))
    BY <1>5 DEF AnswerLost, AnswerDamaged
  <2> QED BY <1>1, <2>1, <2>2, RequestKeeps
<1> QED BY <1>2, <1>3, <1>4, <1>5

LEMMA AnswersKeep ==
  ASSUME SyncInv, NEW p \in Processes,
         RetryPosition(p) \/ TakePage(p) \/ RestartTraversal(p)
  PROVE  SyncInv'
<1>0. RunShape(sync[p])
  BY DEF SyncInv, LockInv
<1>1. sync[p].step # "idle" /\ lock' = lock /\ UNCHANGED storeVars
  BY DEF RetryPosition, TakePage, RestartTraversal, Retryable, Answered
<1>2. CASE RetryPosition(p)
  <2> DEFINE run == [sync[p] EXCEPT !.step = "ask", !.answer = Idle.answer, !.retries = @ + 1]
  <2>1. Move(p, run)
    BY <1>2 DEF RetryPosition
  <2>2. RunShape(run) /\ run.step = "ask"
    BY <1>0 DEF RunShape
  <2> HIDE DEF run
  <2> QED BY <1>1, <2>1, <2>2, RequestKeeps
<1>3. CASE TakePage(p)
  <2> DEFINE page  == sync[p].answer
             kept  == IF sync[p].pages = 0 \/ page.digest = sync[p].digest
                      THEN page.digest ELSE NoDigest
             taken == [sync[p] EXCEPT !.items = @ \o page.items, !.pages = @ + 1,
                                      !.revision = page.revision, !.digest = kept,
                                      !.answer = Idle.answer, !.retries = 0]
             last  == [taken EXCEPT !.step = "write", !.cursor = NoCursor]
             more  == [taken EXCEPT !.step = "ask", !.cursor = page.next]
  <2>1. Move(p, last) \/ Move(p, more)
    BY <1>3 DEF TakePage
  <2>2. RunShape(taken)
    BY <1>0 DEF RunShape
  <2> HIDE DEF taken
  <2>3. RunShape(last) /\ last.step = "write" /\ RunShape(more) /\ more.step = "ask"
    BY <2>2 DEF RunShape
  <2> HIDE DEF last, more
  <2>4. last.step # "commit" /\ more.step # "commit"
    BY <2>3
  <2> QED BY <1>1, <2>1, <2>3, <2>4, RequestKeeps
<1>4. CASE RestartTraversal(p)
  <2> DEFINE run == [Idle EXCEPT !.step = "ask", !.restarts = sync[p].restarts + 1]
  <2>1. Move(p, run)
    BY <1>4 DEF RestartTraversal
  <2>2. RunShape(run) /\ run.step = "ask"
    BY DEF RunShape, Idle
  <2> HIDE DEF run
  <2> QED BY <1>1, <2>1, <2>2, RequestKeeps
<1> QED BY <1>2, <1>3, <1>4

LEMMA RecordsKeep ==
  ASSUME SyncInv, NEW p \in Processes,
         RecordUnchanged(p) \/ MarkDisabled(p) \/ RecordFailure(p) \/ DiskFails(p)
  PROVE  SyncInv'
<1>1. sync[p].step # "idle" /\ Finish(p)
  BY DEF RecordUnchanged, MarkDisabled, RecordFailure, DiskFails, Fails, Retryable, Answered
<1>2. StoreInv'
  <2>1. \E etag, at : StoreUnchanged(etag, at) \/ StoreDisabled(at) \/ StoreFailure
    BY DEF RecordUnchanged, MarkDisabled, RecordFailure, DiskFails
  <2> QED BY <2>1, RecordingKeeps DEF SyncInv
<1> QED BY <1>1, <1>2, EndKeeps

LEMMA WritingKeeps ==
  ASSUME SyncInv, NEW p \in Processes, Write(p)
  PROVE  SyncInv'
<1> DEFINE run == [Idle EXCEPT !.step = "commit", !.revision = sync[p].revision]
<1>1. /\ sync[p].step # "idle" /\ lock' = lock /\ Move(p, run)
      /\ \E shows, at : WriteGeneration(sync[p].revision, shows, at)
  BY DEF Write
<1>2. RunShape(run) /\ run.step = "commit" /\ run.revision = sync[p].revision
  BY DEF RunShape, Idle
<1> HIDE DEF run
<1>3. /\ StoreInv' /\ Len(generations') # 0
      /\ generations'[Len(generations')].revision = sync[p].revision
  BY <1>1, WriteKeeps DEF SyncInv
<1>4. LockInv' /\ sync'[p] = run /\ \A q \in Processes \ {p} : sync'[q].step = "idle"
  BY <1>1, <1>2, HolderMoves DEF SyncInv
<1>5. \A q \in Processes : CommitInv(sync'[q], generations')
  BY <1>2, <1>3, <1>4 DEF CommitInv
<1> QED BY <1>3, <1>4, <1>5 DEF SyncInv

LEMMA CommittingKeeps ==
  ASSUME SyncInv, NEW p \in Processes, Commit(p)
  PROVE  SyncInv'
<1> DEFINE run == [Idle EXCEPT !.step = "prune"]
<1>1. /\ sync[p].step = "commit" /\ lock' = lock /\ Move(p, run)
      /\ CommitGeneration(Len(generations), sync[p].revision, sync[p].revision)
  BY DEF Commit
<1>2. RunShape(run) /\ run.step = "prune"
  BY DEF RunShape, Idle
<1> HIDE DEF run
<1>3. Len(generations) # 0 /\ generations[Len(generations)].revision = sync[p].revision
  BY <1>1 DEF SyncInv, CommitInv
<1>4. StoreInv'
  BY <1>1, <1>3, CommitKeeps DEF SyncInv
<1>5. LockInv' /\ sync'[p] = run /\ \A q \in Processes \ {p} : sync'[q].step = "idle"
  BY <1>1, <1>2, HolderMoves DEF SyncInv
<1>6. \A q \in Processes : CommitInv(sync'[q], generations')
  BY <1>2, <1>5 DEF CommitInv
<1> QED BY <1>4, <1>5, <1>6 DEF SyncInv

LEMMA PruningKeeps ==
  ASSUME SyncInv, NEW p \in Processes, Prune(p)
  PROVE  SyncInv'
<1>1. sync[p].step # "idle" /\ Finish(p) /\ PruneGenerations
  BY DEF Prune
<1> QED BY <1>1, PruneKeeps, EndKeeps DEF SyncInv

LEMMA CrashKeeps ==
  ASSUME SyncInv, NEW p \in Processes, Crash(p)
  PROVE  SyncInv'
<1>1. sync[p].step # "idle" /\ Finish(p) /\ UNCHANGED storeVars
  BY DEF Crash
<1>2. StoreInv'
  BY <1>1 DEF SyncInv, StoreInv, storeVars
<1> QED BY <1>1, <1>2, EndKeeps

\* What leaves files, manifest, reader, runs and lock alone.
LEMMA OthersKeep ==
  ASSUME SyncInv, UNCHANGED << storeVars, sync, lock >>
  PROVE  SyncInv'
BY DEF SyncInv, StoreInv, LockInv, storeVars

LEMMA PageReadsKeep ==
  ASSUME SyncInv, PageReads
  PROVE  SyncInv'
<1>1. StoreInv' /\ UNCHANGED << sync, lock, generations >>
  BY PageKeeps DEF PageReads, SyncInv, ReadManifest, ReadGeneration
<1> QED BY <1>1 DEF SyncInv, LockInv

LEMMA SyncStep == SyncInv /\ [Next]_vars => SyncInv'
<1> SUFFICES ASSUME SyncInv, [Next]_vars PROVE SyncInv'
  OBVIOUS
<1>1. ASSUME NEW p \in Processes, Step(p) PROVE SyncInv'
  <2>1. CASE Start(p)
    BY <2>1, StartKeeps
  <2>2. CASE Ask(p) \/ Authorise(p) \/ Serve(p)
    BY <2>2, RequestsKeep
  <2>3. CASE RetryPosition(p) \/ TakePage(p) \/ RestartTraversal(p)
    BY <2>3, AnswersKeep
  <2>4. CASE RecordUnchanged(p) \/ MarkDisabled(p) \/ RecordFailure(p)
    BY <2>4, RecordsKeep
  <2>5. CASE Write(p)
    BY <2>5, WritingKeeps
  <2>6. CASE Commit(p)
    BY <2>6, CommittingKeeps
  <2>7. CASE Prune(p)
    BY <2>7, PruningKeeps
  <2> QED BY <1>1, <2>1, <2>2, <2>3, <2>4, <2>5, <2>6, <2>7 DEF Step
<1>2. ASSUME NEW p \in Processes, Fault(p) PROVE SyncInv'
  BY <1>2, RequestsKeep, RecordsKeep, CrashKeeps DEF Fault
<1>3. CASE EditServer
  BY <1>3, OthersKeep DEF EditServer
<1>4. CASE LimiterWindowEnds
  BY <1>4, OthersKeep DEF LimiterWindowEnds
<1>5. CASE PageReads
  BY <1>5, PageReadsKeep
<1>6. CASE UNCHANGED vars
  BY <1>6, OthersKeep DEF vars
<1> QED BY <1>1, <1>2, <1>3, <1>4, <1>5, <1>6 DEF Next

LEMMA SyncInvariant == Spec => []SyncInv
BY SyncStarts, SyncStep, PTL DEF Spec

\* A page of the site that reads without the lock sees one whole state that
\* the site showed when it began, unless two activations overtake it, however
\* many runs overlap and wherever they die.
THEOREM PagesReadWholeStates == Spec => []ReadsAreWhole
<1>1. SyncInv => ReadsAreWhole
  BY DEF SyncInv, StoreInv, ReaderInv, ReadsAreWhole
<1> QED BY <1>1, SyncInvariant, PTL

\* The files of the profile are written by one run at a time: the lock is held
\* by whoever is under way.
THEOREM OneWriterPerProfile ==
  Spec => [](\A p, q \in Processes : sync[p].step # "idle" /\ sync[q].step # "idle" => p = q)
<1>1. SyncInv => \A p, q \in Processes : sync[p].step # "idle" /\ sync[q].step # "idle" => p = q
  BY DEF SyncInv, LockInv
<1> QED BY <1>1, SyncInvariant, PTL

-----------------------------------------------------------------------------
(* Where what a site shows comes from.                                     *)

\* The history ends with the profile as it is.
HistoryInv ==
  /\ Listed(history) /\ Len(history) # 0
  /\ profile \in [lifecycle : {"draft", "active", "disabled"}, topics : {profile.topics}]
  /\ DOMAIN rows = DOMAIN InitialRows /\ \A a \in DOMAIN rows : rows[a].date \in Nat
  /\ history[Len(history)] = Present(rows, source, profile, digest)

\* The profile was active once, and s its snapshot.
ShownAt(h, i, s) ==
  /\ i \in 1..Len(h) /\ h[i].lifecycle = "active" /\ h[i].shows = Representation(s)
  /\ PositionsApart(s.articles)

ManifestKnown(m, files, h) ==
  /\ m.at \in 0..Len(h)
  /\ m.active # 0 => m.etag = m.revision /\ files[m.active].shows = Representation(m.revision)

\* A walk at its first page, or behind the n articles it has taken of a
\* snapshot no earlier than what the site shows.
Begun(run) == run.pages = 0 /\ run.cursor = NoCursor /\ run.items = << >>

Continued(run, m, h) ==
  /\ run.pages \in Nat \ {0} /\ run.digest = run.revision.digest
  /\ ShownAt(h, run.at, run.revision) /\ m.at <= run.at
  /\ \E n \in 1..Len(run.revision.articles) :
       /\ run.items = SubSeq(Representation(run.revision).articles, 1, n)
       /\ run.cursor = Cursor(run.revision, run.revision.articles[n].position)

PageKnown(run, m, h, page) ==
  /\ page.digest = page.revision.digest /\ ShownAt(h, run.at, page.revision) /\ m.at <= run.at
  /\ \E n \in 0..Len(page.revision.articles) :
       /\ run.items \o page.items = SubSeq(Representation(page.revision).articles, 1, n)
       /\ \/ page.next = NoCursor /\ n = Len(page.revision.articles)
          \/ /\ page.next = Cursor(page.revision, page.revision.articles[n].position)
             /\ n # 0

AnswerKnown(run, m, h) ==
  /\ run.answer.kind = "page" => PageKnown(run, m, h, run.answer)
  /\ run.answer.kind = "not_modified" /\ m.active # 0 =>
       ShownAt(h, run.at, m.etag) /\ m.at <= run.at
  /\ run.answer.kind = "profile_disabled" =>
       run.at \in 1..Len(h) /\ m.at <= run.at /\ h[run.at].lifecycle = "disabled"

WholeKnown(run, m, h) ==
  /\ ShownAt(h, run.at, run.revision) /\ m.at <= run.at
  /\ [articles |-> run.items, digest |-> run.digest] = Representation(run.revision)

FileKnown(run, m, file, h) ==
  /\ ShownAt(h, file.at, run.revision) /\ m.at <= file.at
  /\ file.shows = Representation(run.revision)

Walking(run) ==
  \/ run.step \in {"ask", "authenticate", "read"}
  \/ run.step = "answered" /\ run.answer.kind # "profile_disabled"

RunKnown(run, m, files, h) ==
  /\ Walking(run) => Begun(run) \/ Continued(run, m, h)
  /\ run.step = "answered" => AnswerKnown(run, m, h)
  /\ run.step = "write" => WholeKnown(run, m, h)
  /\ run.step = "commit" => FileKnown(run, m, files[Len(files)], h)

KnownInv ==
  /\ HistoryInv
  /\ ManifestKnown(manifest, generations, history)
  /\ \A p \in Processes : RunKnown(sync[p], manifest, generations, history)

\* The step changes nothing that the promise speaks of.
Stays == UNCHANGED << history, manifest.at, Shown >>

LEMMA ShownIsLoaded == Shown = Loaded(manifest, generations) /\ Shown' = Loaded(manifest', generations')
BY DEF Shown, Load, Loaded, Readable, Usable

LEMMA KnownStarts == Init => KnownInv /\ KnownGood!Init
<1> SUFFICES ASSUME Init PROVE KnownInv /\ KnownGood!Init
  OBVIOUS
<1> DEFINE now == Present(rows, source, profile, digest)
<1>1. history = << now >> /\ Len(history) = 1 /\ history[1] = now /\ history \in Seq({now})
  BY DEF Init, ContentInit
<1>2. HistoryInv
  <2>1. profile \in [lifecycle : {"draft", "active", "disabled"}, topics : {profile.topics}]
    BY DEF Init, ContentInit
  <2>2. rows = InitialRows
    BY DEF Init, ContentInit
  <2>3. Len(history) # 0 /\ history[Len(history)] = now
    BY <1>1
  <2> HIDE DEF now
  <2>4. DOMAIN rows = DOMAIN InitialRows /\ \A a \in DOMAIN rows : rows[a].date \in Nat
    BY <2>2, RowsAssumption
  <2> QED BY <1>1, <2>1, <2>3, <2>4 DEF HistoryInv, Listed, now
<1>3. manifest = NoManifest /\ \A p \in Processes : sync[p].step = "idle"
  BY DEF Init, StoreInit, Idle
<1>4. ManifestKnown(manifest, generations, history)
  BY <1>1, <1>3 DEF NoManifest, ManifestKnown
<1>5. \A p \in Processes : RunKnown(sync[p], manifest, generations, history)
  BY <1>3 DEF RunKnown, Walking
<1>6. Shown = Nothing /\ manifest.at = 0
  BY <1>3, ShownIsLoaded DEF NoManifest, Loaded
<1>7. KnownGood!Init
  BY <1>1, <1>6 DEF KnownGood!Init, KnownGood!Nothing, Nothing
<1> QED BY <1>2, <1>4, <1>5, <1>7 DEF KnownInv

\* The holder's run goes on, with the store and the profile as they are.
LEMMA RunGoesOn ==
  ASSUME SyncInv, KnownInv, NEW p \in Processes, sync[p].step # "idle", NEW run, RunShape(run),
         RunKnown(run, manifest, generations, history), Move(p, run), lock' = lock,
         UNCHANGED << contentVars, storeVars >>
  PROVE  KnownInv' /\ Stays
<1>1. sync'[p] = run /\ \A q \in Processes \ {p} : sync'[q].step = "idle"
  BY HolderMoves DEF SyncInv
<1>2. UNCHANGED << manifest, generations, history, rows, source, profile, digest >>
  BY DEF contentVars, storeVars
<1>3. \A q \in Processes : RunKnown(sync'[q], manifest', generations', history')
  <2> SUFFICES ASSUME NEW q \in Processes
               PROVE  RunKnown(sync'[q], manifest', generations', history')
    OBVIOUS
  <2>1. CASE q = p
    BY <1>1, <1>2, <2>1
  <2>2. CASE q # p
    BY <1>1, <2>2 DEF RunKnown, Walking
  <2> QED BY <2>1, <2>2
<1>4. HistoryInv' /\ ManifestKnown(manifest', generations', history')
  BY <1>2 DEF KnownInv, HistoryInv
<1>5. Stays
  BY <1>2, ShownIsLoaded DEF Stays
<1> QED BY <1>3, <1>4, <1>5 DEF KnownInv

\* The run is over: what is left to know is of the manifest.
LEMMA RunIsOver ==
  ASSUME SyncInv, KnownInv, NEW p \in Processes, sync[p].step # "idle", Finish(p),
         UNCHANGED contentVars, ManifestKnown(manifest', generations', history')
  PROVE  KnownInv'
<1>1. \A q \in Processes : sync'[q].step = "idle"
  BY HolderFinishes DEF SyncInv
<1>2. \A q \in Processes : RunKnown(sync'[q], manifest', generations', history')
  BY <1>1 DEF RunKnown, Walking
<1>3. HistoryInv'
  BY DEF KnownInv, HistoryInv, contentVars
<1> QED BY <1>2, <1>3 DEF KnownInv

LEMMA StartKnown ==
  ASSUME SyncInv, KnownInv, NEW p \in Processes, Start(p)
  PROVE  KnownInv' /\ Stays
<1> DEFINE run == [Idle EXCEPT !.step = "ask"]
<1>1. /\ lock = NoProcess /\ sync' = [sync EXCEPT ![p] = run] /\ LockInv
      /\ UNCHANGED << manifest, generations, history, rows, source, profile, digest >>
  BY DEF Start, TryAcquire, Move, SyncInv, storeVars, serverVars, contentVars
<1>2. run.step = "ask" /\ Begun(run)
  BY DEF Idle, Begun
<1> HIDE DEF run
<1>3. sync'[p] = run /\ \A q \in Processes \ {p} : sync'[q] = sync[q]
  BY <1>1 DEF LockInv
<1>4. \A q \in Processes : sync[q].step = "idle"
  BY <1>1, ProcessAssumption DEF LockInv
<1>5. \A q \in Processes : RunKnown(sync'[q], manifest', generations', history')
  BY <1>2, <1>3, <1>4 DEF RunKnown, Walking
<1>6. HistoryInv' /\ ManifestKnown(manifest', generations', history')
  BY <1>1 DEF KnownInv, HistoryInv
<1>7. Stays
  BY <1>1, ShownIsLoaded DEF Stays
<1> QED BY <1>5, <1>6, <1>7 DEF KnownInv

\* Asking again and being refused leaves the walk where it is.
SameWalk(run, next) ==
  /\ Walking(run) /\ Walking(next)
  /\ next.cursor = run.cursor /\ next.items = run.items /\ next.pages = run.pages
  /\ next.revision = run.revision /\ next.digest = run.digest
  /\ next.at = run.at \/ run.pages = 0
  /\ next.step = "answered" => next.answer.kind \notin {"page", "not_modified"}

LEMMA SameWalkKnown ==
  ASSUME NEW run, NEW next, NEW m, NEW files, NEW h, RunKnown(run, m, files, h), SameWalk(run, next)
  PROVE  RunKnown(next, m, files, h)
<1>1. Begun(next) \/ Continued(next, m, h)
  BY DEF RunKnown, SameWalk, Begun, Continued
<1>2. next.step = "answered" => AnswerKnown(next, m, h)
  BY DEF SameWalk, Walking, AnswerKnown
<1> QED BY <1>1, <1>2 DEF RunKnown, SameWalk, Walking

LEMMA RequestsKnown ==
  ASSUME SyncInv, KnownInv, NEW p \in Processes,
         Ask(p) \/ Authorise(p) \/ AnswerLost(p) \/ AnswerDamaged(p) \/ RetryPosition(p)
  PROVE  KnownInv' /\ Stays
<1> DEFINE run == sync[p]
           kinds == {"rate_limited", "unauthenticated", "unavailable", "invalid_response"}
           again == [run EXCEPT !.step = "ask", !.answer = Idle.answer, !.retries = @ + 1]
<1>1. RunShape(run) /\ RunKnown(run, manifest, generations, history)
  BY DEF SyncInv, LockInv, KnownInv
<1>2. /\ run.step # "idle" /\ Walking(run) /\ lock' = lock
      /\ UNCHANGED << contentVars, storeVars >>
  BY DEF Ask, Authorise, AnswerLost, AnswerDamaged, RetryPosition, Retryable, Answered, Walking,
         serverVars
<1>3. \/ \E kind \in kinds : Move(p, Got(p, kind))
      \/ \E step \in {"authenticate", "read"} : Move(p, [run EXCEPT !.step = step])
      \/ Move(p, again)
  BY DEF Ask, Authorise, AnswerLost, AnswerDamaged, RetryPosition, Verdict
<1>4. \A kind \in kinds : RunShape(Got(p, kind)) /\ SameWalk(run, Got(p, kind))
  BY <1>1, <1>2 DEF Got, RunShape, SameWalk, Walking
<1>5. \A step \in {"authenticate", "read"} :
        /\ RunShape([run EXCEPT !.step = step])
        /\ SameWalk(run, [run EXCEPT !.step = step])
  BY <1>1, <1>2 DEF RunShape, SameWalk, Walking
<1>6. RunShape(again) /\ SameWalk(run, again)
  BY <1>1, <1>2 DEF RunShape, SameWalk, Walking
<1>7. PICK next : Move(p, next) /\ RunShape(next) /\ SameWalk(run, next)
  <2> HIDE DEF run, again
  <2> QED BY <1>3, <1>4, <1>5, <1>6
<1>8. RunKnown(next, manifest, generations, history)
  BY <1>1, <1>7, SameWalkKnown
<1> QED BY <1>2, <1>7, <1>8, RunGoesOn

\* What a snapshot read now is: the last of the history.
LEMMA SnapshotIsPresent ==
  ASSUME HistoryInv
  PROVE  LET s == Snapshot(rows, source, profile, digest)
             n == Len(history)
         IN  /\ n \in Nat \ {0} /\ PositionsApart(s.articles)
             /\ history[n].lifecycle = profile.lifecycle /\ history[n].shows = Representation(s)
             /\ profile.lifecycle \in {"draft", "active", "disabled"}
<1> DEFINE s == Snapshot(rows, source, profile, digest)
<1>1. Len(history) \in Nat \ {0}
  BY ListLength DEF HistoryInv
<1>2. PositionsApart(s.articles)
  BY RowsAssumption, ArticlesStandApart DEF HistoryInv, Snapshot
<1>3. /\ history[Len(history)].lifecycle = profile.lifecycle
      /\ history[Len(history)].shows = Representation(s)
  BY DEF HistoryInv, Present
<1>4. profile.lifecycle \in {"draft", "active", "disabled"}
  BY DEF HistoryInv
<1> QED BY <1>1, <1>2, <1>3, <1>4

LEMMA CursorsAreSome == \A revision, position : Cursor(revision, position) # NoCursor
<1> SUFFICES ASSUME NEW revision, NEW position PROVE Cursor(revision, position) # NoCursor
  OBVIOUS
<1>1. Cursor(revision, position).kind = "after" /\ NoCursor.kind = "none"
  BY DEF Cursor, NoCursor
<1> QED BY <1>1

Follows(run, s, page) ==
  /\ page.revision = s /\ page.digest = s.digest
  /\ run.pages # 0 => run.revision = s
  /\ \E n \in 0..Len(s.articles) :
       /\ run.items \o page.items = SubSeq(Representation(s).articles, 1, n)
       /\ \/ page.next = NoCursor /\ n = Len(s.articles)
          \/ page.next = Cursor(s, s.articles[n].position) /\ n # 0

OnTheWay(run) == Begun(run) \/ \E m, h : Continued(run, m, h)

\* The page that a cursor is answered with continues the walk.
LEMMA PageContinues ==
  ASSUME NEW run, NEW s, OnTheWay(run),
         PositionsApart(s.articles), NEW page, page = Page(s, run.cursor), page.kind = "page"
  PROVE  Follows(run, s, page)
<1> DEFINE out == Representation(s).articles
<1>1. Len(s.articles) \in Nat
  BY ItemsOfSnapshot
<1>2. PICK k \in 0..Len(s.articles) : /\ Page(s, run.cursor) = Slice(s, k + 1)
                                      /\ run.items = SubSeq(out, 1, k)
                                      /\ run.pages # 0 => run.revision = s
  <2>1. CASE Begun(run)
    <3>1. Page(s, run.cursor) = Slice(s, 0 + 1) /\ 0 \in 0..Len(s.articles)
      BY <1>1, <2>1 DEF Page, Begun
    <3>2. SubSeq(out, 1, 0) = << >>
      OBVIOUS
    <3> HIDE DEF out
    <3> QED BY <2>1, <3>1, <3>2 DEF Begun
  <2>2. CASE \E m, h : Continued(run, m, h)
    <3>1. PICK k \in 1..Len(run.revision.articles) :
            /\ run.items = SubSeq(Representation(run.revision).articles, 1, k)
            /\ run.cursor = Cursor(run.revision, run.revision.articles[k].position)
      BY <2>2 DEF Continued
    <3>2. /\ run.cursor # NoCursor /\ run.cursor.revision = run.revision
          /\ run.cursor.position = run.revision.articles[k].position
      BY <3>1 DEF Cursor, NoCursor
    <3>3. run.revision = s
      BY <3>2 DEF Page, Revision
    <3>4. ContinuationIndex(s.articles, run.cursor.position) = k + 1
      BY <3>1, <3>2, <3>3, CursorContinues
    <3>5. k \in 1..Len(s.articles) /\ k + 1 # 0 /\ k \in 0..Len(s.articles)
      BY <1>1, <3>1, <3>3
    <3>6. Page(s, run.cursor) = Slice(s, k + 1)
      BY <3>2, <3>3, <3>4, <3>5 DEF Page, Revision
    <3> QED BY <3>1, <3>3, <3>5, <3>6
  <2> QED BY <2>1, <2>2 DEF OnTheWay
<1>3. /\ Slice(s, k + 1).revision = s /\ Slice(s, k + 1).digest = s.digest
  BY DEF Slice, Revision
<1> HIDE DEF out
<1>4. \E n \in 0..Len(s.articles) :
        /\ SubSeq(out, 1, k) \o Slice(s, k + 1).items = SubSeq(out, 1, n)
        /\ \/ Slice(s, k + 1).next = NoCursor /\ n = Len(s.articles)
           \/ Slice(s, k + 1).next = Cursor(s, s.articles[n].position) /\ n # 0
  BY SliceContinues DEF out
<1> QED BY <1>2, <1>3, <1>4 DEF out, Follows

LEMMA ServeKnown ==
  ASSUME SyncInv, KnownInv, NEW p \in Processes, Serve(p)
  PROVE  KnownInv' /\ Stays
<1> DEFINE run == sync[p]
           s == Snapshot(rows, source, profile, digest)
           n == Len(history)
           etag == IF run.pages = 0 /\ manifest.active # 0 THEN manifest.etag ELSE NoRevision
           answer == Answer(s, run.cursor, etag)
           at == IF run.pages = 0 \/ answer.kind = "profile_disabled" THEN n ELSE run.at
           next == [run EXCEPT !.step = "answered", !.answer = answer, !.at = at]
<1>1. RunShape(run) /\ RunKnown(run, manifest, generations, history)
  BY DEF SyncInv, LockInv, KnownInv
<1>2. /\ run.step = "read" /\ Move(p, next) /\ lock' = lock
      /\ UNCHANGED << contentVars, storeVars >>
  BY DEF Serve, serverVars
<1>3. /\ next.step = "answered" /\ next.answer = answer /\ next.at = at
      /\ next.cursor = run.cursor /\ next.items = run.items /\ next.pages = run.pages
      /\ next.revision = run.revision /\ next.digest = run.digest /\ RunShape(next)
  BY <1>1 DEF RunShape
<1> HIDE DEF next
<1>4. /\ n \in Nat \ {0} /\ PositionsApart(s.articles)
      /\ history[n].lifecycle = profile.lifecycle /\ history[n].shows = Representation(s)
      /\ profile.lifecycle \in {"draft", "active", "disabled"}
      /\ n \in 1..n
  <2>1. HistoryInv
    BY DEF KnownInv
  <2>2. n \in Nat \ {0} => n \in 1..n
    OBVIOUS
  <2> QED BY <2>1, <2>2, SnapshotIsPresent
<1>5. manifest.at <= n /\ manifest.at \in Nat
  BY <1>4 DEF KnownInv, ManifestKnown
<1>6. Begun(run) \/ Continued(run, manifest, history)
  BY <1>1, <1>2 DEF RunKnown, Walking
<1> HIDE DEF run, s, n, at
<1>7. profile.lifecycle = "active" => ShownAt(history, n, s)
  BY <1>4 DEF ShownAt, n
<1>8. RunKnown(next, manifest, generations, history)
  <2>1. CASE profile.lifecycle = "draft"
    <3>1. answer.kind = "not_found"
      BY <2>1 DEF Answer
    <3>2. SameWalk(run, next)
      BY <1>2, <1>3, <3>1 DEF SameWalk, Walking, at
    <3> QED BY <1>1, <3>2, SameWalkKnown
  <2>2. CASE profile.lifecycle = "disabled"
    <3>1. answer.kind = "profile_disabled"
      BY <2>2 DEF Answer
    <3>2. at = n
      BY <3>1 DEF at
    <3>3. AnswerKnown(next, manifest, history)
      BY <1>3, <1>4, <1>5, <2>2, <3>1, <3>2 DEF AnswerKnown, n
    <3> QED BY <1>3, <3>1, <3>3 DEF RunKnown, Walking
  <2>3. CASE profile.lifecycle = "active"
    <3>1. answer = IF run.cursor = NoCursor /\ etag = s THEN [kind |-> "not_modified"]
                   ELSE Page(s, run.cursor)
      BY <2>3 DEF Answer, Revision
    <3>2. answer.kind # "profile_disabled"
      BY <3>1 DEF Page, Slice
    <3>3. at = IF run.pages = 0 THEN n ELSE run.at
      BY <3>2 DEF at
    <3>4. Begun(next) \/ Continued(next, manifest, history)
      BY <1>3, <1>6, <3>3 DEF Begun, Continued
    <3>5. CASE run.cursor = NoCursor /\ etag = s
      <4>1. answer.kind = "not_modified" /\ run.pages = 0 /\ at = n
        <5>1. run.pages = 0
          BY <1>6, <3>5, CursorsAreSome DEF Begun, Continued
        <5>2. answer = [kind |-> "not_modified"]
          BY <3>1, <3>5
        <5> HIDE DEF answer
        <5> QED BY <3>3, <5>1, <5>2
      <4>2. manifest.active # 0 => manifest.etag = s
        BY <3>5, <4>1
      <4>3. AnswerKnown(next, manifest, history)
        BY <1>3, <1>5, <1>7, <2>3, <4>1, <4>2 DEF AnswerKnown
      <4> QED BY <1>3, <3>4, <4>3 DEF RunKnown, Walking
    <3>6. CASE ~(run.cursor = NoCursor /\ etag = s)
      <4>1. answer = Page(s, run.cursor)
        BY <3>1, <3>6
      <4>2. answer.kind # "not_modified"
        BY <4>1 DEF Page, Slice
      <4> HIDE DEF answer
      <4>3. answer.kind = "page" => PageKnown(next, manifest, history, answer)
        <5> SUFFICES ASSUME answer.kind = "page" PROVE PageKnown(next, manifest, history, answer)
          OBVIOUS
        <5>1. Follows(run, s, answer)
          <6>1. OnTheWay(run)
            BY <1>6 DEF OnTheWay
          <6>2. PositionsApart(s.articles)
            BY <1>4
          <6> QED BY <4>1, <6>1, <6>2, PageContinues
        <5>2. ShownAt(history, at, s) /\ manifest.at <= at
          BY <1>5, <1>6, <1>7, <2>3, <3>3, <5>1 DEF Begun, Continued, Follows
        <5> QED BY <1>3, <5>1, <5>2 DEF PageKnown, Follows
      <4>4. AnswerKnown(next, manifest, history)
        BY <1>3, <3>2, <4>2, <4>3 DEF AnswerKnown
      <4> QED BY <1>3, <3>4, <4>4 DEF RunKnown, Walking
    <3> QED BY <3>5, <3>6
  <2> QED BY <1>4, <2>1, <2>2, <2>3
<1> QED BY <1>2, <1>3, <1>8, RunGoesOn DEF run

\* All the articles of a snapshot, and its digest, are what it shows.
LEMMA WholeIsRepresentation ==
  ASSUME NEW s, PositionsApart(s.articles)
  PROVE  LET out == Representation(s).articles
         IN  /\ SubSeq(out, 1, Len(s.articles)) = out
             /\ Representation(s) = [articles |-> out, digest |-> s.digest]
<1> DEFINE out == Representation(s).articles
<1>1. Representation(s) = [articles |-> out, digest |-> s.digest]
  BY DEF Representation
<1> HIDE DEF out
<1>2. PICK S : out \in Seq(S) /\ Len(out) = Len(s.articles)
  BY ItemsOfSnapshot DEF out, Listed
<1>3. SubSeq(out, 1, Len(out)) = out
  BY <1>2, SubSeqFull
<1> QED BY <1>1, <1>2, <1>3 DEF out

LEMMA TakePageKnown ==
  ASSUME SyncInv, KnownInv, NEW p \in Processes, TakePage(p)
  PROVE  KnownInv' /\ Stays
<1> DEFINE run == sync[p]
           page == run.answer
           s == page.revision
           out == Representation(s).articles
           kept == IF run.pages = 0 \/ page.digest = run.digest THEN page.digest ELSE NoDigest
           taken == [run EXCEPT !.items = @ \o page.items, !.pages = @ + 1,
                                !.revision = page.revision, !.digest = kept,
                                !.answer = Idle.answer, !.retries = 0]
           last == [taken EXCEPT !.step = "write", !.cursor = NoCursor]
           more == [taken EXCEPT !.step = "ask", !.cursor = page.next]
<1>1. RunShape(run) /\ RunKnown(run, manifest, generations, history)
  BY DEF SyncInv, LockInv, KnownInv
<1>2. /\ run.step = "answered" /\ page.kind = "page" /\ lock' = lock
      /\ run.pages = 0 \/ page.revision = run.revision
      /\ UNCHANGED << contentVars, storeVars >>
  BY DEF TakePage, Answered, SameCandidate, serverVars
<1>3. Move(p, IF page.next = NoCursor THEN last ELSE more)
  BY DEF TakePage
<1>4. RunShape(taken) /\ taken.items = run.items \o page.items /\ taken.pages = run.pages + 1
      /\ taken.revision = s /\ taken.digest = kept /\ taken.at = run.at
  BY <1>1 DEF RunShape
<1>5. PageKnown(run, manifest, history, page) /\ (Begun(run) \/ Continued(run, manifest, history))
  BY <1>1, <1>2 DEF RunKnown, Walking, AnswerKnown
<1>6. kept = s.digest /\ run.pages \in Nat
  BY <1>2, <1>5 DEF PageKnown, Begun, Continued
<1>7. ShownAt(history, run.at, s) /\ manifest.at <= run.at
  BY <1>5 DEF PageKnown
<1>8. PICK n \in 0..Len(s.articles) :
        /\ run.items \o page.items = SubSeq(out, 1, n)
        /\ \/ page.next = NoCursor /\ n = Len(s.articles)
           \/ page.next = Cursor(s, s.articles[n].position) /\ n # 0
  BY <1>5 DEF PageKnown
<1> HIDE DEF taken, kept, run, page, s
<1>9. CASE page.next = NoCursor
  <2>1. /\ RunShape(last) /\ last.step = "write" /\ last.items = taken.items /\ last.at = taken.at
        /\ last.revision = s /\ last.digest = s.digest
    BY <1>4, <1>6 DEF RunShape
  <2>2. n = Len(s.articles)
    BY <1>8, <1>9, CursorsAreSome
  <2>3. last.items = out
    BY <1>4, <1>7, <1>8, <2>1, <2>2, WholeIsRepresentation DEF ShownAt
  <2>4. Representation(s) = [articles |-> out, digest |-> s.digest]
    BY <1>7, WholeIsRepresentation DEF ShownAt
  <2> HIDE DEF last, out
  <2>5. WholeKnown(last, manifest, history)
    BY <1>4, <1>7, <2>1, <2>3, <2>4 DEF WholeKnown
  <2>6. RunKnown(last, manifest, generations, history)
    BY <2>1, <2>5 DEF RunKnown, Walking
  <2>7. Move(p, last)
    BY <1>3, <1>9
  <2> QED BY <1>2, <2>1, <2>6, <2>7, RunGoesOn DEF run
<1>10. CASE page.next # NoCursor
  <2>1. /\ RunShape(more) /\ more.step = "ask" /\ more.items = taken.items /\ more.at = taken.at
        /\ more.revision = s /\ more.digest = s.digest /\ more.pages = taken.pages
        /\ more.cursor = page.next
    BY <1>4, <1>6 DEF RunShape
  <2>2. n \in 1..Len(s.articles) /\ page.next = Cursor(s, s.articles[n].position)
    BY <1>8, <1>10
  <2> HIDE DEF more
  <2>3. more.pages \in Nat \ {0}
    BY <1>4, <1>6, <2>1
  <2>4. Continued(more, manifest, history)
    BY <1>4, <1>7, <1>8, <2>1, <2>2, <2>3 DEF Continued
  <2>5. RunKnown(more, manifest, generations, history)
    BY <2>1, <2>4 DEF RunKnown, Walking
  <2>6. Move(p, more)
    BY <1>3, <1>10
  <2> QED BY <1>2, <2>1, <2>5, <2>6, RunGoesOn DEF run
<1> QED BY <1>9, <1>10

LEMMA RestartKnown ==
  ASSUME SyncInv, KnownInv, NEW p \in Processes, RestartTraversal(p)
  PROVE  KnownInv' /\ Stays
<1> DEFINE run == [Idle EXCEPT !.step = "ask", !.restarts = sync[p].restarts + 1]
<1>1. /\ sync[p].step # "idle" /\ Move(p, run) /\ lock' = lock
      /\ UNCHANGED << contentVars, storeVars >>
  BY DEF RestartTraversal, Answered, serverVars
<1>2. RunShape(run) /\ run.step = "ask" /\ Begun(run)
  BY DEF RunShape, Idle, Begun
<1> HIDE DEF run
<1>3. RunKnown(run, manifest, generations, history)
  BY <1>2 DEF RunKnown, Walking
<1> QED BY <1>1, <1>2, <1>3, RunGoesOn

\* The step takes the site to what it shows of the state i.
LEMMA CatchesUp ==
  ASSUME NEW i \in 1..Len(history), manifest.at <= i, Publishable(history[i]),
         manifest'.at = i, Shown' = Outward(history[i]), UNCHANGED history
  PROVE  KnownGood!CatchUp
BY DEF KnownGood!CatchUp

LEMMA UnchangedKnown ==
  ASSUME SyncInv, KnownInv, NEW p \in Processes, RecordUnchanged(p)
  PROVE  KnownInv' /\ KnownGood!CatchUp
<1> DEFINE run == sync[p]
<1>1. RunKnown(run, manifest, generations, history) /\ ManifestKnown(manifest, generations, history)
  BY DEF KnownInv
<1>2. /\ run.step = "answered" /\ run.answer.kind = "not_modified" /\ manifest.active # 0
      /\ Finish(p) /\ UNCHANGED << contentVars, history, generations >>
  BY DEF RecordUnchanged, Answered, StoreUnchanged, serverVars, contentVars
<1>3. /\ ManifestInv(manifest, generations)
      /\ generations[manifest.active].revision = manifest.revision
  BY <1>2 DEF SyncInv, StoreInv, ManifestInv
<1>4. /\ manifest'.active = manifest.active /\ manifest'.revision = manifest.revision
      /\ manifest'.etag = manifest.etag /\ ~manifest'.disabled /\ manifest'.at = run.at
  BY <1>3 DEF RecordUnchanged, StoreUnchanged, ManifestForFacts, ManifestInv
<1>5. ShownAt(history, run.at, manifest.etag) /\ manifest.at <= run.at
  BY <1>1, <1>2 DEF RunKnown, AnswerKnown
<1>6. /\ manifest.etag = manifest.revision
      /\ generations[manifest.active].shows = Representation(manifest.revision)
  BY <1>1, <1>2 DEF ManifestKnown
<1> HIDE DEF run
<1>7. /\ run.at \in 1..Len(history) /\ history[run.at].lifecycle = "active"
      /\ history[run.at].shows = Representation(manifest.revision)
  BY <1>5, <1>6 DEF ShownAt
<1>8. ManifestKnown(manifest', generations', history')
  BY <1>2, <1>4, <1>6, <1>7 DEF ManifestKnown
<1>9. Shown' = history[run.at].shows
  BY <1>2, <1>3, <1>4, <1>6, <1>7, ShownIsLoaded DEF Loaded
<1>10. Publishable(history[run.at]) /\ Shown' = Outward(history[run.at])
  BY <1>7, <1>9 DEF Publishable, Outward
<1>11. KnownGood!CatchUp
  BY <1>2, <1>4, <1>5, <1>7, <1>10, CatchesUp
<1> QED BY <1>2, <1>8, <1>11, RunIsOver DEF run

LEMMA DisabledKnown ==
  ASSUME SyncInv, KnownInv, NEW p \in Processes, MarkDisabled(p)
  PROVE  KnownInv' /\ KnownGood!CatchUp
<1> DEFINE run == sync[p]
<1>1. RunKnown(run, manifest, generations, history) /\ ManifestKnown(manifest, generations, history)
  BY DEF KnownInv
<1>2. /\ run.step = "answered" /\ run.answer.kind = "profile_disabled"
      /\ Finish(p) /\ UNCHANGED << contentVars, history, generations >>
  BY DEF MarkDisabled, Answered, StoreDisabled, serverVars, contentVars
<1>3. /\ ManifestInv(manifest, generations)
      /\ manifest.active # 0 => generations[manifest.active].revision = manifest.revision
  BY DEF SyncInv, StoreInv, ManifestInv
<1>4. /\ manifest'.active = manifest.active /\ manifest'.revision = manifest.revision
      /\ manifest'.etag = manifest.etag /\ manifest'.disabled /\ manifest'.at = run.at
  BY <1>3 DEF MarkDisabled, StoreDisabled, ManifestForFacts, ManifestInv
<1>5. /\ run.at \in 1..Len(history) /\ manifest.at <= run.at
      /\ history[run.at].lifecycle = "disabled"
  BY <1>1, <1>2 DEF RunKnown, AnswerKnown
<1> HIDE DEF run
<1>6. ManifestKnown(manifest', generations', history')
  BY <1>1, <1>2, <1>4, <1>5 DEF ManifestKnown
<1>7. Shown' = Suppressed
  BY <1>2, <1>3, <1>4, ShownIsLoaded DEF Loaded
<1>8. Publishable(history[run.at]) /\ Shown' = Outward(history[run.at])
  BY <1>5, <1>7 DEF Publishable, Outward
<1>9. KnownGood!CatchUp
  BY <1>2, <1>4, <1>5, <1>8, CatchesUp
<1> QED BY <1>2, <1>6, <1>9, RunIsOver DEF run

LEMMA FailureKnown ==
  ASSUME SyncInv, KnownInv, NEW p \in Processes, RecordFailure(p) \/ DiskFails(p) \/ Crash(p)
  PROVE  KnownInv' /\ Stays
<1>1. /\ sync[p].step # "idle" /\ Finish(p) /\ UNCHANGED << contentVars, history, generations >>
      /\ StoreFailure \/ UNCHANGED manifest
  BY DEF RecordFailure, DiskFails, Crash, Fails, Retryable, Answered, StoreFailure, serverVars,
         storeVars, contentVars
<1>2. manifest' = manifest
  BY <1>1 DEF StoreFailure, ManifestForFacts, SyncInv, StoreInv, ManifestInv
<1>3. ManifestKnown(manifest', generations', history')
  BY <1>1, <1>2 DEF KnownInv
<1>4. Stays
  BY <1>1, <1>2, ShownIsLoaded DEF Stays
<1> QED BY <1>1, <1>3, <1>4, RunIsOver

LEMMA WriteKnown ==
  ASSUME SyncInv, KnownInv, NEW p \in Processes, Write(p)
  PROVE  KnownInv' /\ Stays
<1> DEFINE run == sync[p]
           n == Len(generations)
           file == [revision |-> run.revision,
                    shows |-> [articles |-> run.items, digest |-> run.digest], at |-> run.at]
           next == [Idle EXCEPT !.step = "commit", !.revision = run.revision]
<1>1. /\ run.step = "write" /\ Move(p, next) /\ lock' = lock /\ UNCHANGED << manifest, contentVars >>
      /\ generations' = Append(generations, file)
  BY DEF Write, WriteGeneration, serverVars
<1>2. next.step = "commit" /\ next.revision = run.revision /\ RunShape(next)
  BY DEF Idle, RunShape
<1>3. file.at = run.at /\ file.shows = [articles |-> run.items, digest |-> run.digest]
  OBVIOUS
<1> HIDE DEF next, file
<1>4. /\ n \in Nat /\ Len(generations') = n + 1 /\ generations'[n + 1] = file
      /\ \A i \in 1..n : generations'[i] = generations[i]
  BY <1>1, AppendIsListed, ListLength DEF SyncInv, StoreInv
<1>5. sync'[p] = next /\ \A q \in Processes \ {p} : sync'[q].step = "idle"
  BY <1>1, <1>2, HolderMoves DEF SyncInv
<1>6. WholeKnown(run, manifest, history)
  BY <1>1 DEF KnownInv, RunKnown
<1>7. FileKnown(next, manifest, file, history)
  BY <1>2, <1>3, <1>6 DEF WholeKnown, FileKnown
<1>8. UNCHANGED << manifest, history, rows, source, profile, digest >>
  BY <1>1 DEF contentVars
<1>9. \A q \in Processes : RunKnown(sync'[q], manifest', generations', history')
  <2> SUFFICES ASSUME NEW q \in Processes
               PROVE  RunKnown(sync'[q], manifest', generations', history')
    OBVIOUS
  <2>1. CASE q = p
    BY <1>2, <1>4, <1>5, <1>7, <1>8, <2>1 DEF RunKnown, Walking
  <2>2. CASE q # p
    BY <1>5, <2>2 DEF RunKnown, Walking
  <2> QED BY <2>1, <2>2
<1>10. manifest.active \in 0..n
  BY DEF SyncInv, StoreInv, ManifestInv
<1> HIDE DEF n
<1>11. manifest.active # 0 => generations'[manifest.active] = generations[manifest.active]
  BY <1>4, <1>10
<1>12. ManifestKnown(manifest, generations, history)
  BY DEF KnownInv
<1>13. ManifestKnown(manifest', generations', history')
  BY <1>8, <1>11, <1>12 DEF ManifestKnown
<1>14. HistoryInv'
  BY <1>8 DEF KnownInv, HistoryInv
<1>15. Shown' = Shown
  BY <1>8, <1>11, ShownIsLoaded DEF Loaded
<1> QED BY <1>8, <1>9, <1>13, <1>14, <1>15 DEF KnownInv, Stays

LEMMA CommitKnown ==
  ASSUME SyncInv, KnownInv, NEW p \in Processes, Commit(p)
  PROVE  KnownInv' /\ KnownGood!CatchUp
<1> DEFINE run == sync[p]
           n == Len(generations)
           file == generations[n]
           next == [Idle EXCEPT !.step = "prune"]
<1>1. /\ run.step = "commit" /\ Move(p, next) /\ lock' = lock
      /\ UNCHANGED << generations, contentVars >>
      /\ CommitGeneration(n, run.revision, run.revision)
  BY DEF Commit, CommitGeneration, serverVars
<1>2. next.step = "prune" /\ RunShape(next)
  BY DEF Idle, RunShape
<1> HIDE DEF next
<1>3. sync'[p] = next /\ \A q \in Processes \ {p} : sync'[q].step = "idle"
  BY <1>1, <1>2, HolderMoves DEF SyncInv
<1>4. n \in Nat \ {0} /\ file.revision = run.revision
  BY <1>1, ListLength DEF SyncInv, StoreInv, CommitInv
<1>5. FileKnown(run, manifest, file, history)
  BY <1>1 DEF KnownInv, RunKnown
<1>6. UNCHANGED << generations, history, rows, source, profile, digest >>
  BY <1>1 DEF contentVars
<1>7. /\ manifest'.active = n /\ manifest'.etag = run.revision /\ manifest'.revision = run.revision
      /\ ~manifest'.disabled /\ manifest'.at = file.at
  BY <1>1 DEF CommitGeneration, ManifestForFacts, SyncInv, StoreInv, ManifestInv
<1> HIDE DEF run, n
<1>8. /\ file.at \in 1..Len(history) /\ manifest.at <= file.at /\ history[file.at].lifecycle = "active"
      /\ history[file.at].shows = file.shows /\ file.shows = Representation(run.revision)
  BY <1>5 DEF FileKnown, ShownAt
<1>9. ManifestKnown(manifest', generations', history')
  BY <1>6, <1>7, <1>8 DEF ManifestKnown
<1>10. \A q \in Processes : RunKnown(sync'[q], manifest', generations', history')
  <2> SUFFICES ASSUME NEW q \in Processes
               PROVE  RunKnown(sync'[q], manifest', generations', history')
    OBVIOUS
  <2>1. sync'[q].step \in {"idle", "prune"}
    BY <1>2, <1>3
  <2> QED BY <2>1 DEF RunKnown, Walking
<1>11. HistoryInv'
  BY <1>6 DEF KnownInv, HistoryInv
<1>12. Shown' = file.shows
  BY <1>4, <1>6, <1>7, ShownIsLoaded DEF Loaded
<1>13. Publishable(history[file.at]) /\ Shown' = Outward(history[file.at])
  BY <1>8, <1>12 DEF Publishable, Outward
<1>14. KnownGood!CatchUp
  BY <1>6, <1>7, <1>8, <1>13, CatchesUp
<1> QED BY <1>9, <1>10, <1>11, <1>14 DEF KnownInv

LEMMA PruneKnown ==
  ASSUME SyncInv, KnownInv, NEW p \in Processes, Prune(p)
  PROVE  KnownInv' /\ Stays
<1>1. /\ sync[p].step # "idle" /\ Finish(p) /\ UNCHANGED << contentVars, manifest, history >>
      /\ PruneGenerations
  BY DEF Prune, PruneGenerations, serverVars, contentVars
<1>2. manifest.active \in 0..Len(generations) /\ DOMAIN generations = 1..Len(generations)
      /\ Len(generations) \in Nat
  BY ListLength DEF SyncInv, StoreInv, ManifestInv
<1>3. manifest.active # 0 => generations'[manifest.active] = generations[manifest.active]
  BY <1>1, <1>2 DEF PruneGenerations
<1>4. ManifestKnown(manifest', generations', history')
  BY <1>1, <1>3 DEF KnownInv, ManifestKnown
<1>5. Stays
  BY <1>1, <1>3, ShownIsLoaded DEF Stays, Loaded
<1> QED BY <1>1, <1>4, <1>5, RunIsOver

\* What is known of a history stays known of a longer one.
LEMMA LongerHistory ==
  ASSUME NEW h, NEW g, Len(h) \in Nat, Len(g) = Len(h) + 1, \A i \in 1..Len(h) : g[i] = h[i],
         NEW m, NEW files
  PROVE  /\ ManifestKnown(m, files, h) => ManifestKnown(m, files, g)
         /\ \A run : RunKnown(run, m, files, h) => RunKnown(run, m, files, g)
<1>1. \A i \in 1..Len(h) : i \in 1..Len(g)
  OBVIOUS
<1>2. \A i, s : ShownAt(h, i, s) => ShownAt(g, i, s)
  BY <1>1 DEF ShownAt
<1>3. ManifestKnown(m, files, h) => ManifestKnown(m, files, g)
  BY DEF ManifestKnown
<1>4. ASSUME NEW run, RunKnown(run, m, files, h) PROVE RunKnown(run, m, files, g)
  <2>1. Continued(run, m, h) => Continued(run, m, g)
    BY <1>2 DEF Continued
  <2>2. AnswerKnown(run, m, h) => AnswerKnown(run, m, g)
    BY <1>1, <1>2 DEF AnswerKnown, PageKnown
  <2>3. WholeKnown(run, m, h) => WholeKnown(run, m, g)
    BY <1>2 DEF WholeKnown
  <2>4. \A file : FileKnown(run, m, file, h) => FileKnown(run, m, file, g)
    BY <1>2 DEF FileKnown
  <2> QED BY <1>4, <2>1, <2>2, <2>3, <2>4 DEF RunKnown
<1> QED BY <1>3, <1>4

LEMMA EditKnown ==
  ASSUME SyncInv, KnownInv, ContentEdit, UNCHANGED << storeVars, sync >>
  PROVE  KnownInv' /\ KnownGood!Change
<1> DEFINE n == Len(history)
           now == Present(rows', source', profile', digest')
<1>1. /\ history' = Append(history, now) /\ Listed(history)
      /\ UNCHANGED << manifest, generations, sync >>
  BY DEF ContentEdit, ChangeArticle, ChangeSource, ChangeSelections, ChangeLifecycle, ChangeDigest,
         RecordPresent, KnownInv, HistoryInv, storeVars
<1>2. profile' \in [lifecycle : {"draft", "active", "disabled"}, topics : {profile'.topics}]
  BY DEF ContentEdit, ChangeArticle, ChangeSource, ChangeSelections, ChangeLifecycle, ChangeDigest,
         KnownInv, HistoryInv
<1>3. DOMAIN rows' = DOMAIN InitialRows /\ \A a \in DOMAIN rows' : rows'[a].date \in Nat
  <2>1. DOMAIN rows = DOMAIN InitialRows /\ \A a \in DOMAIN rows : rows[a].date \in Nat
    BY DEF KnownInv, HistoryInv
  <2>2. \/ rows' = rows
        \/ \E a \in DOMAIN rows, row \in ArticleRows : rows' = [rows EXCEPT ![a] = row]
    BY DEF ContentEdit, ChangeArticle, ChangeSource, ChangeSelections, ChangeLifecycle, ChangeDigest
  <2> QED BY <2>1, <2>2, RowsAssumption
<1> HIDE DEF now
<1>4. /\ n \in Nat /\ Len(history') = n + 1 /\ history'[n + 1] = now /\ Listed(history')
      /\ \A i \in 1..n : history'[i] = history[i]
  BY <1>1, ListLength, AppendIsListed
<1>5. HistoryInv'
  BY <1>2, <1>3, <1>4 DEF HistoryInv, now
<1>6. /\ ManifestKnown(manifest', generations', history')
      /\ \A p \in Processes : RunKnown(sync'[p], manifest', generations', history')
  BY <1>1, <1>4, LongerHistory DEF KnownInv
<1>7. SubSeq(history', 1, n) = history
  <2>1. PICK S : history \in Seq(S)
    BY <1>1 DEF Listed
  <2>2. PICK T : history' \in Seq(T)
    BY <1>4 DEF Listed
  <2>3. /\ SubSeq(history', 1, n) \in Seq(T) /\ Len(SubSeq(history', 1, n)) = n
        /\ \A i \in 1..n : SubSeq(history', 1, n)[i] = history'[i]
    <3>1. n \in 0..Len(history')
      BY <1>4
    <3> HIDE DEF n
    <3> QED BY <1>4, <2>2, <3>1, SubSeqProperties
  <2> QED BY <1>4, <2>1, <2>3, SeqEqual
<1>8. UNCHANGED << manifest.at, Shown >>
  BY <1>1, ShownIsLoaded
<1>9. KnownGood!Change
  BY <1>4, <1>7, <1>8 DEF KnownGood!Change
<1> QED BY <1>5, <1>6, <1>9 DEF KnownInv

\* What leaves the server's content, files, manifest and runs alone.
LEMMA OthersKnown ==
  ASSUME KnownInv, UNCHANGED << contentVars, manifest, generations, sync >>
  PROVE  KnownInv' /\ Stays
<1>1. UNCHANGED << history, rows, source, profile, digest >>
  BY DEF contentVars
<1>2. KnownInv'
  BY <1>1 DEF KnownInv, HistoryInv
<1> QED BY <1>1, <1>2, ShownIsLoaded DEF Stays

LEMMA KnownStep == SyncInv /\ KnownInv /\ [Next]_vars => KnownInv' /\ (KnownGood!Next \/ Stays)
<1> SUFFICES ASSUME SyncInv, KnownInv, [Next]_vars PROVE KnownInv' /\ (KnownGood!Next \/ Stays)
  OBVIOUS
<1> USE DEF KnownGood!Next
<1>1. ASSUME NEW p \in Processes, Step(p) PROVE KnownInv' /\ (KnownGood!Next \/ Stays)
  <2>1. CASE Start(p)
    BY <2>1, StartKnown
  <2>2. CASE Ask(p) \/ Authorise(p) \/ RetryPosition(p)
    BY <2>2, RequestsKnown
  <2>3. CASE Serve(p)
    BY <2>3, ServeKnown
  <2>4. CASE TakePage(p)
    BY <2>4, TakePageKnown
  <2>5. CASE RestartTraversal(p)
    BY <2>5, RestartKnown
  <2>6. CASE RecordUnchanged(p)
    BY <2>6, UnchangedKnown
  <2>7. CASE MarkDisabled(p)
    BY <2>7, DisabledKnown
  <2>8. CASE RecordFailure(p)
    BY <2>8, FailureKnown
  <2>9. CASE Write(p)
    BY <2>9, WriteKnown
  <2>10. CASE Commit(p)
    BY <2>10, CommitKnown
  <2>11. CASE Prune(p)
    BY <2>11, PruneKnown
  <2> QED BY <1>1, <2>1, <2>2, <2>3, <2>4, <2>5, <2>6, <2>7, <2>8, <2>9, <2>10, <2>11 DEF Step
<1>2. ASSUME NEW p \in Processes, Fault(p) PROVE KnownInv' /\ (KnownGood!Next \/ Stays)
  BY <1>2, RequestsKnown, FailureKnown DEF Fault
<1>3. CASE EditServer
  <2>1. UNCHANGED << storeVars, manifest, generations, sync >>
    BY <1>3 DEF EditServer, storeVars
  <2>2. CASE ContentEdit
    BY <2>1, <2>2, EditKnown
  <2>3. CASE ~ContentEdit
    <3>1. UNCHANGED contentVars
      BY <1>3, <2>3 DEF EditServer, serverVars
    <3> QED BY <2>1, <3>1, OthersKnown
  <2> QED BY <2>2, <2>3
<1>4. CASE LimiterWindowEnds \/ PageReads \/ UNCHANGED vars
  <2>1. UNCHANGED << contentVars, manifest, generations, sync >>
    BY <1>4 DEF LimiterWindowEnds, PageReads, ReadManifest, ReadGeneration, vars, serverVars, storeVars
  <2> QED BY <2>1, OthersKnown
<1> QED BY <1>1, <1>2, <1>3, <1>4 DEF Next

\* Whatever is edited, lost, damaged, repeated or interrupted, the site shows
\* one whole state that the profile was in, never an earlier one after a
\* later one, and is emptied only by a state in which it was disabled.
THEOREM SitesShowTheLastKnownGood == Spec => ShowsLastKnownGood
<1>1. Init => SyncInv /\ KnownInv /\ KnownGood!Init
  BY SyncStarts, KnownStarts
<1>2. SyncInv /\ KnownInv /\ [Next]_vars =>
        SyncInv' /\ KnownInv' /\ [KnownGood!Next]_<< history, manifest.at, Shown >>
  BY SyncStep, KnownStep DEF Stays
<1>3. KnownGood!vars = << history, manifest.at, Shown >>
  BY DEF KnownGood!vars
<1> QED BY <1>1, <1>2, <1>3, PTL DEF Spec, ShowsLastKnownGood, KnownGood!Spec, KnownGood!vars

=============================================================================
