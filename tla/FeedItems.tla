------------------------------ MODULE FeedItems ------------------------------
(***************************************************************************)
(* From a fetched document to decided candidates: the two parsers, the     *)
(* admission filter of a Source, the normalizer and the relevance          *)
(* evaluator.  Pure operators; every one of them runs without a wait.      *)
(*                                                                         *)
(* An item is [title, summary, categories : sets of words, url, overlong], *)
(* `overlong` naming the fields that exceed their limit, url NoUrl when    *)
(* the item has none.  Words stand for what a phrase or pattern can match  *)
(* after the plain text conversion and case folding; a title that converts *)
(* to nothing is {}.  Links are given as resolved against the feed's URL.  *)
(***************************************************************************)
EXTENDS FetchPolicy, FiniteSets, FiniteSetsExt

CONSTANTS
    NoRule, NoCategory,
    FeedLimit,      \* RSS_ATOM_LIMITS.items
    ListingLimit,   \* HTML_LISTING_PARSER_LIMITS.matchedItems
    FailureCap      \* parserItemFailureCount's maximum

ASSUME FailureCapAssumption == FailureCap \in Nat

\* The items of a list at the given places, in their order.
Kept(items, places) ==
    [k \in 1..Cardinality(places) |->
        items[CHOOSE i \in places : Cardinality({ j \in places : j <= i }) = k]]

\* Parsing: [ok, reason, items, failures, code] ---------------------------

ParseFailure(reason, failures) ==
    [ok |-> FALSE, reason |-> reason, items |-> <<>>, failures |-> failures, code |-> reason]

\* optionalField, boundedCategories: one field over its limit fails the whole feed,
\* RSS or Atom, and so does one category or one too many.
FieldsFit(items) == \A i \in 1..Len(items) : items[i].overlong = {}

ParseFeed(document) ==
    IF document.defect # "none" THEN ParseFailure(document.defect, 0)
    ELSE IF Len(document.items) > FeedLimit THEN ParseFailure("structure_limit", 0)
    ELSE IF ~FieldsFit(document.items) THEN ParseFailure("field_limit", 0)
    ELSE [ok |-> TRUE, reason |-> "", items |-> document.items, failures |-> 0, code |-> ""]

RequiredDefect(item) ==
    IF item.title = {} THEN "required_field_missing"
    ELSE IF "title" \in item.overlong THEN "required_field_limit"
    ELSE IF item.url = NoUrl THEN "required_field_missing"
    ELSE IF "url" \in item.overlong THEN "required_field_limit"
    ELSE "none"

\* Optional fields over their limit are left out and counted.
Trimmed(item) ==
    [item EXCEPT !.summary    = IF "summary" \in item.overlong THEN {} ELSE @,
                 !.categories = IF "categories" \in item.overlong THEN {} ELSE @,
                 !.overlong   = {}]

Usable(item) == RequiredDefect(item) = "none"

\* The code of the first sample the collector took.
FirstDiagnostic(items) ==
    LET bad == { i \in 1..Len(items) : items[i].overlong # {} \/ ~Usable(items[i]) }
    IN  IF bad = {} THEN ""
        ELSE LET item == items[Min(bad)]
             IN  IF ~Usable(item) THEN RequiredDefect(item)
                 ELSE IF "summary" \in item.overlong THEN "optional_field_limit"
                 ELSE "category_limit"

\* What the collector counts: one failure for an item left out, and one for
\* each field left out of an item.
DefectsOf(item) == IF Usable(item) THEN item.overlong ELSE {"item"}

Defects(items) == UNION { {i} \X DefectsOf(items[i]) : i \in 1..Len(items) }

ParseListing(document) ==
    LET items   == document.items
        usable  == { i \in 1..Len(items) : Usable(items[i]) }
        defects == Cardinality(Defects(items))
    IN  IF document.defect # "none" THEN ParseFailure(document.defect, 0)
        ELSE IF items = <<>> THEN ParseFailure("no_matching_items", 0)
        ELSE IF Len(items) > ListingLimit THEN ParseFailure("structure_limit", 0)
        ELSE IF usable = {} THEN ParseFailure("no_valid_items", defects)
        ELSE [ ok       |-> TRUE,
               reason   |-> "",
               items    |-> Kept([i \in 1..Len(items) |-> Trimmed(items[i])], usable),
               failures |-> defects,
               code     |-> FirstDiagnostic(items) ]

ParserItemFailureCount(failures) == IF failures <= FailureCap THEN failures ELSE FailureCap

\* Admission, normalization -----------------------------------------------

Words(item) == item.title \cup item.summary \cup item.categories

\* isSourceRssAtomItemAdmitted: no include phrase admits all.
Admitted(item, include, exclude) ==
    /\ include = {} \/ include \cap Words(item) # {}
    /\ exclude \cap Words(item) = {}

\* normalizeArticleCandidate: the title and the URL decide.
Normalizes(item) ==
    /\ item.title # {}
    /\ item.url # NoUrl
    /\ item.url.scheme \in {"http", "https"}
    /\ ~item.url.credentials

\* Relevance --------------------------------------------------------------
\* A rule is [key, predicate, pattern, action, priority, enabled, scoped,
\* category]; the rules of other Sources are not loaded.

RuleMatches(rule, item) ==
    /\ rule.enabled
    /\ CASE rule.predicate = "title_contains"   -> rule.pattern \in item.title
         [] rule.predicate = "summary_contains" -> rule.pattern \in item.summary
         [] OTHER                               -> rule.pattern \in item.categories

\* compareDecisionRules: priority, the Source's own, exclude, the key.
Precedes(a, b) ==
    \/ a.priority > b.priority
    \/ /\ a.priority = b.priority
       /\ \/ a.scoped /\ ~b.scoped
          \/ /\ a.scoped = b.scoped
             /\ \/ a.action = "exclude" /\ b.action # "exclude"
                \/ (a.action = "exclude") = (b.action = "exclude") /\ a.key < b.key

Winner(rules, item) ==
    LET deciding == { r \in rules : RuleMatches(r, item) /\ r.action # "categorize" }
    IN  IF deciding = {} THEN NoRule
        ELSE CHOOSE r \in deciding : \A s \in deciding \ {r} : Precedes(r, s)

DefaultReasons(defaults) ==
    IF defaults.endpoint # NoCategory
    THEN {[kind |-> "endpoint_default", category |-> defaults.endpoint, rule |-> NoRule]}
    ELSE IF defaults.source # NoCategory
    THEN {[kind |-> "source_default", category |-> defaults.source, rule |-> NoRule]}
    ELSE {}

\* evaluateRelevance: [included, rule, reasons]; the categories assigned are
\* those of the reasons.
Decide(rules, defaults, item) ==
    LET winner  == Winner(rules, item)
        sorting == { r \in rules : RuleMatches(r, item) /\ r.action = "categorize" }
    IN  [ included |-> winner = NoRule \/ winner.action # "exclude",
          rule     |-> IF winner = NoRule THEN NoRule ELSE winner.key,
          reasons  |-> IF sorting = {} THEN DefaultReasons(defaults)
                       ELSE { [kind |-> "rule", category |-> r.category, rule |-> r.key]
                              : r \in sorting } ]

\* resolveRelevancePersistenceInput: what the decision cites still stands when
\* it is stored.  The rule table may have changed since it was loaded; a category
\* that a rule or a default still names exists, by the foreign keys.
Upheld(decision, rules, defaults) ==
    /\ decision.rule # NoRule =>
         \E r \in rules : /\ r.key = decision.rule
                          /\ r.action = IF decision.included THEN "include" ELSE "exclude"
    /\ \A reason \in decision.reasons :
         /\ reason.kind = "rule" =>
              \E r \in rules : /\ r.key = reason.rule
                               /\ r.action = "categorize"
                               /\ r.category = reason.category
         /\ reason.kind # "rule" => reason \in DefaultReasons(defaults)
=============================================================================
