------------------------- MODULE MCCollectionAttempt -------------------------
(* A feed at news.com whose server redirects to its cdn, to a host only the *)
(* Source approves, or in a circle; resolvers that answer public, mixed or  *)
(* no addresses; documents of up to four items and three rule tables.       *)
EXTENDS CollectionAttempt

Url(host, path) ==
  [scheme |-> "https", host |-> host, port |-> 0, credentials |-> FALSE, path |-> path]
News    == <<"com", "news">>
Cdn     == <<"com", "news", "cdn">>
Partner == <<"org", "partner">>

FeedUrl    == Url(News, "/feed")
CdnUrl     == Url(Cdn, "/feed")
DeepUrl    == Url(Cdn, "/deep")
PartnerUrl == Url(Partner, "/feed")

MCPolicy ==
  [ source   |-> {[host |-> News, sub |-> TRUE], [host |-> Partner, sub |-> FALSE]},
    endpoint |-> {[host |-> News, sub |-> TRUE]} ]

Public  == <<93, 184, 216, 34>>
MCAnswers ==
  (News    :> { <<Public>>, <<Public, <<10, 0, 0, 7>> >>, <<>> }) @@
  (Cdn     :> { <<Public>>, <<Public, <<0, 0, 0, 0, 0, 65535, 2560, 7>> >> }) @@
  (Partner :> { <<Public>> })

Ok == [ status |-> 200, length |-> 1, accepted |-> TRUE, encodingKnown |-> TRUE, body |-> "ok",
        location |-> NoUrl, longLocation |-> FALSE, etag |-> "some" ]
Bad(status) == [Ok EXCEPT !.status = status, !.etag = "none"]
To(url)     == [Bad(302) EXCEPT !.location = url]

Common ==
  { Ok, [Ok EXCEPT !.body = "cut"], [Ok EXCEPT !.accepted = FALSE], Bad(304), Bad(503), Bad(404) }

MCResponses ==
  (FeedUrl :> Common \cup { [Ok EXCEPT !.body = b] : b \in {"too_long", "swells", "garbled"} }
                     \cup { [Ok EXCEPT !.length = 2], [Ok EXCEPT !.encodingKnown = FALSE] }
                     \cup { To(CdnUrl), To(PartnerUrl), To(FeedUrl), To(NoUrl),
                            [To(CdnUrl) EXCEPT !.longLocation = TRUE] }) @@
  (CdnUrl  :> Common \cup { To(DeepUrl), To(FeedUrl) }) @@
  (DeepUrl :> { Ok, To(CdnUrl) }) @@
  (PartnerUrl :> { Ok })

\* Answers that the transport accepts with an empty validator or an unusual status.
OddResponses == [u \in DOMAIN MCResponses |-> {[Ok EXCEPT !.etag = "empty"], Bad(999), Bad(304)}]

\* Items ---------------------------------------------------------------------
Item(title, categories, url, overlong) ==
  [title |-> title, summary |-> {}, categories |-> categories, url |-> url, overlong |-> overlong]
Story   == Item({"ai"}, {}, Url(News, "/a"), {})
Sport   == Item({"ai"}, {"sport"}, Url(Cdn, "/b"), {})
Advert  == Item({"ai", "ad"}, {}, Url(News, "/c"), {})
Blank   == Item({}, {}, Url(News, "/d"), {})
Foreign == Item({"ai"}, {}, PartnerUrl, {})
Verbose == Item({"ai"}, {"sport"}, Url(News, "/e"), {"summary", "categories"})
Lost    == Item({"ai"}, {}, NoUrl, {})

Sent(items) == [defect |-> "none", items |-> items]
MCDocuments ==
  { Sent(<<>>), Sent(<<Story, Advert, Sport>>), Sent(<<Foreign, Blank, Sport>>),
    Sent(<<Verbose, Lost, Story>>), Sent(<<Lost, Blank>>),
    Sent(<<Story, Story, Story, Story>>), [defect |-> "malformed", items |-> <<>>] }

\* Relevance tables ------------------------------------------------------------
Rule(key, action, category) ==
  [ key |-> key, predicate |-> IF action = "categorize" THEN "title_contains"
                               ELSE "source_category_equals",
    pattern |-> IF action = "categorize" THEN "ai" ELSE "sport", action |-> action,
    priority |-> 1, enabled |-> TRUE, scoped |-> FALSE, category |-> category ]
MCRuleSets == { {}, {Rule(1, "exclude", NoCategory)},
                {Rule(1, "include", NoCategory), Rule(2, "categorize", "tech")} }
MCDefaults == { [source |-> NoCategory, endpoint |-> NoCategory],
                [source |-> "tech", endpoint |-> NoCategory] }

\* Snapshots -------------------------------------------------------------------
Live == [approval |-> "approved", lifecycle |-> "active", operational |-> "enabled"]
Feed == [ publicationActive |-> TRUE, source |-> Live, endpoint |-> Live, type |-> "rss_atom",
          profile |-> 0, include |-> {"ai"}, exclude |-> {"ad"} ]
Listing == [Feed EXCEPT !.type = "html_listing", !.profile = 1]
MCSnapshots ==
  { Feed, Listing, [Listing EXCEPT !.profile = 0],
    [Feed EXCEPT !.publicationActive = FALSE],
    [Feed EXCEPT !.include = {}, !.exclude = {"sport"}],
    [Feed EXCEPT !.source.operational = "paused"],
    [Feed EXCEPT !.endpoint.lifecycle = "archived"] }
=============================================================================
