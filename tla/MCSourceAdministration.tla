----------------------- MODULE MCSourceAdministration -----------------------
(* Two administrators and a Source that publishes on news.com and below it, *)
(* with a feed on its feeds host.  One catalog is in use, with an active    *)
(* Profile over both Sources; the other has been begun.                     *)
EXTENDS SourceAdministration, TLC

CONSTANTS a1, a2, s1, s2, e1, e2, p1, p2, c1, r1

MCOrder == <<s1, s2, e1, e2, p1, p2>>
MCOwner == e1 :> s1 @@ e2 :> s1

News  == <<"com", "news">>
Feeds == <<"com", "news", "feeds">>
Anywhere  == {[host |-> News, sub |-> TRUE]}
FrontOnly == {[host |-> News, sub |-> FALSE]}
FeedsOnly == {[host |-> Feeds, sub |-> FALSE]}

Configured(rules, category) == [NoConfig EXCEPT !.rules = rules, !.category = category]
Feed == [NoConfig EXCEPT !.url = [host |-> Feeds, path |-> "/rss"]]
FrontPage == [NoConfig EXCEPT !.url = [host |-> News, path |-> "/rss"]]
Listing == [NoConfig EXCEPT !.url = [host |-> News, path |-> "/list"],
                            !.type = "html_listing", !.listing = "profile"]

NewsSource(lifecycle, rules) ==
  [approval |-> "approved", lifecycle |-> lifecycle, operational |-> "enabled",
   rules |-> rules, category |-> None]
NewEndpoint(lifecycle, config) ==
  [approval |-> "unapproved", lifecycle |-> lifecycle, operational |-> "enabled",
   config |-> config, revision |-> IF config.type = "html_listing" THEN 1 ELSE 0]

InUse ==
  [sources |-> s1 :> NewsSource("active", Anywhere) @@ s2 :> NewsSource("active", Anywhere),
   endpoints |-> e1 :> NewEndpoint("active", Feed) @@ e2 :> NewEndpoint("active", Listing),
   profiles |-> p1 :> [lifecycle |-> "active", sources |-> {s1, s2}]
             @@ p2 :> [lifecycle |-> "draft", sources |-> {}],
   categories |-> {c1},
   relevance |-> r1 :> NoRule]
Begun ==
  [sources |-> s1 :> NewsSource("active", Anywhere) @@ s2 :> NewsSource("absent", {}),
   endpoints |-> e1 :> NewEndpoint("absent", Feed) @@ e2 :> NewEndpoint("absent", Feed),
   profiles |-> p1 :> [lifecycle |-> "disabled", sources |-> {s1}]
             @@ p2 :> [lifecycle |-> "absent", sources |-> {}],
   categories |-> {},
   relevance |-> r1 :> [action |-> "include", enabled |-> TRUE, category |-> None]]
MCCatalogs == {InUse, Begun}

Simple(kind, on, value) == Command(kind, on, value, None, NoConfig)
SourceCommands ==
  { Command("source_create", s2, "approved", None, Configured(Anywhere, None)),
    Command("source_configure", s1, "", None, Configured(FrontOnly, None)),
    Command("source_configure", s1, "", None, Configured(FeedsOnly, c1)),
    Command("source_configure", s1, "", None, Configured(Anywhere \union FrontOnly, None)),
    Simple("source_approval", s1, "unapproved"), Simple("source_approval", s2, "unapproved"),
    Simple("source_lifecycle", s1, "archived"), Simple("source_lifecycle", s1, "active"),
    Simple("source_operational", s1, "enabled") }
EndpointCommands ==
  { Command("endpoint_create", e1, "approved", None, Feed),
    Command("endpoint_create", e2, "unapproved", None, Listing),
    Command("endpoint_configure", e1, "", None, FrontPage),
    Command("endpoint_configure", e1, "", None, [Listing EXCEPT !.url = FrontPage.url]),
    Command("endpoint_configure", e2, "", None, [Listing EXCEPT !.listing = "other"]),
    Command("endpoint_configure", e1, "", None, [Feed EXCEPT !.rules = FeedsOnly]),
    Simple("endpoint_approval", e1, "approved"),
    Simple("endpoint_lifecycle", e1, "archived"), Simple("endpoint_lifecycle", e1, "active"),
    Simple("endpoint_operational", e1, "enabled"), Simple("check_now", e1, "") }
ProfileCommands ==
  { Simple("profile_create", p2, ""), Command("profile_add", p2, "", s1, NoConfig),
    Simple("profile_lifecycle", p1, "active"), Simple("profile_lifecycle", p1, "disabled"),
    Command("profile_remove", p1, "", s1, NoConfig),
    Command("profile_remove", p1, "", s2, NoConfig) }
EditorialCommands ==
  { Simple("category_create", c1, ""), Simple("category_update", c1, ""),
    Simple("category_delete", c1, ""),
    Command("rule_create", r1, "categorize", None, Configured({}, c1)),
    Command("rule_update", r1, "categorize", None, Configured({}, c1)),
    Simple("rule_switch", r1, "disabled"), Simple("rule_delete", r1, "") }
MCCommands == SourceCommands \union EndpointCommands \union ProfileCommands
              \union EditorialCommands

\* An association is added to a Profile that is active.
ProfileRaceCommands ==
  { Simple("source_approval", s1, "unapproved"),
    Command("profile_add", p1, "", s1, NoConfig),
    Command("profile_remove", p1, "", s2, NoConfig) }
OverTheOther == {[InUse EXCEPT !.profiles = p1 :> [lifecycle |-> "active", sources |-> {s2}]
                                         @@ p2 :> [lifecycle |-> "draft", sources |-> {}]]}

Interchangeable == Permutations({a1, a2})
=============================================================================
