--------------------------- MODULE MCProfileSync ---------------------------
(* ProfileSync for TLC: two articles, one to a page, a second one that can *)
(* overtake the first or be moderated away, and two concurrent runs.       *)
EXTENDS ProfileSync

Row(visible, secondary, topic, headline, date) ==
    [visible |-> visible, secondary |-> secondary, topic |-> topic,
     headline |-> headline, date |-> date]

MCInitialRows == [a \in 1 .. 2 |-> Row(TRUE, FALSE, "film", "original", a)]

MCArticleRows == {Row(TRUE, FALSE, "film", "edited", 3),
                  Row(FALSE, FALSE, "film", "original", 1)}

MCInvalidPolicy == [maximumRequests |-> 1, maximumEntries |-> 1]
MCRequestPolicy == [maximumRequests |-> 2, maximumEntries |-> 1]
MCTopicChoices == {{"games"}}

=============================================================================
