--------------------------- MODULE LastKnownGood ---------------------------
(***************************************************************************)
(* What the PHP integration promises the pages of its site, whatever       *)
(* happens between the site and the News Scraper: the site shows nothing   *)
(* until it has something, then always one whole past state of the         *)
(* profile, never an earlier one after a later one, and its content is     *)
(* taken away only by a state in which the profile was disabled.           *)
(* docs: distribution-and-integration-contract.md.                         *)
(***************************************************************************)
EXTENDS Integers, Sequences

CONSTANTS Outward(_),      \* Outward(state): what the state shows
          Publishable(_)   \* Publishable(state): a state a site may take over

VARIABLES history,  \* the states the profile has been in, the present one last
          at,       \* the one the site shows, 0 before the first
          shown     \* what the site shows

vars == <<history, at, shown>>

Nothing == [kind |-> "nothing"]

Init ==
    /\ Len(history) = 1
    /\ at = 0
    /\ shown = Nothing

\* The profile changes; the site does not.
Change ==
    /\ Len(history') = Len(history) + 1
    /\ SubSeq(history', 1, Len(history)) = history
    /\ UNCHANGED <<at, shown>>

\* The site takes over a state at least as recent as the one it shows.
CatchUp ==
    \E i \in 1 .. Len(history) :
        /\ i >= at
        /\ Publishable(history[i])
        /\ at' = i
        /\ shown' = Outward(history[i])
        /\ UNCHANGED history

Next == Change \/ CatchUp

Spec == Init /\ [][Next]_vars

=============================================================================
