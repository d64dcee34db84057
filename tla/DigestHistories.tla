-------------------------- MODULE DigestHistories --------------------------
(* DigestLifecycle with histories: whether the Profile has sanctioned the  *)
(* active digest ever since it was activated, which answers have been      *)
(* contradicted ever since the provider gave them, and which the Profile   *)
(* has not sanctioned for a while.                                         *)
EXTENDS DigestLifecycle

VARIABLES lapsed,     \* the active digest was not sanctioned for a while
          restyled,   \* answers to settings that are not in force any more
          withdrawn,  \* answers about an article that is not canonical
          unfounded   \* evaluations whose answer was not sanctioned for a while

histories == <<lapsed, restyled, withdrawn, unfounded>>

NoHistory ==
  lapsed = FALSE /\ restyled = {} /\ withdrawn = {} /\ unfounded = {}

Answered(e) == evals[e].purpose = "candidate"

Recorded ==
  /\ lapsed' = /\ active' # NoDigest
               /\ \/ ~Sanctioned(active', profile', settings')
                  \/ active' = active /\ lapsed
  /\ restyled' = {e \in Evaluators :
                    /\ Answered(e)' /\ (Answered(e) => e \in restyled)
                    /\ evals'[e].style # settings'.style}
  /\ withdrawn' = {e \in Evaluators :
                     /\ Answered(e)' /\ (Answered(e) => e \in withdrawn)
                     /\ ~(evals'[e].inputs \subseteq profile'.articles)}
  /\ unfounded' = {e \in Evaluators :
                     /\ evals'[e].at # "idle"
                     /\ \/ e \in unfounded
                        \/ /\ Answered(e)'
                           /\ ~Sanctioned(evals'[e], profile', settings')}

HistoryInit == DigestInit /\ NoHistory
HistoryNext == DigestNext /\ Recorded

HistorySpec == HistoryInit /\ [][HistoryNext]_<<vars, histories>>

SanctionedDigestGoes == active # NoDigest /\ ~lapsed /\ active' = NoDigest

\* What the contract promises: a digest that the Profile has sanctioned all
\* along is not suppressed, not by a failed provider, nor by a dependency
\* that is out (docs/contracts/ai-assistance-contract.md:163).
SanctionedDigestKept == [][~SanctionedDigestGoes]_<<vars, histories>>

\* What the code keeps of it: such a digest is suppressed only by an
\* evaluation whose own answer the Profile did not sanction for a while
\* (lifecycle.ts:707), by one that another has overtaken, or by one that
\* could not read it (lifecycle.ts:416).  A provider or a statement that
\* fails, and articles, settings and digest that are read one after the
\* other, do not suppress it.
SanctionedDigestSurvives ==
  [][SanctionedDigestGoes =>
       \E e \in Evaluators :
         /\ evals'[e] # evals[e]
         /\ \/ e \in unfounded
            \/ attempts[evals[e].attempt].state = "abandoned"
            \/ evals[e].at = "suppress" /\ ~evals[e].suppressed]_<<vars, histories>>

\* Settings or articles that change while the provider works, and stay
\* changed, keep its answer from being activated, although the validation
\* reads them in two statements and activates in a third (lifecycle.ts:708).
ContradictedAnswersAreDropped ==
  [][\A e \in restyled \union withdrawn :
       evals[e].attempt # active'.attempt]_<<vars, histories>>
=============================================================================
