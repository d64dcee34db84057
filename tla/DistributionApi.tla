-------------------------- MODULE DistributionApi --------------------------
(***************************************************************************)
(* The server's side of one Distribution Profile: the rows its outward     *)
(* representation is read from, the administration that changes them, and  *)
(* the answer of GET /api/v1/distribution/:profileKey.  The answer to a    *)
(* request is the work of two steps with the database between them: the    *)
(* guard (MachineAccess) and one repeatable-read snapshot.                 *)
(*                                                                         *)
(* history is a history variable: what the profile has shown since the     *)
(* start, the present last.                                                *)
(***************************************************************************)
EXTENDS OutwardFeed, MachineAccess

CONSTANTS InitialRows,   \* article -> its row at the start
          ArticleRows,   \* rows moderation and collection may give an article
          Digests,       \* digests a profile may have
          NoDigest,
          TopicChoices   \* selections an edit may give the profile

ASSUME RowsAssumption ==
    /\ IsFiniteSet(DOMAIN InitialRows) /\ DOMAIN InitialRows \subseteq Nat
    /\ \A a \in DOMAIN InitialRows : InitialRows[a].date \in Nat
    /\ \A row \in ArticleRows : row.date \in Nat

VARIABLES rows, source, profile, digest, history

contentVars == <<rows, source, profile, digest, history>>

Present(r, s, p, d) ==
    [lifecycle |-> p.lifecycle,
     shows     |-> Representation(Snapshot(r, s, p, d))]

ContentInit ==
    /\ rows = InitialRows
    /\ source = [approval |-> "approved", lifecycle |-> "active"]
    /\ \E l \in {"draft", "active"} : profile = [lifecycle |-> l, topics |-> {}]
    /\ digest = NoDigest
    /\ history = <<Present(rows, source, profile, digest)>>

RecordPresent == history' = Append(history, Present(rows', source', profile', digest'))

-----------------------------------------------------------------------------
(* What changes the representation.                                        *)

\* Moderation, an edited headline, a collected update, a duplicate group.
ChangeArticle(a, row) ==
    /\ row # rows[a]
    /\ rows' = [rows EXCEPT ![a] = row]
    /\ UNCHANGED <<source, profile, digest>>
    /\ RecordPresent

ChangeSource(approval, lifecycle) ==
    /\ source' = [approval |-> approval, lifecycle |-> lifecycle]
    /\ source' # source
    /\ UNCHANGED <<rows, profile, digest>>
    /\ RecordPresent

ChangeSelections(topics) ==
    /\ topics # profile.topics
    /\ profile' = [profile EXCEPT !.topics = topics]
    /\ UNCHANGED <<rows, source, digest>>
    /\ RecordPresent

ChangeLifecycle(lifecycle) ==
    /\ <<profile.lifecycle, lifecycle>> \in
           {<<"draft", "active">>, <<"active", "disabled">>, <<"disabled", "active">>}
    /\ profile' = [profile EXCEPT !.lifecycle = lifecycle]
    /\ UNCHANGED <<rows, source, digest>>
    /\ RecordPresent

ChangeDigest(d) ==
    /\ d # digest
    /\ digest' = d
    /\ UNCHANGED <<rows, source, profile>>
    /\ RecordPresent

ContentEdit ==
    \/ \E a \in DOMAIN rows, row \in ArticleRows : ChangeArticle(a, row)
    \/ \E l \in {"active", "paused"} : ChangeSource("approved", l)
    \/ \E t \in TopicChoices : ChangeSelections(t)
    \/ \E l \in {"active", "disabled"} : ChangeLifecycle(l)
    \/ \E d \in Digests \cup {NoDigest} : ChangeDigest(d)

CredentialEdit ==
    \E c \in Credentials :
        \/ \E s \in Credentials : RotateCredential(c, s)
        \/ RevokeCredential(c)
        \/ CredentialExpires(c)

-----------------------------------------------------------------------------
(* The answer, once the guard has let the request pass and one             *)
(* repeatable-read transaction has read the snapshot.                      *)

Answer(snapshot, cursor, etag) ==
    CASE profile.lifecycle = "draft"    -> [kind |-> "not_found"]
      [] profile.lifecycle = "disabled" -> [kind |-> "profile_disabled"]
      [] OTHER ->
           IF cursor = NoCursor /\ etag = Revision(snapshot)
           THEN [kind |-> "not_modified"]
           ELSE Page(snapshot, cursor)

=============================================================================
