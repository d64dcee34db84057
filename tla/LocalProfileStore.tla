------------------------- MODULE LocalProfileStore -------------------------
(***************************************************************************)
(* The private state directory of one profile on the customer's host: the  *)
(* generation files, the manifest that names the active one, and the page  *)
(* of the site that reads them without a lock.  Every commit is one rename *)
(* and so one step.                                                        *)
(*                                                                         *)
(* A generation file is an element of the sequence generations, pruned or  *)
(* not; its name is its place there, 0 is no generation.  (The code takes  *)
(* random names of 128 bits, which do not recur either.)  Timestamps,      *)
(* counters and failure categories of the manifest are left out; `at`, in  *)
(* the manifest and in the files, is a history variable: the state of the  *)
(* server they go back to.                                                 *)
(***************************************************************************)
EXTENDS Integers, Sequences

CONSTANTS NoRevision

VARIABLES manifest,     \* [active, previous, disabled, etag, revision, at]
          generations,  \* the files ever renamed into generations/
          reader        \* one reading of the local state by a page

storeVars == <<manifest, generations, reader>>

Nothing == [kind |-> "nothing"]
Suppressed == [kind |-> "suppressed"]
Unavailable == [kind |-> "unavailable"]
Pruned == [revision |-> NoRevision, shows |-> Unavailable, at |-> 0]

NoManifest == [active |-> 0, previous |-> 0, disabled |-> FALSE,
               etag |-> NoRevision, revision |-> NoRevision, at |-> 0]

StoreInit ==
    /\ manifest = NoManifest
    /\ generations = << >>
    /\ reader = [step |-> "before", manifest |-> NoManifest, expects |-> Nothing,
                 result |-> Nothing, activations |-> 0]

-----------------------------------------------------------------------------
(* Reading: readGeneration refuses a file that is not the manifest's.      *)

Readable(m) == m.active # 0 => generations[m.active].revision = m.revision

\* The usability resolver without its clock: a disabled profile is
\* suppressed, one without a snapshot was never synchronised.
Usable(m) ==
    IF m.disabled THEN Suppressed
    ELSE IF m.active = 0 THEN Nothing
    ELSE generations[m.active].shows

\* What load and the resolver make of a manifest read a while ago.
Load(m) == IF Readable(m) THEN Usable(m) ELSE Unavailable

Shown == Load(manifest)

-----------------------------------------------------------------------------
(* Writing, by the holder of the profile's lock.                           *)

ManifestForFacts(disabled, at) ==
    [manifest EXCEPT !.disabled = disabled, !.at = at]

WriteGeneration(revision, shows, at) ==
    /\ generations' = Append(generations,
                             [revision |-> revision, shows |-> shows, at |-> at])
    /\ UNCHANGED <<manifest, reader>>

\* The activation counts against the reading it overtakes.
CommitGeneration(g, revision, etag) ==
    /\ manifest' = [ManifestForFacts(FALSE, generations[g].at) EXCEPT
                        !.active = g, !.previous = manifest.active,
                        !.revision = revision, !.etag = etag]
    /\ reader' = IF reader.step = "reading" /\ reader.activations < 2
                 THEN [reader EXCEPT !.activations = @ + 1] ELSE reader
    /\ UNCHANGED generations

\* Mutant of PruneGenerations: so is the file readers may still be on.
PruneAllButActive ==
    /\ generations' = [g \in DOMAIN generations |->
                          IF g = manifest.active THEN generations[g] ELSE Pruned]
    /\ UNCHANGED <<manifest, reader>>

PruneGenerations ==
    /\ generations' = [g \in DOMAIN generations |->
                          IF g \in {manifest.active, manifest.previous}
                          THEN generations[g] ELSE Pruned]
    /\ UNCHANGED <<manifest, reader>>

\* Mutant of StoreUnchanged: a profile active again stays suppressed.
StoreUnchangedOnly(etag, at) ==
    /\ manifest' = [ManifestForFacts(manifest.disabled, at) EXCEPT !.etag = etag]
    /\ UNCHANGED <<generations, reader>>

StoreUnchanged(etag, at) ==
    /\ manifest' = [ManifestForFacts(FALSE, at) EXCEPT !.etag = etag]
    /\ UNCHANGED <<generations, reader>>

StoreDisabled(at) ==
    /\ manifest' = ManifestForFacts(TRUE, at)
    /\ UNCHANGED <<generations, reader>>

StoreFailure ==
    /\ manifest' = ManifestForFacts(manifest.disabled, manifest.at)
    /\ UNCHANGED <<generations, reader>>

-----------------------------------------------------------------------------
(* A page of the site: the manifest, then the generation it names.  The    *)
(* manifest read once more for the health facts changes nothing here.      *)

ReadManifest ==
    /\ reader.step = "before"
    /\ reader' = [reader EXCEPT !.step = "reading", !.manifest = manifest,
                                !.expects = Shown]
    /\ UNCHANGED <<manifest, generations>>

ReadGeneration ==
    /\ reader.step = "reading"
    /\ reader' = [reader EXCEPT !.step = "done", !.result = Load(reader.manifest),
                                !.manifest = NoManifest]
    /\ UNCHANGED <<manifest, generations>>

=============================================================================
