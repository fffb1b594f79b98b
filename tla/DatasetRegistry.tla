-------------------------- MODULE DatasetRegistry --------------------------
(***************************************************************************)
(* The dataset registry, and one manifest of a release.                    *)
(*                                                                         *)
(* The registry: sources with their rights, fetches with their scans,      *)
(* releases with the provenance they name, and the pointers to the         *)
(* releases in use.  Several actors read a row, decide and write it back;  *)
(* the triggers of migration 0018 refuse what would leave a release in     *)
(* force without its provenance.  Every transaction on governed rows is    *)
(* serializable, as those triggers demand, and so is one step here.        *)
(*                                                                         *)
(* The manifest: imported from a legacy candidate, reviewed and edited by  *)
(* people, and declared ready.  It counts for what its status says as long *)
(* as the semantic validator finds no error in it.  It is a document in a  *)
(* repository: it and the rows of the registry share no step.              *)
(***************************************************************************)
EXTENDS Naturals, Sequences, FiniteSets, SequencesExt, FiniteSetsExt

CONSTANTS
  Actor, Source, Fetch, Digest, Release, Use,
  MaxVersion,  \* per table: bound on the versions of rows that are loaded
  Sha, Person, SourceId, Purpose,
  MaxRecords,  \* bound on the records of an artifact
  Nil

VARIABLES
  schema,   \* "none", "registry" (0016) or "guarded" (0018)
  source, fetch, release,   \* the rows, Nil where there is none
  pointer,  \* per purpose: the release in use, or Nil
  held,     \* per actor: the copy or the decision it works on
  manifest,      \* Nil until the import
  evidenceAge,   \* 0 before the evidence expires, 1 afterwards
  verifiedShas,  \* artifacts somebody verified
  counted        \* whether somebody decided on the records

-----------------------------------------------------------------------------
(* The registry.                                                           *)

registryVars == <<schema, source, fetch, release, pointer, held>>

SourceStatus == {"candidate", "legal-hold", "fetch-approved", "purpose-approved",
                 "rejected", "tombstoned"}
FetchState == {"requested", "downloading", "quarantined", "verified", "scan-passed",
               "rejected", "deleted"}
SourceMoves == [s \in SourceStatus |->
  CASE s = "candidate" -> {"legal-hold", "fetch-approved", "rejected"}
    [] s = "legal-hold" -> {"fetch-approved", "rejected"}
    [] s = "fetch-approved" -> {"purpose-approved", "tombstoned"}
    [] s = "purpose-approved" -> {"tombstoned"}
    [] OTHER -> {}]
FetchMoves == [s \in FetchState |->
  CASE s = "requested" -> {"downloading", "rejected"}
    [] s = "downloading" -> {"quarantined", "rejected"}
    [] s = "quarantined" -> {"verified", "rejected", "deleted"}
    [] s = "verified" -> {"scan-passed", "rejected", "deleted"}
    [] s \in {"scan-passed", "rejected"} -> {"deleted"}
    [] OTHER -> {}]

\* What a scan found: the content it read and whether nothing is left to object to.
ScanEvidence == [of : Digest, passed : BOOLEAN]
\* evident stands for the evidence of rights and of terms, each with its digest.
SourceRow == [status : SourceStatus, approved : SUBSET Use, evident : BOOLEAN,
              version : 1..(MaxVersion.source + 1)]
FetchRow == [source : Source, state : FetchState, digest : Digest \cup {Nil},
             scan : ScanEvidence \cup {Nil}, version : 1..(MaxVersion.fetch + 1)]
ReleaseStatus == {"draft", "candidate", "approved", "released", "rolled-back", "tombstoned"}
InForce == {"approved", "released"}
\* canonical: approved by its flag, with a manifest digest and its purpose as the
\* one allowed use; from and digest are its provenance.
ReleaseRow == [status : ReleaseStatus, canonical : BOOLEAN, use : Use,
               from : Source, digest : Digest]
PointerRow == [Use -> Release \cup {Nil}]
Copy == [kind : {"source"}, id : Source, row : SourceRow]
        \cup [kind : {"fetch"}, id : Fetch, row : FetchRow]
        \cup [kind : {"resolved"}, id : Release, row : SourceRow]
        \cup [kind : {"cleared"}, id : Release, row : {Nil}]

RegistryTypeOK ==
  /\ schema \in {"none", "registry", "guarded"}
  /\ source \in [Source -> SourceRow \cup {Nil}]
  /\ fetch \in [Fetch -> FetchRow \cup {Nil}]
  /\ release \in [Release -> ReleaseRow \cup {Nil}]
  /\ pointer \in PointerRow
  /\ held \in [Actor -> Copy \cup {Nil}]

RegistryInit ==
  /\ schema = "none"
  /\ source = [s \in Source |-> Nil] /\ fetch = [f \in Fetch |-> Nil]
  /\ release = [r \in Release |-> Nil] /\ pointer = [u \in Use |-> Nil]
  /\ held = [a \in Actor |-> Nil]

Hold(a, kind, id, row) == held' = [held EXCEPT ![a] = [kind |-> kind, id |-> id, row |-> row]]
Drop(a) == held' = [held EXCEPT ![a] = Nil]

-----------------------------------------------------------------------------
(* What a release in force rests on.                                       *)

\* A source whose rights cover the use.
PurposeApproved(s, use) ==
  source[s] # Nil /\ source[s].status = "purpose-approved"
  /\ use \in source[s].approved /\ source[s].evident
\* A passed scan of the very content.
ScanPassed(s, digest) ==
  \E f \in Fetch : /\ fetch[f] # Nil /\ fetch[f].source = s /\ fetch[f].state = "scan-passed"
                   /\ fetch[f].digest = digest /\ fetch[f].scan = [of |-> digest, passed |-> TRUE]
\* vfbiz_guard_dataset_release_provenance.
Provenanced(row) ==
  row.status \in InForce =>
    row.canonical /\ PurposeApproved(row.from, row.use) /\ ScanPassed(row.from, row.digest)
\* vfbiz_guard_dataset_release_pointer.
Resolves(u, r) ==
  release[r] # Nil /\ release[r].status = "released" /\ release[r].canonical /\ release[r].use = u

Pointed(r) == \E u \in Use : pointer[u] = r
InForceFrom(s) == {r \in Release : release[r] # Nil /\ release[r].status \in InForce
                                   /\ release[r].from = s}

Guarded == schema = "guarded"
\* The three guards against a change under a release in force.
ReleaseMayChange(r) == Guarded => ~Pointed(r)
SourceMayChange(s) == Guarded => InForceFrom(s) = {}
FetchMayChange(f) ==
  Guarded /\ fetch[f].state = "scan-passed" /\ fetch[f].digest # Nil =>
    \A r \in InForceFrom(fetch[f].source) : release[r].digest # fetch[f].digest

-----------------------------------------------------------------------------
(* Sources and fetches: insert once, then load, move on and save.          *)

\* An application inserts what it has just made out; a second insert of the same
\* source finds the first and either agrees with it or raises.
NewSource ==
  {[status |-> "candidate", approved |-> {}, evident |-> FALSE, version |-> 1],
   [status |-> "fetch-approved", approved |-> {}, evident |-> TRUE, version |-> 1]}
AddSource(s) ==
  /\ source[s] = Nil
  /\ \E row \in NewSource : source' = [source EXCEPT ![s] = row]
  /\ UNCHANGED <<schema, fetch, release, pointer, held>>

LoadSource(a, s) ==
  /\ held[a] = Nil /\ source[s] # Nil /\ source[s].version <= MaxVersion.source
  /\ Hold(a, "source", s, source[s])
  /\ UNCHANGED <<schema, source, fetch, release, pointer>>

\* DatasetSource.transition: what it may become; uses come with their approval.
SourceMovesOn(row) ==
  {next \in [status : SourceMoves[row.status], approved : SUBSET Use, evident : BOOLEAN,
             version : {row.version + 1}] :
     /\ row.evident => next.evident
     /\ next.status \in {"fetch-approved", "purpose-approved"} => next.evident
     /\ IF next.status = "purpose-approved" THEN next.approved # {}
        ELSE next.approved = row.approved}

\* The update names the version that was loaded.
Unmoved(row, seen) == row # Nil /\ row.version = seen.version

\* save_source; a save that lost, or that a guard refuses, changes nothing.
SaveSource(a) ==
  /\ held[a] # Nil /\ held[a].kind = "source"
  /\ LET s == held[a].id IN
     \E next \in SourceMovesOn(held[a].row) :
       source' = IF Unmoved(source[s], held[a].row) /\ SourceMayChange(s)
                 THEN [source EXCEPT ![s] = next] ELSE source
  /\ Drop(a) /\ UNCHANGED <<schema, fetch, release, pointer>>

NewFetch(s) ==
  [source : {s}, state : {"downloading"}, digest : {Nil}, scan : {Nil}, version : {1}]
AddFetch(f) ==
  /\ fetch[f] = Nil
  /\ \E s \in Source : /\ source[s] # Nil
                       /\ \E row \in NewFetch(s) : fetch' = [fetch EXCEPT ![f] = row]
  /\ UNCHANGED <<schema, source, release, pointer, held>>

LoadFetch(a, f) ==
  /\ held[a] = Nil /\ fetch[f] # Nil /\ fetch[f].version <= MaxVersion.fetch
  /\ Hold(a, "fetch", f, fetch[f])
  /\ UNCHANGED <<schema, source, fetch, release, pointer>>

\* DatasetFetch.transition: a new observation or scan replaces the one there is.
FetchMovesOn(row) ==
  {next \in [source : {row.source}, state : FetchMoves[row.state],
             digest : Digest \cup {row.digest}, scan : ScanEvidence \cup {row.scan},
             version : {row.version + 1}] :
     /\ next.state \in {"quarantined", "verified", "scan-passed"} => next.digest # Nil
     /\ next.state = "scan-passed" => next.scan = [of |-> next.digest, passed |-> TRUE]
     /\ next.state # "scan-passed" => next.scan = row.scan
     /\ next.state \notin {"quarantined", "scan-passed"} => next.digest = row.digest}

SaveFetch(a) ==
  /\ held[a] # Nil /\ held[a].kind = "fetch"
  /\ LET f == held[a].id IN
     \E next \in FetchMovesOn(held[a].row) :
       fetch' = IF Unmoved(fetch[f], held[a].row) /\ FetchMayChange(f)
                THEN [fetch EXCEPT ![f] = next] ELSE fetch
  /\ Drop(a) /\ UNCHANGED <<schema, source, release, pointer>>

-----------------------------------------------------------------------------
(* Releases and pointers, written by operators' statements.                *)

\* resolve_source_provenance reads source and fetch in one transaction.
Resolve(a, r) ==
  /\ held[a] = Nil /\ release[r] # Nil /\ release[r].status \notin InForce
  /\ source[release[r].from] # Nil
  /\ source[release[r].from].version <= MaxVersion.source
  /\ Hold(a, "resolved", r, source[release[r].from])
  /\ UNCHANGED <<schema, source, fetch, release, pointer>>

\* errors of the provenance authority: it clears a manifest by what it has read.
ClearRelease(a) ==
  /\ held[a] # Nil /\ held[a].kind = "resolved"
  /\ LET r == held[a].id IN
     IF /\ held[a].row.status = "purpose-approved" /\ release[r] # Nil
        /\ release[r].use \in held[a].row.approved
        /\ ScanPassed(release[r].from, release[r].digest)
     THEN Hold(a, "cleared", r, Nil) ELSE Drop(a)
  /\ UNCHANGED <<schema, source, fetch, release, pointer>>

DraftRelease(r) ==
  /\ release[r] = Nil
  /\ \E row \in ReleaseRow : row.status = "draft" /\ release' = [release EXCEPT ![r] = row]
  /\ UNCHANGED <<schema, source, fetch, pointer, held>>

\* A cleared release is put in force some time after the clearance; the triggers
\* look again.
Promote(a, status) ==
  /\ held[a] # Nil /\ held[a].kind = "cleared" /\ release[held[a].id] # Nil
  /\ LET r == held[a].id
         row == [release[r] EXCEPT !.status = status]
     IN release' = IF Guarded => Provenanced(row) /\ ReleaseMayChange(r)
                   THEN [release EXCEPT ![r] = row] ELSE release
  /\ Drop(a) /\ UNCHANGED <<schema, source, fetch, pointer>>

\* Retired, or its content edited.
Retire(r, status) ==
  /\ release[r] # Nil /\ release[r].status \in InForce /\ ReleaseMayChange(r)
  /\ release' = [release EXCEPT ![r].status = status]
  /\ UNCHANGED <<schema, source, fetch, pointer, held>>
Edit(r) ==
  /\ release[r] # Nil /\ ReleaseMayChange(r)
  /\ \E digest \in Digest :
       LET row == [release[r] EXCEPT !.digest = digest]
       IN (Guarded => Provenanced(row)) /\ release' = [release EXCEPT ![r] = row]
  /\ UNCHANGED <<schema, source, fetch, pointer, held>>

Point(u, r) ==
  /\ release[r] # Nil /\ (Guarded => Resolves(u, r))
  /\ pointer' = [pointer EXCEPT ![u] = r]
  /\ UNCHANGED <<schema, source, fetch, release, held>>
Unpoint(u) ==
  /\ pointer[u] # Nil /\ pointer' = [pointer EXCEPT ![u] = Nil]
  /\ UNCHANGED <<schema, source, fetch, release, held>>

-----------------------------------------------------------------------------
(* The migrations.                                                         *)

Rows(table) == {k \in DOMAIN table : table[k] # Nil}

Provision ==
  /\ schema = "none" /\ schema' = "registry"
  /\ UNCHANGED <<source, fetch, release, pointer, held>>

\* 0018: rows already governed must pass the new guards, or nothing is installed.
UpgradeAdmits ==
  /\ \A r \in Rows(release) : Provenanced(release[r])
  /\ \A u \in Rows(pointer) : Resolves(u, pointer[u])
Upgrade ==
  /\ schema = "registry" /\ UpgradeAdmits /\ schema' = "guarded"
  /\ UNCHANGED <<source, fetch, release, pointer, held>>

Downgrade ==
  /\ schema = "guarded" /\ Rows(pointer) = {}
  /\ \A r \in Rows(release) : release[r].status \notin InForce
  /\ schema' = "registry"
  /\ UNCHANGED <<source, fetch, release, pointer, held>>

\* 0016 is taken back while nothing was registered.
Unprovision ==
  /\ schema = "registry"
  /\ Rows(source) = {} /\ Rows(fetch) = {} /\ Rows(release) = {} /\ Rows(pointer) = {}
  /\ schema' = "none" /\ UNCHANGED <<source, fetch, release, pointer, held>>

Works(a) ==
  \/ \E s \in Source : LoadSource(a, s)
  \/ \E f \in Fetch : LoadFetch(a, f)
  \/ SaveSource(a) \/ SaveFetch(a)
  \/ \E r \in Release : Resolve(a, r)
  \/ ClearRelease(a) \/ \E status \in InForce : Promote(a, status)

RegistryNext ==
  \/ Provision \/ Upgrade \/ Downgrade \/ Unprovision
  \/ /\ schema # "none"
     /\ \/ \E a \in Actor : Works(a)
        \/ \E s \in Source : AddSource(s)
        \/ \E f \in Fetch : AddFetch(f)
        \/ \E r \in Release : DraftRelease(r) \/ Edit(r) \/ Retire(r, "rolled-back")
        \/ \E u \in Use : Unpoint(u) \/ \E r \in Release : Point(u, r)

RegistrySpec == RegistryInit /\ [][RegistryNext]_registryVars

-----------------------------------------------------------------------------
(* Properties.                                                             *)

\* Once the guards of 0018 are installed a release in force names a source approved
\* for its use and a passed scan of its content, and a pointer leads to a released
\* release of its purpose, whatever was decided on stale copies and whatever was
\* there before.
ProvenanceStands ==
  Guarded =>
    /\ \A r \in Rows(release) : Provenanced(release[r])
    /\ \A u \in Rows(pointer) : Resolves(u, pointer[u])

\* A row only moves along its table of transitions from the state it is in, however
\* old the copy was that the decision was made on.
RowsMoveOn ==
  /\ \A s \in Source : source[s] # Nil /\ source'[s] # Nil /\ source'[s] # source[s] =>
       source'[s].status \in SourceMoves[source[s].status]
  /\ \A f \in Fetch : fetch[f] # Nil /\ fetch'[f] # Nil /\ fetch'[f] # fetch[f] =>
       fetch'[f].state \in FetchMoves[fetch[f].state]

-----------------------------------------------------------------------------
(* The manifest.                                                           *)

manifestVars == <<manifest, evidenceAge, verifiedShas, counted>>

\* The purposes of version 3 that have a use in version 4.
Uses == {"knowledge-index", "evaluation", "classifier-training", "sft", "red-team"}
UseOf == [p \in {"knowledge", "retrieval-evaluation", "intent-ood", "conversation-quality",
                 "tool-evaluation", "refusal-safety", "red-team", "state-resilience"} |->
  CASE p = "knowledge" -> "knowledge-index"
    [] p = "intent-ood" -> "classifier-training"
    [] p = "conversation-quality" -> "sft"
    [] p = "red-team" -> "red-team"
    [] OTHER -> "evaluation"]

Artifact == [sha : Sha, records : 0..MaxRecords]
Total(artifacts) == FoldSeq(LAMBDA a, n : a.records + n, 0, artifacts)
Ready(m) == m.status \in {"decision-ready", "released"}
Distinct(seq) == Cardinality(ToSet(seq)) = Len(seq)

\* The version 3 validator.
LegacyExpected(l) == IF l.status = "released" THEN l.accepted ELSE l.candidate
LegacyValid(l) ==
  /\ l.accepted + l.rejected <= l.candidate
  /\ l.status = "released" => l.accepted + l.rejected = l.candidate
  /\ Total(l.artifacts) = LegacyExpected(l) /\ l.partitions = LegacyExpected(l)

\* The version 4 validator.  bound is the list of digests the content hash is of.
Counted(m) ==
  IF Ready(m) THEN m.candidate = m.accepted + m.rejected
  ELSE m.accepted + m.rejected <= m.candidate
Expected(m) == IF Ready(m) THEN m.accepted ELSE m.candidate
Bound(m) ==
  LET shas == [i \in DOMAIN m.artifacts |-> m.artifacts[i].sha]
  IN Distinct(shas) /\ m.bound = shas
     /\ Total(m.artifacts) = Expected(m) /\ m.partitions = Expected(m)
Current(e) == e.state = "verified" /\ ~e.revoked /\ e.expires > evidenceAge
Evidenced(m) ==
  LET shas == {a.sha : a \in ToSet(m.artifacts)} IN
  /\ \A e \in m.evidence : e.of \in shas
  /\ Ready(m) => /\ \A e \in m.evidence : Current(e)
                 /\ \A sha \in shas : \E e \in m.evidence : e.of = sha
Approved(m) == Distinct(m.actors)
Provenance(m) == m.ids = m.sources /\ (Ready(m) => m.resolved)
Valid(m) == Counted(m) /\ Bound(m) /\ Evidenced(m) /\ Approved(m) /\ Provenance(m)

\* A pending record for the first artifact is all the evidence an import has.
Pending(l) == [of |-> l.artifacts[1].sha, state |-> "pending", revoked |-> FALSE, expires |-> 0]
Imported(l, known) ==
  [status |-> "candidate", use |-> UseOf[l.purpose], candidate |-> l.candidate,
   accepted |-> 0, rejected |-> 0, artifacts |-> l.artifacts,
   bound |-> [i \in DOMAIN l.artifacts |-> l.artifacts[i].sha], partitions |-> l.partitions,
   evidence |-> {Pending(l)}, actors |-> <<>>, ids |-> l.ids, sources |-> known \cap l.ids,
   resolved |-> l.resolved]

Legacy ==
  {l \in [status : {"candidate", "released"}, purpose : Purpose, candidate : 0..(2 * MaxRecords),
          accepted : {0, 1}, rejected : {0}, partitions : 0..(2 * MaxRecords),
          artifacts : {<<a>> : a \in Artifact} \cup (Artifact \X Artifact),
          ids : SUBSET SourceId \ {{}}, resolved : BOOLEAN] : LegacyValid(l)}

ManifestTypeOK ==
  manifest # Nil => /\ manifest.use \in Uses /\ manifest.bound \in Seq(Sha)
                    /\ verifiedShas \subseteq Sha

ManifestInit == manifest = Nil /\ evidenceAge = 0 /\ verifiedShas = {} /\ counted = FALSE

\* import_candidate; what it refuses leaves nothing.  Each source needs evidence,
\* and "multimodal" has no use to inherit.
Import(l, known) ==
  /\ l.status = "candidate" /\ l.purpose \in DOMAIN UseOf /\ l.ids \subseteq known
  /\ Valid(Imported(l, known))
  /\ manifest' = Imported(l, known) /\ UNCHANGED <<evidenceAge, verifiedShas, counted>>

-----------------------------------------------------------------------------
(* People edit the document.                                               *)

\* Records are accepted or rejected and the artifacts written anew.
Decide(accepted) ==
  /\ manifest # Nil /\ accepted <= manifest.candidate
  /\ \E artifacts \in {manifest.artifacts, <<[sha |-> manifest.bound[1], records |-> accepted]>>} :
       manifest' = [manifest EXCEPT
         !.accepted = accepted, !.rejected = manifest.candidate - accepted,
         !.partitions = accepted, !.artifacts = artifacts,
         !.bound = [i \in DOMAIN artifacts |-> artifacts[i].sha],
         !.evidence = {e \in @ : \E a \in ToSet(artifacts) : a.sha = e.of}]
  /\ counted' = TRUE /\ UNCHANGED <<evidenceAge, verifiedShas>>
Verify(sha) ==
  /\ manifest # Nil /\ sha \in ToSet(manifest.bound)
  /\ manifest' = [manifest EXCEPT !.evidence = {e \in @ : e.of # sha} \cup
       {[of |-> sha, state |-> "verified", revoked |-> FALSE, expires |-> 1]}]
  /\ verifiedShas' = verifiedShas \cup {sha} /\ UNCHANGED <<evidenceAge, counted>>
Revoke(sha) ==
  /\ manifest # Nil /\ \E e \in manifest.evidence : e.of = sha /\ ~e.revoked
  /\ manifest' = [manifest EXCEPT !.evidence =
       {[e EXCEPT !.revoked = @ \/ e.of = sha] : e \in manifest.evidence}]
  /\ verifiedShas' = verifiedShas \ {sha} /\ UNCHANGED <<evidenceAge, counted>>
Sign(p) ==
  /\ manifest # Nil /\ Len(manifest.actors) < 2
  /\ manifest' = [manifest EXCEPT !.actors = Append(@, p)]
  /\ UNCHANGED <<evidenceAge, verifiedShas, counted>>
Declare(status) ==
  /\ manifest # Nil /\ manifest' = [manifest EXCEPT !.status = status]
  /\ UNCHANGED <<evidenceAge, verifiedShas, counted>>
Expire == evidenceAge = 0 /\ evidenceAge' = 1 /\ UNCHANGED <<manifest, verifiedShas, counted>>

ManifestNext ==
  \/ manifest = Nil /\ \E l \in Legacy, known \in SUBSET SourceId : Import(l, known)
  \/ \E n \in 0..MaxRecords : Decide(n)
  \/ \E sha \in Sha : Verify(sha) \/ Revoke(sha)
  \/ \E p \in Person : Sign(p)
  \/ \E status \in {"candidate", "decision-ready", "released"} : Declare(status)
  \/ Expire

ManifestSpec == ManifestInit /\ [][ManifestNext]_manifestVars

\* The importer's own words: no release authority is inherited.  A manifest that
\* is valid as ready was reviewed after its import: somebody verified each of its
\* artifacts and that stands, and what it counts as accepted is what it holds.
ReadyWasReviewed ==
  manifest # Nil /\ Ready(manifest) /\ Valid(manifest) =>
    /\ {a.sha : a \in ToSet(manifest.artifacts)} \subseteq verifiedShas /\ evidenceAge = 0
    /\ counted \/ manifest.candidate = 0
    /\ Total(manifest.artifacts) + manifest.rejected = manifest.candidate

=============================================================================
