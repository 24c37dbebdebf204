-------------------------- MODULE RepositoryLayout --------------------------
(***************************************************************************)
(* The files of one artifact repository (pkg/repository) and what its      *)
(* readers derive from them.  An artifact is named by its digest; its      *)
(* record lists the content it needs: Metadata (OCI manifest, config,      *)
(* adversary manifest), read by every load, and the package Layer, which a *)
(* load does not read.  Two artifacts may share content.                   *)
(*                                                                         *)
(* Every variable is one directory of the repository root; a file's bytes  *)
(* are verified by digest, so content is either present or absent.         *)
(***************************************************************************)
EXTENDS Naturals, FiniteSets

CONSTANTS
    Digests,    \* artifacts, by manifest digest
    Refs,       \* canonical references
    Names,      \* short names of the alias index
    Blobs,      \* content objects (kind and digest)
    Metadata,   \* artifact -> manifest, config and adversary manifest blobs
    Layer,      \* artifact -> package layer blobs
    NameOf,     \* artifact -> aliases its record contributes
    ShortOf,    \* reference -> aliases it contributes to its target
    None        \* "no reference", "no digest": the empty string of the code

ASSUME LayoutAssumption ==
    /\ None \notin Digests \cup Refs
    /\ Metadata \in [Digests -> SUBSET Blobs]
    /\ Layer \in [Digests -> SUBSET Blobs]
    /\ NameOf \in [Digests -> SUBSET Names]
    /\ ShortOf \in [Refs -> SUBSET Names]

VARIABLES
    content,        \* blobs/, manifests/, adversary-manifests/
    records,        \* records/
    commits,        \* commits/: markers that make a record visible
    refs,           \* refs/: raw reference index
    aliases,        \* aliases/: targets of each short name
    materialized,   \* materialized/: extracted, sealed trees
    imports,        \* transactions/import-*: imports not acknowledged
    mutations,      \* transactions/ref-*: reference changes not acknowledged
    collections     \* checkpoints/gc-*: collections not finished

disk == <<content, records, commits, refs, aliases, materialized,
          imports, mutations, collections>>

DigestOrNone == Digests \cup {None}

ImportJournal ==
    [kind : {"import"}, digest : Digests, ref : Refs \cup {None},
     record : BOOLEAN, commit : BOOLEAN, reference : BOOLEAN]

\* A deletion has no next target.
RefMutation ==
    [kind : {"ref"}, ref : Refs, previous : DigestOrNone, next : DigestOrNone]

GCPlan ==
    [refs : [Refs -> DigestOrNone], universe : SUBSET Digests,
     delete : SUBSET Digests, deleteContent : SUBSET Blobs]

\* Phases: 1 tree removed, 2 commit removed, 3 record removed.
GCJournal ==
    [plan : GCPlan, phase : [Digests -> 0..3],
     status : [Blobs -> {"pending", "deleted", "retained"}]]

LayoutTypeOK ==
    /\ content \subseteq Blobs
    /\ records \subseteq Digests
    /\ commits \subseteq Digests
    /\ refs \in [Refs -> DigestOrNone]
    /\ aliases \in [Names -> SUBSET Digests]
    /\ materialized \subseteq Digests
    /\ imports \subseteq ImportJournal
    /\ mutations \subseteq RefMutation
    /\ collections \subseteq GCJournal

EmptyRepository ==
    /\ content = {} /\ records = {} /\ commits = {}
    /\ refs = [r \in Refs |-> None]
    /\ aliases = [a \in Names |-> {}]
    /\ materialized = {}
    /\ imports = {} /\ mutations = {} /\ collections = {}

-----------------------------------------------------------------------------
(* Loading a record *)

ContentOf(d) == Metadata[d] \cup Layer[d]

\* An import journal hides the record it names from every reader.
Pending(d) == \E j \in imports : j.digest = d

\* loadRecordMode(d, requireCommit = false, allowPending = true)
Described(d) == d \in records /\ Metadata[d] \subseteq content

\* loadRecordMode(d, true, true)
Committed(d) == d \in commits /\ Described(d)

\* record(d): what a reader can load
Visible(d) == Committed(d) /\ ~Pending(d)

-----------------------------------------------------------------------------
(* References *)

\* readRefMutationJournal: the targets a journal names must load.
WellFormed(m) ==
    /\ m.previous # None => Committed(m.previous)
    /\ m.next # None => Committed(m.next)

\* validateRefMutationCurrent: nobody else moved the reference.
Owned(m) == refs[m.ref] \in {m.previous, m.next}

MutationsReadable == \A m \in mutations : WellFormed(m) /\ Owned(m)

\* referenceDigest: a pending mutation shows the previous target.
Target(r) ==
    IF \E m \in mutations : m.ref = r
    THEN (CHOOSE m \in mutations : m.ref = r).previous
    ELSE refs[r]

\* referenceSnapshot: references whose target is pending are left out, and a
\* target that cannot be loaded fails the whole snapshot.
Snapshot ==
    [r \in Refs |-> IF Target(r) # None /\ Visible(Target(r))
                    THEN Target(r) ELSE None]

SnapshotReadable ==
    /\ MutationsReadable
    /\ \A r \in Refs : Target(r) # None =>
          \/ Visible(Target(r))
          \/ refs[r] # None /\ Pending(Target(r))

\* Mutant: an artifact counts as referenced only if every reference names it.
ReferencedByAll(snapshot, d) == \A r \in Refs : snapshot[r] = d

Referenced(snapshot, d) == \E r \in Refs : snapshot[r] = d

-----------------------------------------------------------------------------
(* Aliases *)

\* authoritativeAliasMap over the records and references a mode shows
AliasMap(shown, tips) ==
    [a \in Names |-> {d \in shown : \/ a \in NameOf[d]
                                    \/ \E r \in Refs : tips[r] = d /\ a \in ShortOf[r]}]

\* Mutant: derived from what readers see, so a pending import is left out.
RebuiltAliasesShown == AliasMap({d \in records : ~Pending(d)}, Snapshot)

\* rebuildAliases works from the raw state and fails on a broken reference.
RebuiltAliases == AliasMap(records, refs)
AliasesRebuildable == \A r \in Refs : refs[r] # None => Committed(refs[r])

\* readAlias rejects an index that differs from what readers derive.
ShownAliases == AliasMap({d \in records : ~Pending(d)}, Snapshot)

-----------------------------------------------------------------------------
(* Garbage collection *)

\* scanAllRecords lists every record without a journal, committed or not, and
\* fails if one of them does not load.
PlanReadable ==
    SnapshotReadable /\ \A d \in records : Pending(d) \/ Described(d)

\* Mutant: takes an artifact that is being imported.
FreshPlanPending ==
    LET delete == {d \in records : ~Referenced(Snapshot, d)}
        protected == UNION {ContentOf(d) : d \in records \ delete}
    IN [refs |-> Snapshot, universe |-> records, delete |-> delete,
        deleteContent |-> (UNION {ContentOf(d) : d \in delete}) \ protected]

FreshPlan ==
    LET universe == {d \in records : ~Pending(d)}
        delete == {d \in universe : ~Referenced(Snapshot, d)}
        protected == UNION {ContentOf(d) : d \in universe \ delete}
    IN [refs |-> Snapshot, universe |-> universe, delete |-> delete,
        deleteContent |-> (UNION {ContentOf(d) : d \in delete}) \ protected]

\* currentGCProtected: the content of every loadable record outside the plan
GCProtected(plan) == UNION {ContentOf(d) : d \in {e \in records \ plan.delete : Visible(e)}}

FreshGCJournal(plan) ==
    [plan |-> plan, phase |-> [d \in Digests |-> 0],
     status |-> [b \in Blobs |-> "pending"]]

\* validateGCJournalState: the journal still describes the files.
GCJournalValid(j) ==
    /\ \A d \in j.plan.delete :
          /\ j.phase[d] >= 1 => d \notin materialized
          /\ j.phase[d] >= 2 => d \notin commits
          /\ (j.phase[d] = 3) = (d \notin records)
    /\ SnapshotReadable
    /\ \A b \in j.plan.deleteContent :
          /\ j.status[b] = "deleted" => b \notin content \/ b \in GCProtected(j.plan)
          /\ j.status[b] = "retained" => b \in GCProtected(j.plan) \cap content
=============================================================================
