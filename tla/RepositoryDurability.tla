------------------------ MODULE RepositoryDurability ------------------------
(***************************************************************************)
(* What readers who recover first may rely on: the abstract store the      *)
(* repository refines, the artifacts behind references, their content,     *)
(* their names and their leases.  For every number of faults, with the one *)
(* kind of step named that breaks each promise: a collection that takes an *)
(* installed artifact hidden by an unacknowledged import.  Up to the       *)
(* second fault no such step hits a reference; before the first there is   *)
(* none.                                                                   *)
(***************************************************************************)
EXTENDS RepositoryProofs

-----------------------------------------------------------------------------
(* What recovery would leave, as a function of the files it depends on *)

\* referenceDigest over all references: an unacknowledged import hides its
\* reference and an unacknowledged change shows the previous digest.
TagsOf(I, M, R) ==
    [r \in Refs |-> IF \E j \in I : j.ref = r /\ j.reference THEN None
                    ELSE IF \E m \in M : m.ref = r
                         THEN (CHOOSE m \in M : m.ref = r).previous ELSE R[r]]

\* VisibleRecord over all digests: a marked record that no unacknowledged
\* import is creating.
InstalledOf(A, C, I) ==
    {d \in A \cap C : \A j \in I : j.digest = d => ~j.record /\ ~j.commit}

\* What the repository promises depends on these files alone.
LEMMA Views ==
    /\ Tags = TagsOf(imports, mutations, refs)
    /\ Tags' = TagsOf(imports', mutations', refs')
    /\ Installed = InstalledOf(records, commits, imports)
    /\ Installed' = InstalledOf(records', commits', imports')
BY DEF Tags, Target, TagsOf, Installed, InstalledOf

\* With no journal the references are read as they are.
LEMMA TagsNone ==
    ASSUME NEW R \in [Refs -> DigestOrNone]
    PROVE  TagsOf({}, {}, R) = R
BY DEF TagsOf

\* An import's journal hides the reference it sets.
LEMMA TagsImport ==
    ASSUME NEW R \in [Refs -> DigestOrNone], NEW j
    PROVE  TagsOf({j}, {}, R) = IF j.reference THEN [R EXCEPT ![j.ref] = None] ELSE R
BY DEF TagsOf

\* A reference change's journal shows where its reference pointed.
LEMMA TagsMutation ==
    ASSUME NEW R \in [Refs -> DigestOrNone], NEW m
    PROVE  TagsOf({}, {m}, R) = [R EXCEPT ![m.ref] = m.previous]
<1>1. \A r : (\E n \in {m} : n.ref = r) => (CHOOSE n \in {m} : n.ref = r) = m
    OBVIOUS
<1>2. QED
    BY <1>1 DEF TagsOf

\* With no import journal every marked record is installed.
LEMMA InstalledNone ==
    ASSUME NEW A, NEW C
    PROVE  InstalledOf(A, C, {}) = A \cap C
BY DEF InstalledOf

\* An import's journal hides what the import creates.
LEMMA InstalledImport ==
    ASSUME NEW A, NEW C, NEW j
    PROVE  InstalledOf(A, C, {j}) =
               IF j.record \/ j.commit THEN (A \cap C) \ {j.digest} ELSE A \cap C
BY DEF InstalledOf

\* The journal an import saves tells what was missing.
LEMMA SavedImport ==
    ASSUME IInv, NEW p \in Procs, SaveImportJournal(p)
    PROVE  /\ imports = {} /\ mutations = {} /\ job[p] \in ImportJob
           /\ UNCHANGED <<content, records, commits, refs, mutations>>
           /\ \/ Finish(p) /\ UNCHANGED imports
              \/ /\ GoTo(p, "record")
                 /\ job[p].ref # None => refs[job[p].ref] \in {None, job[p].digest}
                 /\ \E j \in ImportJournal :
                       /\ imports' = {j}
                       /\ j.digest = job[p].digest /\ j.ref = job[p].ref
                       /\ j.record <=> job[p].digest \notin records
                       /\ j.commit <=> job[p].digest \notin commits
                       /\ j.reference <=> job[p].ref # None /\ refs[job[p].ref] = None
<1>1. imports = {} /\ mutations = {} /\ job[p] \in ImportJob
    BY JobTypes DEF SaveImportJournal, IInv, CoreTypeOK, JournalDiscipline, Grounded, CleanStart, JobFits
<1>2. Target(job[p].ref) = refs[job[p].ref]
    BY <1>1 DEF Target
<1> DEFINE previous == IF job[p].ref = None THEN None ELSE Target(job[p].ref)
           j == [kind |-> "import", digest |-> job[p].digest, ref |-> job[p].ref,
                 record |-> job[p].digest \notin records,
                 commit |-> job[p].digest \notin commits,
                 reference |-> previous = None /\ job[p].ref # None]
<1>3. /\ j \in ImportJournal
      /\ j.digest = job[p].digest /\ j.ref = job[p].ref
      /\ j.record <=> job[p].digest \notin records
      /\ j.commit <=> job[p].digest \notin commits
      /\ j.reference <=> job[p].ref # None /\ refs[job[p].ref] = None
    BY <1>1, <1>2 DEF ImportJob, ImportJournal
<1>4. ASSUME imports' = imports \cup {j} PROVE imports' = {j}
    BY <1>1, <1>4
<1>5. QED
    BY <1>1, <1>2, <1>3, <1>4 DEF SaveImportJournal

\* While an import is under way its journal is the only one.
LEMMA UnderWay ==
    ASSUME IInv, NEW p \in Procs, pc[p] \in WriteLabels, job[p].kind = "import"
    PROVE  /\ mutations = {}
           /\ \E j \in ImportJournal :
              /\ imports = {j}
              /\ j.digest = job[p].digest /\ j.ref = job[p].ref
              /\ pc[p] = "record" /\ j.digest \notin records => j.record
              /\ pc[p] \in {"record", "commit"} /\ j.digest \notin commits => j.commit
              /\ pc[p] \in {"record", "commit", "reference"} /\ j.ref # None =>
                    \/ refs[j.ref] = j.digest
                    \/ refs[j.ref] = None /\ j.reference
BY DEF IInv, CoreTypeOK, LayoutTypeOK, JournalDiscipline, Grounded, ImportCovered

\* A rollback works on the only journal.
LEMMA RolledBack ==
    ASSUME IInv, NEW p \in Procs, pc[p] \in UndoLabels
    PROVE  \/ /\ undo[p].kind = "import" /\ undo[p] \in ImportJournal
              /\ imports = {undo[p]} /\ mutations = {}
           \/ /\ undo[p].kind = "ref" /\ undo[p] \in RefMutation
              /\ imports = {} /\ mutations = {undo[p]}
<1>1. undo[p] \in imports \cup mutations
    BY DEF IInv, JournalDiscipline, Grounded, UndoGrounded
<1>2. QED
    BY <1>1, JournalKinds DEF IInv, CoreTypeOK, LayoutTypeOK, JournalDiscipline, SingleTransaction

-----------------------------------------------------------------------------
(* What each step does to it *)

\* A step that readers who recover first do not notice.
Unseen == Installed' = Installed /\ Tags' = Tags

\* Steps on other files are such steps.
LEMMA StoreStill ==
    ASSUME UNCHANGED <<records, commits, refs, imports, mutations>>
    PROVE  Unseen
BY Views DEF Unseen

\* Rolling back does not show: the journal already hid what it takes back.
LEMMA UndoUnseen ==
    ASSUME BInv, NEW p \in Procs,
           \/ UndoReference(p) \/ UndoCommit(p) \/ UndoRecord(p) \/ UndoAliases(p) \/ UndoAck(p)
    PROVE  Unseen
<1>0. /\ IInv /\ LayoutTypeOK /\ Progress(p) /\ ChangesOwned /\ Grounded(p)
      /\ refs \in [Refs -> DigestOrNone]
      /\ pc[p] \in UndoLabels
    BY DEF BInv, IInv, CoreTypeOK, LayoutTypeOK, Bookkeeping, JournalDiscipline, UndoReference, UndoCommit,
           UndoRecord, UndoAliases, UndoAck, UndoLabels
<1>1. CASE UndoReference(p)
    <2>0. UNCHANGED <<records, commits, imports, mutations>>
        BY <1>1 DEF UndoReference
    <2>1. CASE undo[p].kind = "import"
        <3>1. imports = {undo[p]} /\ mutations = {} /\ undo[p] \in ImportJournal
            BY <1>0, <2>1, RolledBack
        <3>2. UNCHANGED refs \/ (undo[p].reference /\ refs' = [refs EXCEPT ![undo[p].ref] = None])
            BY <1>1, <2>1 DEF UndoReference
        <3>3. UNCHANGED refs => Unseen
            BY <2>0, StoreStill
        <3>4. undo[p].reference => undo[p].ref \in Refs
            BY <1>0, <3>1 DEF ChangesOwned, ImportJournal
        <3>5. refs' \in [Refs -> DigestOrNone]
            BY <1>0, <3>2 DEF DigestOrNone
        <3>6. ASSUME undo[p].reference, refs' = [refs EXCEPT ![undo[p].ref] = None]
              PROVE  Unseen
            <4>1. /\ Tags = [refs EXCEPT ![undo[p].ref] = None]
                  /\ Tags' = [refs' EXCEPT ![undo[p].ref] = None]
                BY <1>0, <2>0, <3>1, <3>5, <3>6, Views, TagsImport
            <4>2. Tags' = Tags
                BY <1>0, <3>4, <3>6, <4>1
            <4>3. QED
                BY <2>0, <4>2, Views DEF Unseen
        <3>7. QED
            BY <3>2, <3>3, <3>6
    <2>2. CASE undo[p].kind = "ref"
        <3>1. imports = {} /\ mutations = {undo[p]} /\ undo[p] \in RefMutation
            BY <1>0, <2>2, RolledBack
        <3>2. UNCHANGED refs \/ refs' = [refs EXCEPT ![undo[p].ref] = undo[p].previous]
            BY <1>1, <2>2 DEF UndoReference
        <3>5. refs' \in [Refs -> DigestOrNone]
            BY <1>0, <3>1, <3>2 DEF RefMutation
        <3>6. /\ Tags = [refs EXCEPT ![undo[p].ref] = undo[p].previous]
              /\ Tags' = [refs' EXCEPT ![undo[p].ref] = undo[p].previous]
            BY <1>0, <2>0, <3>1, <3>5, Views, TagsMutation
        <3>7. Tags' = Tags
            BY <1>0, <3>1, <3>2, <3>6 DEF RefMutation
        <3>8. QED
            BY <2>0, <3>7, Views DEF Unseen
    <2>3. QED
        BY <1>0, <2>1, <2>2, RolledBack
<1>2. CASE UndoCommit(p) \/ UndoRecord(p)
    <2>0. UNCHANGED <<refs, imports, mutations>>
        BY <1>2 DEF UndoCommit, UndoRecord
    <2>1. imports = {undo[p]} /\ mutations = {} /\ undo[p] \in ImportJournal
        BY <1>0, <1>2, RolledBack DEF UndoCommit, UndoRecord, Grounded, UndoGrounded
    <2>2. Tags' = Tags
        BY <2>0, Views
    <2>3. \/ UNCHANGED <<records, commits>>
          \/ undo[p].commit /\ commits' = commits \ {undo[p].digest} /\ UNCHANGED records
          \/ undo[p].record /\ records' = records \ {undo[p].digest} /\ UNCHANGED commits
        BY <1>2 DEF UndoCommit, UndoRecord
    <2>4. /\ Installed = IF undo[p].record \/ undo[p].commit
                         THEN (records \cap commits) \ {undo[p].digest} ELSE records \cap commits
          /\ Installed' = IF undo[p].record \/ undo[p].commit
                          THEN (records' \cap commits') \ {undo[p].digest} ELSE records' \cap commits'
        BY <2>0, <2>1, Views, InstalledImport
    <2>5. QED
        BY <2>2, <2>3, <2>4 DEF Unseen
<1>3. CASE UndoAliases(p)
    BY <1>3, StoreStill DEF UndoAliases
<1>4. CASE UndoAck(p)
    <2>0. /\ UNCHANGED <<records, commits, refs>> /\ pc[p] = "undoAck" /\ outcome[p] # "dirty"
          /\ imports' = imports \ {undo[p]} /\ mutations' = mutations \ {undo[p]}
        BY <1>0, <1>4 DEF UndoAck, Progress, UndoDone
    <2>1. CASE undo[p].kind = "import"
        <3>1. imports = {undo[p]} /\ mutations = {} /\ undo[p] \in ImportJournal
            BY <1>0, <2>1, RolledBack
        <3>2. imports' = {} /\ mutations' = {}
            BY <2>0, <3>1
        <3>3. /\ undo[p].reference => undo[p].ref \in Refs /\ refs[undo[p].ref] = None
              /\ undo[p].commit => undo[p].digest \notin commits
              /\ undo[p].record => undo[p].digest \notin records
            BY <1>0, <2>0, <2>1, <3>1 DEF Progress, UndoDone, UndoLabels, ChangesOwned, ImportJournal
        <3>4. /\ Tags = IF undo[p].reference THEN [refs EXCEPT ![undo[p].ref] = None] ELSE refs
              /\ Tags' = refs
            BY <1>0, <2>0, <3>1, <3>2, Views, TagsImport, TagsNone
        <3>5. Tags' = Tags
            BY <1>0, <3>3, <3>4
        <3>6. /\ Installed = IF undo[p].record \/ undo[p].commit
                             THEN (records \cap commits) \ {undo[p].digest}
                             ELSE records \cap commits
              /\ Installed' = records \cap commits
            BY <2>0, <3>1, <3>2, Views, InstalledImport, InstalledNone
        <3>7. Installed' = Installed
            BY <3>3, <3>6
        <3>8. QED
            BY <3>5, <3>7 DEF Unseen
    <2>2. CASE undo[p].kind = "ref"
        <3>1. imports = {} /\ mutations = {undo[p]} /\ undo[p] \in RefMutation
            BY <1>0, <2>2, RolledBack
        <3>2. imports' = {} /\ mutations' = {}
            BY <2>0, <3>1
        <3>3. undo[p].ref \in Refs /\ refs[undo[p].ref] = undo[p].previous
            BY <1>0, <2>0, <2>2, <3>1 DEF Progress, UndoDone, UndoLabels, RefMutation
        <3>4. Tags = refs /\ Tags' = refs
            BY <1>0, <2>0, <3>1, <3>2, <3>3, Views, TagsMutation, TagsNone
        <3>5. Installed' = Installed
            BY <2>0, <3>1, <3>2, Views
        <3>6. QED
            BY <3>4, <3>5 DEF Unseen
    <2>3. QED
        BY <1>0, <2>1, <2>2, RolledBack
<1>5. QED
    BY <1>1, <1>2, <1>3, <1>4

\* Nor does an import or a reference change before its acknowledgement.
LEMMA WriteUnseen ==
    ASSUME BInv, NEW p \in Procs,
           \/ PutContent(p) \/ SaveImportJournal(p) \/ WriteRecord(p) \/ WriteCommit(p)
           \/ CompareRef(p) \/ WriteReference(p) \/ RebuildAliases(p)
    PROVE  Unseen
<1>0. /\ IInv /\ LayoutTypeOK /\ ProcTypeOK /\ Progress(p) /\ ChangesOwned /\ Grounded(p)
      /\ refs \in [Refs -> DigestOrNone]
    BY DEF BInv, IInv, CoreTypeOK, LayoutTypeOK, Bookkeeping, JournalDiscipline
<1>1. CASE PutContent(p) \/ RebuildAliases(p)
    BY <1>1, StoreStill DEF PutContent, RebuildAliases
<1>2. CASE SaveImportJournal(p)
    <2>1. /\ imports = {} /\ mutations = {} /\ mutations' = {}
          /\ UNCHANGED <<records, commits, refs>>
        BY <1>0, <1>2, SavedImport
    <2>2. CASE UNCHANGED imports
        BY <2>1, <2>2, StoreStill
    <2>3. ASSUME NEW j \in ImportJournal, imports' = {j},
                 j.record <=> j.digest \notin records,
                 j.commit <=> j.digest \notin commits,
                 j.reference <=> j.ref # None /\ refs[j.ref] = None
          PROVE  Unseen
        <3>1. Tags = refs
            BY <1>0, <2>1, Views, TagsNone
        <3>2. Tags' = IF j.reference THEN [refs EXCEPT ![j.ref] = None] ELSE refs
            BY <1>0, <2>1, <2>3, Views, TagsImport
        <3>3. Installed = records \cap commits
            BY <2>1, Views, InstalledNone
        <3>4. Installed' = IF j.record \/ j.commit
                           THEN (records \cap commits) \ {j.digest} ELSE records \cap commits
            BY <2>1, <2>3, Views, InstalledImport
        <3>5. Tags' = Tags
            BY <1>0, <2>3, <3>1, <3>2 DEF ImportJournal
        <3>6. QED
            BY <2>3, <3>3, <3>4, <3>5 DEF Unseen
    <2>4. QED
        BY <1>0, <1>2, <2>2, <2>3, SavedImport
<1>3. CASE WriteRecord(p) \/ WriteCommit(p)
    <2>0. /\ UNCHANGED <<refs, imports, mutations>> /\ pc[p] \in {"record", "commit"}
          /\ pc[p] \in WriteLabels /\ job[p].kind = "import"
        BY <1>0, <1>3 DEF WriteRecord, WriteCommit, WriteLabels, Grounded, JobFits
    <2>1. PICK j \in ImportJournal :
              /\ imports = {j} /\ j.digest = job[p].digest
              /\ pc[p] = "record" /\ j.digest \notin records => j.record
              /\ pc[p] \in {"record", "commit"} /\ j.digest \notin commits => j.commit
        BY <1>0, <2>0, UnderWay
    <2>2. Tags' = Tags
        BY <2>0, Views
    <2>3. \/ UNCHANGED <<records, commits>>
          \/ pc[p] = "record" /\ records' = records \cup {j.digest} /\ UNCHANGED commits
          \/ pc[p] = "commit" /\ commits' = commits \cup {j.digest} /\ UNCHANGED records
        BY <1>3, <2>1 DEF WriteRecord, WriteCommit
    <2>4. /\ Installed = IF j.record \/ j.commit
                         THEN (records \cap commits) \ {j.digest} ELSE records \cap commits
          /\ Installed' = IF j.record \/ j.commit
                          THEN (records' \cap commits') \ {j.digest} ELSE records' \cap commits'
        BY <2>0, <2>1, Views, InstalledImport
    <2>5. Installed' = Installed
        BY <2>1, <2>3, <2>4
    <2>6. QED
        BY <2>2, <2>5 DEF Unseen
<1>4. CASE CompareRef(p)
    <2>1. /\ imports = {} /\ mutations = {} /\ UNCHANGED <<records, commits, refs, imports>>
          /\ job[p] \in RefJob
        BY <1>0, <1>4, JobTypes DEF CompareRef, Grounded, CleanStart, JobFits
    <2>2. CASE UNCHANGED mutations
        BY <2>1, <2>2, StoreStill
    <2>3. ASSUME NEW m, mutations' = mutations \cup {m}, refs[m.ref] = m.previous, m.ref \in Refs
          PROVE  Unseen
        <3>1. Tags = refs /\ mutations' = {m}
            BY <1>0, <2>1, <2>3, Views, TagsNone
        <3>2. Tags' = [refs EXCEPT ![m.ref] = m.previous]
            BY <1>0, <2>1, <3>1, Views, TagsMutation
        <3>3. Tags' = Tags
            BY <1>0, <2>3, <3>1, <3>2
        <3>4. QED
            BY <2>1, <3>3, Views DEF Unseen
    <2>4. QED
        BY <1>4, <2>1, <2>2, <2>3 DEF CompareRef, RefJob
<1>5. CASE WriteReference(p)
    <2>0. /\ UNCHANGED <<records, commits, imports, mutations>>
          /\ pc[p] = "reference" /\ pc[p] \in WriteLabels
          /\ UNCHANGED refs \/ refs' = [refs EXCEPT ![job[p].ref] = NewTarget(job[p])]
        BY <1>5 DEF WriteReference, WriteLabels
    <2>1. UNCHANGED refs => Unseen
        BY <2>0, StoreStill
    <2>2. CASE job[p].kind = "import" /\ refs' = [refs EXCEPT ![job[p].ref] = NewTarget(job[p])]
        <3>1. job[p].ref \in Refs /\ NewTarget(job[p]) = job[p].digest /\ job[p].digest \in Digests
            BY <1>0, <2>0, <2>2, JobTypes DEF Grounded, JobFits, NewTarget, ImportJob
        <3>2. PICK j \in ImportJournal :
                  /\ imports = {j} /\ j.digest = job[p].digest /\ j.ref = job[p].ref
                  /\ refs[j.ref] = j.digest \/ (refs[j.ref] = None /\ j.reference)
            BY <1>0, <2>0, <2>2, <3>1, UnderWay, LayoutAssumption DEF LayoutAssumption
        <3>3. CASE refs[j.ref] = j.digest
            BY <1>0, <2>1, <2>2, <3>1, <3>2, <3>3
        <3>4. CASE j.reference
            <4>1. mutations = {} /\ refs' \in [Refs -> DigestOrNone]
                BY <1>0, <2>0, <2>2, <3>1, UnderWay DEF DigestOrNone
            <4>2. Tags = [refs EXCEPT ![j.ref] = None] /\ Tags' = [refs' EXCEPT ![j.ref] = None]
                BY <1>0, <2>0, <3>2, <3>4, <4>1, Views, TagsImport
            <4>3. Tags' = Tags
                BY <1>0, <2>2, <3>1, <3>2, <4>2
            <4>4. QED
                BY <2>0, <4>3, Views DEF Unseen
        <3>5. QED
            BY <3>2, <3>3, <3>4
    <2>3. CASE job[p].kind = "ref" /\ refs' = [refs EXCEPT ![job[p].ref] = NewTarget(job[p])]
        <3>1. /\ job[p].ref \in Refs /\ NewTarget(job[p]) = job[p].new
              /\ job[p].new \in DigestOrNone
              /\ imports = {} /\ refs[job[p].ref] = job[p].old
            BY <1>0, <2>0, <2>3, JobTypes DEF Grounded, RefChangeCovered, NewTarget, RefJob
        <3>2. CASE job[p].old = job[p].new
            BY <1>0, <2>1, <2>3, <3>1, <3>2
        <3>3. ASSUME NEW m, mutations = {m}, m.ref = job[p].ref PROVE Unseen
            <4>1. refs' \in [Refs -> DigestOrNone]
                BY <1>0, <2>3, <3>1
            <4>2. /\ Tags = [refs EXCEPT ![m.ref] = m.previous]
                  /\ Tags' = [refs' EXCEPT ![m.ref] = m.previous]
                BY <1>0, <2>0, <3>1, <3>3, <4>1, Views, TagsMutation
            <4>3. Tags' = Tags
                BY <1>0, <2>3, <3>3, <4>2
            <4>4. QED
                BY <2>0, <4>3, Views DEF Unseen
        <3>4. QED
            BY <1>0, <2>0, <2>3, <3>2, <3>3 DEF Grounded, RefChangeCovered
    <2>4. QED
        BY <1>0, <2>0, <2>1, <2>2, <2>3 DEF Grounded, JobFits
<1>6. QED
    BY <1>1, <1>2, <1>3, <1>4, <1>5

\* An acknowledged import installs its artifact, with its reference.
LEMMA AcknowledgeImport ==
    ASSUME BInv, NEW p \in Procs, Acknowledge(p), job[p].kind = "import"
    PROVE  /\ job[p] \in ImportJob /\ ContentOf(job[p].digest) \subseteq content /\ UNCHANGED content
           /\ Installed' = Installed \cup {job[p].digest}
           /\ job[p].ref = None => Tags' = Tags
           /\ job[p].ref # None => /\ Tags[job[p].ref] \in {None, job[p].digest}
                                   /\ Tags' = [Tags EXCEPT ![job[p].ref] = job[p].digest]
<1>0. /\ IInv /\ LayoutTypeOK /\ ProcTypeOK /\ Progress(p) /\ ChangesOwned
      /\ refs \in [Refs -> DigestOrNone]
      /\ pc[p] = "ack" /\ pc[p] \in WriteLabels
      /\ UNCHANGED <<content, records, commits, refs>>
    BY DEF BInv, IInv, CoreTypeOK, LayoutTypeOK, Bookkeeping, Acknowledge, WriteLabels
<1>1. job[p] \in ImportJob
    BY <1>0, JobTypes
<1>2. /\ ContentOf(job[p].digest) \subseteq content
      /\ job[p].digest \in records \cap commits
      /\ job[p].ref # None => refs[job[p].ref] = job[p].digest
    BY <1>0 DEF Progress, ImportDone
<1>3. PICK j \in ImportJournal : imports = {j} /\ j.digest = job[p].digest /\ j.ref = job[p].ref
    BY <1>0, UnderWay
<1>4. mutations = {}
    BY <1>0, UnderWay
<1>5. imports' = {} /\ mutations' = {}
    BY <1>3, <1>4 DEF Acknowledge, OwnJournals
<1>6. /\ Installed' = records \cap commits
      /\ Tags' = refs
    BY <1>0, <1>5, Views, InstalledNone, TagsNone
<1>7. /\ Installed = IF j.record \/ j.commit
                     THEN (records \cap commits) \ {j.digest} ELSE records \cap commits
      /\ Tags = IF j.reference THEN [refs EXCEPT ![j.ref] = None] ELSE refs
    BY <1>0, <1>3, <1>4, Views, InstalledImport, TagsImport
<1>8. Installed' = Installed \cup {job[p].digest}
    BY <1>2, <1>3, <1>6, <1>7
<1>9. CASE job[p].ref = None
    <2>1. ~j.reference
        BY <1>0, <1>3, <1>9 DEF ChangesOwned
    <2>2. QED
        BY <1>0, <1>1, <1>2, <1>6, <1>7, <1>8, <1>9, <2>1
<1>10. CASE job[p].ref # None
    <2>1. job[p].ref \in Refs
        BY <1>1, <1>10 DEF ImportJob
    <2>2. CASE j.reference
        <3>1. Tags[job[p].ref] = None
            BY <1>0, <1>3, <1>7, <2>1, <2>2
        <3>2. [Tags EXCEPT ![job[p].ref] = job[p].digest] = refs
            BY <1>0, <1>2, <1>3, <1>7, <1>10, <2>1, <2>2
        <3>3. QED
            BY <1>0, <1>1, <1>2, <1>6, <1>8, <1>10, <3>1, <3>2
    <2>3. CASE ~j.reference
        <3>1. Tags = refs
            BY <1>7, <2>3
        <3>2. [refs EXCEPT ![job[p].ref] = job[p].digest] = refs
            BY <1>0, <1>2, <1>10, <2>1
        <3>3. QED
            BY <1>0, <1>1, <1>2, <1>6, <1>8, <1>10, <3>1, <3>2
    <2>4. QED
        BY <2>2, <2>3
<1>11. QED
    BY <1>9, <1>10

\* An acknowledged reference change moves one reference to an installed
\* artifact, or deletes it.
LEMMA AcknowledgeRef ==
    ASSUME BInv, NEW p \in Procs, Acknowledge(p), job[p].kind = "ref"
    PROVE  /\ job[p] \in RefJob
           /\ Installed' = Installed /\ job[p].new \in Installed \cup {None}
           /\ Tags' = [Tags EXCEPT ![job[p].ref] = job[p].new]
<1>0. /\ IInv /\ LayoutTypeOK /\ ProcTypeOK /\ Progress(p) /\ Grounded(p)
      /\ refs \in [Refs -> DigestOrNone]
      /\ pc[p] = "ack" /\ pc[p] \in WriteLabels
      /\ UNCHANGED <<records, commits, refs>>
    BY DEF BInv, IInv, CoreTypeOK, LayoutTypeOK, Bookkeeping, JournalDiscipline, Acknowledge, WriteLabels
<1>1. job[p] \in RefJob
    BY <1>0, JobTypes
<1>2. /\ refs[job[p].ref] = job[p].new
      /\ job[p].new # None => job[p].new \in records \cap commits
    BY <1>0 DEF Progress, RefChangeDone
<1>3. imports = {} /\ (mutations = {} \/ \E m : mutations = {m} /\ m.ref = job[p].ref)
    BY <1>0 DEF Grounded, RefChangeCovered
<1>4. imports' = {} /\ mutations' = {}
    BY <1>3 DEF Acknowledge, OwnJournals
<1>5. /\ Installed' = records \cap commits /\ Installed = records \cap commits
      /\ Tags' = refs
    BY <1>0, <1>3, <1>4, Views, InstalledNone, TagsNone
<1>6. \/ Tags = refs
      \/ \E m : m.ref = job[p].ref /\ Tags = [refs EXCEPT ![m.ref] = m.previous]
    <2>1. Tags = TagsOf({}, mutations, refs)
        BY <1>3, Views
    <2>2. CASE mutations = {}
        BY <1>0, <2>1, <2>2, TagsNone
    <2>3. ASSUME NEW m, mutations = {m}, m.ref = job[p].ref
          PROVE  Tags = [refs EXCEPT ![m.ref] = m.previous]
        BY <1>0, <2>1, <2>3, TagsMutation
    <2>4. QED
        BY <1>3, <2>2, <2>3
<1>7. [Tags EXCEPT ![job[p].ref] = job[p].new] = refs
    <2>1. job[p].ref \in Refs /\ refs[job[p].ref] = job[p].new
        BY <1>1, <1>2 DEF RefJob
    <2>2. CASE Tags = refs
        BY <1>0, <2>1, <2>2
    <2>3. ASSUME NEW m, m.ref = job[p].ref, Tags = [refs EXCEPT ![m.ref] = m.previous]
          PROVE  [Tags EXCEPT ![job[p].ref] = job[p].new] = refs
        <3>1. Tags = [refs EXCEPT ![job[p].ref] = m.previous]
            BY <2>3
        <3>2. QED
            BY <1>0, <2>1, <3>1
    <2>4. QED
        BY <1>6, <2>2, <2>3
<1>8. QED
    BY <1>1, <1>2, <1>5, <1>7

\* A collection takes an artifact: one that nothing references or, hidden by
\* the unacknowledged import that brings it in again, one that is installed.
Takes(p, d) ==
    /\ GCRecords(p)
    /\ d \in Journal(p).plan.delete /\ Unleased(d)
    /\ Installed' = Installed \ {d} /\ Tags' = Tags
    /\ \/ \A r \in Refs : Tags[r] # d
       \/ Pending(d) /\ d \in Installed

\* A collection takes one candidate at a time, and no leased one.
LEMMA CollectEffect ==
    ASSUME BInv, NEW p \in Procs, GCOpen(p) \/ GCRecords(p) \/ GCContent(p)
    PROVE  Unseen \/ \E d \in Digests : Takes(p, d)
<1>0. /\ IInv /\ LayoutTypeOK /\ ProcTypeOK /\ Progress(p)
    BY DEF BInv, IInv, CoreTypeOK, Bookkeeping
<1>1. CASE GCOpen(p) \/ GCContent(p)
    BY <1>1, StoreStill DEF GCOpen, GCContent
<1>2. CASE GCRecords(p)
    <2>0. /\ pc[p] = "gcRecords" /\ pc[p] \in CollectLabels
          /\ UNCHANGED <<refs, imports, mutations>>
        BY <1>2, GCRecordsCases DEF CollectLabels
    <2>1. UNCHANGED disk => Unseen
        BY StoreStill DEF disk
    <2>2. ASSUME NEW d \in Digests, CandidateStep(p, d),
                 commits' = commits \ {d}, UNCHANGED records, SnapshotReadable, ~Referenced(Snapshot, d)
          PROVE  Unseen \/ Takes(p, d)
        <3>1. d \in Journal(p).plan.delete /\ Unleased(d)
            BY <2>2 DEF CandidateStep, Victims
        <3>2. Tags' = Tags /\ Installed' = Installed \ {d}
            BY <2>0, <2>2, Views DEF InstalledOf
        <3>3. CASE d \notin Installed
            BY <3>2, <3>3 DEF Unseen
        <3>4. CASE d \in Installed
            <4>1. CASE Pending(d)
                BY <1>2, <3>1, <3>2, <3>4, <4>1 DEF Takes
            <4>2. ASSUME ~Pending(d), NEW r \in Refs, Tags[r] = d PROVE FALSE
                <5>1. d # None
                    BY LayoutAssumption DEF LayoutAssumption
                <5>2. Target(r) = d
                    BY <4>2, <5>1 DEF Tags
                <5>3. Visible(d)
                    BY <2>2, <4>2, <5>1, <5>2 DEF SnapshotReadable
                <5>4. Snapshot[r] = d
                    BY <5>1, <5>2, <5>3 DEF Snapshot
                <5>5. QED
                    BY <2>2, <5>4 DEF Referenced
            <4>3. QED
                BY <1>2, <3>1, <3>2, <4>1, <4>2 DEF Takes
        <3>5. QED
            BY <3>3, <3>4
    <2>3. ASSUME NEW d \in Digests, CandidateStep(p, d),
                 records' = records \ {d}, UNCHANGED commits, Journal(p).phase[d] = 2
          PROVE  Unseen
        <3>1. d \in Journal(p).plan.delete
            BY <2>3 DEF CandidateStep, Victims
        <3>2. d \notin commits
            BY <1>0, <2>0, <2>3, <3>1 DEF Progress, CollectDone
        <3>3. QED
            BY <2>0, <2>3, <3>2, Views DEF Unseen, InstalledOf
    <2>4. UNCHANGED <<records, commits>> => Unseen
        BY <2>0, StoreStill
    <2>5. ASSUME NEW d \in Digests, CandidateStep(p, d)
          PROVE  Unseen \/ Takes(p, d)
        BY <2>2, <2>3, <2>4, <2>5 DEF CandidateStep
    <2>6. QED
        BY <1>2, <2>1, <2>5, GCRecordsCases
<1>3. QED
    BY <1>1, <1>2

\* Every step is one of the promised operations, or does not show.
LEMMA StoreEffect ==
    ASSUME BInv, NEW p \in Procs, ActBy(p)
    PROVE  Unseen \/ Acknowledge(p) \/ \E d \in Digests : Takes(p, d)
<1>1. CASE Bare(p)
    BY <1>1, BareStep, StoreStill
<1>2. QED
    BY <1>1, UndoUnseen, WriteUnseen, CollectEffect DEF ActBy, Step, Bare

\* A collection that does not recover first takes an installed artifact out
\* from under the unacknowledged import that brings it in again.
HiddenCollected ==
    \E p \in Procs, d \in Installed :
        /\ GCRecords(p)
        /\ Pending(d) /\ d \in Journal(p).plan.delete
        /\ Installed' = Installed \ {d} /\ Tags' = Tags

\* Every step of the repository is a step of the abstract store, or none, but
\* for that one.
LEMMA Refines ==
    ASSUME BInv, [Next]_vars
    PROVE  [Atomic!StoreNext \/ HiddenCollected]_(Atomic!storeVars)
<1>1. Unseen => UNCHANGED Atomic!storeVars
    BY DEF Unseen, Atomic!storeVars
<1>2. ASSUME NEW p \in Procs, NEW d \in Digests, Takes(p, d)
      PROVE  Atomic!StoreNext \/ HiddenCollected
    BY <1>2 DEF Takes, HiddenCollected, Atomic!StoreNext, Atomic!Collect
<1>3. ASSUME NEW p \in Procs, Acknowledge(p) PROVE Atomic!StoreNext
    <2>1. CASE job[p].kind = "import"
        <3> DEFINE d == job[p].digest
                   r == job[p].ref
        <3>1. d \in Digests /\ r \in Refs \cup {None}
            BY <1>3, <2>1, AcknowledgeImport DEF ImportJob
        <3>2. Installed' = Installed \cup {d}
            BY <1>3, <2>1, AcknowledgeImport
        <3>3. \/ r = None /\ Tags' = Tags
              \/ r \in Refs /\ Tags[r] \in {None, d} /\ Tags' = [Tags EXCEPT ![r] = d]
            BY <1>3, <2>1, <3>1, AcknowledgeImport
        <3>4. Atomic!Install(d, r)
            BY <3>2, <3>3 DEF Atomic!Install
        <3>5. QED
            BY <3>1, <3>4 DEF Atomic!StoreNext
    <2>2. CASE job[p].kind = "ref"
        <3> DEFINE d == job[p].new
                   r == job[p].ref
        <3>1. d \in Digests \cup {None} /\ r \in Refs
            BY <1>3, <2>2, AcknowledgeRef DEF RefJob, DigestOrNone
        <3>2. /\ Installed' = Installed /\ d \in Installed \cup {None}
              /\ Tags' = [Tags EXCEPT ![r] = d]
            BY <1>3, <2>2, AcknowledgeRef
        <3>3. d = None => Atomic!Untag(r)
            BY <3>2 DEF Atomic!Untag
        <3>4. d # None => Atomic!Retarget(r, d)
            BY <3>2 DEF Atomic!Retarget
        <3>5. QED
            BY <3>1, <3>3, <3>4 DEF Atomic!StoreNext
    <2>3. job[p].kind \in {"import", "ref"}
        BY <1>3 DEF BInv, IInv, JournalDiscipline, Grounded, JobFits, Acknowledge
    <2>4. QED
        BY <2>1, <2>2, <2>3
<1>4. UNCHANGED core => Unseen
    BY StoreStill DEF core, disk
<1>5. QED
    BY <1>1, <1>2, <1>3, <1>4, StoreEffect, NextCases DEF ActBy

\* An empty repository is an empty store.
LEMMA RefinesInit == Init => Atomic!StoreInit
<1>1. Init => Installed = {} /\ Tags = [r \in Refs |-> None]
    BY DEF Init, EmptyRepository, Installed, Tags, Target
<1>2. QED
    BY <1>1 DEF Atomic!StoreInit

\* What FailureAtomic comes to for every number of kills and failed writes: each
\* import, reference change and collection takes effect at one step or not at
\* all, and the only step that is none of the store's is a collection that takes
\* an installed artifact an unacknowledged import hides.
THEOREM AtomicButForHidden ==
    Spec => Atomic!StoreInit /\ [][Atomic!StoreNext \/ HiddenCollected]_(Atomic!storeVars)
<1>1. BInv /\ [Next]_vars => [Atomic!StoreNext \/ HiddenCollected]_(Atomic!storeVars)
    BY Refines
<1>2. QED
    BY <1>1, RefinesInit, BookkeepingKept, PTL DEF Spec

\* No step leaves a reference on an artifact it removes, or sets one to an
\* artifact that is not installed.
LEMMA ReferencesInstalledStep ==
    ASSUME BInv, ReferencesInstalled, [Next]_vars
    PROVE  ReferencesInstalled' \/ HiddenCollected
<1>1. Unseen => ReferencesInstalled'
    BY DEF Unseen, ReferencesInstalled
<1>2. ASSUME NEW p \in Procs, NEW d \in Digests, Takes(p, d)
      PROVE  ReferencesInstalled' \/ HiddenCollected
    BY <1>2 DEF Takes, HiddenCollected, ReferencesInstalled
<1>3. ASSUME NEW p \in Procs, Acknowledge(p) PROVE ReferencesInstalled'
    <2>0. Tags \in [Refs -> DigestOrNone]
        BY TargetType DEF Tags, DigestOrNone, BInv, IInv, CoreTypeOK
    <2>1. CASE job[p].kind = "import"
        BY <1>3, <2>0, <2>1, AcknowledgeImport DEF ReferencesInstalled, ImportJob
    <2>2. CASE job[p].kind = "ref"
        BY <1>3, <2>0, <2>2, AcknowledgeRef DEF ReferencesInstalled, RefJob
    <2>3. job[p].kind \in {"import", "ref"}
        BY <1>3 DEF BInv, IInv, JournalDiscipline, Grounded, JobFits, Acknowledge
    <2>4. QED
        BY <2>1, <2>2, <2>3
<1>4. UNCHANGED core => Unseen
    BY StoreStill DEF core, disk
<1>5. QED
    BY <1>1, <1>2, <1>3, <1>4, StoreEffect, NextCases DEF ActBy

\* ReferencesInstalled for every number of faults: no kill, no failed write, no
\* rollback and no other operation takes the artifact from under a reference
\* that recovery keeps; a collection does so only past the unacknowledged import
\* of an installed artifact.
THEOREM InstalledButForHidden ==
    Spec => [][ReferencesInstalled => ReferencesInstalled' \/ HiddenCollected]_vars
<1>1. BInv /\ [Next]_vars
      => [ReferencesInstalled => ReferencesInstalled' \/ HiddenCollected]_vars
    BY ReferencesInstalledStep
<1>2. QED
    BY <1>1, BookkeepingKept, PTL DEF Spec

-----------------------------------------------------------------------------
(* Content *)

\* Only a collection removes content, and only what its plan does not protect.
LEMMA ContentGoes ==
    ASSUME BInv, NEW p \in Procs, ActBy(p)
    PROVE  \/ content \subseteq content'
           \/ /\ GCContent(p) /\ pc[p] = "gcContent"
              /\ UNCHANGED <<records, commits, refs, imports, mutations>>
              /\ \E b : b \notin GCProtected(Journal(p).plan) /\ content' = content \ {b}
<1>0. LayoutTypeOK /\ IInv
    BY DEF BInv, IInv, CoreTypeOK
<1>1. CASE GCContent(p)
    <2>1. pc[p] = "gcContent" /\ pc[p] \in CollectLabels
        BY <1>1 DEF GCContent, CollectLabels
    <2>2. \E j \in collections : j.plan = job[p].plan
        BY <1>0, <2>1, Collecting
    <2>3. QED
        BY <1>0, <1>1, <2>2, GCContentCases
<1>2. CASE GCRecords(p)
    BY <1>2, GCRecordsCases
<1>3. CASE Bare(p)
    BY <1>3, BareStep
<1>4. CASE PutContent(p)
    BY <1>4 DEF PutContent
<1>5. CASE \/ UndoReference(p) \/ UndoCommit(p) \/ UndoRecord(p) \/ UndoAliases(p)
           \/ UndoAck(p) \/ SaveImportJournal(p) \/ WriteRecord(p) \/ WriteCommit(p)
           \/ CompareRef(p) \/ WriteReference(p) \/ RebuildAliases(p) \/ Acknowledge(p)
           \/ GCOpen(p)
    BY <1>5 DEF UndoReference, UndoCommit, UndoRecord, UndoAliases, UndoAck,
           SaveImportJournal, WriteRecord, WriteCommit, CompareRef, WriteReference,
           RebuildAliases, Acknowledge, GCOpen
<1>6. QED
    BY <1>1, <1>2, <1>3, <1>4, <1>5 DEF ActBy, Step, Bare

\* When a collection reaches the content, it protects whatever is installed and
\* complete and not hidden by an unacknowledged import.
LEMMA InstalledProtected ==
    ASSUME BInv, NEW p \in Procs, pc[p] = "gcContent",
           NEW d \in Installed, ContentOf(d) \subseteq content, ~Pending(d)
    PROVE  ContentOf(d) \subseteq GCProtected(Journal(p).plan)
<1>1. d \in records /\ d \in commits
    BY DEF Installed
<1>2. d \notin Journal(p).plan.delete
    BY <1>1 DEF BInv, Bookkeeping, Progress, CollectDone, CollectLabels
<1>3. Visible(d)
    BY <1>1 DEF Visible, Committed, Described, ContentOf
<1>4. QED
    BY <1>1, <1>2, <1>3 DEF GCProtected

\* Likewise the content of such an artifact goes.
HiddenContent ==
    \E p \in Procs, d \in Installed :
        GCContent(p) /\ Pending(d) /\ ~(ContentOf(d) \subseteq content')

\* What is installed stays complete, but for that step.
LEMMA InstalledCompleteStep ==
    ASSUME BInv, InstalledComplete, NEW p \in Procs, ActBy(p)
    PROVE  InstalledComplete' \/ HiddenContent
<1>1. CASE /\ GCContent(p) /\ pc[p] = "gcContent"
           /\ UNCHANGED <<records, commits, refs, imports, mutations>>
           /\ \E b : b \notin GCProtected(Journal(p).plan) /\ content' = content \ {b}
    <2>1. Installed' = Installed
        BY <1>1 DEF Installed
    <2>2. ASSUME ~HiddenContent, NEW d \in Installed PROVE ContentOf(d) \subseteq content'
        <3>1. ContentOf(d) \subseteq content
            BY DEF InstalledComplete
        <3>2. CASE ~Pending(d)
            BY <1>1, <3>1, <3>2, InstalledProtected
        <3>3. QED
            BY <1>1, <2>2, <3>2 DEF HiddenContent
    <2>3. QED
        BY <2>1, <2>2 DEF InstalledComplete
<1>2. CASE content \subseteq content'
    <2>1. CASE Acknowledge(p)
        <3>1. job[p].kind = "import" =>
                  /\ Installed' = Installed \cup {job[p].digest}
                  /\ ContentOf(job[p].digest) \subseteq content
            BY <2>1, AcknowledgeImport
        <3>2. job[p].kind = "ref" => Installed' = Installed
            BY <2>1, AcknowledgeRef
        <3>3. job[p].kind \in {"import", "ref"}
            BY <2>1 DEF BInv, IInv, JournalDiscipline, Grounded, JobFits, Acknowledge
        <3>4. QED
            BY <1>2, <3>1, <3>2, <3>3 DEF InstalledComplete
    <2>2. CASE Installed' \subseteq Installed
        BY <1>2, <2>2 DEF InstalledComplete
    <2>3. QED
        BY <2>1, <2>2, StoreEffect DEF Unseen, Takes
<1>3. QED
    BY <1>1, <1>2, ContentGoes

\* For every number of faults, what is installed loses no content but to a
\* collection past the unacknowledged import that brings it in again.
THEOREM CompleteButForHidden ==
    Spec => [][InstalledComplete => InstalledComplete' \/ HiddenContent]_vars
<1>1. ASSUME BInv, InstalledComplete, [Next]_vars
      PROVE  InstalledComplete' \/ HiddenContent
    <2>1. CASE UNCHANGED core
        BY <1>1, <2>1 DEF core, disk, InstalledComplete, Installed
    <2>2. QED
        BY <1>1, <2>1, InstalledCompleteStep, NextCases DEF ActBy
<1>2. BInv /\ [Next]_vars => [InstalledComplete => InstalledComplete' \/ HiddenContent]_vars
    BY <1>1
<1>3. QED
    BY <1>2, BookkeepingKept, PTL DEF Spec

-----------------------------------------------------------------------------
(* Leases *)

\* A tree goes only when nobody has leased its artifact.
LEMMA TreesGo ==
    ASSUME NEW p \in Procs, ActBy(p), NEW d \in materialized \ materialized'
    PROVE  Unleased(d)
<1>1. CASE GCRecords(p)
    <2>1. UNCHANGED disk => UNCHANGED materialized
        BY DEF disk
    <2>2. ASSUME NEW e, CandidateStep(p, e) PROVE Unleased(d)
        BY <2>2 DEF CandidateStep
    <2>3. QED
        BY <1>1, <2>1, <2>2, GCRecordsCases
<1>2. CASE GCOpen(p) \/ GCPreflight(p) \/ GCContent(p) \/ TakeLock(p) \/ Recover(p)
    BY <1>2 DEF GCOpen, GCPreflight, GCContent, TakeLock, Recover, disk
<1>3. CASE \/ UndoReference(p) \/ UndoCommit(p) \/ UndoRecord(p) \/ UndoAliases(p) \/ UndoAck(p)
    BY <1>3 DEF UndoReference, UndoCommit, UndoRecord, UndoAliases, UndoAck
<1>4. CASE \/ PutContent(p) \/ SaveImportJournal(p) \/ WriteRecord(p) \/ WriteCommit(p)
           \/ CompareRef(p) \/ WriteReference(p) \/ RebuildAliases(p) \/ Acknowledge(p)
    BY <1>4 DEF PutContent, SaveImportJournal, WriteRecord, WriteCommit, CompareRef,
           WriteReference, RebuildAliases, Acknowledge
<1>5. CASE Call(p) \/ Kill(p) \/ WriteError(p)
    <2>1. \A j : Enter(p, j) => UNCHANGED materialized
        BY DEF Enter, disk
    <2>2. QED
        BY <1>5, <2>1 DEF Call, StartImport, StartEquivalent, StartRefChange, StartGC,
                          StartLease, Launch, Kill, WriteError, disk
<1>6. CASE LeaseTree(p) \/ LeasePayload(p)
    BY <1>6 DEF LeaseTree, LeasePayload, disk
<1>7. QED
    BY <1>1, <1>2, <1>3, <1>4, <1>5, <1>6 DEF ActBy, Step

\* So does an installed artifact.
LEMMA InstalledGoes ==
    ASSUME BInv, NEW p \in Procs, ActBy(p), NEW d \in Installed \ Installed'
    PROVE  Unleased(d)
<1>1. CASE Acknowledge(p)
    <2>1. job[p].kind \in {"import", "ref"}
        BY <1>1 DEF BInv, IInv, JournalDiscipline, Grounded, JobFits, Acknowledge
    <2>2. QED
        BY <1>1, <2>1, AcknowledgeImport, AcknowledgeRef
<1>2. QED
    BY <1>1, StoreEffect DEF Unseen, Takes

\* Only an import hides an artifact, and not one whose digest lock is held.
LEMMA HiddenLate ==
    ASSUME BInv, NEW p \in Procs, ActBy(p), NEW d, ~Pending(d), Pending(d)'
    PROVE  DigestFree(d)
<1>0. IInv
    BY DEF BInv
<1>1. CASE SaveImportJournal(p)
    <2>1. imports' # imports
        BY DEF Pending
    <2>2. DigestFree(job[p].digest)
        BY <1>1, <2>1 DEF SaveImportJournal
    <2>3. \E j : imports' = {j} /\ j.digest = job[p].digest
        BY <1>0, <1>1, <2>1, SavedImport
    <2>4. QED
        BY <2>2, <2>3 DEF Pending
<1>2. CASE imports' \subseteq imports
    BY <1>2 DEF Pending
<1>3. CASE Bare(p)
    BY <1>2, <1>3, BareStep
<1>4. CASE GCRecords(p)
    BY <1>2, <1>4, GCRecordsCases
<1>5. CASE UndoAck(p) \/ Acknowledge(p)
    BY <1>2, <1>5 DEF UndoAck, Acknowledge
<1>6. QED
    BY <1>1, <1>2, <1>3, <1>4, <1>5
       DEF ActBy, Step, Bare, UndoReference, UndoCommit, UndoRecord, UndoAliases,
           PutContent, WriteRecord, WriteCommit, CompareRef, WriteReference,
           RebuildAliases, GCOpen, GCContent

\* What a payload lease was granted for stays loadable.
LEMMA PayloadStays ==
    ASSUME BInv, NEW p \in Procs, ActBy(p), NEW d \in Installed, Loadable(d), ~DigestFree(d)
    PROVE  d \in Installed' /\ Loadable(d)'
<1>1. d \in Installed'
    BY InstalledGoes DEF Unleased, DigestFree
<1>2. ~Pending(d)'
    BY HiddenLate DEF Loadable, Visible
<1>3. ContentOf(d) \subseteq content'
    <2>1. CASE content \subseteq content'
        BY <2>1 DEF Loadable
    <2>2. CASE pc[p] = "gcContent" /\ \E b : b \notin GCProtected(Journal(p).plan) /\ content' = content \ {b}
        BY <2>2, InstalledProtected DEF Loadable, Visible
    <2>3. QED
        BY <2>1, <2>2, ContentGoes
<1>4. d \in records' /\ d \in commits'
    BY <1>1 DEF Installed
<1>5. QED
    BY <1>1, <1>2, <1>3, <1>4 DEF Loadable, Visible, Committed, Described, Pending, ContentOf

\* What can be loaded is installed.
LEMMA LoadableInstalled ==
    ASSUME NEW d, Loadable(d)
    PROVE  d \in Installed
BY DEF Loadable, Visible, Committed, Described, Pending, Installed

\* LeasesHonoured for every number of processes, artifacts, leases and faults: a
\* collection cannot reach what a review or an upload has leased, since each of
\* its removals waits for the materialization and digest locks, and no import
\* hides it.
THEOREM LeasesAreHonoured == Spec => []LeasesHonoured
<1>1. Init => LeasesHonoured
    BY DEF Init, LeasesHonoured
<1>2. ASSUME BInv, leases \subseteq Lease, LeasesHonoured, [Next]_vars PROVE LeasesHonoured'
    <2>1. ASSUME NEW p \in Procs, ActBy(p), NEW l \in leases
          PROVE  /\ l.kind = "tree" => l.digest \in materialized' \cap Installed'
                 /\ l.kind = "payload" => l.digest \in Installed' /\ Loadable(l.digest)'
        <3>1. ~Unleased(l.digest)
            BY <2>1 DEF Unleased
        <3>2. l.kind = "payload" => ~DigestFree(l.digest)
            BY <2>1 DEF DigestFree
        <3>3. l.kind = "tree" => l.digest \in materialized'
            BY <1>2, <2>1, <3>1, TreesGo DEF LeasesHonoured
        <3>4. l.kind = "tree" => l.digest \in Installed'
            BY <1>2, <2>1, <3>1, InstalledGoes DEF LeasesHonoured
        <3>5. QED
            BY <1>2, <2>1, <3>2, <3>3, <3>4, PayloadStays DEF LeasesHonoured
    <2>2. ASSUME NEW p \in Procs, LeaseTree(p), NEW l \in leases' \ leases
          PROVE  l.kind = "tree" /\ l.digest \in materialized' \cap Installed'
        <3>1. Loadable(job[p].digest) /\ materialized' = materialized \cup {job[p].digest}
            BY <2>2 DEF LeaseTree
        <3>2. l = [holder |-> p, kind |-> "tree", digest |-> job[p].digest]
            BY <2>2, <3>1 DEF LeaseTree, Grant
        <3>3. Installed' = Installed
            BY <2>2 DEF LeaseTree, Installed
        <3>4. QED
            BY <3>1, <3>2, <3>3, LoadableInstalled
    <2>3. ASSUME NEW p \in Procs, LeasePayload(p), NEW l \in leases' \ leases
          PROVE  l.kind = "digest"
        BY <2>3 DEF LeasePayload, Grant
    <2>4. CASE \E p \in Procs : ActBy(p)
        <3>1. PICK p \in Procs : ActBy(p)
            BY <2>4
        <3>2. leases' \subseteq leases \/ LeaseTree(p) \/ LeasePayload(p)
            BY <3>1, LeaseChanges DEF ActBy
        <3>3. ASSUME NEW l \in leases', l \notin leases
              PROVE  /\ l.kind = "tree" => l.digest \in materialized' \cap Installed'
                     /\ l.kind = "payload" => l.digest \in Installed' /\ Loadable(l.digest)'
            BY <2>2, <2>3, <3>2, <3>3
        <3>4. QED
            BY <2>1, <3>1, <3>3 DEF LeasesHonoured
    <2>5. ASSUME UNCHANGED core
          PROVE  /\ UNCHANGED materialized /\ Installed' = Installed
                 /\ \A d : Loadable(d)' = Loadable(d)
        BY <2>5 DEF core, disk, Installed, Loadable, Visible, Committed, Described, Pending
    <2>6. ASSUME NEW p \in Procs, CheckPayload(p) PROVE LeasesHonoured'
        <3>1. PICK l \in leases :
                  leases' = (leases \ {l}) \cup
                            (IF Loadable(l.digest) THEN {[l EXCEPT !.kind = "payload"]} ELSE {})
            BY <2>6 DEF CheckPayload
        <3>2. /\ [l EXCEPT !.kind = "payload"].kind = "payload"
              /\ [l EXCEPT !.kind = "payload"].digest = l.digest
            BY <1>2 DEF Lease
        <3>3. UNCHANGED core
            BY <2>6 DEF CheckPayload
        <3>4. \A k \in leases' : k \in leases \/
                  (Loadable(l.digest) /\ k.kind = "payload" /\ k.digest = l.digest)
            BY <3>1, <3>2
        <3>5. QED
            BY <1>2, <2>5, <3>3, <3>4, LoadableInstalled DEF LeasesHonoured
    <2>7. CASE leases' \subseteq leases /\ UNCHANGED core
        BY <1>2, <2>5, <2>7 DEF LeasesHonoured
    <2>8. (\E p \in Procs : EndLease(p)) \/ UNCHANGED vars => leases' \subseteq leases /\ UNCHANGED core
        BY DEF EndLease, vars
    <2>9. QED
        BY <1>2, <2>4, <2>6, <2>7, <2>8 DEF Next, ActBy
<1>3. TypeOK => leases \subseteq Lease
    BY DEF TypeOK
<1>4. QED
    BY <1>1, <1>2, <1>3, BookkeepingKept, TypeCorrect, PTL DEF Spec

-----------------------------------------------------------------------------
(* Rebuilding the index *)

\* The index rebuild of a rollback finds every reference it reads loadable.
LEMMA RebuildSucceeds ==
    ASSUME BInv, ReferencesInstalled, InstalledComplete, NEW p \in Procs,
           pc[p] \in {"aliases", "undoAliases"}
    PROVE  AliasesRebuildable
<1>0. /\ IInv /\ LayoutTypeOK /\ ProcTypeOK /\ Progress(p) /\ ChangesOwned /\ Grounded(p)
      /\ refs \in [Refs -> DigestOrNone]
    BY DEF BInv, IInv, CoreTypeOK, LayoutTypeOK, Bookkeeping, JournalDiscipline
<1>1. ASSUME NEW r \in Refs, refs[r] # None, refs[r] \in Installed PROVE Committed(refs[r])
    BY <1>1 DEF InstalledComplete, Installed, Committed, Described, ContentOf
<1>2. \A r \in Refs : Tags[r] # None => Tags[r] \in Installed
    BY DEF ReferencesInstalled
<1>3. CASE pc[p] = "aliases" /\ job[p].kind = "import"
    <2>0. pc[p] \in WriteLabels
        BY <1>3 DEF WriteLabels
    <2>1. PICK j \in ImportJournal : imports = {j} /\ j.digest = job[p].digest /\ j.ref = job[p].ref
        BY <1>0, <1>3, <2>0, UnderWay
    <2>2. mutations = {}
        BY <1>0, <1>3, <2>0, UnderWay
    <2>3. /\ ContentOf(job[p].digest) \subseteq content
          /\ job[p].digest \in records \cap commits
          /\ job[p].ref # None => refs[job[p].ref] = job[p].digest
        BY <1>0, <1>3, <2>0 DEF Progress, ImportDone
    <2>4. Committed(job[p].digest)
        BY <2>3 DEF Committed, Described, ContentOf
    <2>5. Tags = IF j.reference THEN [refs EXCEPT ![j.ref] = None] ELSE refs
        BY <1>0, <2>1, <2>2, Views, TagsImport
    <2>6. ASSUME NEW r \in Refs, refs[r] # None PROVE Committed(refs[r])
        <3>1. CASE j.reference /\ r = j.ref
            BY <1>0, <2>1, <2>3, <2>4, <2>6, <3>1 DEF ChangesOwned
        <3>2. CASE ~(j.reference /\ r = j.ref)
            <4>1. Tags[r] = refs[r]
                BY <1>0, <2>5, <3>2
            <4>2. QED
                BY <1>1, <1>2, <2>6, <4>1
        <3>3. QED
            BY <3>1, <3>2
    <2>7. QED
        BY <2>6 DEF AliasesRebuildable
<1>4. CASE pc[p] = "aliases" /\ job[p].kind = "ref"
    <2>0. pc[p] \in WriteLabels /\ job[p] \in RefJob
        BY <1>0, <1>4, JobTypes DEF WriteLabels
    <2>1. /\ imports = {}
          /\ mutations = {} \/ \E m : mutations = {m} /\ m.ref = job[p].ref
        BY <1>0, <1>4, <2>0 DEF Grounded, RefChangeCovered
    <2>2. /\ refs[job[p].ref] = job[p].new
          /\ job[p].new # None => job[p].new \in records \cap commits
        BY <1>0, <1>4 DEF Progress, RefChangeDone
    <2>3. Installed = records \cap commits
        BY <2>1, Views, InstalledNone
    <2>4. \A r \in Refs \ {job[p].ref} : Tags[r] = refs[r]
        <3>1. Tags = TagsOf({}, mutations, refs)
            BY <2>1, Views
        <3>2. CASE mutations = {}
            BY <1>0, <3>1, <3>2, TagsNone
        <3>3. ASSUME NEW m, mutations = {m}, m.ref = job[p].ref
              PROVE  \A r \in Refs \ {job[p].ref} : Tags[r] = refs[r]
            <4>1. Tags = [refs EXCEPT ![m.ref] = m.previous]
                BY <1>0, <3>1, <3>3, TagsMutation
            <4>2. QED
                BY <1>0, <3>3, <4>1
        <3>4. QED
            BY <2>1, <3>2, <3>3
    <2>5. ASSUME NEW r \in Refs, refs[r] # None PROVE refs[r] \in Installed
        BY <1>2, <2>2, <2>3, <2>4, <2>5
    <2>6. QED
        BY <1>1, <2>5 DEF AliasesRebuildable
<1>5. CASE pc[p] = "undoAliases"
    <2>0. pc[p] \in UndoLabels /\ pc[p] \in UndoLabels \ {"undoReference"} /\ outcome[p] # "dirty"
        BY <1>0, <1>5 DEF UndoLabels, Progress, UndoDone
    <2>1. CASE undo[p].kind = "import"
        <3>1. imports = {undo[p]} /\ mutations = {}
            BY <1>0, <2>0, <2>1, RolledBack
        <3>2. undo[p].reference => undo[p].ref \in Refs /\ refs[undo[p].ref] = None
            BY <1>0, <2>0, <2>1, RolledBack DEF Progress, UndoDone, ChangesOwned, ImportJournal
        <3>3. Tags = IF undo[p].reference THEN [refs EXCEPT ![undo[p].ref] = None] ELSE refs
            BY <1>0, <3>1, Views, TagsImport
        <3>4. Tags = refs
            BY <1>0, <3>2, <3>3
        <3>5. QED
            BY <1>1, <1>2, <3>4 DEF AliasesRebuildable
    <2>2. CASE undo[p].kind = "ref"
        <3>1. imports = {} /\ mutations = {undo[p]}
            BY <1>0, <2>0, <2>2, RolledBack
        <3>2. undo[p].ref \in Refs /\ refs[undo[p].ref] = undo[p].previous
            BY <1>0, <2>0, <2>2, RolledBack DEF Progress, UndoDone, RefMutation
        <3>3. Tags = [refs EXCEPT ![undo[p].ref] = undo[p].previous]
            BY <1>0, <3>1, Views, TagsMutation
        <3>4. Tags = refs
            BY <1>0, <3>2, <3>3
        <3>5. QED
            BY <1>1, <1>2, <3>4 DEF AliasesRebuildable
    <2>3. QED
        BY <1>0, <2>0, <2>1, <2>2, RolledBack
<1>6. QED
    BY <1>0, <1>3, <1>4, <1>5 DEF Grounded, JobFits

-----------------------------------------------------------------------------
(* Imports and reference changes that nothing interrupts: whose the journals are *)

\* The labels of the three kinds of operation are apart.
LEMMA LabelsApart ==
    /\ WriteLabels \cap CollectLabels = {} /\ UndoLabels \cap CollectLabels = {}
    /\ WriteLabels \cap UndoLabels = {}
    /\ {"put", "cas", "recover", "gcOpen", "lease"} \cap (WriteLabels \cup UndoLabels \cup CollectLabels) = {}
BY DEF WriteLabels, UndoLabels, CollectLabels

\* The journals of imports and reference changes are those of the operation
\* under way.
LEMMA HoldersJournals ==
    ASSUME IInv, Unbroken, NEW p \in Procs, pc[p] \in Active,
           pc[p] \notin WriteLabels \cup UndoLabels
    PROVE  imports = {} /\ mutations = {}
<1>1. \A q \in Procs : pc[q] \in Active => q = p
    BY DEF IInv, JournalDiscipline, LockDiscipline
<1>2. \A q \in Procs : pc[q] \notin WriteLabels \cup UndoLabels
    BY <1>1, ActiveLabels
<1>3. QED
    BY <1>2 DEF Unbroken

\* Between operations there is none.
LEMMA NobodysJournals ==
    ASSUME Unbroken, \A q \in Procs : pc[q] \notin Active
    PROVE  imports = {} /\ mutations = {}
BY ActiveLabels DEF Unbroken

\* No collection runs while an import is unacknowledged.
LEMMA UnbrokenSettled ==
    ASSUME IInv, Unbroken
    PROVE  ~HiddenCollected /\ ~HiddenContent
<1>1. ASSUME NEW p \in Procs, pc[p] \in CollectLabels PROVE imports = {}
    BY <1>1, HoldersJournals, ActiveLabels, LabelsApart
<1>2. \A p \in Procs : GCRecords(p) \/ GCContent(p) => pc[p] \in CollectLabels
    BY GCRecordsCases DEF GCContent, CollectLabels
<1>3. QED
    BY <1>1, <1>2 DEF HiddenCollected, HiddenContent, Pending

\* Readers see exactly the references, each with its artifact.
LEMMA WholeSnapshot ==
    ASSUME BInv, ReferencesInstalled, InstalledComplete, imports = {}, mutations = {}
    PROVE  /\ SnapshotReadable /\ Snapshot = refs
           /\ \A r \in Refs : refs[r] # None => Visible(refs[r])
<1>0. LayoutTypeOK /\ refs \in [Refs -> DigestOrNone]
    BY DEF BInv, IInv, CoreTypeOK, LayoutTypeOK
<1>1. \A r : Target(r) = refs[r]
    BY DEF Target
<1>2. Tags = refs
    BY <1>0, Views, TagsNone
<1>3. \A r \in Refs : refs[r] # None => Visible(refs[r])
    BY <1>2 DEF ReferencesInstalled, InstalledComplete, Installed, Visible, Committed, Described,
                ContentOf, Pending
<1>4. Snapshot = refs
    BY <1>0, <1>1, <1>3 DEF Snapshot
<1>5. SnapshotReadable
    BY <1>1, <1>3 DEF SnapshotReadable, MutationsReadable
<1>6. QED
    BY <1>3, <1>4, <1>5

-----------------------------------------------------------------------------
(* Imports, reference changes, rollbacks and recovery leave no journal behind. *)

\* What such a step leaves: its own journal, or none.
LeavesNone(p) ==
    /\ outcome'[p] # "dirty"
    /\ (imports' = {} /\ mutations' = {}) \/ pc'[p] \in WriteLabels \cup UndoLabels

\* An operation that goes on still owns its journal.
LEMMA GoToLeaves ==
    ASSUME ProcTypeOK, NEW p \in Procs, outcome[p] # "dirty", NEW label, GoTo(p, label),
           label \in WriteLabels \cup UndoLabels
    PROVE  LeavesNone(p)
<1>1. pc'[p] = label /\ outcome'[p] = outcome[p]
    BY DEF GoTo, ProcTypeOK
<1>2. QED
    BY <1>1 DEF LeavesNone

\* An operation that ends with no journal on disk leaves none.
LEMMA FinishLeaves ==
    ASSUME ProcTypeOK, NEW p \in Procs, Finish(p), imports' = {}, mutations' = {}
    PROVE  LeavesNone(p)
<1>1. pc'[p] = "idle" /\ outcome'[p] = "ok"
    BY DEF Finish, Return, ProcTypeOK
<1>2. QED
    BY <1>1 DEF LeavesNone

\* A failing operation has a journal to roll back, if there is one.
LEMMA FailLeaves ==
    ASSUME BInv, NEW p \in Procs, pc[p] \in WriteLabels, Fail(p), UNCHANGED <<imports, mutations>>
    PROVE  LeavesNone(p)
<1>0. ProcTypeOK /\ IInv /\ Grounded(p)
    BY DEF BInv, IInv, CoreTypeOK, JournalDiscipline
<1>1. CASE OwnJournals(p) = {} /\ Finish(p)
    <2>1. job[p].kind \in {"import", "ref"}
        BY <1>0 DEF Grounded, JobFits, WriteLabels
    <2>2. CASE job[p].kind = "import"
        <3>1. \E j \in imports : j.digest = job[p].digest /\ j.ref = job[p].ref
            BY <1>0, <2>2, UnderWay
        <3>2. QED
            BY <1>1, <2>2, <3>1 DEF OwnJournals
    <2>3. CASE job[p].kind = "ref"
        <3>1. imports = {} /\ (mutations = {} \/ \E m \in mutations : m.ref = job[p].ref)
            BY <1>0, <2>3 DEF Grounded, RefChangeCovered
        <3>2. mutations = {}
            BY <1>1, <2>3, <3>1 DEF OwnJournals
        <3>3. QED
            BY <1>0, <1>1, <3>1, <3>2, FinishLeaves
    <2>4. QED
        BY <2>1, <2>2, <2>3
<1>2. CASE /\ outcome' = [outcome EXCEPT ![p] = "failed"]
           /\ pc' = [pc EXCEPT ![p] = "undoReference"]
    <2>1. pc'[p] = "undoReference" /\ outcome'[p] = "failed"
        BY <1>0, <1>2 DEF ProcTypeOK
    <2>2. QED
        BY <2>1 DEF LeavesNone, UndoLabels
<1>3. QED
    BY <1>1, <1>2 DEF Fail

\* A rollback ends by removing its journal, and misses nothing.
LEMMA UndoLeaves ==
    ASSUME BInv, Unbroken, NEW p \in Procs,
           \/ UndoReference(p) \/ UndoCommit(p) \/ UndoRecord(p) \/ UndoAliases(p) \/ UndoAck(p)
    PROVE  LeavesNone(p)
<1>0. /\ IInv /\ ProcTypeOK /\ LayoutTypeOK /\ ChangesOwned /\ outcome[p] # "dirty"
      /\ ReferencesInstalled /\ InstalledComplete
      /\ pc[p] \in UndoLabels
    BY DEF BInv, IInv, CoreTypeOK, Bookkeeping, Unbroken, UndoLabels, UndoReference, UndoCommit,
           UndoRecord, UndoAliases, UndoAck
<1>1. UNCHANGED collections
    BY DEF UndoReference, UndoCommit, UndoRecord, UndoAliases, UndoAck
<1>a. {"undoCommit", "undoRecord", "undoAliases", "undoAck"} \subseteq UndoLabels
    BY DEF UndoLabels
<1>2. CASE UndoReference(p)
    <2>1. undo[p].kind = "import" /\ undo[p].reference => refs[undo[p].ref] \in {None, undo[p].digest}
        BY <1>0, RolledBack DEF ChangesOwned
    <2>2. GoTo(p, "undoCommit") \/ GoTo(p, "undoAliases")
        BY <1>2, <2>1 DEF UndoReference
    <2>3. QED
        BY <1>0, <1>1, <1>a, <2>2, GoToLeaves
<1>3. CASE UndoCommit(p) \/ UndoRecord(p)
    <2>1. GoTo(p, "undoRecord") \/ GoTo(p, "undoAliases")
        BY <1>0, <1>3 DEF UndoCommit, UndoRecord
    <2>2. QED
        BY <1>0, <1>1, <1>a, <2>1, GoToLeaves
<1>4. CASE UndoAliases(p)
    <2>1. AliasesRebuildable
        BY <1>0, <1>4, RebuildSucceeds DEF UndoAliases
    <2>2. UNCHANGED procState \/ GoTo(p, "undoAck")
        BY <1>4, <2>1 DEF UndoAliases
    <2>3. UNCHANGED procState => LeavesNone(p)
        BY <1>0, LabelsApart DEF LeavesNone, procState
    <2>4. QED
        BY <1>0, <1>1, <1>a, <2>2, <2>3, GoToLeaves
<1>5. CASE UndoAck(p)
    <2>1. imports' = {} /\ mutations' = {}
        BY <1>0, <1>5, RolledBack DEF UndoAck
    <2>2. ASSUME pc' = [pc EXCEPT ![p] = "recover"], UNCHANGED outcome
          PROVE  LeavesNone(p)
        <3>1. pc'[p] = "recover" /\ outcome'[p] # "dirty"
            BY <1>0, <2>2 DEF ProcTypeOK
        <3>2. QED
            BY <2>1, <3>1 DEF LeavesNone
    <2>3. QED
        BY <1>0, <1>1, <1>5, <2>1, <2>2, FinishLeaves DEF UndoAck
<1>6. QED
    BY <1>2, <1>3, <1>4, <1>5

\* An acknowledgement removes the only journal.
LEMMA AcknowledgeLast ==
    ASSUME IInv, NEW p \in Procs, Acknowledge(p)
    PROVE  imports' = {} /\ mutations' = {} /\ Finish(p) /\ UNCHANGED collections
<1>0. /\ Grounded(p) /\ pc[p] \in WriteLabels /\ pc[p] = "ack" /\ Finish(p) /\ UNCHANGED collections
      /\ imports' = imports \ OwnJournals(p) /\ mutations' = mutations \ OwnJournals(p)
    BY DEF IInv, JournalDiscipline, WriteLabels, Acknowledge
<1>1. CASE job[p].kind = "import"
    BY <1>0, <1>1, UnderWay DEF OwnJournals
<1>2. CASE job[p].kind = "ref"
    <2>1. imports = {} /\ (mutations = {} \/ \E m : mutations = {m} /\ m.ref = job[p].ref)
        BY <1>0, <1>2 DEF Grounded, RefChangeCovered
    <2>2. QED
        BY <1>0, <1>2, <2>1 DEF OwnJournals
<1>3. QED
    BY <1>0, <1>1, <1>2 DEF Grounded, JobFits

\* An import or a reference change goes on, turns to its rollback, or ends with
\* its acknowledgement.
LEMMA WriteLeaves ==
    ASSUME BInv, Unbroken, NEW p \in Procs,
           \/ PutContent(p) \/ SaveImportJournal(p) \/ WriteRecord(p) \/ WriteCommit(p)
           \/ CompareRef(p) \/ WriteReference(p) \/ RebuildAliases(p) \/ Acknowledge(p)
    PROVE  LeavesNone(p)
<1>0. /\ IInv /\ ProcTypeOK /\ LayoutTypeOK /\ outcome[p] # "dirty" /\ Grounded(p)
      /\ ReferencesInstalled /\ InstalledComplete
    BY DEF BInv, IInv, CoreTypeOK, Unbroken, JournalDiscipline
<1>1. UNCHANGED collections
    BY DEF PutContent, SaveImportJournal, WriteRecord, WriteCommit, CompareRef, WriteReference,
           RebuildAliases, Acknowledge
<1>a. {"record", "commit", "reference", "aliases", "ack"} \subseteq WriteLabels
    BY DEF WriteLabels
<1>2. CASE PutContent(p)
    <2>1. pc[p] = "put" /\ imports' = {} /\ mutations' = {}
        BY <1>0, <1>2 DEF PutContent, Grounded, CleanStart
    <2>2. UNCHANGED procState => LeavesNone(p)
        BY <1>0, <2>1 DEF LeavesNone, procState
    <2>3. QED
        BY <1>0, <1>1, <1>2, <2>1, <2>2, FinishLeaves DEF PutContent
<1>3. CASE SaveImportJournal(p)
    <2>1. /\ imports = {} /\ mutations' = {}
          /\ (Finish(p) /\ UNCHANGED imports) \/ GoTo(p, "record")
        BY <1>0, <1>3, SavedImport
    <2>2. QED
        BY <1>0, <1>1, <1>a, <2>1, FinishLeaves, GoToLeaves
<1>4. CASE WriteRecord(p) \/ WriteCommit(p) \/ WriteReference(p)
    <2>1. pc[p] \in WriteLabels /\ UNCHANGED <<imports, mutations>>
        BY <1>4, <1>a DEF WriteRecord, WriteCommit, WriteReference
    <2>2. Fail(p) \/ \E label \in WriteLabels : GoTo(p, label)
        BY <1>4, <1>a DEF WriteRecord, WriteCommit, WriteReference
    <2>3. QED
        BY <1>0, <1>1, <2>1, <2>2, FailLeaves, GoToLeaves
<1>5. CASE CompareRef(p)
    <2>1. /\ imports' = {} /\ mutations = {}
          /\ (Finish(p) /\ UNCHANGED mutations) \/ GoTo(p, "reference")
        BY <1>0, <1>5 DEF CompareRef, Grounded, CleanStart
    <2>2. QED
        BY <1>0, <1>1, <1>a, <2>1, FinishLeaves, GoToLeaves
<1>6. CASE RebuildAliases(p)
    <2>1. AliasesRebuildable /\ pc[p] \in WriteLabels
        BY <1>0, <1>6, <1>a, RebuildSucceeds DEF RebuildAliases
    <2>2. UNCHANGED procState \/ GoTo(p, "ack")
        BY <1>6, <2>1 DEF RebuildAliases
    <2>3. UNCHANGED procState => LeavesNone(p)
        BY <1>0, <2>1, LabelsApart DEF LeavesNone, procState
    <2>4. QED
        BY <1>0, <1>1, <1>a, <2>2, <2>3, GoToLeaves
<1>7. CASE Acknowledge(p)
    BY <1>0, <1>7, AcknowledgeLast, FinishLeaves
<1>8. QED
    BY <1>2, <1>3, <1>4, <1>5, <1>6, <1>7

\* Recovery finds nothing to roll back.
LEMMA RecoverLeaves ==
    ASSUME BInv, Unbroken, NEW p \in Procs, Recover(p)
    PROVE  LeavesNone(p)
<1>0. /\ IInv /\ ProcTypeOK /\ outcome[p] # "dirty" /\ Unbroken
      /\ pc[p] = "recover" /\ pc[p] \in Active
      /\ UNCHANGED disk
    BY ActiveLabels DEF BInv, IInv, CoreTypeOK, Unbroken, Recover
<1>1. imports = {} /\ mutations = {}
    BY <1>0, HoldersJournals, LabelsApart
<1>2. UNCHANGED <<imports, mutations, collections>>
    BY <1>0 DEF disk
<1>3. GoTo(p, "put") \/ GoTo(p, "cas") \/ Finish(p)
    BY <1>1 DEF Recover
<1>4. ASSUME NEW label \in {"put", "cas"}, GoTo(p, label) PROVE LeavesNone(p)
    <2>1. pc'[p] = label /\ outcome'[p] = outcome[p]
        BY <1>0, <1>4 DEF GoTo, ProcTypeOK
    <2>2. QED
        BY <1>0, <1>1, <1>2, <2>1, LabelsApart DEF LeavesNone
<1>5. QED
    BY <1>0, <1>1, <1>2, <1>3, <1>4, FinishLeaves

\* A collection finds no other journal and writes none.
LEMMA CollectionLeaves ==
    ASSUME BInv, Unbroken, NEW p \in Procs,
           GCOpen(p) \/ GCPreflight(p) \/ GCRecords(p) \/ GCContent(p)
    PROVE  LeavesNone(p)
<1>0. ProcTypeOK /\ IInv /\ outcome[p] # "dirty"
    BY DEF BInv, IInv, CoreTypeOK, Unbroken
<1>1. pc[p] \in {"gcOpen", "gcPreflight", "gcRecords", "gcContent"} /\ UNCHANGED <<imports, mutations>>
    BY GCRecordsCases DEF GCOpen, GCPreflight, GCContent, disk
<1>2. imports' = {} /\ mutations' = {}
    BY <1>0, <1>1, ActiveLabels, LabelsApart, HoldersJournals DEF CollectLabels, Active, Labels
<1>3. Finish(p) => LeavesNone(p)
    BY <1>0, <1>2, FinishLeaves
<1>4. ASSUME UNCHANGED procState \/ \E label : GoTo(p, label) PROVE LeavesNone(p)
    BY <1>0, <1>2, <1>4 DEF LeavesNone, GoTo, procState
<1>5. GCRecords(p) => LeavesNone(p)
    BY <1>3, <1>4, GCRecordsCases DEF CandidateStep
<1>6. GCOpen(p) \/ GCPreflight(p) \/ GCContent(p) => LeavesNone(p)
    BY <1>3, <1>4 DEF GCOpen, GCPreflight, GCContent
<1>7. QED
    BY <1>5, <1>6

\* A lease finds no journal and writes none.
LEMMA LeaseLeaves ==
    ASSUME BInv, Unbroken, NEW p \in Procs, LeaseTree(p) \/ LeasePayload(p)
    PROVE  LeavesNone(p)
<1>0. ProcTypeOK /\ IInv
    BY DEF BInv, IInv, CoreTypeOK
<1>1. pc[p] = "lease" /\ Finish(p) /\ UNCHANGED <<imports, mutations>>
    BY DEF LeaseTree, LeasePayload, disk
<1>2. imports' = {} /\ mutations' = {}
    BY <1>0, <1>1, ActiveLabels, LabelsApart, HoldersJournals
<1>3. QED
    BY <1>0, <1>1, <1>2, FinishLeaves

\* A call, and taking the lock, leave the journals to whom they belong.
LEMMA OutsideUnbroken ==
    ASSUME BInv, Unbroken, NEW p \in Procs, Call(p) \/ TakeLock(p)
    PROVE  /\ \A q \in Procs : outcome'[q] # "dirty"
           /\ imports' # {} \/ mutations' # {} =>
                 \E q \in Procs : pc'[q] \in WriteLabels \cup UndoLabels
<1>0. /\ IInv /\ ProcTypeOK /\ ActBy(p)
      /\ \A q \in Procs : outcome[q] # "dirty"
    BY DEF BInv, IInv, CoreTypeOK, Unbroken, ActBy, Step
<1>1. UNCHANGED <<imports, mutations>>
    BY BareStep DEF Bare
<1>2. \A q \in Procs \ {p} : pc'[q] = pc[q] /\ outcome'[q] = outcome[q]
    BY <1>0, OthersStand
<1>3. CASE TakeLock(p)
    <2>0. lifecycle = None /\ outcome'[p] # "dirty"
        BY <1>0, <1>3 DEF TakeLock, ProcTypeOK
    <2>1. \A q \in Procs : pc[q] \notin Active
        BY <1>0, <2>0, RepositoryAssumption
           DEF IInv, JournalDiscipline, LockDiscipline, RepositoryAssumption
    <2>2. QED
        BY <1>0, <1>1, <1>2, <2>0, <2>1, NobodysJournals
<1>4. CASE Call(p)
    <2>1. \A j : Enter(p, j) => pc[p] = "idle" /\ outcome'[p] # "dirty"
        BY <1>0 DEF Enter, ProcTypeOK
    <2>2. Launch(p) => pc[p] = "down" /\ outcome'[p] # "dirty"
        BY <1>0 DEF Launch, GoTo, ProcTypeOK
    <2>4. pc[p] \in {"idle", "down"} /\ outcome'[p] # "dirty"
        BY <1>4, <2>1, <2>2 DEF Call, StartImport, StartEquivalent, StartRefChange, StartGC,
                               StartLease
    <2>5. pc[p] \notin WriteLabels \cup UndoLabels
        BY <2>4 DEF WriteLabels, UndoLabels
    <2>6. QED
        BY <1>0, <1>1, <1>2, <2>4, <2>5 DEF Unbroken
<1>5. QED
    BY <1>3, <1>4

\* Without a further fault no import and no reference change is left behind.
LEMMA UnbrokenStep ==
    ASSUME BInv, Unbroken, NEW p \in Procs, Step(p) \/ Call(p)
    PROVE  Unbroken'
<1>0. /\ IInv /\ ProcTypeOK /\ ReferencesInstalled /\ InstalledComplete /\ ActBy(p)
    BY DEF BInv, IInv, CoreTypeOK, Unbroken, ActBy
<1>1. ~HiddenCollected /\ ~HiddenContent
    BY <1>0, UnbrokenSettled
<1>2. ReferencesInstalled'
    <2>1. [Next]_vars
        BY <1>0 DEF Next, ActBy
    <2>2. QED
        BY <1>0, <1>1, <2>1, ReferencesInstalledStep
<1>3. InstalledComplete'
    BY <1>0, <1>1, InstalledCompleteStep
<1>4. /\ \A q \in Procs : outcome'[q] # "dirty"
      /\ imports' # {} \/ mutations' # {} =>
            \E q \in Procs : pc'[q] \in WriteLabels \cup UndoLabels
    <2>1. CASE Call(p) \/ TakeLock(p)
        BY <2>1, OutsideUnbroken
    <2>2. CASE ~(Call(p) \/ TakeLock(p))
        <3>1. LeavesNone(p)
            BY <2>2, CollectionLeaves, UndoLeaves, WriteLeaves, RecoverLeaves, LeaseLeaves DEF Step
        <3>2. \A q \in Procs \ {p} : outcome'[q] # "dirty"
            BY <1>0, OthersStand DEF Unbroken
        <3>3. QED
            BY <3>1, <3>2 DEF LeavesNone
    <2>3. QED
        BY <2>1, <2>2
<1>5. QED
    BY <1>2, <1>3, <1>4 DEF Unbroken

-----------------------------------------------------------------------------
(* Collections that nothing interrupts *)

\* What a collection step leaves: the journal of a current plan, or none.
LeavesPlan(p) ==
    \/ collections' = {} /\ pc'[p] \notin CollectLabels
    \/ pc'[p] \in CollectLabels /\ collections' = {Journal(p)'} /\ PlanCurrent(p)'

\* A collection that returns with no journal on disk leaves none.
LEMMA FinishPlan ==
    ASSUME ProcTypeOK, NEW p \in Procs, Finish(p), collections' = {}
    PROVE  LeavesPlan(p)
<1>1. pc'[p] = "idle"
    BY DEF Finish, Return, ProcTypeOK
<1>2. QED
    BY <1>1 DEF LeavesPlan, CollectLabels

\* The only journal, once saved, is the one the collection works with.
LEMMA OnlyJournal ==
    ASSUME NEW p \in Procs, NEW k, collections' = {k}, k.plan = job'[p].plan
    PROVE  Journal(p)' = k
BY DEF Journal

\* A fresh plan spares the content of what it keeps.
LEMMA FreshPlanSpares ==
    ASSUME NEW d \in records, ~Pending(d), d \notin FreshPlan.delete
    PROVE  ContentOf(d) \cap FreshPlan.deleteContent = {}
BY DEF FreshPlan

\* A change that readers do not look at.
LEMMA ReadersSame ==
    ASSUME UNCHANGED <<content, records, commits, refs, imports, mutations>>
    PROVE  /\ Snapshot' = Snapshot
           /\ MutationsReadable' = MutationsReadable /\ SnapshotReadable' = SnapshotReadable
           /\ \A d : Pending(d)' = Pending(d) /\ Described(d)' = Described(d)
BY DEF Snapshot, SnapshotReadable, MutationsReadable, WellFormed, Owned, Target, Visible, Committed,
       Described, Pending

\* Removals do not make a reference change readable again.
LEMMA ReadableBefore ==
    ASSUME UNCHANGED <<refs, mutations>>, content' \subseteq content, records' \subseteq records,
           commits' \subseteq commits
    PROVE  MutationsReadable' => MutationsReadable
BY DEF MutationsReadable, WellFormed, Owned, Committed, Described

\* Removing candidates, and content that no other artifact has, leaves readers
\* the references they see.
LEMMA SnapshotStays ==
    ASSUME LayoutTypeOK, NEW D, UNCHANGED <<refs, imports, mutations>>,
           content' \subseteq content, records' \subseteq records, commits' \subseteq commits,
           \A e \in Digests \ D : Visible(e) => Visible(e)',
           \A d \in D : ~Referenced(Snapshot, d),
           MutationsReadable => SnapshotReadable
    PROVE  Snapshot' = Snapshot /\ (MutationsReadable' => SnapshotReadable')
<1>1. \A r \in Refs : Target(r)' = Target(r) /\ Target(r) \in DigestOrNone
    BY TargetType DEF Target
<1>2. ASSUME NEW r \in Refs, Target(r) # None
      PROVE  Visible(Target(r))' = Visible(Target(r))
    <2>1. Visible(Target(r))' => Visible(Target(r))
        BY <1>1 DEF Visible, Committed, Described, Pending
    <2>2. ASSUME Visible(Target(r)) PROVE Visible(Target(r))'
        <3>1. Snapshot[r] = Target(r)
            BY <1>2, <2>2 DEF Snapshot
        <3>2. Target(r) \in Digests \ D
            BY <1>1, <1>2, <3>1 DEF Referenced, DigestOrNone
        <3>3. PICK e \in Digests \ D : e = Target(r)
            BY <3>2
        <3>4. Visible(e)'
            BY <2>2, <3>3
        <3>5. QED
            BY <1>1, <3>3, <3>4 DEF Visible, Committed, Described, Pending
    <2>3. QED
        BY <2>1, <2>2 DEF Visible, Committed, Described, Pending
<1>3. Snapshot' = Snapshot
    BY <1>1, <1>2 DEF Snapshot
<1>4. ASSUME MutationsReadable' PROVE SnapshotReadable'
    <2>1. SnapshotReadable
        BY <1>4, ReadableBefore
    <2>2. QED
        BY <1>1, <1>2, <1>4, <2>1 DEF SnapshotReadable, Pending
<1>5. QED
    BY <1>3, <1>4

\* What the holder knows when a collection is under way.
LEMMA WhatCollects ==
    ASSUME BInv, Undisturbed, ~Wedged, NEW p \in Procs, pc[p] \in CollectLabels
    PROVE  /\ collections = {Journal(p)}
           /\ Journal(p) \in GCJournal /\ Journal(p).plan = job[p].plan
           /\ MutationsReadable /\ SnapshotReadable
           /\ PlanCurrent(p)
<1>0. IInv /\ pc[p] \in Active /\ LockDiscipline
    BY ActiveLabels DEF BInv, IInv, JournalDiscipline
<1>1. \A q \in Procs : pc[q] \in Active => q = p
    BY <1>0 DEF LockDiscipline
<1>2. /\ Journal(p) \in collections /\ Journal(p).plan = job[p].plan
      /\ Journal(p) \in GCJournal
    BY <1>0, Collecting
<1>3. collections = {Journal(p)}
    BY <1>1, <1>2, ActiveLabels DEF Undisturbed
<1>4. MutationsReadable
    BY <1>1, ActiveLabels, LabelsApart DEF Wedged
<1>5. QED
    BY <1>0, <1>2, <1>3, <1>4 DEF Undisturbed, PlanCurrent

\* A collection starts over a plan that is current.
LEMMA OpenLeaves ==
    ASSUME BInv, Undisturbed, NEW p \in Procs, GCOpen(p)
    PROVE  LeavesPlan(p)
<1>0. /\ IInv /\ ProcTypeOK /\ LayoutTypeOK /\ LockDiscipline
      /\ pc[p] = "gcOpen" /\ pc[p] \in Active /\ pc[p] \notin CollectLabels
      /\ UNCHANGED <<records, commits, refs, imports, mutations, content>>
    BY ActiveLabels, LabelsApart DEF BInv, IInv, CoreTypeOK, JournalDiscipline, GCOpen
<1>1. collections = {}
    <2>1. \A q \in Procs : pc[q] \in CollectLabels => q = p
        BY <1>0, ActiveLabels DEF LockDiscipline
    <2>2. QED
        BY <1>0, <2>1 DEF Undisturbed
<1>2. CASE Finish(p) /\ UNCHANGED collections
    BY <1>0, <1>1, <1>2, FinishPlan
<1>3. CASE /\ PlanReadable /\ FreshPlan = job[p].plan
           /\ collections' = collections \cup {FreshGCJournal(job[p].plan)}
           /\ GoTo(p, "gcPreflight")
    <2> DEFINE plan == job[p].plan
               k == FreshGCJournal(plan)
    <2>1. pc'[p] = "gcPreflight" /\ job'[p] = job[p]
        BY <1>0, <1>3 DEF GoTo, ProcTypeOK
    <2>2. k.plan = plan /\ collections' = {k}
        BY <1>1, <1>3 DEF FreshGCJournal
    <2>3. Journal(p)' = k
        BY <2>1, <2>2, OnlyJournal
    <2>4. /\ plan.refs = Snapshot
          /\ plan.delete = {d \in records : ~Pending(d) /\ ~Referenced(Snapshot, d)}
        BY <1>3 DEF FreshPlan
    <2>5. SnapshotReadable /\ \A d \in plan.delete : Described(d)
        BY <1>3, <2>4 DEF PlanReadable
    <2>6. \A d \in records \ plan.delete :
              ~Pending(d) => ContentOf(d) \cap plan.deleteContent = {}
        BY <1>3, FreshPlanSpares
    <2>7. /\ k.plan.refs = Snapshot'
          /\ MutationsReadable' => SnapshotReadable'
        BY <1>0, <2>2, <2>4, <2>5, ReadersSame
    <2>8. \A d \in k.plan.delete : ~Referenced(Snapshot', d) /\ ~Pending(d)' /\ Described(d)'
        BY <1>0, <2>2, <2>4, <2>5, ReadersSame
    <2>9. \A d \in records' \ k.plan.delete :
              ~Pending(d)' => ContentOf(d) \cap k.plan.deleteContent = {}
        BY <1>0, <2>2, <2>6, ReadersSame
    <2> HIDE DEF k
    <2>10. PlanCurrent(p)'
        BY <2>3, <2>7, <2>8, <2>9 DEF PlanCurrent
    <2>11. QED
        BY <2>1, <2>2, <2>3, <2>10 DEF LeavesPlan, CollectLabels
<1>4. QED
    BY <1>1, <1>2, <1>3 DEF GCOpen

\* The candidates of a current plan pass the preflight.
LEMMA PreflightLeaves ==
    ASSUME BInv, Undisturbed, ~Wedged, NEW p \in Procs, GCPreflight(p)
    PROVE  LeavesPlan(p)
<1>0. ProcTypeOK /\ pc[p] = "gcPreflight" /\ pc[p] \in CollectLabels /\ UNCHANGED disk
    BY DEF BInv, IInv, CoreTypeOK, GCPreflight, CollectLabels
<1>1. collections = {Journal(p)} /\ SnapshotReadable /\ PlanCurrent(p)
    BY <1>0, WhatCollects
<1>2. /\ Snapshot = Journal(p).plan.refs
      /\ \A d \in Journal(p).plan.delete : ~Referenced(Snapshot, d) /\ Described(d) /\ ~Pending(d)
    BY <1>0, <1>1 DEF PlanCurrent
<1>3. GoTo(p, "gcRecords")
    BY <1>1, <1>2 DEF GCPreflight
<1>4. pc'[p] = "gcRecords" /\ job'[p] = job[p]
    BY <1>0, <1>3 DEF GoTo, ProcTypeOK
<1>5. UNCHANGED <<content, records, commits, refs, imports, mutations, collections>>
    BY <1>0 DEF disk
<1>6. Journal(p)' = Journal(p)
    BY <1>4, <1>5 DEF Journal
<1>7. PlanCurrent(p)'
    BY <1>0, <1>1, <1>4, <1>5, <1>6, ReadersSame DEF PlanCurrent
<1>8. QED
    BY <1>1, <1>4, <1>5, <1>6, <1>7 DEF LeavesPlan, CollectLabels

\* A current plan stays current through what its own collection removes.
LEMMA PlanStays ==
    ASSUME BInv, Undisturbed, ~Wedged, NEW p \in Procs, pc[p] \in CollectLabels,
           NEW k, collections' = {k}, k.plan = Journal(p).plan,
           pc'[p] \in {"gcRecords", "gcContent"}, job'[p] = job[p],
           UNCHANGED <<refs, imports, mutations>>,
           content' \subseteq content, records' \subseteq records, commits' \subseteq commits,
           \A e \in Digests \ Journal(p).plan.delete : Visible(e) => Visible(e)'
    PROVE  LeavesPlan(p)
<1>0. LayoutTypeOK
    BY DEF BInv, IInv, CoreTypeOK
<1>1. PlanCurrent(p) /\ Journal(p).plan = job[p].plan
    BY WhatCollects
<1>2. Journal(p)' = k
    BY <1>1, OnlyJournal
<1> DEFINE plan == Journal(p).plan
<1>3. /\ plan.refs = Snapshot
      /\ MutationsReadable => SnapshotReadable
      /\ \A d \in plan.delete : ~Referenced(Snapshot, d) /\ ~Pending(d)
      /\ \A d \in records \ plan.delete : ~Pending(d) => ContentOf(d) \cap plan.deleteContent = {}
    BY <1>1 DEF PlanCurrent
<1> HIDE DEF plan
<1>4. Snapshot' = Snapshot /\ (MutationsReadable' => SnapshotReadable')
    BY <1>0, <1>3, SnapshotStays DEF plan
<1>5. \A d : Pending(d)' = Pending(d)
    BY DEF Pending
<1>6. PlanCurrent(p)'
    BY <1>2, <1>3, <1>4, <1>5 DEF PlanCurrent, plan
<1>7. QED
    BY <1>2, <1>6 DEF LeavesPlan, CollectLabels

\* No candidate of a current plan has come into use: the records go.
LEMMA RecordsLeave ==
    ASSUME BInv, Undisturbed, ~Wedged, NEW p \in Procs, GCRecords(p)
    PROVE  LeavesPlan(p)
<1>0. /\ IInv /\ ProcTypeOK /\ LayoutTypeOK
      /\ pc[p] = "gcRecords" /\ pc[p] \in CollectLabels
      /\ UNCHANGED <<content, refs, imports, mutations>>
    BY GCRecordsCases DEF BInv, IInv, CoreTypeOK, CollectLabels
<1>1. /\ collections = {Journal(p)}
      /\ Journal(p) \in GCJournal /\ Journal(p).plan = job[p].plan
      /\ SnapshotReadable /\ PlanCurrent(p)
    BY <1>0, WhatCollects
<1>2. ~ \E d \in Victims(Journal(p)) : Referenced(Snapshot, d)
    BY <1>0, <1>1 DEF PlanCurrent, Victims
<1>3. CASE UNCHANGED disk /\ GoTo(p, "gcContent")
    <2>1. /\ pc'[p] = "gcContent" /\ job'[p] = job[p]
          /\ UNCHANGED <<records, commits, collections>>
        BY <1>0, <1>3 DEF GoTo, ProcTypeOK, disk
    <2>2. \A e : Visible(e) => Visible(e)'
        BY <1>0, <2>1 DEF Visible, Committed, Described, Pending
    <2>3. QED
        BY <1>0, <1>1, <2>1, <2>2, PlanStays
<1>4. ASSUME NEW d \in Digests, CandidateStep(p, d) PROVE LeavesPlan(p)
    <2>1. pc'[p] = "gcRecords" /\ job'[p] = job[p]
        BY <1>0, <1>4 DEF CandidateStep, procState
    <2>2. d \in Journal(p).plan.delete
        BY <1>4 DEF CandidateStep, Victims
    <2>3. /\ records' \in {records, records \ {d}} /\ commits' \in {commits, commits \ {d}}
        BY <1>4 DEF CandidateStep
    <2>4. \A e \in Digests \ Journal(p).plan.delete : Visible(e) => Visible(e)'
        BY <1>0, <2>2, <2>3 DEF Visible, Committed, Described, Pending
    <2>5. \E k : collections' = {k} /\ k.plan = Journal(p).plan
        <3>1. CASE UNCHANGED collections
            BY <1>1, <3>1
        <3>2. CASE /\ Journal(p).phase[d] \in 0..2
                   /\ SaveGC(p, [Journal(p) EXCEPT !.phase[d] = @ + 1])
            <4> DEFINE k == [Journal(p) EXCEPT !.phase[d] = @ + 1]
            <4>1. k.plan = Journal(p).plan
                BY <1>0, <3>2, CountedPhase
            <4>2. collections' = {k}
                BY <1>1, <3>2 DEF SaveGC
            <4> HIDE DEF k
            <4>3. QED
                BY <4>1, <4>2
        <3>3. QED
            BY <1>4, <3>1, <3>2 DEF CandidateStep
    <2>6. QED
        BY <1>0, <2>1, <2>3, <2>4, <2>5, PlanStays
<1>5. QED
    BY <1>1, <1>2, <1>3, <1>4, GCRecordsCases

\* What a current plan takes is not protected: the content goes.
LEMMA ContentLeaves ==
    ASSUME BInv, Undisturbed, ~Wedged, NEW p \in Procs, GCContent(p)
    PROVE  LeavesPlan(p)
<1>0. /\ IInv /\ ProcTypeOK /\ LayoutTypeOK
      /\ pc[p] = "gcContent" /\ pc[p] \in CollectLabels
      /\ UNCHANGED <<records, commits, refs, imports, mutations>>
    BY DEF BInv, IInv, CoreTypeOK, CollectLabels, GCContent
<1>1. /\ collections = {Journal(p)}
      /\ Journal(p) \in GCJournal /\ Journal(p).plan = job[p].plan
      /\ SnapshotReadable /\ PlanCurrent(p)
    BY <1>0, WhatCollects
<1>2. Journal(p).plan.deleteContent \cap GCProtected(Journal(p).plan) = {}
    BY <1>0, <1>1 DEF PlanCurrent, GCProtected, Visible
<1>3. ASSUME NEW k, UNCHANGED procState, collections' = {k}, k.plan = Journal(p).plan,
             UNCHANGED content
               \/ \E b \in Blobs \cup Journal(p).plan.deleteContent :
                     b \notin GCProtected(Journal(p).plan) /\ content' = content \ {b}
      PROVE  LeavesPlan(p)
    <2>1. pc'[p] = "gcContent" /\ job'[p] = job[p]
        BY <1>0, <1>3 DEF procState
    <2>2. content' \subseteq content
        BY <1>3
    <2>3. ASSUME NEW e \in Digests \ Journal(p).plan.delete, Visible(e) PROVE Visible(e)'
        <3>1. e \in records /\ ContentOf(e) \subseteq GCProtected(Journal(p).plan)
            BY <2>3 DEF GCProtected, Visible, Committed, Described
        <3>2. Metadata[e] \subseteq content'
            BY <1>3, <2>3, <3>1 DEF Visible, Committed, Described, ContentOf
        <3>3. QED
            BY <1>0, <2>3, <3>2 DEF Visible, Committed, Described, Pending
    <2>4. QED
        BY <1>0, <1>3, <2>1, <2>2, <2>3, PlanStays
<1>4. Finish(p) /\ collections' = collections \ {Journal(p)} => LeavesPlan(p)
    BY <1>0, <1>1, FinishPlan
<1>5. ASSUME NEW k \in GCJournal, k.plan = Journal(p).plan, SaveGC(p, k),
             UNCHANGED <<procState, content>>
      PROVE  LeavesPlan(p)
    BY <1>1, <1>3, <1>5 DEF SaveGC
<1>6. ASSUME UNCHANGED <<procState, collections>>,
             \E b \in Journal(p).plan.deleteContent \ GCProtected(Journal(p).plan) :
                content' = content \ {b}
      PROVE  LeavesPlan(p)
    BY <1>1, <1>3, <1>6
<1>7. \E j \in collections : j.plan = job[p].plan
    BY <1>1
<1>8. QED
    BY <1>0, <1>1, <1>2, <1>4, <1>5, <1>6, <1>7, GCContentCases

\* Outside collections, and before they open, there is no collection journal.
LEMMA NothingCollected ==
    ASSUME IInv, Undisturbed, NEW p \in Procs, pc[p] \in Active, pc[p] \notin CollectLabels
    PROVE  collections = {}
<1>1. \A q \in Procs : pc[q] \in CollectLabels => q = p
    BY ActiveLabels DEF IInv, JournalDiscipline, LockDiscipline
<1>2. QED
    BY <1>1 DEF Undisturbed

\* The other operations do not touch collections, and end outside them.
LEMMA OthersCollectNothing ==
    ASSUME ProcTypeOK, NEW p \in Procs, pc[p] \notin CollectLabels,
           \/ Recover(p) \/ UndoReference(p) \/ UndoCommit(p) \/ UndoRecord(p) \/ UndoAliases(p)
           \/ UndoAck(p) \/ PutContent(p) \/ SaveImportJournal(p) \/ WriteRecord(p)
           \/ WriteCommit(p) \/ CompareRef(p) \/ WriteReference(p) \/ RebuildAliases(p)
           \/ Acknowledge(p) \/ LeaseTree(p) \/ LeasePayload(p)
    PROVE  UNCHANGED collections /\ pc'[p] \notin CollectLabels
<1>1. UNCHANGED collections
    BY DEF Recover, UndoReference, UndoCommit, UndoRecord, UndoAliases, UndoAck, PutContent,
           SaveImportJournal, WriteRecord, WriteCommit, CompareRef, WriteReference,
           RebuildAliases, Acknowledge, LeaseTree, LeasePayload, disk
<1> DEFINE Out == pc'[p] \notin CollectLabels
<1>2. \A label \in {"put", "cas", "record", "commit", "reference", "aliases", "ack", "undoCommit",
                    "undoRecord", "undoAliases", "undoAck"} : GoTo(p, label) => Out
    BY DEF GoTo, ProcTypeOK, CollectLabels
<1>3. Finish(p) \/ Abandon(p) => Out
    BY DEF Finish, Abandon, Return, ProcTypeOK, CollectLabels
<1>4. Fail(p) => Out
    BY <1>3 DEF Fail, ProcTypeOK, CollectLabels
<1>5. \A j : BeginUndo(p, j) => Out
    BY DEF BeginUndo, ProcTypeOK, CollectLabels
<1>6. UNCHANGED procState => Out
    BY DEF procState
<1>7. UndoAck(p) => Finish(p) \/ Out
    BY DEF UndoAck, ProcTypeOK, CollectLabels
<1> HIDE DEF Out
<1>8. Recover(p) \/ UndoReference(p) \/ UndoCommit(p) \/ UndoRecord(p) \/ UndoAliases(p) => Out
    BY <1>2, <1>3, <1>5, <1>6 DEF Recover, UndoReference, UndoCommit, UndoRecord, UndoAliases
<1>9. PutContent(p) \/ SaveImportJournal(p) \/ WriteRecord(p) \/ WriteCommit(p) => Out
    BY <1>2, <1>3, <1>4, <1>6 DEF PutContent, SaveImportJournal, WriteRecord, WriteCommit
<1>10. CompareRef(p) \/ WriteReference(p) \/ RebuildAliases(p) \/ Acknowledge(p) => Out
    BY <1>2, <1>3, <1>4, <1>6 DEF CompareRef, WriteReference, RebuildAliases, Acknowledge
<1>11. LeaseTree(p) \/ LeasePayload(p) => Out
    BY <1>3 DEF LeaseTree, LeasePayload
<1>12. QED
    BY <1>1, <1>3, <1>7, <1>8, <1>9, <1>10, <1>11 DEF Out

\* A call, and taking the lock, happen outside collections.
LEMMA OutsideCollections ==
    ASSUME ProcTypeOK, NEW p \in Procs, Call(p) \/ TakeLock(p)
    PROVE  pc[p] \notin CollectLabels /\ pc'[p] \notin CollectLabels
<1>1. TakeLock(p) => pc[p] = "wait" /\ pc'[p] \in {"recover", "gcOpen", "lease"}
    BY DEF TakeLock, ProcTypeOK
<1>2. \A j : Enter(p, j) => pc[p] = "idle" /\ pc'[p] = "wait"
    BY DEF Enter, ProcTypeOK
<1>3. Launch(p) => pc[p] = "down" /\ pc'[p] \in {"idle", "wait"}
    BY DEF Launch, GoTo, ProcTypeOK
<1>4. QED
    BY <1>1, <1>2, <1>3
       DEF Call, StartImport, StartEquivalent, StartRefChange, StartGC, StartLease, CollectLabels

\* Without a further fault a collection runs to its end, unless a reference
\* change is left that nobody can roll back.
LEMMA UndisturbedStep ==
    ASSUME BInv, Undisturbed, ~Wedged, NEW p \in Procs, Step(p) \/ Call(p)
    PROVE  Undisturbed'
<1>0. IInv /\ ProcTypeOK /\ ActBy(p) /\ LockDiscipline
    BY DEF BInv, IInv, CoreTypeOK, JournalDiscipline, ActBy
<1>1. \A q \in Procs \ {p} : pc'[q] = pc[q] /\ job'[q] = job[q]
    BY <1>0, OthersStand
<1>2. CASE Call(p) \/ TakeLock(p)
    <2>1. UNCHANGED <<content, records, commits, refs, imports, mutations, collections>>
        BY <1>2, BareStep DEF Bare
    <2>2. \A q \in Procs : job'[q] = job[q] => Journal(q)' = Journal(q)
        BY <2>1 DEF Journal
    <2>3. ASSUME NEW q \in Procs, pc'[q] = pc[q], job'[q] = job[q] PROVE PlanCurrent(q)'
        <3>1. Journal(q)' = Journal(q) /\ PlanCurrent(q)
            BY <2>2, <2>3 DEF Undisturbed
        <3>2. QED
            BY <2>1, <2>3, <3>1, ReadersSame DEF PlanCurrent
    <2>4. pc[p] \notin CollectLabels /\ pc'[p] \notin CollectLabels
        BY <1>0, <1>2, OutsideCollections
    <2>5. PlanCurrent(p)'
        BY <2>4 DEF PlanCurrent
    <2>6. ASSUME collections' # {}
          PROVE  \E q \in Procs : pc'[q] \in CollectLabels /\ collections' = {Journal(q)'}
        BY <1>1, <2>1, <2>2, <2>4, <2>6 DEF Undisturbed
    <2>7. QED
        BY <1>1, <2>3, <2>5, <2>6 DEF Undisturbed
<1>3. CASE ~(Call(p) \/ TakeLock(p))
    <2>1. pc[p] \in Active /\ LeavesPlan(p)
        <3>1. CASE GCOpen(p) \/ GCPreflight(p) \/ GCRecords(p) \/ GCContent(p)
            <4>1. pc[p] \in {"gcOpen"} \cup CollectLabels
                BY <3>1, GCRecordsCases DEF GCOpen, GCPreflight, GCContent, CollectLabels
            <4>2. QED
                BY <3>1, <4>1, ActiveLabels, OpenLeaves, PreflightLeaves, RecordsLeave, ContentLeaves
        <3>2. CASE ~(GCOpen(p) \/ GCPreflight(p) \/ GCRecords(p) \/ GCContent(p))
            <4>1. pc[p] \in {"recover", "put", "cas", "lease"} \cup WriteLabels \cup UndoLabels
                BY <1>3, <3>2
                   DEF Step, Recover, UndoReference, UndoCommit, UndoRecord, UndoAliases, UndoAck,
                       PutContent, SaveImportJournal, WriteRecord, WriteCommit, CompareRef,
                       WriteReference, RebuildAliases, Acknowledge, LeaseTree, LeasePayload,
                       WriteLabels, UndoLabels
            <4>2. pc[p] \in Active /\ pc[p] \notin CollectLabels
                BY <4>1, ActiveLabels, LabelsApart
            <4>3. collections = {}
                BY <1>0, <4>2, NothingCollected
            <4>4. UNCHANGED collections /\ pc'[p] \notin CollectLabels
                BY <1>0, <1>3, <3>2, <4>2, OthersCollectNothing DEF Step
            <4>5. QED
                BY <4>2, <4>3, <4>4 DEF LeavesPlan
        <3>3. QED
            BY <3>1, <3>2
    <2>2. \A q \in Procs \ {p} : pc'[q] \notin CollectLabels
        BY <1>0, <1>1, <2>1, ActiveLabels DEF LockDiscipline
    <2>3. \A q \in Procs \ {p} : PlanCurrent(q)'
        BY <2>2 DEF PlanCurrent
    <2>4. PlanCurrent(p)'
        BY <2>1 DEF LeavesPlan, PlanCurrent
    <2>5. QED
        BY <2>1, <2>3, <2>4 DEF LeavesPlan, Undisturbed
<1>4. QED
    BY <1>2, <1>3

\* Nobody gets past recovery once it cannot read a reference change.
LEMMA WedgedStep ==
    ASSUME BInv, Wedged, NEW p \in Procs, Step(p) \/ Call(p)
    PROVE  Wedged'
<1>0. /\ IInv /\ ProcTypeOK /\ LayoutTypeOK /\ ActBy(p) /\ Grounded(p) /\ SingleTransaction
      /\ pc[p] \notin WriteLabels \cup UndoLabels
    BY DEF BInv, IInv, CoreTypeOK, JournalDiscipline, ActBy, Wedged
<1>1. mutations # {} /\ imports = {} /\ pc[p] \notin {"put", "cas"}
    BY <1>0 DEF Wedged, MutationsReadable, SingleTransaction, Grounded, CleanStart
<1>2. \A q \in Procs \ {p} : pc'[q] = pc[q]
    BY <1>0, OthersStand
<1>3. ASSUME pc'[p] \notin WriteLabels \cup UndoLabels,
             UNCHANGED <<refs, mutations>>, content' \subseteq content, records' \subseteq records,
             commits' \subseteq commits
      PROVE  Wedged'
    BY <1>2, <1>3, ReadableBefore DEF Wedged
<1>4. \A label \in {"gcPreflight", "gcRecords", "gcContent", "idle", "wait", "recover", "gcOpen",
                    "lease", "down"} : label \notin WriteLabels \cup UndoLabels
    BY DEF WriteLabels, UndoLabels
<1>5. \A label \in {"gcPreflight", "gcRecords", "gcContent"} :
          GoTo(p, label) => pc'[p] \notin WriteLabels \cup UndoLabels
    BY <1>0, <1>4 DEF GoTo, ProcTypeOK
<1>6. Finish(p) \/ Abandon(p) => pc'[p] \notin WriteLabels \cup UndoLabels
    BY <1>0, <1>4 DEF Finish, Abandon, Return, ProcTypeOK
<1>7. UNCHANGED procState => pc'[p] \notin WriteLabels \cup UndoLabels
    BY <1>0 DEF procState
<1>8. CASE Recover(p)
    <2>1. \A m \in mutations : m.kind = "ref"
        BY <1>0, JournalKinds
    <2>2. \A m \in mutations : ~(WellFormed(m) /\ Owned(m))
        BY <1>0 DEF Wedged, MutationsReadable, SingleTransaction
    <2>3. Abandon(p) /\ UNCHANGED disk
        BY <1>1, <1>8, <2>2 DEF Recover
    <2>4. QED
        BY <1>3, <1>6, <2>3 DEF disk
<1>9. CASE GCOpen(p)
    BY <1>3, <1>5, <1>6, <1>9 DEF GCOpen
<1>10. CASE GCPreflight(p)
    BY <1>3, <1>5, <1>6, <1>10 DEF GCPreflight, disk
<1>11. CASE GCRecords(p)
    <2>1. ASSUME NEW d \in Digests, CandidateStep(p, d)
          PROVE  records' \subseteq records /\ commits' \subseteq commits /\ UNCHANGED procState
        BY <2>1 DEF CandidateStep
    <2>2. QED
        BY <1>3, <1>5, <1>6, <1>7, <1>11, <2>1, GCRecordsCases DEF disk
<1>12. CASE GCContent(p)
    <2>1. pc[p] \in CollectLabels
        BY <1>12 DEF GCContent, CollectLabels
    <2>2. \E j \in collections : j.plan = job[p].plan
        BY <1>0, <2>1, Collecting
    <2>3. /\ content' \subseteq content /\ UNCHANGED <<records, commits, refs, mutations>>
          /\ Finish(p) \/ UNCHANGED procState
        BY <1>0, <1>12, <2>2, GCContentCases
    <2>4. QED
        BY <1>3, <1>6, <1>7, <2>3
<1>13. CASE Call(p) \/ TakeLock(p)
    <2>1. UNCHANGED <<content, records, commits, refs, mutations>>
        BY <1>13, BareStep DEF Bare
    <2>2. TakeLock(p) => pc'[p] \in {"recover", "gcOpen", "lease"}
        BY <1>0 DEF TakeLock, ProcTypeOK
    <2>3. \A j : Enter(p, j) => pc'[p] = "wait"
        BY <1>0 DEF Enter, ProcTypeOK
    <2>4. Launch(p) => pc'[p] \in {"idle", "wait"}
        BY <1>0 DEF Launch, GoTo, ProcTypeOK
    <2>6. pc'[p] \notin WriteLabels \cup UndoLabels
        BY <1>4, <1>7, <1>13, <2>2, <2>3, <2>4
           DEF Call, StartImport, StartEquivalent, StartRefChange, StartGC, StartLease
    <2>7. QED
        BY <1>3, <2>1, <2>6
<1>15. CASE LeaseTree(p) \/ LeasePayload(p)
    <2>1. UNCHANGED <<content, records, commits, refs, mutations>>
        BY <1>15, BareStep DEF Bare
    <2>2. Finish(p)
        BY <1>15 DEF LeaseTree, LeasePayload
    <2>3. QED
        BY <1>3, <1>6, <2>1, <2>2
<1>14. QED
    BY <1>0, <1>1, <1>8, <1>9, <1>10, <1>11, <1>12, <1>13, <1>15
       DEF Step, UndoReference, UndoCommit, UndoRecord, UndoAliases, UndoAck, PutContent,
           SaveImportJournal, WriteRecord, WriteCommit, CompareRef, WriteReference,
           RebuildAliases, Acknowledge, WriteLabels, UndoLabels

\* Only a kill and a failed write count as faults.
LEMMA FaultsStand ==
    ASSUME NEW p \in Procs, Step(p) \/ Call(p)
    PROVE  UNCHANGED faults
<1>1. CASE GCRecords(p)
    BY <1>1, GCRecordsCases
<1>2. CASE GCOpen(p) \/ GCPreflight(p) \/ GCContent(p) \/ TakeLock(p) \/ Recover(p)
    BY <1>2 DEF GCOpen, GCPreflight, GCContent, TakeLock, Recover
<1>3. CASE \/ UndoReference(p) \/ UndoCommit(p) \/ UndoRecord(p) \/ UndoAliases(p) \/ UndoAck(p)
    BY <1>3 DEF UndoReference, UndoCommit, UndoRecord, UndoAliases, UndoAck
<1>4. CASE \/ PutContent(p) \/ SaveImportJournal(p) \/ WriteRecord(p) \/ WriteCommit(p)
           \/ CompareRef(p) \/ WriteReference(p) \/ RebuildAliases(p) \/ Acknowledge(p)
    BY <1>4 DEF PutContent, SaveImportJournal, WriteRecord, WriteCommit, CompareRef,
           WriteReference, RebuildAliases, Acknowledge
<1>5. CASE Call(p)
    <2>1. \A j : Enter(p, j) => UNCHANGED faults
        BY DEF Enter
    <2>2. QED
        BY <1>5, <2>1 DEF Call, StartImport, StartEquivalent, StartRefChange, StartGC,
                          StartLease, Launch
<1>6. CASE LeaseTree(p) \/ LeasePayload(p)
    BY <1>6 DEF LeaseTree, LeasePayload
<1>7. QED
    BY <1>1, <1>2, <1>3, <1>4, <1>5, <1>6 DEF Step

\* A step that changes nothing breaks nothing.
LEMMA OneBreakStutter ==
    ASSUME UNCHANGED core
    PROVE  Unbroken' = Unbroken /\ Undisturbed' = Undisturbed /\ Wedged' = Wedged
<1>0. UNCHANGED <<content, records, commits, refs, imports, mutations, collections,
                  pc, job, outcome>>
    BY DEF core, disk, procState
<1>1. Unbroken' = Unbroken
    BY <1>0 DEF Unbroken, ReferencesInstalled, InstalledComplete, Installed, Tags, Target
<1>2. \A q \in Procs : Journal(q)' = Journal(q) /\ PlanCurrent(q)' = PlanCurrent(q)
    BY <1>0, ReadersSame DEF PlanCurrent, Journal
<1>3. Undisturbed' = Undisturbed
    BY <1>0, <1>2 DEF Undisturbed
<1>4. Wedged' = Wedged
    BY <1>0, ReadersSame DEF Wedged
<1>5. QED
    BY <1>1, <1>3, <1>4

\* The first fault hits a collection, and leaves every other operation whole,
\* or another operation, and leaves no collection behind.
LEMMA FirstFault ==
    ASSUME BInv, Unbroken, Undisturbed, NEW p \in Procs, Kill(p) \/ WriteError(p)
    PROVE  OneBreak'
<1>0. IInv /\ ProcTypeOK /\ ActBy(p) /\ LockDiscipline
    BY DEF BInv, IInv, CoreTypeOK, JournalDiscipline, ActBy
<1>1. UNCHANGED <<content, records, commits, refs, imports, mutations, collections>>
    BY BareStep DEF Bare
<1>2. \A q \in Procs \ {p} : pc'[q] = pc[q] /\ job'[q] = job[q] /\ outcome'[q] = outcome[q]
    BY <1>0, OthersStand
<1>3. ASSUME pc[p] \notin WriteLabels \cup UndoLabels, outcome'[p] # "dirty"
      PROVE  Unbroken'
    <2>1. ReferencesInstalled' /\ InstalledComplete'
        BY <1>1 DEF Unbroken, ReferencesInstalled, InstalledComplete, Installed, Tags, Target
    <2>2. QED
        BY <1>1, <1>2, <1>3, <2>1 DEF Unbroken
<1>4. ASSUME pc[p] \notin CollectLabels, pc'[p] \notin CollectLabels
      PROVE  Undisturbed'
    <2>1. \A q \in Procs \ {p} : Journal(q)' = Journal(q)
        BY <1>1, <1>2 DEF Journal
    <2>2. \A q \in Procs \ {p} : PlanCurrent(q)'
        BY <1>1, <1>2, <2>1, ReadersSame DEF Undisturbed, PlanCurrent
    <2>3. PlanCurrent(p)'
        BY <1>4 DEF PlanCurrent
    <2>4. QED
        BY <1>1, <1>2, <1>4, <2>1, <2>2, <2>3 DEF Undisturbed
<1>5. CASE pc[p] \in CollectLabels
    <2>1. pc[p] \notin WriteLabels \cup UndoLabels
        BY <1>5, LabelsApart
    <2>2. Finish(p) \/ Return(p, "down")
        BY <1>5 DEF Kill, WriteError, CollectLabels
    <2>3. outcome'[p] # "dirty"
        BY <1>0, <2>2 DEF Finish, Return, ProcTypeOK
    <2>4. QED
        BY <1>3, <2>1, <2>3 DEF OneBreak
<1>6. CASE pc[p] \notin CollectLabels
    <2>1. \A label : Return(p, label) /\ label \in {"idle", "down"} => pc'[p] \notin CollectLabels
        BY <1>0 DEF Return, ProcTypeOK, CollectLabels
    <2>2. Finish(p) \/ Abandon(p) => pc'[p] \notin CollectLabels
        BY <2>1 DEF Finish, Abandon
    <2>3. Fail(p) => pc'[p] \notin CollectLabels
        BY <1>0, <2>2 DEF Fail, ProcTypeOK, CollectLabels
    <2>4. pc'[p] \notin CollectLabels
        BY <1>0, <2>1, <2>2, <2>3 DEF Kill, WriteError, ProcTypeOK, CollectLabels
    <2>5. QED
        BY <1>4, <1>6, <2>4 DEF OneBreak
<1>7. QED
    BY <1>5, <1>6

\* An operation under way can roll its change back.
LEMMA UnbrokenMoves == Unbroken => ~Wedged
BY DEF Unbroken, Wedged, MutationsReadable

\* Each way of being broken lasts.
LEMMA OneBreakStep ==
    ASSUME BInv, OneBreak, NEW p \in Procs, Step(p) \/ Call(p)
    PROVE  OneBreak' /\ (Unbroken /\ Undisturbed => Unbroken' /\ Undisturbed')
BY UnbrokenStep, UndisturbedStep, WedgedStep, UnbrokenMoves DEF OneBreak

\* Before anything has happened nothing is broken.
LEMMA UnbrokenInit == Init => Unbroken /\ Undisturbed
BY DEF Init, EmptyRepository, Unbroken, Undisturbed, PlanCurrent, CollectLabels,
       ReferencesInstalled, InstalledComplete, Installed, Tags, Target

\* The number of faults only grows.
LEMMA FaultsCount ==
    ASSUME CoreTypeOK, [Next]_vars
    PROVE  faults \in Nat /\ faults' \in {faults, faults + 1}
<1>1. faults \in Nat
    BY RepositoryAssumption DEF CoreTypeOK, RepositoryAssumption
<1>2. UNCHANGED core => UNCHANGED faults
    BY DEF core
<1>3. \A p \in Procs : Kill(p) \/ WriteError(p) => faults' = faults + 1
    BY DEF Kill, WriteError
<1>4. QED
    BY <1>1, <1>2, <1>3, FaultsStand, NextCases

\* Up to the second fault the repository is broken in one way at most: an
\* import or reference change was left behind and every collection runs to its
\* end, or a collection was left behind and all else is whole, or a reference
\* change that cannot be rolled back has stopped every operation.
THEOREM OneBreakAtMost == Spec => []BrokenAtMostOnce
<1> DEFINE Inv == (faults = 0 => Unbroken /\ Undisturbed) /\ (faults <= 1 => OneBreak)
<1>1. Init => Inv
    BY UnbrokenInit DEF OneBreak
<1>2. BInv /\ Inv /\ [Next]_vars => Inv'
    <2> SUFFICES ASSUME BInv, Inv, [Next]_vars PROVE Inv'
        OBVIOUS
    <2>0. faults \in Nat
        BY FaultsCount DEF BInv, IInv
    <2>1. ASSUME NEW p \in Procs, Step(p) \/ Call(p) PROVE Inv'
        <3>1. UNCHANGED faults
            BY <2>1, FaultsStand
        <3>2. QED
            BY <2>1, <3>1, OneBreakStep DEF OneBreak
    <2>2. ASSUME NEW p \in Procs, Kill(p) \/ WriteError(p) PROVE Inv'
        <3>1. faults' = faults + 1
            BY <2>2 DEF Kill, WriteError
        <3>2. faults = 0 => OneBreak'
            BY <2>2, FirstFault
        <3>3. QED
            BY <2>0, <3>1, <3>2
    <2>3. CASE UNCHANGED core
        <3>1. UNCHANGED faults
            BY <2>3 DEF core
        <3>2. QED
            BY <2>3, <3>1, OneBreakStutter DEF OneBreak
    <2>4. QED
        BY <2>1, <2>2, <2>3, NextCases
<1> HIDE DEF Inv
<1>3. Inv <=> BrokenAtMostOnce
    BY DEF Inv, BrokenAtMostOnce
<1>4. QED
    BY <1>1, <1>2, <1>3, BookkeepingKept, PTL DEF Spec

\* However it is broken, no collection takes what an import brings in again.
LEMMA OneBreakSettled ==
    ASSUME BInv, OneBreak
    PROVE  ~HiddenCollected
<1>0. IInv
    BY DEF BInv
<1>1. CASE Unbroken
    BY <1>0, <1>1, UnbrokenSettled
<1>2. CASE Undisturbed
    <2>1. \A p \in Procs : pc[p] = "gcRecords" => \A d \in Journal(p).plan.delete : ~Pending(d)
        BY <1>2 DEF Undisturbed, PlanCurrent, CollectLabels
    <2>2. QED
        BY <2>1, GCRecordsCases DEF HiddenCollected
<1>3. CASE Wedged
    <2>1. imports = {}
        BY <1>0, <1>3 DEF Wedged, MutationsReadable, IInv, JournalDiscipline, SingleTransaction
    <2>2. QED
        BY <2>1 DEF HiddenCollected, Pending
<1>4. QED
    BY <1>1, <1>2, <1>3 DEF OneBreak

\* ReferencesInstalled up to the second fault, with no hypothesis about
\* collections: after one kill or one failed write, wherever it strikes, every
\* reference recovery keeps points at an artifact recovery keeps.
THEOREM InstalledUpToOneFault == Spec => [](faults <= 1 => ReferencesInstalled)
<1>1. Init => ReferencesInstalled
    BY UnbrokenInit DEF Unbroken
<1>2. BInv /\ BrokenAtMostOnce /\ (faults <= 1 => ReferencesInstalled) /\ [Next]_vars
      => (faults <= 1 => ReferencesInstalled)'
    <2> SUFFICES ASSUME BInv, BrokenAtMostOnce, faults <= 1 => ReferencesInstalled,
                        [Next]_vars, faults' <= 1
                 PROVE  ReferencesInstalled'
        OBVIOUS
    <2>1. faults <= 1
        BY FaultsCount DEF BInv, IInv
    <2>2. QED
        BY <2>1, OneBreakSettled, ReferencesInstalledStep DEF BrokenAtMostOnce
<1>3. QED
    BY <1>1, <1>2, BookkeepingKept, OneBreakAtMost, PTL DEF Spec

\* FailureAtomic with at most one fault: imports, reference changes and
\* collections refine the abstract store step by step, through a kill or a
\* failed write at any point and the recovery from it.
THEOREM AtomicUpToOneFault == Spec /\ [](faults <= 1) => FailureAtomic
<1>1. BInv /\ BrokenAtMostOnce /\ faults <= 1 /\ [Next]_vars
      => [Atomic!StoreNext]_(Atomic!storeVars)
    BY Refines, OneBreakSettled DEF BrokenAtMostOnce
<1>2. QED
    BY <1>1, RefinesInit, BookkeepingKept, OneBreakAtMost, PTL
       DEF Spec, FailureAtomic, Atomic!StoreSpec

-----------------------------------------------------------------------------
(* Before the first fault: the index *)

\* Outside collections the index stays the rebuilt one between changes.
LEMMA NamesExactStep ==
    ASSUME BInv, NamesExact, NEW p \in Procs, ActBy(p),
           ~(GCRecords(p) \/ GCContent(p)), imports' = {}, mutations' = {}
    PROVE  \A a \in Names : aliases'[a] \subseteq RebuiltAliases'[a]
<1>0. LayoutTypeOK /\ ProcTypeOK /\ IInv /\ Grounded(p) /\ Progress(p)
    BY DEF BInv, IInv, CoreTypeOK, JournalDiscipline, Bookkeeping
<1>1. CASE aliases = RebuiltAliases /\ UNCHANGED <<records, refs, aliases>>
    BY <1>1, RebuiltSame
<1>2. CASE UNCHANGED <<records, refs, aliases, imports, mutations>>
    BY <1>2, RebuiltSame DEF NamesExact
<1>3. CASE UndoAck(p) \/ Acknowledge(p)
    BY <1>0, <1>1, <1>3 DEF UndoAck, Acknowledge, Progress, AliasesDone
<1>4. CASE Bare(p)
    BY <1>2, <1>4, BareStep
<1>5. CASE PutContent(p) \/ SaveImportJournal(p) \/ CompareRef(p)
    <2>1. imports = {} /\ mutations = {} /\ UNCHANGED <<records, refs, aliases>>
        BY <1>0, <1>5
           DEF PutContent, SaveImportJournal, CompareRef, Grounded, CleanStart
    <2>2. QED
        BY <1>2, <2>1
<1>6. CASE UndoReference(p) \/ UndoCommit(p) \/ UndoRecord(p) \/ UndoAliases(p)
    BY <1>0, <1>6 DEF UndoReference, UndoCommit, UndoRecord, UndoAliases, Grounded,
                      UndoGrounded, UndoLabels
<1>7. CASE WriteRecord(p) \/ WriteCommit(p)
    BY <1>0, <1>7 DEF WriteRecord, WriteCommit, Grounded, ImportCovered, JobFits, WriteLabels
<1>8. CASE WriteReference(p)
    <2>1. job[p].kind = "ref" /\ refs[job[p].ref] = job[p].old
        BY <1>0, <1>8 DEF WriteReference, Grounded, JobFits, ImportCovered,
                          RefChangeCovered, WriteLabels
    <2>2. job[p].old = job[p].new
        BY <1>0, <1>8, <2>1 DEF WriteReference, Grounded, RefChangeCovered, WriteLabels
    <2>3. UNCHANGED refs
        BY <1>0, <1>8, <2>1, <2>2 DEF WriteReference, NewTarget, LayoutTypeOK
    <2>4. QED
        BY <1>2, <1>8, <2>3 DEF WriteReference
<1>9. CASE RebuildAliases(p)
    <2>1. UNCHANGED <<records, refs, imports, mutations>> /\ (WriteAlias \/ UNCHANGED aliases)
        BY <1>9 DEF RebuildAliases
    <2>2. QED
        BY <1>0, <1>9, <2>1, RebuiltSame, WriteAliasCovers DEF NamesExact
<1>10. CASE GCOpen(p)
    BY <1>2, <1>10 DEF GCOpen
<1>11. QED
    BY <1>3, <1>4, <1>5, <1>6, <1>7, <1>8, <1>9, <1>10 DEF ActBy, Step, Bare

\* What a collection knows before the first fault.
LEMMA CalmCollects ==
    ASSUME BInv, Calm, NEW p \in Procs, pc[p] \in CollectLabels
    PROVE  /\ imports = {} /\ mutations = {} /\ collections = {Journal(p)}
           /\ Journal(p) \in GCJournal /\ Journal(p).plan = job[p].plan
           /\ \A a \in Names : aliases[a] \subseteq RebuiltAliases[a]
           /\ NamesGone(p)
<1>0. IInv /\ Unbroken /\ Undisturbed /\ NamesExact /\ NamesGone(p) /\ ~Wedged
    BY UnbrokenMoves DEF BInv, Calm
<1>1. imports = {} /\ mutations = {}
    BY <1>0, ActiveLabels, LabelsApart, HoldersJournals
<1>2. QED
    BY <1>0, <1>1, WhatCollects DEF NamesExact

\* The names of a candidate leave the index before its record does.
LEMMA RecordsNames ==
    ASSUME BInv, Calm, NEW p \in Procs, GCRecords(p)
    PROVE  /\ NamesGone(p)'
           /\ \A a \in Names : aliases'[a] \subseteq RebuiltAliases'[a]
<1>0. /\ IInv /\ ProcTypeOK /\ LayoutTypeOK
      /\ pc[p] = "gcRecords" /\ pc[p] \in CollectLabels
      /\ UNCHANGED <<content, refs, imports, mutations>>
    BY GCRecordsCases DEF BInv, IInv, CoreTypeOK, CollectLabels
<1>1. /\ collections = {Journal(p)}
      /\ Journal(p) \in GCJournal /\ Journal(p).plan = job[p].plan
      /\ \A a \in Names : aliases[a] \subseteq RebuiltAliases[a]
    BY <1>0, CalmCollects
<1>2. \A d \in Journal(p).plan.delete : Journal(p).phase[d] >= 2 => \A a \in Names : d \notin aliases[a]
    BY <1>0, CalmCollects DEF NamesGone
<1>3. ASSUME NEW k, job'[p] = job[p], collections' = {k}, k.plan = Journal(p).plan,
             \A d \in k.plan.delete : k.phase[d] >= 2 => \A a \in Names : d \notin aliases'[a]
      PROVE  NamesGone(p)'
    <2>1. Journal(p)' = k
        BY <1>1, <1>3, OnlyJournal
    <2>2. QED
        BY <1>3, <2>1 DEF NamesGone
<1>4. CASE UNCHANGED disk /\ (Finish(p) \/ GoTo(p, "gcContent"))
    <2>1. UNCHANGED <<records, refs, aliases, collections>>
        BY <1>4 DEF disk
    <2>2. GoTo(p, "gcContent") => job'[p] = job[p]
        BY DEF GoTo
    <2>3. Finish(p) => pc'[p] \notin CollectLabels
        BY <1>0 DEF Finish, Return, ProcTypeOK, CollectLabels
    <2>4. NamesGone(p)'
        BY <1>1, <1>2, <1>3, <1>4, <2>1, <2>2, <2>3 DEF NamesGone
    <2>5. QED
        BY <1>1, <2>1, <2>4, RebuiltSame
<1>5. ASSUME NEW d \in Digests, CandidateStep(p, d)
      PROVE  /\ NamesGone(p)'
             /\ \A a \in Names : aliases'[a] \subseteq RebuiltAliases'[a]
    <2>1. job'[p] = job[p]
        BY <1>5 DEF CandidateStep, procState
    <2>2. d \in Journal(p).plan.delete
        BY <1>5 DEF CandidateStep, Victims
    <2>3. CASE UNCHANGED <<records, aliases, collections>>
        BY <1>0, <1>1, <1>2, <1>3, <2>1, <2>3, RebuiltSame
    <2>4. CASE /\ UNCHANGED <<records, collections>>
               /\ \E a \in Names : aliases' = [aliases EXCEPT ![a] = @ \ {d}]
        <3>1. \A a \in Names : aliases'[a] \subseteq aliases[a]
            BY <1>0, <2>4 DEF LayoutTypeOK
        <3>2. NamesGone(p)'
            BY <1>1, <1>2, <1>3, <2>1, <2>4, <3>1
        <3>3. QED
            BY <1>0, <1>1, <2>4, <3>1, <3>2, RebuiltSame
    <2>5. CASE Journal(p).phase[d] = 2 /\ UNCHANGED <<aliases, collections>> /\ records' = records \ {d}
        <3>1. \A a \in Names : d \notin aliases[a]
            BY <1>2, <2>2, <2>5
        <3>2. NamesGone(p)'
            BY <1>1, <1>2, <1>3, <2>1, <2>5
        <3>3. \A a \in Names : RebuiltAliases'[a] = RebuiltAliases[a] \cap records'
            BY <1>0, <2>5, RebuiltFewer
        <3>4. \A a \in Names : RebuiltAliases[a] \subseteq records
            BY DEF RebuiltAliases, AliasMap
        <3>5. \A a \in Names : aliases'[a] \subseteq RebuiltAliases'[a]
            BY <1>1, <2>5, <3>1, <3>3, <3>4
        <3>6. QED
            BY <3>2, <3>5
    <2>6. CASE /\ UNCHANGED <<records, commits, aliases>>
               /\ Journal(p).phase[d] \in 0..2
               /\ Journal(p).phase[d] = 1 => \A a \in Names : d \notin aliases[a]
               /\ SaveGC(p, [Journal(p) EXCEPT !.phase[d] = @ + 1])
        <3> DEFINE k == [Journal(p) EXCEPT !.phase[d] = @ + 1]
        <3>1. /\ k.plan = Journal(p).plan /\ k.phase[d] = Journal(p).phase[d] + 1
              /\ \A e \in Digests \ {d} : k.phase[e] = Journal(p).phase[e]
            BY <1>0, <2>6, CountedPhase
        <3>2. collections' = {k}
            BY <1>1, <2>6 DEF SaveGC
        <3>3. Journal(p).plan.delete \subseteq Digests
            BY <1>1 DEF GCJournal, GCPlan
        <3> HIDE DEF k
        <3>4. \A e \in k.plan.delete : k.phase[e] >= 2 => \A a \in Names : e \notin aliases'[a]
            BY <1>2, <2>6, <3>1, <3>3
        <3>5. NamesGone(p)'
            BY <1>3, <2>1, <3>1, <3>2, <3>4
        <3>6. QED
            BY <1>0, <1>1, <2>6, <3>5, RebuiltSame
    <2>7. QED
        BY <1>5, <2>3, <2>4, <2>5, <2>6 DEF CandidateStep
<1>6. QED
    BY <1>4, <1>5, GCRecordsCases

\* The rest of a collection leaves the index and the phases alone.
LEMMA CollectionNames ==
    ASSUME BInv, Calm, NEW p \in Procs, GCOpen(p) \/ GCPreflight(p) \/ GCContent(p)
    PROVE  NamesGone(p)' /\ UNCHANGED <<records, refs, aliases>>
<1>0. /\ IInv /\ ProcTypeOK /\ LayoutTypeOK /\ Undisturbed
      /\ UNCHANGED <<records, refs, aliases>>
    BY DEF BInv, IInv, CoreTypeOK, Calm, GCOpen, GCPreflight, GCContent, disk
<1>1. Finish(p) => NamesGone(p)'
    <2>1. Finish(p) => pc'[p] \notin CollectLabels
        BY <1>0 DEF Finish, Return, ProcTypeOK, CollectLabels
    <2>2. QED
        BY <2>1 DEF NamesGone
<1>2. ASSUME Journal(p)'.plan.delete = Journal(p).plan.delete, Journal(p)'.phase = Journal(p).phase,
             NamesGone(p), pc[p] \in CollectLabels
      PROVE  NamesGone(p)'
    BY <1>0, <1>2 DEF NamesGone
<1>3. CASE GCOpen(p)
    <2>1. collections = {}
        BY <1>0, <1>3, NothingCollected, ActiveLabels, LabelsApart DEF GCOpen
    <2>2. CASE GoTo(p, "gcPreflight") /\ collections' = {FreshGCJournal(job[p].plan)}
        <3>1. job'[p] = job[p]
            BY <2>2 DEF GoTo
        <3>2. Journal(p)' = FreshGCJournal(job[p].plan)
            BY <2>2, <3>1, OnlyJournal DEF FreshGCJournal
        <3>3. job[p].plan.delete \subseteq Digests
            BY <1>0, <1>3, JobTypes
               DEF GCOpen, IInv, JournalDiscipline, Grounded, JobFits, GCJob, GCPlan
        <3>4. \A d \in FreshGCJournal(job[p].plan).plan.delete : FreshGCJournal(job[p].plan).phase[d] = 0
            BY <3>3 DEF FreshGCJournal
        <3>5. QED
            BY <1>0, <3>2, <3>4 DEF NamesGone
    <2>3. CASE Finish(p)
        BY <1>0, <1>1, <2>3
    <2>4. ~(\E j \in collections : j.plan = job[p].plan)
        BY <2>1
    <2>5. CASE GoTo(p, "gcPreflight") /\ collections' = collections \cup {FreshGCJournal(job[p].plan)}
        <3>1. collections' = {FreshGCJournal(job[p].plan)}
            BY <2>1, <2>5
        <3>2. QED
            BY <2>2, <2>5, <3>1
    <2>6. QED
        BY <1>3, <2>3, <2>4, <2>5 DEF GCOpen
<1>4. CASE GCPreflight(p)
    <2>1. pc[p] \in CollectLabels /\ UNCHANGED collections /\ (Finish(p) \/ GoTo(p, "gcRecords"))
        BY <1>4 DEF GCPreflight, CollectLabels, disk
    <2>2. GoTo(p, "gcRecords") => Journal(p)' = Journal(p)
        BY <2>1 DEF GoTo, Journal
    <2>3. NamesGone(p)
        BY DEF Calm
    <2>4. CASE GoTo(p, "gcRecords")
        BY <1>0, <1>2, <2>1, <2>2, <2>3, <2>4
    <2>5. QED
        BY <1>0, <1>1, <2>1, <2>4
<1>5. CASE GCContent(p)
    <2>0. pc[p] \in CollectLabels
        BY <1>5 DEF GCContent, CollectLabels
    <2>1. collections = {Journal(p)} /\ Journal(p).plan = job[p].plan /\ NamesGone(p)
        BY <2>0, CalmCollects
    <2>2. UNCHANGED <<procState, collections>> => Journal(p)' = Journal(p)
        BY DEF Journal, procState
    <2>3. ASSUME NEW k \in GCJournal, k.plan = Journal(p).plan, k.phase = Journal(p).phase,
                 SaveGC(p, k), UNCHANGED procState
          PROVE  NamesGone(p)'
        <3>1. Journal(p)' = k
            BY <2>1, <2>3, OnlyJournal DEF SaveGC, procState
        <3>2. QED
            BY <1>2, <2>0, <2>1, <2>3, <3>1
    <2>4. QED
        BY <1>0, <1>1, <1>2, <1>5, <2>0, <2>1, <2>2, <2>3, GCContentCases
<1>6. QED
    BY <1>0, <1>3, <1>4, <1>5

\* As long as there is no fault, every step keeps the repository calm.
LEMMA CalmStep ==
    ASSUME BInv, Calm, NEW p \in Procs, Step(p) \/ Call(p)
    PROVE  Calm'
<1>0. /\ IInv /\ ProcTypeOK /\ LayoutTypeOK /\ LockDiscipline /\ ActBy(p) /\ Unbroken /\ Undisturbed
      /\ NamesExact
    BY DEF BInv, IInv, CoreTypeOK, JournalDiscipline, Calm, ActBy
<1>1. Unbroken' /\ Undisturbed'
    BY <1>0, OneBreakStep DEF OneBreak
<1>2. NamesExact'
    <2>1. CASE GCRecords(p)
        BY <2>1, RecordsNames DEF NamesExact
    <2>2. CASE GCContent(p)
        <3>1. pc[p] \in CollectLabels
            BY <2>2 DEF GCContent, CollectLabels
        <3>2. \A a \in Names : aliases[a] \subseteq RebuiltAliases[a]
            BY <3>1, CalmCollects
        <3>3. QED
            BY <2>2, <3>2, CollectionNames, RebuiltSame DEF NamesExact
    <2>3. CASE ~(GCRecords(p) \/ GCContent(p))
        BY <1>0, <2>3, NamesExactStep DEF NamesExact
    <2>4. QED
        BY <2>1, <2>2, <2>3
<1>3. \A q \in Procs \ {p} : pc'[q] = pc[q] /\ job'[q] = job[q]
    BY <1>0, OthersStand
<1>4. CASE Call(p) \/ TakeLock(p)
    <2>1. UNCHANGED <<aliases, collections>>
        BY <1>4, BareStep DEF Bare
    <2>2. \A q \in Procs \ {p} : Journal(q)' = Journal(q)
        BY <1>3, <2>1 DEF Journal
    <2>3. \A q \in Procs \ {p} : NamesGone(q)'
        BY <1>3, <2>1, <2>2 DEF Calm, NamesGone
    <2>4. NamesGone(p)'
        BY <1>0, <1>4, OutsideCollections DEF NamesGone
    <2>5. QED
        BY <1>1, <1>2, <2>3, <2>4 DEF Calm
<1>5. CASE ~(Call(p) \/ TakeLock(p))
    <2>1. pc[p] \in Active /\ NamesGone(p)'
        <3>1. CASE GCOpen(p) \/ GCPreflight(p) \/ GCRecords(p) \/ GCContent(p)
            <4>1. pc[p] \in {"gcOpen"} \cup CollectLabels
                BY <3>1, GCRecordsCases DEF GCOpen, GCPreflight, GCContent, CollectLabels
            <4>2. QED
                BY <3>1, <4>1, ActiveLabels, RecordsNames, CollectionNames
        <3>2. CASE ~(GCOpen(p) \/ GCPreflight(p) \/ GCRecords(p) \/ GCContent(p))
            <4>1. pc[p] \in {"recover", "put", "cas", "lease"} \cup WriteLabels \cup UndoLabels
                BY <1>5, <3>2
                   DEF Step, Recover, UndoReference, UndoCommit, UndoRecord, UndoAliases, UndoAck,
                       PutContent, SaveImportJournal, WriteRecord, WriteCommit, CompareRef,
                       WriteReference, RebuildAliases, Acknowledge, LeaseTree, LeasePayload,
                       WriteLabels, UndoLabels
            <4>2. pc[p] \in Active /\ pc[p] \notin CollectLabels
                BY <4>1, ActiveLabels, LabelsApart
            <4>3. pc'[p] \notin CollectLabels
                BY <1>0, <1>5, <3>2, <4>2, OthersCollectNothing DEF Step
            <4>4. QED
                BY <4>2, <4>3 DEF NamesGone
        <3>3. QED
            BY <3>1, <3>2
    <2>2. \A q \in Procs \ {p} : pc'[q] \notin CollectLabels
        BY <1>0, <1>3, <2>1, ActiveLabels DEF LockDiscipline
    <2>3. \A q \in Procs \ {p} : NamesGone(q)'
        BY <2>2 DEF NamesGone
    <2>4. QED
        BY <1>1, <1>2, <2>1, <2>3 DEF Calm
<1>6. QED
    BY <1>4, <1>5

\* An empty repository is calm.
LEMMA CalmInit == Init => Calm
<1>1. Init => Unbroken /\ Undisturbed
    BY UnbrokenInit
<1>2. Init => NamesExact /\ \A p \in Procs : NamesGone(p)
    BY DEF Init, EmptyRepository, NamesExact, NamesGone, CollectLabels
<1>3. QED
    BY <1>1, <1>2 DEF Calm

\* A step that changes nothing leaves the repository as calm as it was.
LEMMA CalmStutter ==
    ASSUME Calm, UNCHANGED core
    PROVE  Calm'
<1>0. UNCHANGED <<records, refs, aliases, imports, mutations, collections, pc, job>>
    BY DEF core, disk, procState
<1>1. Unbroken' /\ Undisturbed'
    BY OneBreakStutter DEF Calm
<1>2. NamesExact'
    BY <1>0, RebuiltSame DEF Calm, NamesExact
<1>3. \A q \in Procs : Journal(q)' = Journal(q)
    BY <1>0 DEF Journal
<1>4. \A q \in Procs : NamesGone(q)'
    BY <1>0, <1>3 DEF Calm, NamesGone
<1>5. QED
    BY <1>1, <1>2, <1>4 DEF Calm

\* Until the first kill or failed write, every journal belongs to the operation
\* under way and every collection runs to its end: no error branch of a
\* rollback, of a recovery or of a collection is taken.
THEOREM CalmBeforeFaults == Spec => []CalmUntilFault
<1>1. BInv /\ CalmUntilFault /\ [Next]_vars => CalmUntilFault'
    <2> SUFFICES ASSUME BInv, faults = 0 => Calm, [Next]_vars, faults' = 0
                 PROVE  Calm'
        BY DEF CalmUntilFault
    <2>0. faults \in Nat
        BY RepositoryAssumption DEF BInv, IInv, CoreTypeOK, RepositoryAssumption
    <2>1. ASSUME NEW p \in Procs, Step(p) \/ Call(p) PROVE Calm'
        BY <2>1, FaultsStand, CalmStep
    <2>2. ASSUME NEW p \in Procs, Kill(p) \/ WriteError(p) PROVE FALSE
        BY <2>0, <2>2 DEF Kill, WriteError
    <2>3. CASE UNCHANGED core
        BY <2>3, CalmStutter DEF core
    <2>4. QED
        BY <2>1, <2>2, <2>3, NextCases
<1>2. Init => CalmUntilFault
    BY CalmInit DEF CalmUntilFault
<1>3. QED
    BY <1>1, <1>2, BookkeepingKept, PTL DEF Spec

\* A calm repository meets the store's promises.
LEMMA CalmEnough ==
    ASSUME BInv, Calm
    PROVE  ReachableContentKept /\ NamesResolve
<1>0. ReferencesInstalled /\ InstalledComplete /\ NamesExact /\ NamesCovered
    BY DEF BInv, Calm, Unbroken, Bookkeeping
<1>1. ReachableContentKept
    BY <1>0 DEF ReferencesInstalled, InstalledComplete, ReachableContentKept
<1>2. NamesResolve
    <2> SUFFICES ASSUME Settled, NEW a \in Names
                 PROVE  aliases[a] = ShownAliases[a]
        BY DEF NamesResolve
    <2>1. imports = {} /\ mutations = {} /\ HalfCollected = {}
        BY DEF Settled, HalfCollected
    <2>2. aliases[a] = RebuiltAliases[a]
        BY <1>0, <2>1 DEF NamesExact, NamesCovered
    <2>3. Snapshot = refs
        BY <1>0, <2>1, WholeSnapshot
    <2>4. {d \in records : ~Pending(d)} = records
        BY <2>1 DEF Pending
    <2>5. ShownAliases = RebuiltAliases
        BY <2>3, <2>4 DEF ShownAliases, RebuiltAliases
    <2>6. QED
        BY <2>2, <2>5
<1>3. QED
    BY <1>1, <1>2

\* NamesResolve before the first fault: once every operation has finished, each
\* index file is the one readAlias derives, so no lookup by name fails.
THEOREM NamesBeforeFaults == Spec => [](faults = 0 => NamesResolve)
<1>1. BInv /\ CalmUntilFault => (faults = 0 => NamesResolve)
    BY CalmEnough DEF CalmUntilFault
<1>2. QED
    BY <1>1, BookkeepingKept, CalmBeforeFaults, PTL

\* ReachableContentKept before the first fault: collections spare the content
\* of every referenced artifact, and no import that is not acknowledged hides
\* one from them.
THEOREM ContentBeforeFaults == Spec => [](faults = 0 => ReachableContentKept)
<1>1. BInv /\ CalmUntilFault => (faults = 0 => ReachableContentKept)
    BY CalmEnough DEF CalmUntilFault
<1>2. QED
    BY <1>1, BookkeepingKept, CalmBeforeFaults, PTL
=============================================================================
