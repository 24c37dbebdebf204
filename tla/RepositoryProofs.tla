-------------------------- MODULE RepositoryProofs --------------------------
(***************************************************************************)
(* Safety of Repository for every set of artifacts, references, processes  *)
(* and every number of faults.  First the lock and journal discipline and  *)
(* what follows from it, then the books each operation keeps of what it has *)
(* written or taken back, and the names readers look artifacts up by.      *)
(***************************************************************************)
EXTENDS RepositoryDiscipline

-----------------------------------------------------------------------------
(* The invariant *)

\* An empty repository has no journal and nobody is inside an operation.
LEMMA DisciplineInit == Init => JournalDiscipline
BY DEF Init, EmptyRepository, JournalDiscipline, LockDiscipline, SingleTransaction,
       Active, Grounded, JobFits, CleanStart, ImportCovered, RefChangeCovered,
       UndoGrounded, UndoLabels, WriteLabels, CollectLabels

\* The invariant is inductive: it holds at the start and after every step.
THEOREM Inductive == Spec => []IInv
<1>1. Init => IInv
    BY TypeInit, DisciplineInit DEF IInv
<1>2. IInv /\ [Next]_vars => IInv'
    BY TypeStep, DisciplineStep DEF IInv
<1>3. QED
    BY <1>1, <1>2, PTL DEF Spec

\* Nothing but a granted lease and a checked payload adds to the leases.
LEMMA LeaseChanges ==
    ASSUME NEW p \in Procs, Step(p) \/ Call(p) \/ Kill(p) \/ WriteError(p)
    PROVE  leases' \subseteq leases \/ LeaseTree(p) \/ LeasePayload(p)
<1>1. CASE GCRecords(p)
    BY <1>1 DEF GCRecords, RemoveTree, RemoveCommit, RemoveRecord, NextPhase
<1>2. CASE GCOpen(p) \/ GCPreflight(p) \/ GCContent(p) \/ TakeLock(p) \/ Recover(p)
    BY <1>2 DEF GCOpen, GCPreflight, GCContent, TakeLock, Recover
<1>3. CASE \/ UndoReference(p) \/ UndoCommit(p) \/ UndoRecord(p) \/ UndoAliases(p) \/ UndoAck(p)
    BY <1>3 DEF UndoReference, UndoCommit, UndoRecord, UndoAliases, UndoAck
<1>4. CASE \/ PutContent(p) \/ SaveImportJournal(p) \/ WriteRecord(p) \/ WriteCommit(p)
           \/ CompareRef(p) \/ WriteReference(p) \/ RebuildAliases(p) \/ Acknowledge(p)
    BY <1>4 DEF PutContent, SaveImportJournal, WriteRecord, WriteCommit, CompareRef,
           WriteReference, RebuildAliases, Acknowledge
<1>5. CASE Call(p)
    <2>1. \A j : Enter(p, j) => UNCHANGED leases
        BY DEF Enter
    <2>2. QED
        BY <1>5, <2>1 DEF Call, StartImport, StartEquivalent, StartRefChange, StartGC,
                          StartLease, Launch
<1>6. CASE Kill(p) \/ WriteError(p)
    BY <1>6 DEF Kill, WriteError
<1>7. QED
    BY <1>1, <1>2, <1>3, <1>4, <1>5, <1>6 DEF Step

\* A lease is one of a process on an artifact.
LEMMA LeaseTypeStep ==
    ASSUME CoreTypeOK, leases \subseteq Lease, [Next]_vars
    PROVE  leases' \subseteq Lease
<1>1. ASSUME NEW p \in Procs, LeaseTree(p) \/ LeasePayload(p) PROVE leases' \subseteq Lease
    <2>1. job[p] \in LeaseJob
        BY <1>1, JobTypes DEF CoreTypeOK, LeaseTree, LeasePayload
    <2>2. \A kind \in {"tree", "digest"} :
              [holder |-> p, kind |-> kind, digest |-> job[p].digest] \in Lease
        BY <2>1 DEF LeaseJob, Lease
    <2>3. QED
        BY <1>1, <2>2 DEF LeaseTree, LeasePayload, Grant
<1>2. ASSUME NEW p \in Procs, CheckPayload(p) PROVE leases' \subseteq Lease
    <2>1. \A l \in leases : [l EXCEPT !.kind = "payload"] \in Lease
        BY DEF Lease
    <2>2. QED
        BY <1>2, <2>1 DEF CheckPayload
<1>3. QED
    BY <1>1, <1>2, LeaseChanges DEF Next, EndLease, vars

\* Type correctness: every file, every process variable and every lease keeps
\* its type.
THEOREM TypeCorrect == Spec => []TypeOK
<1>1. IInv => CoreTypeOK
    BY DEF IInv
<1>2. Init => leases \subseteq Lease
    BY DEF Init
<1>3. CoreTypeOK /\ leases \subseteq Lease /\ [Next]_vars => (leases \subseteq Lease)'
    BY LeaseTypeStep
<1>4. CoreTypeOK /\ leases \subseteq Lease => TypeOK
    BY DEF TypeOK
<1>5. QED
    BY <1>1, <1>2, <1>3, <1>4, Inductive, PTL DEF Spec

\* Only the holder of the repo-lifecycle lock is inside an operation, and the
\* journals on disk describe what its own operation has left to write.
THEOREM Discipline == Spec => []JournalDiscipline
<1>1. IInv => JournalDiscipline
    BY DEF IInv
<1>2. QED
    BY <1>1, Inductive, PTL

\* Two operations are never between their lock and their return at once, and
\* a killed process leaves none.
THEOREM Exclusion ==
    Spec => [](\A p, q \in Procs : pc[p] \in Active /\ pc[q] \in Active => p = q)
<1>1. IInv => \A p, q \in Procs : pc[p] \in Active /\ pc[q] \in Active => p = q
    BY DEF IInv, JournalDiscipline, LockDiscipline
<1>2. QED
    BY <1>1, Inductive, PTL

\* At most one import or reference change is unacknowledged, however many
\* processes were killed: recoverImportsLocked runs before either begins.
THEOREM OneTransaction == Spec => []SingleTransaction
<1>1. IInv => SingleTransaction
    BY DEF IInv, JournalDiscipline
<1>2. QED
    BY <1>1, Inductive, PTL

-----------------------------------------------------------------------------
(* Write-ahead *)

\* A step that changes none of the described files has nothing to account for.
LEMMA NothingChanged ==
    ASSUME UNCHANGED <<content, records, commits, refs>>
    PROVE  Accounted
BY DEF Accounted

\* The journal that an import under way saved, as its invariant describes it.
LEMMA OwnImport ==
    ASSUME IInv, NEW p \in Procs, pc[p] \in WriteLabels, job[p].kind = "import"
    PROVE  \E j \in imports :
              /\ j.digest = job[p].digest /\ j.ref = job[p].ref
              /\ pc[p] = "record" /\ j.digest \notin records => j.record
              /\ pc[p] \in {"record", "commit"} /\ j.digest \notin commits => j.commit
              /\ pc[p] = "reference" /\ j.ref # None =>
                    \/ refs[j.ref] = j.digest
                    \/ refs[j.ref] = None /\ j.reference
BY DEF IInv, JournalDiscipline, Grounded, ImportCovered

\* Every change of a record, a marker, a reference or a content object is
\* described by a journal that was on disk before the step.
LEMMA AccountedStep ==
    ASSUME IInv, [Next]_vars
    PROVE  Accounted
<1>0. LayoutTypeOK /\ ProcTypeOK
    BY DEF IInv, CoreTypeOK
<1>a. \A p \in Procs : Grounded(p)
    BY DEF IInv, JournalDiscipline
<1>1. ASSUME NEW p \in Procs, UndoReference(p) PROVE Accounted
    <2>1. CASE UNCHANGED refs
        BY <1>1, <2>1, NothingChanged DEF UndoReference
    <2>2. undo[p] \in imports \cup mutations
        BY <1>a, <1>1 DEF UndoReference, Grounded, UndoGrounded, UndoLabels
    <2>3. UNCHANGED <<content, records, commits>>
        BY <1>1 DEF UndoReference
    <2>4. CASE /\ undo[p].kind = "import" /\ undo[p].reference
               /\ refs[undo[p].ref] \in {None, undo[p].digest}
               /\ refs' = [refs EXCEPT ![undo[p].ref] = None]
        <3>1. undo[p] \in imports
            BY <1>0, <2>2, <2>4, JournalKinds
        <3>2. \A r \in Refs : refs'[r] # refs[r] =>
                  r = undo[p].ref /\ {refs[r], refs'[r]} = {None, undo[p].digest}
            BY <1>0, <2>4 DEF LayoutTypeOK
        <3>3. QED
            BY <2>3, <2>4, <3>1, <3>2 DEF Accounted
    <2>5. CASE /\ undo[p].kind = "ref"
               /\ refs[undo[p].ref] = undo[p].next
               /\ refs' = [refs EXCEPT ![undo[p].ref] = undo[p].previous]
        <3>1. undo[p] \in mutations
            BY <1>0, <2>2, <2>5, JournalKinds
        <3>2. \A r \in Refs : refs'[r] # refs[r] =>
                  r = undo[p].ref /\ {refs[r], refs'[r]} = {undo[p].previous, undo[p].next}
            BY <1>0, <2>5 DEF LayoutTypeOK
        <3>3. QED
            BY <2>3, <3>1, <3>2 DEF Accounted
    <2>6. QED
        BY <1>1, <2>1, <2>4, <2>5 DEF UndoReference
<1>2. ASSUME NEW p \in Procs, UndoCommit(p) \/ UndoRecord(p) PROVE Accounted
    <2>1. undo[p] \in imports \cup mutations /\ undo[p].kind = "import"
        BY <1>a, <1>2 DEF UndoCommit, UndoRecord, Grounded, UndoGrounded, UndoLabels
    <2>2. undo[p] \in imports
        BY <1>0, <2>1, JournalKinds
    <2>3. CASE UndoCommit(p)
        BY <2>2, <2>3 DEF UndoCommit, Accounted
    <2>4. CASE UndoRecord(p)
        BY <2>2, <2>4 DEF UndoRecord, Accounted
    <2>5. QED
        BY <1>2, <2>3, <2>4
<1>3. ASSUME NEW p \in Procs, PutContent(p) PROVE Accounted
    BY <1>3 DEF PutContent, Accounted
<1>4. ASSUME NEW p \in Procs, WriteRecord(p) PROVE Accounted
    <2>1. pc[p] = "record" /\ pc[p] \in WriteLabels /\ job[p].kind = "import"
        BY <1>a, <1>4 DEF WriteRecord, WriteLabels, Grounded, JobFits
    <2>2. job[p].digest \notin records =>
              \E j \in imports : j.digest = job[p].digest /\ j.record
        BY <2>1, OwnImport
    <2>3. QED
        BY <1>4, <2>2 DEF WriteRecord, Accounted
<1>5. ASSUME NEW p \in Procs, WriteCommit(p) PROVE Accounted
    <2>1. pc[p] = "commit" /\ pc[p] \in WriteLabels /\ job[p].kind = "import"
        BY <1>a, <1>5 DEF WriteCommit, WriteLabels, Grounded, JobFits
    <2>2. job[p].digest \notin commits =>
              \E j \in imports : j.digest = job[p].digest /\ j.commit
        BY <2>1, OwnImport
    <2>3. QED
        BY <1>5, <2>2 DEF WriteCommit, Accounted
<1>6. ASSUME NEW p \in Procs, WriteReference(p) PROVE Accounted
    <2>1. pc[p] = "reference" /\ pc[p] \in WriteLabels
        BY <1>6 DEF WriteReference, WriteLabels
    <2>2. UNCHANGED <<content, records, commits>>
        BY <1>6 DEF WriteReference
    <2>3. CASE UNCHANGED refs
        BY <2>2, <2>3, NothingChanged
    <2>4. CASE job[p].kind = "import" /\ refs' = [refs EXCEPT ![job[p].ref] = job[p].digest]
        <3>1. job[p].ref # None
            BY <1>a, <2>1, <2>4 DEF Grounded, JobFits
        <3>2. PICK j \in imports :
                  /\ j.digest = job[p].digest /\ j.ref = job[p].ref
                  /\ \/ refs[j.ref] = j.digest
                     \/ refs[j.ref] = None /\ j.reference
            BY <2>1, <2>4, <3>1, OwnImport
        <3>3. \A r \in Refs : refs'[r] # refs[r] =>
                  r = j.ref /\ j.reference /\ {refs[r], refs'[r]} = {None, j.digest}
            BY <1>0, <2>4, <3>2 DEF LayoutTypeOK
        <3>4. QED
            BY <2>2, <3>3 DEF Accounted
    <2>5. CASE job[p].kind = "ref" /\ refs' = [refs EXCEPT ![job[p].ref] = job[p].new]
        <3>1. refs[job[p].ref] = job[p].old
            BY <1>a, <2>1, <2>5 DEF Grounded, RefChangeCovered
        <3>2. CASE job[p].old = job[p].new
            BY <1>0, <2>2, <2>5, <3>1, <3>2, NothingChanged DEF LayoutTypeOK
        <3>3. CASE job[p].old # job[p].new
            <4>0. mutations = {[kind |-> "ref", ref |-> job[p].ref,
                                previous |-> job[p].old, next |-> job[p].new]}
                BY <1>a, <2>1, <2>5, <3>3 DEF Grounded, RefChangeCovered
            <4>1. PICK m \in mutations :
                      m.ref = job[p].ref /\ m.previous = job[p].old /\ m.next = job[p].new
                BY <4>0
            <4>2. \A r \in Refs : refs'[r] # refs[r] =>
                      r = m.ref /\ {refs[r], refs'[r]} = {m.previous, m.next}
                BY <1>0, <2>5, <3>1, <4>1 DEF LayoutTypeOK
            <4>3. QED
                BY <2>2, <4>2 DEF Accounted
        <3>4. QED
            BY <3>2, <3>3
    <2>6. job[p].kind \in {"import", "ref"}
        BY <1>a, <2>1 DEF Grounded, JobFits
    <2>7. QED
        BY <1>6, <2>3, <2>4, <2>5, <2>6 DEF WriteReference, NewTarget
<1>7. ASSUME NEW p \in Procs, GCRecords(p) PROVE Accounted
    <2>1. pc[p] = "gcRecords"
        BY <1>7 DEF GCRecords, RemoveTree, RemoveCommit, RemoveRecord, AtPhase
    <2>2. Journal(p) \in collections
        BY <1>a, <2>1, JournalOnDisk DEF Grounded, JobFits, CollectLabels
    <2>3. ASSUME NEW d \in Digests, NEW k \in 0..2, AtPhase(p, d, k)
          PROVE  d \in Journal(p).plan.delete /\ Journal(p).phase[d] = k
        BY <2>3 DEF AtPhase, Victims
    <2>4. ASSUME NEW d \in Digests, RemoveTree(p, d) PROVE Accounted
        BY <2>4, NothingChanged DEF RemoveTree, NextPhase
    <2>5. ASSUME NEW d \in Digests, RemoveCommit(p, d) PROVE Accounted
        <3>1. d \in Journal(p).plan.delete /\ Journal(p).phase[d] = 1
            BY <2>3, <2>5 DEF RemoveCommit
        <3>2. CASE UNCHANGED commits
            BY <2>5, <3>2, NothingChanged DEF RemoveCommit, NextPhase, disk
        <3>3. CASE commits' = commits \ {d} /\ UNCHANGED <<content, records, refs>>
            BY <2>2, <3>1, <3>3 DEF Accounted
        <3>4. QED
            BY <2>5, <3>2, <3>3 DEF RemoveCommit, NextPhase, disk
    <2>6. ASSUME NEW d \in Digests, RemoveRecord(p, d) PROVE Accounted
        <3>1. d \in Journal(p).plan.delete /\ Journal(p).phase[d] = 2
            BY <2>3, <2>6 DEF RemoveRecord
        <3>2. CASE UNCHANGED records
            BY <2>6, <3>2, NothingChanged DEF RemoveRecord, NextPhase
        <3>3. CASE records' = records \ {d} /\ UNCHANGED <<content, commits, refs>>
            BY <2>2, <3>1, <3>3 DEF Accounted
        <3>4. QED
            BY <2>6, <3>2, <3>3 DEF RemoveRecord, NextPhase
    <2>7. QED
        BY <1>7, <2>4, <2>5, <2>6, NothingChanged DEF GCRecords, disk
<1>8. ASSUME NEW p \in Procs, GCContent(p) PROVE Accounted
    <2>1. Journal(p) \in collections
        BY <1>a, <1>8, JournalOnDisk DEF GCContent, Grounded, JobFits, CollectLabels
    <2>2. CASE UNCHANGED content
        BY <1>8, <2>2, NothingChanged DEF GCContent
    <2>3. ASSUME NEW b \in Journal(p).plan.deleteContent,
                 Journal(p).status[b] = "pending", content' = content \ {b},
                 UNCHANGED <<records, commits, refs>>
          PROVE  Accounted
        BY <2>1, <2>3 DEF Accounted
    <2>4. QED
        BY <1>8, <2>2, <2>3 DEF GCContent
<1>9. ASSUME NEW p \in Procs,
             \/ TakeLock(p) \/ Recover(p) \/ UndoAliases(p) \/ UndoAck(p)
             \/ SaveImportJournal(p) \/ CompareRef(p) \/ RebuildAliases(p) \/ Acknowledge(p)
             \/ GCOpen(p) \/ GCPreflight(p) \/ LeaseTree(p) \/ LeasePayload(p)
      PROVE  Accounted
    BY <1>9, NothingChanged
       DEF TakeLock, LeaseTree, LeasePayload, Recover, UndoAliases, UndoAck, SaveImportJournal, CompareRef,
           RebuildAliases, Acknowledge, GCOpen, GCPreflight, disk
<1>10. ASSUME NEW p \in Procs, Call(p) PROVE Accounted
    BY <1>10, NothingChanged
       DEF Call, StartImport, StartEquivalent, StartRefChange, StartGC, Launch,
           StartLease, Enter, disk
<1>11. ASSUME NEW p \in Procs, Kill(p) \/ WriteError(p) PROVE Accounted
    BY <1>11, NothingChanged DEF Kill, WriteError, disk
<1>12. CASE UNCHANGED core
    BY <1>12, NothingChanged DEF core, disk
<1>13. QED
    BY <1>1, <1>2, <1>3, <1>4, <1>5, <1>6, <1>7, <1>8, <1>9, <1>10, <1>11, <1>12, NextCases
       DEF Step

\* Write-ahead: no import, reference change or collection changes the disk
\* before the journal from which recovery or a resumption accounts for it.
THEOREM WriteAhead == Spec => JournalFirst
<1>1. IInv /\ [Next]_vars => [Accounted]_vars
    BY AccountedStep
<1>2. QED
    BY <1>1, Inductive, PTL DEF Spec, JournalFirst

-----------------------------------------------------------------------------
(* One process acts at a time *)

\* What one process does in a step of the system.
ActBy(p) == Step(p) \/ Call(p) \/ Kill(p) \/ WriteError(p)

\* Nothing changes in a process while another acts.
LEMMA OthersStand ==
    ASSUME ProcTypeOK, NEW p \in Procs, ActBy(p), NEW q \in Procs \ {p}
    PROVE  /\ pc'[q] = pc[q] /\ job'[q] = job[q]
           /\ undo'[q] = undo[q] /\ outcome'[q] = outcome[q]
<1> DEFINE Stands == /\ pc'[q] = pc[q] /\ job'[q] = job[q]
                     /\ undo'[q] = undo[q] /\ outcome'[q] = outcome[q]
<1>1. \A label : GoTo(p, label) \/ Return(p, label) => Stands
    BY DEF GoTo, Return, ProcTypeOK
<1>2. Finish(p) \/ Abandon(p) => Stands
    BY <1>1 DEF Finish, Abandon
<1>3. Fail(p) => Stands
    BY <1>2 DEF Fail, ProcTypeOK
<1>4. \A j : BeginUndo(p, j) \/ Enter(p, j) => Stands
    BY DEF BeginUndo, Enter, ProcTypeOK
<1>5. UNCHANGED procState => Stands
    BY DEF procState
<1> HIDE DEF Stands
<1>6. TakeLock(p) \/ Recover(p) \/ UndoReference(p) \/ UndoCommit(p) \/ UndoRecord(p) => Stands
    <2>1. TakeLock(p) => Stands
        BY DEF TakeLock, Stands, ProcTypeOK
    <2>2. Recover(p) => Stands
        BY <1>1, <1>2, <1>4 DEF Recover
    <2>3. UndoReference(p) \/ UndoCommit(p) \/ UndoRecord(p) => Stands
        BY <1>1, <1>2 DEF UndoReference, UndoCommit, UndoRecord
    <2>4. QED
        BY <2>1, <2>2, <2>3
<1>7. UndoAliases(p) \/ UndoAck(p) => Stands
    <2>1. UndoAliases(p) => Stands
        BY <1>1, <1>2, <1>5 DEF UndoAliases
    <2>2. UndoAck(p) => Finish(p) \/ Stands
        BY DEF UndoAck, Stands, ProcTypeOK
    <2>3. QED
        BY <1>2, <2>1, <2>2
<1>8. PutContent(p) \/ SaveImportJournal(p) \/ WriteRecord(p) \/ WriteCommit(p) => Stands
    BY <1>1, <1>2, <1>3, <1>5 DEF PutContent, SaveImportJournal, WriteRecord, WriteCommit
<1>9. CompareRef(p) \/ WriteReference(p) \/ RebuildAliases(p) \/ Acknowledge(p) => Stands
    BY <1>1, <1>2, <1>3, <1>5 DEF CompareRef, WriteReference, RebuildAliases, Acknowledge
<1>10. GCOpen(p) \/ GCPreflight(p) \/ GCRecords(p) \/ GCContent(p) => Stands
    <2>1. \A d : NextPhase(p, d) => Stands
        BY <1>5 DEF NextPhase
    <2>2. \A d : RemoveTree(p, d) \/ RemoveCommit(p, d) \/ RemoveRecord(p, d) => Stands
        BY <1>2, <1>5, <2>1 DEF RemoveTree, RemoveCommit, RemoveRecord
    <2>3. QED
        BY <1>1, <1>2, <1>5, <2>2 DEF GCOpen, GCPreflight, GCRecords, GCContent
<1>11. Call(p) => Stands
    <2>1. Launch(p) => Stands
        BY <1>1 DEF Launch, Stands, ProcTypeOK
    <2>2. QED
        BY <1>4, <1>5, <2>1
           DEF Call, StartImport, StartEquivalent, StartRefChange, StartGC, StartLease
<1>12. Kill(p) \/ WriteError(p) => Stands
    BY <1>1, <1>2, <1>3 DEF Kill, WriteError, Stands, ProcTypeOK
<1>13. LeaseTree(p) \/ LeasePayload(p) => Stands
    BY <1>2 DEF LeaseTree, LeasePayload
<1>14. QED
    BY <1>6, <1>7, <1>8, <1>9, <1>10, <1>11, <1>12, <1>13 DEF ActBy, Step, Stands

\* Actions that write no file the invariants speak of.
Bare(p) ==
    \/ TakeLock(p) \/ Recover(p) \/ GCPreflight(p) \/ LeaseTree(p) \/ LeasePayload(p)
    \/ Call(p) \/ Kill(p) \/ WriteError(p)

\* Such a step leaves the journals, the references and the index as they are.
LEMMA BareStep ==
    ASSUME NEW p \in Procs, Bare(p)
    PROVE  UNCHANGED <<content, records, commits, refs, aliases, imports, mutations,
                       collections>>
BY DEF Bare, TakeLock, Recover, GCPreflight, LeaseTree, LeasePayload, Call, Kill, WriteError,
       StartImport, StartEquivalent, StartRefChange, StartGC, StartLease, Launch, Enter, disk

\* What a collection does with one candidate: remove a tree, an alias, the
\* marker or the record, or count the phase that removed it.
CandidateStep(p, d) ==
    /\ d \in Victims(Journal(p)) /\ Unleased(d) /\ materialized \ {d} \subseteq materialized'
    /\ UNCHANGED procState
    /\ \/ UNCHANGED <<records, commits, aliases, collections>>
       \/ /\ Journal(p).phase[d] = 1
          /\ SnapshotReadable /\ ~Referenced(Snapshot, d)
          /\ UNCHANGED <<records, collections>>
          /\ \/ /\ UNCHANGED commits
                /\ \E a \in Names : aliases' = [aliases EXCEPT ![a] = @ \ {d}]
             \/ /\ UNCHANGED aliases
                /\ \A a \in Names : d \notin aliases[a]
                /\ commits' = commits \ {d}
       \/ /\ Journal(p).phase[d] = 2
          /\ UNCHANGED <<commits, aliases, collections>>
          /\ records' = records \ {d}
       \/ /\ UNCHANGED <<records, commits, aliases>>
          /\ Journal(p).phase[d] \in 0..2
          /\ Journal(p).phase[d] = 1 => d \notin commits /\ \A a \in Names : d \notin aliases[a]
          /\ Journal(p).phase[d] = 2 => d \notin records
          /\ SaveGC(p, [Journal(p) EXCEPT !.phase[d] = @ + 1])

\* The record steps of a collection work on one candidate, give up or are done.
LEMMA GCRecordsCases ==
    ASSUME NEW p \in Procs, GCRecords(p)
    PROVE  /\ pc[p] = "gcRecords"
           /\ UNCHANGED <<content, refs, imports, mutations, faults>>
           /\ \/ /\ UNCHANGED disk /\ Finish(p)
                 /\ \/ ~SnapshotReadable
                    \/ \E d \in Victims(Journal(p)) : Referenced(Snapshot, d)
              \/ UNCHANGED disk /\ GoTo(p, "gcContent") /\ Victims(Journal(p)) = {}
              \/ \E d \in Digests : CandidateStep(p, d)
<1> DEFINE Same == UNCHANGED <<content, refs, imports, mutations, faults>>
<1>1. ASSUME NEW d \in Digests, RemoveTree(p, d)
      PROVE  pc[p] = "gcRecords" /\ Same /\ CandidateStep(p, d)
    BY <1>1 DEF RemoveTree, AtPhase, NextPhase, CandidateStep
<1>2. ASSUME NEW d \in Digests, RemoveRecord(p, d)
      PROVE  pc[p] = "gcRecords" /\ Same /\ CandidateStep(p, d)
    BY <1>2 DEF RemoveRecord, AtPhase, NextPhase, CandidateStep
<1>3. ASSUME NEW d \in Digests, RemoveCommit(p, d)
      PROVE  /\ pc[p] = "gcRecords" /\ Same
             /\ \/ /\ UNCHANGED disk /\ Finish(p)
                   /\ \/ ~SnapshotReadable
                      \/ d \in Victims(Journal(p)) /\ Referenced(Snapshot, d)
                \/ CandidateStep(p, d)
    BY <1>3 DEF RemoveCommit, AtPhase, NextPhase, CandidateStep, disk
<1>4. ASSUME pc[p] = "gcRecords", UNCHANGED <<disk, faults>>
      PROVE  Same
    BY <1>4 DEF disk
<1> HIDE DEF Same
<1>5. (\E d \in Digests : RemoveTree(p, d) \/ RemoveCommit(p, d) \/ RemoveRecord(p, d))
      => /\ pc[p] = "gcRecords" /\ Same
         /\ \/ /\ UNCHANGED disk /\ Finish(p)
               /\ \/ ~SnapshotReadable
                  \/ \E d \in Victims(Journal(p)) : Referenced(Snapshot, d)
            \/ \E d \in Digests : CandidateStep(p, d)
    BY <1>1, <1>2, <1>3, Zenon
<1>6. QED
    BY <1>4, <1>5 DEF GCRecords, Same

\* Saving a journal under its plan keeps the journals apart and is what the
\* collection works with next.
LEMMA SavedJournal ==
    ASSUME OneJournalPerPlan, NEW p \in Procs, \E j \in collections : j.plan = job[p].plan,
           NEW k, k.plan = job[p].plan, SaveGC(p, k), UNCHANGED job
    PROVE  OneJournalPerPlan' /\ Journal(p)' = k /\ k \in collections'
<1>1. Journal(p) \in collections /\ Journal(p).plan = job[p].plan
    BY JournalOnDisk
<1>2. \A j \in collections' : j = k \/ (j \in collections /\ j.plan # job[p].plan)
    BY <1>1 DEF SaveGC, OneJournalPerPlan
<1>3. OneJournalPerPlan' /\ k \in collections'
    BY <1>2 DEF OneJournalPerPlan, SaveGC
<1>4. \A j \in collections' : j.plan = job'[p].plan <=> j = k
    BY <1>2
<1>5. Journal(p)' = k
    BY <1>3, <1>4 DEF Journal
<1>6. QED
    BY <1>3, <1>5

\* What GCContent saves of a content object leaves the plan and the phases.
LEMMA GCContentCases ==
    ASSUME LayoutTypeOK, NEW p \in Procs, \E j \in collections : j.plan = job[p].plan,
           GCContent(p)
    PROVE  /\ pc[p] = "gcContent"
           /\ UNCHANGED <<records, commits, refs, aliases, materialized, imports,
                          mutations, faults>>
           /\ \/ /\ Finish(p) /\ UNCHANGED <<content, collections>>
                 /\ \/ ~SnapshotReadable
                    \/ \E b \in Journal(p).plan.deleteContent : b \in GCProtected(Journal(p).plan)
              \/ /\ Finish(p) /\ UNCHANGED content
                 /\ collections' = collections \ {Journal(p)}
              \/ /\ UNCHANGED <<procState, collections>>
                 /\ \E b \in Journal(p).plan.deleteContent \ GCProtected(Journal(p).plan) :
                       content' = content \ {b}
              \/ /\ UNCHANGED <<procState, content>>
                 /\ \E k \in GCJournal : /\ k.plan = Journal(p).plan
                                         /\ k.phase = Journal(p).phase
                                         /\ SaveGC(p, k)
<1>1. Journal(p) \in GCJournal
    BY JournalOnDisk DEF LayoutTypeOK
<1>2. Journal(p).plan.deleteContent \subseteq Blobs
    BY <1>1 DEF GCJournal, GCPlan
<1>3. ASSUME NEW b \in Blobs, NEW s \in {"deleted", "retained"}
      PROVE  LET k == [Journal(p) EXCEPT !.status[b] = s]
             IN k \in GCJournal /\ k.plan = Journal(p).plan /\ k.phase = Journal(p).phase
    BY <1>1 DEF GCJournal
<1> DEFINE pending == {b \in Journal(p).plan.deleteContent : Journal(p).status[b] = "pending"}
<1>4. ASSUME NEW b \in pending, NEW s \in {"deleted", "retained"},
             SaveGC(p, [Journal(p) EXCEPT !.status[b] = s])
      PROVE  \E k \in GCJournal : /\ k.plan = Journal(p).plan
                                  /\ k.phase = Journal(p).phase
                                  /\ SaveGC(p, k)
    BY <1>2, <1>3, <1>4
<1>5. QED
    BY <1>4 DEF GCContent

-----------------------------------------------------------------------------
(* References with an unacknowledged change *)

\* Every step keeps the references that unacknowledged changes claim for them:
\* the lock keeps others out, and rollback puts back only what is still claimed.
LEMMA ChangesOwnedStep ==
    ASSUME BInv, NEW p \in Procs, ActBy(p)
    PROVE  ChangesOwned'
<1>0. LayoutTypeOK /\ ProcTypeOK /\ ChangesOwned /\ SingleTransaction /\ Grounded(p)
    BY DEF BInv, IInv, CoreTypeOK, JournalDiscipline, Bookkeeping
<1>1. CASE UNCHANGED refs /\ imports' \subseteq imports /\ mutations' \subseteq mutations
    BY <1>0, <1>1 DEF ChangesOwned, Owned
<1>2. CASE UndoReference(p)
    <2>1. undo[p] \in imports \cup mutations
        BY <1>0, <1>2 DEF UndoReference, Grounded, UndoGrounded, UndoLabels
    <2>2. UNCHANGED <<imports, mutations>>
        BY <1>2 DEF UndoReference
    <2>3. CASE undo[p].kind = "import"
        <3>1. imports = {undo[p]} /\ mutations = {}
            BY <1>0, <2>1, <2>3, JournalKinds DEF SingleTransaction
        <3>2. UNCHANGED refs \/ (undo[p].reference /\ refs' = [refs EXCEPT ![undo[p].ref] = None])
            BY <1>2, <2>3 DEF UndoReference
        <3>3. undo[p].ref \in Refs \cup {None}
            BY <1>0, <2>3, UndoTypes DEF ImportJournal
        <3>4. QED
            BY <1>0, <2>2, <3>1, <3>2, <3>3 DEF ChangesOwned, LayoutTypeOK
    <2>4. CASE undo[p].kind = "ref"
        <3>1. imports = {} /\ mutations = {undo[p]}
            BY <1>0, <2>1, <2>4, JournalKinds DEF SingleTransaction
        <3>2. UNCHANGED refs \/ refs' = [refs EXCEPT ![undo[p].ref] = undo[p].previous]
            BY <1>2, <2>4 DEF UndoReference
        <3>3. undo[p].ref \in Refs
            BY <1>0, <2>4, UndoTypes DEF RefMutation
        <3>4. QED
            BY <1>0, <2>2, <3>1, <3>2, <3>3 DEF ChangesOwned, Owned, LayoutTypeOK
    <2>5. QED
        BY <1>0, <2>1, <2>3, <2>4, JournalKinds
<1>3. CASE WriteReference(p)
    <2>1. pc[p] = "reference" /\ UNCHANGED <<imports, mutations>>
          /\ (UNCHANGED refs \/ refs' = [refs EXCEPT ![job[p].ref] = NewTarget(job[p])])
        BY <1>3 DEF WriteReference
    <2>2. CASE job[p].kind = "import"
        <3>1. /\ mutations = {}
              /\ \E j \in imports :
                    imports = {j} /\ j.digest = job[p].digest /\ j.ref = job[p].ref
            BY <1>0, <2>1, <2>2 DEF Grounded, ImportCovered, WriteLabels
        <3>2. job[p].ref \in Refs
            BY <1>0, <2>1, <2>2, JobTypes DEF Grounded, JobFits, ImportJob
        <3>3. QED
            BY <1>0, <2>1, <2>2, <3>1, <3>2 DEF ChangesOwned, LayoutTypeOK, NewTarget
    <2>3. CASE job[p].kind = "ref"
        <3>1. imports = {} /\ \A m \in mutations : m.ref = job[p].ref /\ m.next = job[p].new
            BY <1>0, <2>1, <2>3 DEF Grounded, RefChangeCovered, WriteLabels
        <3>2. job[p].ref \in Refs
            BY <1>0, <2>1, <2>3, JobTypes DEF RefJob
        <3>3. QED
            BY <1>0, <2>1, <2>3, <3>1, <3>2 DEF ChangesOwned, Owned, LayoutTypeOK, NewTarget
    <2>4. QED
        BY <1>0, <2>1, <2>2, <2>3 DEF Grounded, JobFits
<1>4. CASE SaveImportJournal(p)
    <2>1. imports = {} /\ mutations = {}
        BY <1>0, <1>4 DEF SaveImportJournal, Grounded, CleanStart
    <2>2. CASE UNCHANGED imports
        BY <1>1, <1>4, <2>2 DEF SaveImportJournal
    <2>3. \A r : Target(r) = refs[r]
        BY <2>1 DEF Target
    <2>4. ASSUME NEW j \in imports', j.reference, ~UNCHANGED imports
          PROVE  j.ref # None /\ refs[j.ref] = None
        <3> DEFINE previous == IF job[p].ref = None THEN None ELSE Target(job[p].ref)
                   k(b) == [kind |-> "import", digest |-> job[p].digest, ref |-> job[p].ref,
                            record |-> job[p].digest \notin records,
                            commit |-> job[p].digest \notin commits, reference |-> b]
        <3>1. j = k(previous = None /\ job[p].ref # None)
            BY <1>4, <2>1, <2>4 DEF SaveImportJournal
        <3>2. j.ref = job[p].ref /\ (j.reference => previous = None /\ job[p].ref # None)
            BY <3>1
        <3>3. QED
            BY <2>3, <2>4, <3>2
    <2>5. UNCHANGED <<refs, mutations>>
        BY <1>4 DEF SaveImportJournal
    <2>6. QED
        BY <2>1, <2>2, <2>4, <2>5 DEF ChangesOwned
<1>5. CASE CompareRef(p)
    <2>1. imports = {} /\ mutations = {}
        BY <1>0, <1>5 DEF CompareRef, Grounded, CleanStart
    <2>2. QED
        BY <1>5, <2>1 DEF CompareRef, ChangesOwned, Owned
<1>6. CASE Bare(p)
    BY <1>1, <1>6, BareStep
<1>7. CASE GCRecords(p) \/ GCContent(p)
    BY <1>1, <1>7, GCRecordsCases DEF GCContent
<1>8. CASE \/ UndoCommit(p) \/ UndoRecord(p) \/ UndoAliases(p) \/ UndoAck(p)
           \/ PutContent(p) \/ WriteRecord(p) \/ WriteCommit(p) \/ RebuildAliases(p)
           \/ Acknowledge(p) \/ GCOpen(p)
    BY <1>1, <1>8 DEF UndoCommit, UndoRecord, UndoAliases, UndoAck, PutContent,
           WriteRecord, WriteCommit, RebuildAliases, Acknowledge, GCOpen
<1>9. QED
    BY <1>2, <1>3, <1>4, <1>5, <1>6, <1>7, <1>8 DEF ActBy, Step, Bare

-----------------------------------------------------------------------------
(* One journal for each plan *)

\* The plan of a running collection is one whose journal is on disk.
LEMMA Collecting ==
    ASSUME IInv, NEW p \in Procs, pc[p] \in CollectLabels
    PROVE  /\ \E j \in collections : j.plan = job[p].plan
           /\ Journal(p) \in collections /\ Journal(p).plan = job[p].plan
           /\ Journal(p) \in GCJournal
BY JournalOnDisk DEF IInv, CoreTypeOK, LayoutTypeOK, JournalDiscipline, Grounded, JobFits

\* A collection saves only over the journal of its own plan, or starts one for
\* a plan that has none.
LEMMA OneJournalStep ==
    ASSUME BInv, NEW p \in Procs, ActBy(p)
    PROVE  OneJournalPerPlan'
<1>0. OneJournalPerPlan /\ IInv
    BY DEF BInv, Bookkeeping
<1>1. CASE collections' \subseteq collections
    BY <1>0, <1>1 DEF OneJournalPerPlan
<1>2. ASSUME pc[p] \in CollectLabels, NEW k, k.plan = Journal(p).plan, SaveGC(p, k),
             UNCHANGED procState
      PROVE  OneJournalPerPlan'
    BY <1>0, <1>2, Collecting, SavedJournal DEF procState
<1>3. CASE GCOpen(p)
    BY <1>0, <1>3 DEF GCOpen, OneJournalPerPlan, FreshGCJournal
<1>4. CASE GCRecords(p)
    <2>1. pc[p] \in CollectLabels
        BY <1>4, GCRecordsCases DEF CollectLabels
    <2>2. ASSUME NEW d \in Digests, CandidateStep(p, d) PROVE OneJournalPerPlan'
        <3>1. [Journal(p) EXCEPT !.phase[d] = @ + 1].plan = Journal(p).plan
            BY <1>0, <2>1, Collecting DEF GCJournal
        <3>2. QED
            BY <1>1, <1>2, <2>1, <2>2, <3>1 DEF CandidateStep
    <2>3. QED
        BY <1>1, <1>4, <2>2, GCRecordsCases DEF disk
<1>5. CASE GCContent(p)
    <2>1. pc[p] \in CollectLabels
        BY <1>5 DEF GCContent, CollectLabels
    <2>2. QED
        BY <1>0, <1>1, <1>2, <1>5, <2>1, Collecting, GCContentCases DEF IInv, CoreTypeOK
<1>6. CASE Bare(p)
    BY <1>1, <1>6, BareStep
<1>7. CASE \/ UndoReference(p) \/ UndoCommit(p) \/ UndoRecord(p) \/ UndoAliases(p)
           \/ UndoAck(p) \/ PutContent(p) \/ SaveImportJournal(p) \/ WriteRecord(p)
           \/ WriteCommit(p) \/ CompareRef(p) \/ WriteReference(p) \/ RebuildAliases(p)
           \/ Acknowledge(p)
    BY <1>1, <1>7 DEF UndoReference, UndoCommit, UndoRecord, UndoAliases, UndoAck,
           PutContent, SaveImportJournal, WriteRecord, WriteCommit, CompareRef,
           WriteReference, RebuildAliases, Acknowledge
<1>8. QED
    BY <1>3, <1>4, <1>5, <1>6, <1>7 DEF ActBy, Step, Bare

-----------------------------------------------------------------------------
(* Names *)

\* The rebuilt index follows the records and the references.
LEMMA RebuiltSame ==
    ASSUME UNCHANGED <<records, refs>>
    PROVE  RebuiltAliases' = RebuiltAliases
BY DEF RebuiltAliases, AliasMap

\* A record that is gone leaves the rebuilt index, and nothing enters it.
LEMMA RebuiltFewer ==
    ASSUME UNCHANGED refs, records' \subseteq records, NEW a \in Names
    PROVE  RebuiltAliases'[a] = RebuiltAliases[a] \cap records'
BY DEF RebuiltAliases, AliasMap

\* A rebuild writes what the rebuilt index holds.
LEMMA WriteAliasCovers ==
    ASSUME LayoutTypeOK, WriteAlias, NEW a \in Names
    PROVE  aliases'[a] \in {aliases[a], RebuiltAliases[a]}
BY DEF WriteAlias, LayoutTypeOK

\* A saved phase leaves the plan, and counts up.
LEMMA CountedPhase ==
    ASSUME IInv, NEW p \in Procs, pc[p] \in CollectLabels, NEW d \in Digests,
           Journal(p).phase[d] \in 0..2
    PROVE  LET k == [Journal(p) EXCEPT !.phase[d] = @ + 1]
           IN /\ k \in GCJournal /\ k.plan = Journal(p).plan
              /\ k.phase[d] = Journal(p).phase[d] + 1
              /\ \A e \in Digests \ {d} : k.phase[e] = Journal(p).phase[e]
<1>1. Journal(p) \in GCJournal
    BY Collecting
<1>2. Journal(p).phase \in [Digests -> 0..3]
    BY <1>1 DEF GCJournal
<1>3. Journal(p).phase[d] + 1 \in 0..3
    OBVIOUS
<1>4. QED
    BY <1>1, <1>2, <1>3 DEF GCJournal

\* The index falls short of the rebuilt one only while a change is
\* unacknowledged, or by the names of a half-collected artifact.
LEMMA NamesCoveredStep ==
    ASSUME BInv, NEW p \in Procs, ActBy(p), imports' = {}, mutations' = {}
    PROVE  \A a \in Names : RebuiltAliases'[a] \subseteq aliases'[a] \cup HalfCollected'
<1>0. /\ LayoutTypeOK /\ ProcTypeOK /\ IInv /\ NamesCovered /\ Grounded(p) /\ Progress(p)
      /\ OneJournalPerPlan
    BY DEF BInv, IInv, CoreTypeOK, JournalDiscipline, Bookkeeping
<1> DEFINE Goal == \A a \in Names : RebuiltAliases'[a] \subseteq aliases'[a] \cup HalfCollected'
<1>1. CASE aliases = RebuiltAliases /\ UNCHANGED <<records, refs, aliases>>
    BY <1>1, RebuiltSame
<1>2. CASE UNCHANGED <<records, refs, aliases, imports, mutations, collections>>
    BY <1>0, <1>2, RebuiltSame DEF NamesCovered, HalfCollected
<1>3. CASE UndoAck(p) \/ Acknowledge(p)
    BY <1>0, <1>1, <1>3 DEF UndoAck, Acknowledge, Progress, AliasesDone
<1>4. CASE Bare(p)
    BY <1>2, <1>4, BareStep
<1>5. CASE PutContent(p) \/ SaveImportJournal(p) \/ CompareRef(p)
    <2>1. imports = {} /\ mutations = {} /\ UNCHANGED <<records, refs, aliases, collections>>
        BY <1>0, <1>5
           DEF PutContent, SaveImportJournal, CompareRef, Grounded, CleanStart
    <2>2. QED
        BY <1>2, <2>1
<1>6. CASE imports = {} /\ mutations = {} /\
           (UndoReference(p) \/ UndoCommit(p) \/ UndoRecord(p) \/ UndoAliases(p))
    BY <1>0, <1>6 DEF UndoReference, UndoCommit, UndoRecord, UndoAliases, Grounded,
                      UndoGrounded, UndoLabels
<1>7. CASE imports = {} /\ (WriteRecord(p) \/ WriteCommit(p))
    BY <1>0, <1>7 DEF WriteRecord, WriteCommit, Grounded, ImportCovered, JobFits, WriteLabels
<1>8. CASE imports = {} /\ mutations = {} /\ WriteReference(p)
    <2>1. job[p].kind = "ref" /\ refs[job[p].ref] = job[p].old
        BY <1>0, <1>8 DEF WriteReference, Grounded, JobFits, ImportCovered,
                          RefChangeCovered, WriteLabels
    <2>2. job[p].old = job[p].new
        BY <1>0, <1>8, <2>1 DEF WriteReference, Grounded, RefChangeCovered, WriteLabels
    <2>3. UNCHANGED refs
        BY <1>0, <1>8, <2>1, <2>2 DEF WriteReference, NewTarget, LayoutTypeOK
    <2>4. QED
        BY <1>2, <1>8, <2>3 DEF WriteReference
<1>9. CASE imports = {} /\ mutations = {} /\ RebuildAliases(p)
    <2>1. UNCHANGED <<records, refs, collections>> /\ (WriteAlias \/ UNCHANGED aliases)
        BY <1>9 DEF RebuildAliases
    <2>2. QED
        BY <1>0, <1>9, <2>1, RebuiltSame, WriteAliasCovers DEF NamesCovered, HalfCollected
<1>10. CASE imports = {} /\ mutations = {} /\ GCOpen(p)
    <2>1. UNCHANGED <<records, refs, aliases>> /\ collections \subseteq collections'
        BY <1>10 DEF GCOpen
    <2>2. QED
        BY <1>0, <1>10, <2>1, RebuiltSame DEF NamesCovered, HalfCollected
<1>11. CASE imports = {} /\ mutations = {} /\ GCRecords(p)
    <2>1. pc[p] \in CollectLabels /\ UNCHANGED refs
        BY <1>11, GCRecordsCases DEF CollectLabels
    <2>2. Journal(p) \in collections /\ Journal(p) \in GCJournal
        BY <1>0, <2>1, Collecting
    <2>3. CASE UNCHANGED disk
        BY <1>2, <2>3 DEF disk
    <2>4. ASSUME NEW d \in Digests, CandidateStep(p, d) PROVE Goal
        <3>1. d \in Journal(p).plan.delete
            BY <2>4 DEF CandidateStep, Victims
        <3>2. CASE UNCHANGED <<records, commits, aliases, collections>>
            BY <1>2, <1>11, <2>1, <3>2, GCRecordsCases
        <3>3. CASE /\ Journal(p).phase[d] = 1 /\ UNCHANGED <<records, collections>>
                   /\ UNCHANGED aliases \/ \E a \in Names : aliases' = [aliases EXCEPT ![a] = @ \ {d}]
            <4>1. d \in HalfCollected /\ HalfCollected' = HalfCollected
                BY <2>2, <3>1, <3>3 DEF HalfCollected
            <4>2. \A a \in Names : aliases[a] \ {d} \subseteq aliases'[a]
                BY <1>0, <3>3 DEF LayoutTypeOK
            <4>3. QED
                BY <1>0, <1>11, <2>1, <3>3, <4>1, <4>2, RebuiltSame DEF NamesCovered
        <3>4. CASE UNCHANGED <<commits, aliases, collections>> /\ records' = records \ {d}
            <4>1. HalfCollected' = HalfCollected
                BY <3>4 DEF HalfCollected
            <4>2. QED
                BY <1>0, <1>11, <2>1, <3>4, <4>1, RebuiltFewer DEF NamesCovered
        <3>5. CASE /\ UNCHANGED <<records, commits, aliases>>
                   /\ Journal(p).phase[d] \in 0..2
                   /\ SaveGC(p, [Journal(p) EXCEPT !.phase[d] = @ + 1])
            <4> DEFINE k == [Journal(p) EXCEPT !.phase[d] = @ + 1]
            <4>1. /\ k.plan = Journal(p).plan /\ k.phase[d] = Journal(p).phase[d] + 1
                  /\ \A e \in Digests \ {d} : k.phase[e] = Journal(p).phase[e]
                BY <1>0, <2>1, <3>5, CountedPhase
            <4>2. collections' = (collections \ {Journal(p)}) \cup {k}
                BY <3>5 DEF SaveGC
            <4> HIDE DEF k
            <4>3. ASSUME NEW e \in Digests, NEW j \in collections,
                         e \in j.plan.delete, j.phase[e] > 0
                  PROVE  \E i \in collections' : e \in i.plan.delete /\ i.phase[e] > 0
                <5>1. CASE j # Journal(p)
                    BY <4>2, <4>3, <5>1
                <5>2. CASE j = Journal(p)
                    <6>1. k.phase[e] > 0
                        BY <3>5, <4>1, <4>3, <5>2
                    <6>2. QED
                        BY <4>1, <4>2, <4>3, <5>2, <6>1
                <5>3. QED
                    BY <5>1, <5>2
            <4>4. HalfCollected \subseteq HalfCollected'
                BY <4>3 DEF HalfCollected
            <4>5. QED
                BY <1>0, <1>11, <2>1, <3>5, <4>4, RebuiltSame DEF NamesCovered
        <3>6. QED
            BY <2>4, <3>2, <3>3, <3>4, <3>5 DEF CandidateStep
    <2>5. QED
        BY <1>11, <2>3, <2>4, GCRecordsCases
<1>12. CASE imports = {} /\ mutations = {} /\ GCContent(p)
    <2>1. pc[p] = "gcContent" /\ pc[p] \in CollectLabels
          /\ UNCHANGED <<records, refs, aliases, imports, mutations>>
        BY <1>12 DEF GCContent, CollectLabels
    <2>2. /\ Journal(p) \in collections /\ Journal(p) \in GCJournal
          /\ \E j \in collections : j.plan = job[p].plan
        BY <1>0, <2>1, Collecting
    <2>3. CASE UNCHANGED collections
        BY <1>2, <2>1, <2>3
    <2>4. CASE collections' = collections \ {Journal(p)}
        <3>1. \A d \in Journal(p).plan.delete : d \notin records
            BY <1>0, <2>1 DEF Progress, CollectDone
        <3>2. \A a \in Names : RebuiltAliases[a] \subseteq records
            BY DEF RebuiltAliases, AliasMap
        <3>3. HalfCollected \subseteq HalfCollected' \cup Journal(p).plan.delete
            BY <2>4 DEF HalfCollected
        <3>4. QED
            BY <1>0, <1>12, <2>1, <3>1, <3>2, <3>3, RebuiltSame DEF NamesCovered
    <2>5. ASSUME NEW k \in GCJournal, k.plan = Journal(p).plan, k.phase = Journal(p).phase,
                 SaveGC(p, k)
          PROVE  Goal
        <3>1. HalfCollected \subseteq HalfCollected'
            BY <2>5 DEF HalfCollected, SaveGC
        <3>2. QED
            BY <1>0, <1>12, <2>1, <3>1, RebuiltSame DEF NamesCovered
    <2>6. QED
        BY <1>0, <1>12, <2>2, <2>3, <2>4, <2>5, GCContentCases
<1>13. CASE ~(imports = {} /\ mutations = {}) /\ ~UndoAck(p) /\ ~Acknowledge(p)
    <2>1. UNCHANGED <<imports, mutations>> \/ SaveImportJournal(p) \/ CompareRef(p)
        BY <1>13, BareStep, GCRecordsCases
           DEF ActBy, Step, Bare, UndoReference, UndoCommit, UndoRecord, UndoAliases,
               PutContent, WriteRecord, WriteCommit, WriteReference, RebuildAliases,
               GCOpen, GCContent
    <2>2. QED
        BY <1>5, <1>13, <2>1
<1>14. QED
    BY <1>3, <1>4, <1>5, <1>6, <1>7, <1>8, <1>9, <1>10, <1>11, <1>12, <1>13
       DEF ActBy, Step, Bare

-----------------------------------------------------------------------------
(* What is written and taken back *)

\* Outside an operation a process has nothing to show for itself.
LEMMA OutsideProgress ==
    ASSUME NEW p \in Procs, pc[p] \notin Active, outcome[p] # "dirty"
    PROVE  Progress(p)
BY ActiveLabels DEF Progress, ImportDone, RefChangeDone, UndoDone, CollectDone, AliasesDone,
   UndoLabels, WriteLabels

\* A process that returns or dies has nothing to show for itself.
LEMMA ReturnProgress ==
    ASSUME ProcTypeOK, NEW p \in Procs, NEW label \in {"idle", "down"}, Return(p, label)
    PROVE  Progress(p)'
<1>1. pc'[p] \notin Active /\ outcome'[p] # "dirty"
    BY DEF Return, ProcTypeOK, Active
<1>2. QED
    BY <1>1, ActiveLabels DEF Progress, ImportDone, RefChangeDone, UndoDone, CollectDone,
          AliasesDone, UndoLabels, WriteLabels

\* Nor has a process that ends its operation.
LEMMA FinishProgress ==
    ASSUME ProcTypeOK, NEW p \in Procs, Finish(p) \/ Abandon(p)
    PROVE  Progress(p)'
BY ReturnProgress DEF Finish, Abandon

\* A failing operation turns to its rollback.
LEMMA FailProgress ==
    ASSUME ProcTypeOK, NEW p \in Procs, Fail(p)
    PROVE  Progress(p)'
<1>1. CASE Finish(p)
    BY <1>1, FinishProgress
<1>2. CASE /\ outcome' = [outcome EXCEPT ![p] = "failed"]
           /\ pc' = [pc EXCEPT ![p] = "undoReference"]
    <2>1. pc'[p] = "undoReference" /\ outcome'[p] = "failed"
        BY <1>2 DEF ProcTypeOK
    <2>2. QED
        BY <2>1 DEF Progress, ImportDone, RefChangeDone, UndoDone, CollectDone, AliasesDone,
               UndoLabels, WriteLabels, CollectLabels
<1>3. QED
    BY <1>1, <1>2 DEF Fail

\* Nothing a process has to show changes while another acts: it has no claim,
\* or the other is outside every operation.
LEMMA OthersProgress ==
    ASSUME BInv, NEW p \in Procs, ActBy(p), NEW q \in Procs \ {p}
    PROVE  Progress(q)'
<1>0. /\ LayoutTypeOK /\ ProcTypeOK /\ JournalDiscipline /\ Progress(q)
      /\ outcome[q] = "dirty" => pc[q] \in {"undoCommit", "undoRecord"}
    BY DEF BInv, IInv, CoreTypeOK, Bookkeeping, Progress, UndoDone
<1>1. /\ pc'[q] = pc[q] /\ job'[q] = job[q]
      /\ undo'[q] = undo[q] /\ outcome'[q] = outcome[q]
    BY <1>0, OthersStand
<1>2. CASE pc[p] \in Active
    <2>1. pc[q] \notin Active
        BY <1>0, <1>2, Alone DEF JournalDiscipline
    <2>2. outcome[q] # "dirty"
        BY <1>0, <2>1 DEF Active, Labels
    <2>3. pc'[q] \notin Active /\ outcome'[q] # "dirty"
        BY <1>1, <2>1, <2>2
    <2>4. QED
        BY <2>3, ActiveLabels DEF Progress, ImportDone, RefChangeDone, UndoDone,
               CollectDone, AliasesDone, UndoLabels, WriteLabels
<1>3. CASE pc[p] \notin Active
    <2>0. pc[p] \in {"down", "idle", "wait"}
        BY <1>0, <1>3 DEF ProcTypeOK, Active
    <2>1. Bare(p)
        BY <2>0, GCRecordsCases
           DEF ActBy, Step, Bare, UndoReference, UndoCommit, UndoRecord, UndoAliases, UndoAck,
               PutContent, SaveImportJournal, WriteRecord, WriteCommit, CompareRef,
               WriteReference, RebuildAliases, Acknowledge, GCOpen, GCContent
    <2>2. UNCHANGED <<content, records, commits, refs, aliases, collections>>
        BY <2>1, BareStep
    <2>3. Journal(q)' = Journal(q) /\ RebuiltAliases' = RebuiltAliases
        BY <1>1, <2>2, RebuiltSame DEF Journal
    <2>4. QED
        BY <1>0, <1>1, <2>2, <2>3
           DEF Progress, ImportDone, RefChangeDone, UndoDone, CollectDone, AliasesDone
<1>4. QED
    BY <1>2, <1>3

\* What an import finds written when it turns to its next step.
LEMMA ImportProgressStep ==
    ASSUME BInv, NEW p \in Procs,
           \/ PutContent(p) \/ SaveImportJournal(p) \/ WriteRecord(p) \/ WriteCommit(p)
    PROVE  Progress(p)'
<1>0. /\ LayoutTypeOK /\ ProcTypeOK /\ Grounded(p) /\ Progress(p)
      /\ outcome[p] = "dirty" => pc[p] \in {"undoCommit", "undoRecord"}
    BY DEF BInv, IInv, CoreTypeOK, JournalDiscipline, Bookkeeping, Progress, UndoDone
<1>1. Finish(p) \/ Fail(p) => Progress(p)'
    BY <1>0, FinishProgress, FailProgress
<1>2. ASSUME PutContent(p), UNCHANGED procState PROVE Progress(p)'
    BY <1>0, <1>2
       DEF PutContent, procState, Progress, ImportDone, RefChangeDone, UndoDone, CollectDone,
           AliasesDone, UndoLabels, WriteLabels, CollectLabels
<1>3. ASSUME NEW label \in {"record", "commit", "reference", "aliases"}, GoTo(p, label),
             pc[p] \in {"put", "record", "commit"}, job[p].kind = "import",
             ContentOf(job[p].digest) \subseteq content',
             label # "record" => job[p].digest \in records',
             label \in {"reference", "aliases"} => job[p].digest \in commits',
             label = "aliases" => job[p].ref = None
      PROVE  Progress(p)'
    <2>1. pc'[p] = label /\ job'[p] = job[p] /\ outcome'[p] # "dirty"
        BY <1>0, <1>3 DEF GoTo, ProcTypeOK
    <2>2. ImportDone(p)'
        BY <1>3, <2>1 DEF ImportDone, WriteLabels
    <2>3. RefChangeDone(p)' /\ UndoDone(p)' /\ CollectDone(p)' /\ AliasesDone(p)'
        BY <1>3, <2>1 DEF RefChangeDone, UndoDone, CollectDone, AliasesDone, UndoLabels,
                           CollectLabels
    <2>4. QED
        BY <2>2, <2>3 DEF Progress
<1>4. CASE PutContent(p)
    BY <1>1, <1>2, <1>4 DEF PutContent
<1>5. CASE SaveImportJournal(p)
    BY <1>0, <1>1, <1>3, <1>5 DEF SaveImportJournal, Grounded, JobFits
<1>6. CASE WriteRecord(p)
    <2>1. ContentOf(job[p].digest) \subseteq content /\ job[p].kind = "import" /\ UNCHANGED content
        BY <1>0, <1>6 DEF WriteRecord, Progress, ImportDone, WriteLabels, Grounded, JobFits
    <2>2. QED
        BY <1>1, <1>3, <1>6, <2>1 DEF WriteRecord
<1>7. CASE WriteCommit(p)
    <2>1. /\ ContentOf(job[p].digest) \subseteq content /\ job[p].kind = "import"
          /\ job[p].digest \in records /\ UNCHANGED <<content, records>>
        BY <1>0, <1>7 DEF WriteCommit, Progress, ImportDone, WriteLabels, Grounded, JobFits
    <2>2. QED
        BY <1>3, <1>7, <2>1 DEF WriteCommit
<1>8. QED
    BY <1>4, <1>5, <1>6, <1>7

\* The same for the steps that imports and reference changes share.
LEMMA ReferenceProgressStep ==
    ASSUME BInv, NEW p \in Procs,
           \/ CompareRef(p) \/ WriteReference(p) \/ RebuildAliases(p) \/ Acknowledge(p)
    PROVE  Progress(p)'
<1>0. /\ LayoutTypeOK /\ ProcTypeOK /\ Grounded(p) /\ Progress(p)
      /\ outcome[p] = "dirty" => pc[p] \in {"undoCommit", "undoRecord"}
    BY DEF BInv, IInv, CoreTypeOK, JournalDiscipline, Bookkeeping, Progress, UndoDone
<1>1. Finish(p) \/ Fail(p) => Progress(p)'
    BY <1>0, FinishProgress, FailProgress
<1>2. CASE CompareRef(p)
    <2>1. ASSUME GoTo(p, "reference") PROVE Progress(p)'
        <3>1. /\ pc'[p] = "reference" /\ job'[p] = job[p] /\ outcome'[p] # "dirty"
              /\ job[p].kind = "ref"
            BY <1>0, <1>2, <2>1 DEF CompareRef, GoTo, ProcTypeOK, Grounded, JobFits
        <3>2. QED
            BY <3>1
               DEF Progress, ImportDone, RefChangeDone, UndoDone, CollectDone, AliasesDone,
                   UndoLabels, CollectLabels
    <2>2. QED
        BY <1>1, <1>2, <2>1 DEF CompareRef
<1>3. CASE WriteReference(p)
    <2>1. ASSUME GoTo(p, "aliases"), refs' = [refs EXCEPT ![job[p].ref] = NewTarget(job[p])],
                 NewTarget(job[p]) # None => Committed(NewTarget(job[p])),
                 UNCHANGED <<content, records, commits>>
          PROVE  Progress(p)'
        <3>1. /\ pc[p] = "reference" /\ pc'[p] = "aliases" /\ job'[p] = job[p]
              /\ outcome'[p] # "dirty" /\ job[p].kind \in {"import", "ref"}
            BY <1>0, <1>3, <2>1 DEF WriteReference, GoTo, ProcTypeOK, Grounded, JobFits
        <3>2. job[p].ref \in Refs
            BY <1>0, <3>1, JobTypes DEF Grounded, JobFits, ImportJob, RefJob
        <3>3. refs'[job[p].ref] = NewTarget(job[p])
            BY <1>0, <2>1, <3>2 DEF LayoutTypeOK
        <3>4. ImportDone(p)'
            BY <1>0, <2>1, <3>1, <3>3 DEF Progress, ImportDone, WriteLabels, NewTarget
        <3>5. RefChangeDone(p)'
            BY <2>1, <3>1, <3>3 DEF RefChangeDone, NewTarget, Committed, Described
        <3>6. UndoDone(p)' /\ CollectDone(p)' /\ AliasesDone(p)'
            BY <3>1 DEF UndoDone, CollectDone, AliasesDone, UndoLabels, CollectLabels
        <3>7. QED
            BY <3>4, <3>5, <3>6 DEF Progress
    <2>2. QED
        BY <1>1, <1>3, <2>1 DEF WriteReference
<1>4. CASE RebuildAliases(p)
    <2>0. pc[p] = "aliases" /\ UNCHANGED <<content, records, commits, refs>>
        BY <1>4 DEF RebuildAliases
    <2>1. ASSUME pc'[p] \in {"aliases", "ack"}, job'[p] = job[p], outcome'[p] = outcome[p],
                 pc'[p] = "ack" => aliases' = RebuiltAliases'
          PROVE  Progress(p)'
        <3>1. ImportDone(p)' /\ RefChangeDone(p)'
            BY <1>0, <2>0, <2>1 DEF Progress, ImportDone, RefChangeDone, WriteLabels
        <3>2. UndoDone(p)' /\ CollectDone(p)' /\ AliasesDone(p)'
            BY <1>0, <2>0, <2>1 DEF UndoDone, CollectDone, AliasesDone, UndoLabels, CollectLabels
        <3>3. QED
            BY <3>1, <3>2 DEF Progress
    <2>2. CASE UNCHANGED procState
        BY <2>0, <2>1, <2>2 DEF procState
    <2>3. CASE aliases = RebuiltAliases /\ GoTo(p, "ack") /\ UNCHANGED aliases
        <3>1. aliases' = RebuiltAliases'
            BY <2>0, <2>3, RebuiltSame
        <3>2. QED
            BY <1>0, <2>1, <2>3, <3>1 DEF GoTo, ProcTypeOK
    <2>4. QED
        BY <1>1, <1>4, <2>2, <2>3 DEF RebuildAliases
<1>5. CASE Acknowledge(p)
    BY <1>1, <1>5 DEF Acknowledge
<1>6. QED
    BY <1>2, <1>3, <1>4, <1>5

\* What a rollback has undone when it turns to its next step.
LEMMA UndoProgressStep ==
    ASSUME BInv, NEW p \in Procs,
           \/ UndoReference(p) \/ UndoCommit(p) \/ UndoRecord(p) \/ UndoAliases(p) \/ UndoAck(p)
    PROVE  Progress(p)'
<1>0. /\ LayoutTypeOK /\ ProcTypeOK /\ Grounded(p) /\ Progress(p) /\ ChangesOwned
      /\ outcome[p] = "dirty" => pc[p] \in {"undoCommit", "undoRecord"}
    BY DEF BInv, IInv, CoreTypeOK, JournalDiscipline, Bookkeeping, Progress, UndoDone
<1>1. pc[p] \in UndoLabels /\ undo[p] \in imports \cup mutations
    BY <1>0 DEF UndoReference, UndoCommit, UndoRecord, UndoAliases, UndoAck, UndoLabels,
                Grounded, UndoGrounded
<1>2. Finish(p) \/ Abandon(p) => Progress(p)'
    BY <1>0, FinishProgress
<1>3. ASSUME pc'[p] \in UndoLabels, UndoDone(p)',
             pc'[p] = "undoAck" => aliases' = RebuiltAliases'
      PROVE  Progress(p)'
    BY <1>3 DEF Progress, ImportDone, RefChangeDone, CollectDone, AliasesDone, UndoLabels,
                WriteLabels, CollectLabels
<1>4. CASE UndoReference(p)
    <2>0. pc[p] = "undoReference" /\ outcome[p] # "dirty"
        BY <1>0, <1>4 DEF UndoReference
    <2>1. ASSUME undo[p].kind = "import", GoTo(p, "undoCommit"),
                 refs' = IF undo[p].reference THEN [refs EXCEPT ![undo[p].ref] = None] ELSE refs
          PROVE  Progress(p)'
        <3>1. /\ pc'[p] = "undoCommit" /\ undo'[p] = undo[p] /\ outcome'[p] # "dirty"
            BY <1>0, <2>0, <2>1 DEF GoTo, ProcTypeOK
        <3>2. undo[p] \in imports
            BY <1>0, <1>1, <2>1, JournalKinds
        <3>3. undo[p].reference => undo[p].ref \in Refs
            BY <1>0, <3>2 DEF ChangesOwned, LayoutTypeOK, ImportJournal
        <3>4. undo[p].reference => refs'[undo[p].ref] = None
            BY <1>0, <2>1, <3>3 DEF LayoutTypeOK
        <3>5. UndoDone(p)'
            BY <2>1, <3>1, <3>4 DEF UndoDone
        <3>6. QED
            BY <1>3, <3>1, <3>5 DEF UndoLabels
    <2>2. ASSUME undo[p].kind = "ref", GoTo(p, "undoAliases"),
                 refs' = IF refs[undo[p].ref] = undo[p].next
                         THEN [refs EXCEPT ![undo[p].ref] = undo[p].previous] ELSE refs
          PROVE  Progress(p)'
        <3>1. /\ pc'[p] = "undoAliases" /\ undo'[p] = undo[p] /\ outcome'[p] # "dirty"
            BY <1>0, <2>0, <2>2 DEF GoTo, ProcTypeOK
        <3>2. undo[p] \in mutations
            BY <1>0, <1>1, <2>2, JournalKinds
        <3>3. undo[p].ref \in Refs /\ Owned(undo[p])
            BY <1>0, <3>2 DEF ChangesOwned, LayoutTypeOK, RefMutation
        <3>4. refs'[undo[p].ref] = undo[p].previous
            BY <1>0, <2>2, <3>3 DEF LayoutTypeOK, Owned
        <3>5. UndoDone(p)'
            BY <2>2, <3>1, <3>4 DEF UndoDone
        <3>6. QED
            BY <1>3, <3>1, <3>5 DEF UndoLabels
    <2>3. QED
        BY <1>2, <1>4, <2>1, <2>2 DEF UndoReference
<1>5. CASE UndoCommit(p)
    <2>1. /\ pc[p] = "undoCommit" /\ pc'[p] = "undoRecord" /\ undo'[p] = undo[p]
          /\ outcome'[p] = outcome[p]
          /\ UNCHANGED refs /\ (undo[p].commit => undo[p].digest \notin commits')
          /\ undo[p].kind = "import"
        BY <1>0, <1>5 DEF UndoCommit, GoTo, ProcTypeOK, Grounded, UndoGrounded
    <2>2. UndoDone(p)'
        BY <1>0, <2>1 DEF Progress, UndoDone, UndoLabels
    <2>3. QED
        BY <1>3, <2>1, <2>2 DEF UndoLabels
<1>6. CASE UndoRecord(p)
    <2>1. ASSUME GoTo(p, "undoAliases"), outcome[p] # "dirty" PROVE Progress(p)'
        <3>1. /\ pc[p] = "undoRecord" /\ pc'[p] = "undoAliases" /\ undo'[p] = undo[p]
              /\ outcome'[p] = outcome[p]
              /\ UNCHANGED <<refs, commits>> /\ (undo[p].record => undo[p].digest \notin records')
              /\ undo[p].kind = "import"
            BY <1>0, <1>6, <2>1 DEF UndoRecord, GoTo, ProcTypeOK, Grounded, UndoGrounded
        <3>2. UndoDone(p)'
            BY <1>0, <2>1, <3>1 DEF Progress, UndoDone, UndoLabels
        <3>3. QED
            BY <1>3, <3>1, <3>2 DEF UndoLabels
    <2>2. QED
        BY <1>2, <1>6, <2>1 DEF UndoRecord
<1>7. CASE UndoAliases(p)
    <2>0. pc[p] = "undoAliases" /\ UNCHANGED <<records, commits, refs>>
        BY <1>7 DEF UndoAliases
    <2>1. ASSUME pc'[p] \in {"undoAliases", "undoAck"}, undo'[p] = undo[p],
                 outcome'[p] = outcome[p],
                 pc'[p] = "undoAck" => aliases' = RebuiltAliases'
          PROVE  Progress(p)'
        <3>1. UndoDone(p)'
            BY <1>0, <2>0, <2>1 DEF Progress, UndoDone, UndoLabels
        <3>2. QED
            BY <1>3, <2>1, <3>1 DEF UndoLabels
    <2>2. CASE UNCHANGED procState
        BY <2>0, <2>1, <2>2 DEF procState
    <2>3. CASE aliases = RebuiltAliases /\ GoTo(p, "undoAck") /\ UNCHANGED aliases
        <3>1. aliases' = RebuiltAliases'
            BY <2>0, <2>3, RebuiltSame
        <3>2. QED
            BY <1>0, <2>1, <2>3, <3>1 DEF GoTo, ProcTypeOK
    <2>4. QED
        BY <1>2, <1>7, <2>2, <2>3 DEF UndoAliases
<1>8. CASE UndoAck(p)
    <2>1. ASSUME outcome[p] = "ok", pc' = [pc EXCEPT ![p] = "recover"], UNCHANGED outcome
          PROVE  Progress(p)'
        <3>1. pc'[p] = "recover" /\ outcome'[p] # "dirty"
            BY <1>0, <2>1 DEF ProcTypeOK
        <3>2. QED
            BY <3>1 DEF Progress, ImportDone, RefChangeDone, UndoDone, CollectDone,
                        AliasesDone, UndoLabels, WriteLabels, CollectLabels
    <2>2. QED
        BY <1>2, <1>8, <2>1 DEF UndoAck
<1>9. QED
    BY <1>4, <1>5, <1>6, <1>7, <1>8

\* What is gone of the candidates of a journal whose phases say so.
Cleared(j) ==
    \A d \in j.plan.delete :
        /\ j.phase[d] >= 2 => d \notin commits
        /\ j.phase[d] = 3 => d \notin records

\* A collection keeps to its journal, whose phases keep telling what is gone.
LEMMA CollectProgressStep ==
    ASSUME BInv, NEW p \in Procs, GCOpen(p) \/ GCRecords(p) \/ GCContent(p)
    PROVE  Progress(p)'
<1>0. /\ LayoutTypeOK /\ ProcTypeOK /\ IInv /\ Grounded(p) /\ CollectDone(p)
      /\ OneJournalPerPlan
      /\ outcome[p] = "dirty" => pc[p] \in {"undoCommit", "undoRecord"}
    BY DEF BInv, IInv, CoreTypeOK, JournalDiscipline, Bookkeeping, Progress, UndoDone
<1>1. Finish(p) => Progress(p)'
    BY <1>0, FinishProgress
<1>2. ASSUME pc'[p] \in CollectLabels, outcome'[p] # "dirty", Cleared(Journal(p))',
             pc'[p] = "gcContent" => \A d \in Journal(p)'.plan.delete : Journal(p)'.phase[d] = 3
      PROVE  Progress(p)'
    BY <1>2 DEF Progress, ImportDone, RefChangeDone, UndoDone, CollectDone, AliasesDone,
                UndoLabels, WriteLabels, CollectLabels, Cleared
<1>3. CASE GCOpen(p)
    <2>0. pc[p] = "gcOpen" /\ UNCHANGED <<records, commits>>
        BY <1>3 DEF GCOpen
    <2>1. ASSUME GoTo(p, "gcPreflight")
          PROVE  /\ pc'[p] \in CollectLabels /\ pc'[p] # "gcContent" /\ outcome'[p] # "dirty"
                 /\ job'[p] = job[p]
        BY <1>0, <2>0, <2>1 DEF GoTo, ProcTypeOK, CollectLabels
    <2>2. ASSUME GoTo(p, "gcPreflight"), UNCHANGED collections, GCJournalValid(Journal(p))
          PROVE  Progress(p)'
        <3>1. Journal(p)' = Journal(p)
            BY <2>1, <2>2 DEF Journal
        <3>2. Cleared(Journal(p))'
            BY <2>0, <2>2, <3>1 DEF Cleared, GCJournalValid
        <3>3. QED
            BY <1>2, <2>1, <2>2, <3>2
    <2>3. ASSUME GoTo(p, "gcPreflight"), \A j \in collections : j.plan # job[p].plan,
                 collections' = collections \cup {FreshGCJournal(job[p].plan)}
          PROVE  Progress(p)'
        <3>1. FreshGCJournal(job[p].plan).plan = job[p].plan
            BY DEF FreshGCJournal
        <3>2. Journal(p)' = FreshGCJournal(job[p].plan)
            BY <2>1, <2>3, <3>1 DEF Journal
        <3>3. job[p].plan.delete \subseteq Digests
            BY <1>0, <2>0, JobTypes DEF Grounded, JobFits, GCJob, GCPlan
        <3>4. \A d \in job[p].plan.delete : FreshGCJournal(job[p].plan).phase[d] = 0
            BY <3>3 DEF FreshGCJournal
        <3>5. Cleared(Journal(p))'
            BY <3>1, <3>2, <3>4 DEF Cleared
        <3>6. QED
            BY <1>2, <2>1, <2>3, <3>5
    <2>4. QED
        BY <1>1, <1>3, <2>2, <2>3 DEF GCOpen
<1>4. CASE GCRecords(p)
    <2>0. pc[p] = "gcRecords" /\ pc[p] \in CollectLabels
        BY <1>4, GCRecordsCases DEF CollectLabels
    <2>1. /\ \E j \in collections : j.plan = job[p].plan
          /\ Journal(p) \in GCJournal
        BY <1>0, <2>0, Collecting
    <2>2. Cleared(Journal(p))
        BY <1>0, <2>0 DEF CollectDone, Cleared
    <2>3. CASE UNCHANGED disk /\ GoTo(p, "gcContent") /\ Victims(Journal(p)) = {}
        <3>1. /\ pc'[p] \in CollectLabels /\ outcome'[p] # "dirty" /\ job'[p] = job[p]
            BY <1>0, <2>0, <2>3 DEF GoTo, ProcTypeOK, CollectLabels
        <3>2. Journal(p)' = Journal(p) /\ UNCHANGED <<records, commits>>
            BY <2>3, <3>1 DEF Journal, disk
        <3>3. \A d \in Journal(p).plan.delete : Journal(p).phase[d] \in 0..3
            BY <2>1 DEF GCJournal, GCPlan
        <3>4. \A d \in Journal(p).plan.delete : Journal(p).phase[d] = 3
            BY <2>3, <3>3 DEF Victims
        <3>5. Cleared(Journal(p))'
            BY <2>2, <3>2 DEF Cleared
        <3>6. QED
            BY <1>2, <3>1, <3>2, <3>4, <3>5
    <2>4. ASSUME NEW d \in Digests, CandidateStep(p, d) PROVE Progress(p)'
        <3>1. /\ UNCHANGED procState
              /\ pc'[p] \in CollectLabels /\ pc'[p] # "gcContent" /\ outcome'[p] # "dirty"
            BY <1>0, <2>0, <2>4 DEF CandidateStep, procState, CollectLabels
        <3>2. ASSUME UNCHANGED collections, records' \subseteq records, commits' \subseteq commits
              PROVE  Progress(p)'
            <4>1. Journal(p)' = Journal(p)
                BY <3>1, <3>2 DEF Journal, procState
            <4>2. Cleared(Journal(p))'
                BY <2>2, <3>2, <4>1 DEF Cleared
            <4>3. QED
                BY <1>2, <3>1, <4>2
        <3>3. ASSUME UNCHANGED <<records, commits>>, Journal(p).phase[d] \in 0..2,
                     Journal(p).phase[d] = 1 => d \notin commits,
                     Journal(p).phase[d] = 2 => d \notin records,
                     SaveGC(p, [Journal(p) EXCEPT !.phase[d] = @ + 1])
              PROVE  Progress(p)'
            <4> DEFINE k == [Journal(p) EXCEPT !.phase[d] = @ + 1]
            <4>1. /\ k.plan = Journal(p).plan /\ k.phase[d] = Journal(p).phase[d] + 1
                  /\ \A e \in Digests \ {d} : k.phase[e] = Journal(p).phase[e]
                BY <1>0, <2>0, <3>3, CountedPhase
            <4>2. Journal(p).plan = job[p].plan /\ Journal(p).plan.delete \subseteq Digests
                BY <2>1, JournalOnDisk DEF GCJournal, GCPlan
            <4>3. SaveGC(p, k)
                BY <3>3
            <4> HIDE DEF k
            <4>4. Journal(p)' = k
                BY <1>0, <2>1, <3>1, <4>1, <4>2, <4>3, SavedJournal DEF procState
            <4>5. \A e \in k.plan.delete :
                      /\ k.phase[e] >= 2 => e \notin commits
                      /\ k.phase[e] = 3 => e \notin records
                BY <2>2, <3>3, <4>1, <4>2 DEF Cleared
            <4>6. Cleared(Journal(p))'
                BY <3>3, <4>4, <4>5 DEF Cleared
            <4>7. QED
                BY <1>2, <3>1, <4>6
        <3>4. QED
            BY <2>4, <3>2, <3>3 DEF CandidateStep
    <2>5. QED
        BY <1>1, <1>4, <2>3, <2>4, GCRecordsCases
<1>5. CASE GCContent(p)
    <2>0. pc[p] = "gcContent" /\ pc[p] \in CollectLabels /\ UNCHANGED <<records, commits>>
        BY <1>5 DEF GCContent, CollectLabels
    <2>1. /\ \E j \in collections : j.plan = job[p].plan
          /\ Journal(p).plan = job[p].plan
        BY <1>0, <2>0, Collecting
    <2>2. Cleared(Journal(p)) /\ \A d \in Journal(p).plan.delete : Journal(p).phase[d] = 3
        BY <1>0, <2>0 DEF CollectDone, Cleared
    <2>3. ASSUME UNCHANGED procState, Journal(p)'.plan = Journal(p).plan,
                 Journal(p)'.phase = Journal(p).phase
          PROVE  Progress(p)'
        <3>1. Cleared(Journal(p))'
            BY <2>0, <2>2, <2>3 DEF Cleared
        <3>2. QED
            BY <1>0, <1>2, <2>0, <2>2, <2>3, <3>1 DEF procState
    <2>4. ASSUME UNCHANGED <<procState, collections>> PROVE Journal(p)' = Journal(p)
        BY <2>4 DEF Journal, procState
    <2>5. ASSUME UNCHANGED procState, NEW k \in GCJournal, k.plan = Journal(p).plan,
                 k.phase = Journal(p).phase, SaveGC(p, k)
          PROVE  Journal(p)' = k
        BY <1>0, <2>1, <2>5, SavedJournal DEF procState
    <2>6. QED
        BY <1>0, <1>1, <1>5, <2>1, <2>3, <2>4, <2>5, GCContentCases
<1>6. QED
    BY <1>3, <1>4, <1>5

\* Calls, recovery, kills and failed writes.
LEMMA BareProgressStep ==
    ASSUME BInv, NEW p \in Procs, Bare(p)
    PROVE  Progress(p)'
<1>0. /\ LayoutTypeOK /\ ProcTypeOK /\ IInv /\ Grounded(p) /\ Progress(p)
      /\ outcome[p] = "dirty" => pc[p] \in {"undoCommit", "undoRecord"}
    BY DEF BInv, IInv, CoreTypeOK, JournalDiscipline, Bookkeeping, Progress, UndoDone
<1>a. UNCHANGED <<content, records, commits, refs, aliases, collections>>
    BY BareStep
<1>1. Finish(p) \/ Abandon(p) \/ Fail(p) => Progress(p)'
    BY <1>0, FinishProgress, FailProgress
<1>2. ASSUME pc'[p] \notin Active, outcome'[p] # "dirty" PROVE Progress(p)'
    BY <1>2, ActiveLabels DEF Progress, ImportDone, RefChangeDone, UndoDone, CollectDone,
          AliasesDone, UndoLabels, WriteLabels
<1>3. ASSUME pc'[p] \in {"undoReference", "recover", "gcOpen", "lease", "cas"}, outcome'[p] # "dirty"
      PROVE  Progress(p)'
    BY <1>3 DEF Progress, ImportDone, RefChangeDone, UndoDone, CollectDone, AliasesDone,
                UndoLabels, WriteLabels, CollectLabels
<1>4. ASSUME pc'[p] = "put", outcome'[p] # "dirty" PROVE Progress(p)'
    BY <1>4 DEF Progress, ImportDone, RefChangeDone, UndoDone, CollectDone, AliasesDone,
                UndoLabels, WriteLabels, CollectLabels
<1>6. CASE TakeLock(p)
    <2>1. pc'[p] \in {"recover", "gcOpen", "lease"} /\ outcome'[p] # "dirty"
        BY <1>0, <1>6 DEF TakeLock, ProcTypeOK
    <2>2. QED
        BY <1>3, <2>1
<1>7. CASE Recover(p)
    <2>0. pc[p] = "recover" /\ outcome[p] # "dirty"
        BY <1>0, <1>7 DEF Recover
    <2>1. ASSUME NEW j, BeginUndo(p, j) PROVE Progress(p)'
        <3>1. pc'[p] = "undoReference" /\ outcome'[p] # "dirty"
            BY <1>0, <2>0, <2>1 DEF BeginUndo, ProcTypeOK
        <3>2. QED
            BY <1>3, <3>1
    <2>2. GoTo(p, "put") \/ GoTo(p, "cas") => Progress(p)'
        <3>1. GoTo(p, "put") \/ GoTo(p, "cas") => pc'[p] \in {"put", "cas"} /\ outcome'[p] # "dirty"
            BY <1>0, <2>0 DEF GoTo, ProcTypeOK
        <3>2. QED
            BY <1>3, <1>4, <3>1
    <2>3. QED
        BY <1>1, <1>7, <2>1, <2>2 DEF Recover
<1>8. CASE GCPreflight(p)
    <2>0. pc[p] = "gcPreflight" /\ outcome[p] # "dirty"
        BY <1>0, <1>8 DEF GCPreflight
    <2>1. ASSUME GoTo(p, "gcRecords") PROVE Progress(p)'
        <3>1. /\ pc'[p] = "gcRecords" /\ job'[p] = job[p] /\ outcome'[p] # "dirty"
            BY <1>0, <2>0, <2>1 DEF GoTo, ProcTypeOK
        <3>2. Journal(p)' = Journal(p)
            BY <1>a, <3>1 DEF Journal
        <3>3. CollectDone(p)'
            BY <1>0, <1>a, <2>0, <3>1, <3>2 DEF Progress, CollectDone, CollectLabels
        <3>4. QED
            BY <3>1, <3>3 DEF Progress, ImportDone, RefChangeDone, UndoDone, AliasesDone,
                              UndoLabels, WriteLabels
    <2>2. QED
        BY <1>1, <1>8, <2>1 DEF GCPreflight
<1>9. CASE Call(p)
    <2>1. ASSUME NEW j, Enter(p, j) PROVE Progress(p)'
        <3>1. pc'[p] = "wait" /\ outcome'[p] # "dirty"
            BY <1>0, <2>1 DEF Enter, ProcTypeOK
        <3>2. QED
            BY <1>2, <3>1 DEF Active
    <2>2. CASE Launch(p)
        <3>1. pc'[p] \in {"idle", "wait"} /\ outcome'[p] # "dirty"
            BY <1>0, <2>2 DEF Launch, GoTo, ProcTypeOK
        <3>2. QED
            BY <1>2, <3>1 DEF Active
    <2>3. QED
        BY <1>9, <2>1, <2>2
           DEF Call, StartImport, StartEquivalent, StartRefChange, StartGC, StartLease
<1>10. CASE Kill(p)
    BY <1>0, <1>10, ReturnProgress DEF Kill
<1>11. CASE WriteError(p)
    <2>1. ASSUME pc[p] \in {"undoReference", "undoCommit"},
                 pc' = [pc EXCEPT ![p] = IF pc[p] = "undoReference" THEN "undoCommit" ELSE "undoRecord"],
                 outcome' = [outcome EXCEPT ![p] = "dirty"]
          PROVE  Progress(p)'
        <3>1. pc'[p] \in {"undoCommit", "undoRecord"} /\ outcome'[p] = "dirty"
            BY <1>0, <2>1 DEF ProcTypeOK
        <3>2. QED
            BY <3>1 DEF Progress, ImportDone, RefChangeDone, UndoDone, CollectDone, AliasesDone,
                        WriteLabels, CollectLabels
    <2>2. QED
        BY <1>1, <1>11, <2>1 DEF WriteError
<1>12. CASE LeaseTree(p) \/ LeasePayload(p)
    BY <1>1, <1>12 DEF LeaseTree, LeasePayload
<1>13. QED
    BY <1>6, <1>7, <1>8, <1>9, <1>10, <1>11, <1>12 DEF Bare

-----------------------------------------------------------------------------
(* The invariant of what is written and taken back *)

\* An empty repository has nothing to account for.
LEMMA BookkeepingInit == Init => Bookkeeping
BY DEF Init, EmptyRepository, Bookkeeping, ChangesOwned, OneJournalPerPlan, NamesCovered,
       RebuiltAliases, AliasMap, Progress, ImportDone, RefChangeDone, UndoDone, CollectDone,
       AliasesDone, UndoLabels, WriteLabels, CollectLabels

\* Every step of every process keeps the books.
LEMMA BookkeepingStep ==
    ASSUME BInv, [Next]_vars
    PROVE  Bookkeeping'
<1>1. ASSUME NEW p \in Procs, ActBy(p) PROVE Bookkeeping'
    <2>1. ChangesOwned' /\ OneJournalPerPlan'
        BY <1>1, ChangesOwnedStep, OneJournalStep
    <2>2. NamesCovered'
        BY <1>1, NamesCoveredStep DEF NamesCovered
    <2>3. Progress(p)'
        BY <1>1, ImportProgressStep, ReferenceProgressStep, UndoProgressStep,
           CollectProgressStep, BareProgressStep DEF ActBy, Step, Bare
    <2>4. \A q \in Procs \ {p} : Progress(q)'
        BY <1>1, OthersProgress
    <2>5. QED
        BY <2>1, <2>2, <2>3, <2>4 DEF Bookkeeping
<1>2. CASE UNCHANGED core
    BY <1>2 DEF BInv, core, disk, procState, Bookkeeping, ChangesOwned, Owned,
       OneJournalPerPlan, NamesCovered, HalfCollected, RebuiltAliases, AliasMap, Progress,
       ImportDone, RefChangeDone, UndoDone, CollectDone, Journal, AliasesDone
<1>3. QED
    BY <1>1, <1>2, NextCases DEF ActBy

\* The stronger invariant is inductive too.
THEOREM BookkeepingKept == Spec => []BInv
<1>1. Init => BInv
    BY TypeInit, DisciplineInit, BookkeepingInit DEF BInv, IInv
<1>2. BInv /\ [Next]_vars => BInv'
    BY TypeStep, DisciplineStep, BookkeepingStep DEF BInv, IInv
<1>3. QED
    BY <1>1, <1>2, PTL DEF Spec

\* What rollback, recovery and a resumed collection rely on holds however many
\* processes were killed and writes failed: a journal on disk tells what its
\* operation has written or removed.
THEOREM JournalsTell == Spec => []Bookkeeping
<1>1. BInv => Bookkeeping
    BY DEF BInv
<1>2. QED
    BY <1>1, BookkeepingKept, PTL

\* NamesKept: once every import and reference change is acknowledged, no name
\* is missing from the index (RebuildArtifactAliases), however many processes
\* were killed and writes failed, but for those a collection is removing.
THEOREM NamesAreKept == Spec => []NamesKept
<1>1. BInv => NamesKept
    <2> SUFFICES ASSUME BInv, imports = {}, mutations = {}, NEW a \in Names
                 PROVE  ShownAliases[a] \subseteq aliases[a] \cup HalfCollected
        BY DEF NamesKept, HalfCollected
    <2>1. RebuiltAliases[a] \subseteq aliases[a] \cup HalfCollected
        BY DEF BInv, Bookkeeping, NamesCovered
    <2>2. \A r : Target(r) = refs[r]
        BY DEF Target
    <2>3. ShownAliases[a] \subseteq RebuiltAliases[a]
        <3>1. \A d \in records : \A r \in Refs : Snapshot[r] = d => refs[r] = d
            BY <2>2, LayoutAssumption DEF Snapshot, BInv, IInv, CoreTypeOK, LayoutTypeOK, LayoutAssumption
        <3>2. QED
            BY <3>1 DEF ShownAliases, RebuiltAliases, AliasMap, Pending
    <2>4. QED
        BY <2>1, <2>3
<1>2. QED
    BY <1>1, BookkeepingKept, PTL
=============================================================================
