------------------------- MODULE RepositoryDiscipline -------------------------
(***************************************************************************)
(* The inductive step behind the safety of Repository, for every set of    *)
(* artifacts, references and processes and every number of faults: every   *)
(* step of every process keeps the types, then the lock and journal        *)
(* discipline.                                                             *)
(***************************************************************************)
EXTENDS RepositoryInvariant, TLAPS

-----------------------------------------------------------------------------
(* What readers derive has its type. *)

\* referenceDigest yields a digest or no target.
LEMMA TargetType ==
    ASSUME LayoutTypeOK, NEW r \in Refs
    PROVE  Target(r) \in DigestOrNone
<1>1. CASE \E m \in mutations : m.ref = r
    <2>1. (CHOOSE m \in mutations : m.ref = r) \in mutations
        BY <1>1
    <2>2. QED
        BY <1>1, <2>1 DEF Target, LayoutTypeOK, RefMutation
<1>2. CASE ~ \E m \in mutations : m.ref = r
    BY <1>2 DEF Target, LayoutTypeOK
<1>3. QED
    BY <1>1, <1>2

\* Every entry of the snapshot readers take is a digest or no target.
LEMMA SnapshotType ==
    ASSUME LayoutTypeOK
    PROVE  Snapshot \in [Refs -> DigestOrNone]
BY TargetType DEF Snapshot, DigestOrNone

\* The content any set of artifacts needs are content objects.
LEMMA ContentType ==
    ASSUME NEW D \in SUBSET Digests
    PROVE  UNION {ContentOf(d) : d \in D} \subseteq Blobs
BY LayoutAssumption DEF LayoutAssumption, ContentOf

\* A plan of PlanGC is a plan.
LEMMA FreshPlanType ==
    ASSUME LayoutTypeOK
    PROVE  FreshPlan \in GCPlan
<1> DEFINE universe == {d \in records : ~Pending(d)}
           delete == {d \in universe : ~Referenced(Snapshot, d)}
           protected == UNION {ContentOf(d) : d \in universe \ delete}
<1>1. universe \in SUBSET Digests /\ delete \in SUBSET Digests
    BY DEF LayoutTypeOK
<1>2. (UNION {ContentOf(d) : d \in delete}) \ protected \in SUBSET Blobs
    BY <1>1, ContentType
<1>3. FreshPlan = [refs |-> Snapshot, universe |-> universe, delete |-> delete,
                   deleteContent |-> (UNION {ContentOf(d) : d \in delete}) \ protected]
    BY DEF FreshPlan
<1> HIDE DEF universe, delete, protected
<1>4. QED
    BY <1>1, <1>2, <1>3, SnapshotType DEF GCPlan

\* The rebuilt alias index is an alias index.
LEMMA AliasesType ==
    ASSUME LayoutTypeOK
    PROVE  RebuiltAliases \in [Names -> SUBSET Digests]
BY DEF RebuiltAliases, AliasMap, LayoutTypeOK

\* The journal of a collection under way is one of those on disk.
LEMMA JournalOnDisk ==
    ASSUME NEW p \in Procs, \E j \in collections : j.plan = job[p].plan
    PROVE  Journal(p) \in collections /\ Journal(p).plan = job[p].plan
BY DEF Journal

-----------------------------------------------------------------------------
(* The steps actions are built from keep the types. *)

\* Moving on within an operation keeps the process state typed.
LEMMA GoToType ==
    ASSUME ProcTypeOK, NEW p \in Procs, NEW label \in Labels, GoTo(p, label)
    PROVE  ProcTypeOK'
BY DEF ProcTypeOK, GoTo

\* Returning or dying keeps the process state typed.
LEMMA ReturnType ==
    ASSUME ProcTypeOK, NEW p \in Procs, NEW label \in Labels, Return(p, label)
    PROVE  ProcTypeOK'
BY DEF ProcTypeOK, Return, Idle, IdleJob

\* Finishing an operation keeps the process state typed.
LEMMA FinishType ==
    ASSUME ProcTypeOK, NEW p \in Procs, Finish(p)
    PROVE  ProcTypeOK'
<1>1. "idle" \in Labels
    BY DEF Labels
<1>2. QED
    BY <1>1, ReturnType DEF Finish

\* Giving up a recovery keeps the process state typed.
LEMMA AbandonType ==
    ASSUME ProcTypeOK, NEW p \in Procs, Abandon(p)
    PROVE  ProcTypeOK'
<1>1. (IF job[p].kind = "recover" THEN "down" ELSE "idle") \in Labels
    BY DEF Labels
<1>2. QED
    BY <1>1, ReturnType DEF Abandon

\* Turning to the rollback of a journal keeps the process state typed.
LEMMA UndoType ==
    ASSUME ProcTypeOK, NEW p \in Procs, NEW j \in ImportJournal \cup RefMutation,
           undo' = [undo EXCEPT ![p] = j],
           pc' = [pc EXCEPT ![p] = "undoReference"],
           \/ outcome' = outcome
           \/ outcome' = [outcome EXCEPT ![p] = "failed"],
           UNCHANGED <<lifecycle, job>>
    PROVE  ProcTypeOK'
<1>1. "undoReference" \in Labels
    BY DEF Labels
<1>2. QED
    BY <1>1 DEF ProcTypeOK

\* Recovery turns to a journal of the right type.
LEMMA BeginUndoType ==
    ASSUME LayoutTypeOK, ProcTypeOK, NEW p \in Procs, NEW j \in imports \cup mutations,
           BeginUndo(p, j)
    PROVE  ProcTypeOK'
<1>1. j \in ImportJournal \cup RefMutation
    BY DEF LayoutTypeOK
<1>2. QED
    BY <1>1, UndoType DEF BeginUndo

\* A failing operation keeps the process state typed.
LEMMA FailType ==
    ASSUME LayoutTypeOK, ProcTypeOK, NEW p \in Procs, Fail(p)
    PROVE  ProcTypeOK'
<1>1. CASE Finish(p)
    BY <1>1, FinishType
<1>2. ASSUME NEW j \in OwnJournals(p),
             undo' = [undo EXCEPT ![p] = j],
             outcome' = [outcome EXCEPT ![p] = "failed"],
             pc' = [pc EXCEPT ![p] = "undoReference"],
             UNCHANGED <<lifecycle, job>>
      PROVE  ProcTypeOK'
    <2>1. j \in ImportJournal \cup RefMutation
        BY DEF OwnJournals, LayoutTypeOK
    <2>2. QED
        BY <1>2, <2>1, UndoType
<1>3. QED
    BY <1>1, <1>2 DEF Fail

\* Calling an operation keeps the process state typed.
LEMMA EnterType ==
    ASSUME ProcTypeOK, NEW p \in Procs,
           NEW j \in ImportJob \cup RefJob \cup GCJob \cup RecoverJob \cup LeaseJob, Enter(p, j)
    PROVE  ProcTypeOK'
<1>1. "wait" \in Labels
    BY DEF Labels
<1>2. QED
    BY <1>1 DEF ProcTypeOK, Enter

-----------------------------------------------------------------------------
(* The kind of an operation or of a journal tells which record it is. *)

\* The operation of a process is of the kind it names.
LEMMA JobTypes ==
    ASSUME ProcTypeOK, NEW p \in Procs
    PROVE  /\ job[p].kind = "import" => job[p] \in ImportJob
           /\ job[p].kind = "ref" => job[p] \in RefJob
           /\ job[p].kind = "gc" => job[p] \in GCJob
           /\ job[p].kind \in {"tree", "payload"} => job[p] \in LeaseJob
BY DEF ProcTypeOK, ImportJob, RefJob, GCJob, RecoverJob, LeaseJob, IdleJob

\* The journal a process rolls back is of the kind it names.
LEMMA UndoTypes ==
    ASSUME ProcTypeOK, NEW p \in Procs
    PROVE  /\ undo[p].kind = "import" => undo[p] \in ImportJournal
           /\ undo[p].kind = "ref" => undo[p] \in RefMutation
BY DEF ProcTypeOK, ImportJournal, RefMutation, IdleJob

\* The journals on disk are of their kind.
LEMMA JournalKinds ==
    ASSUME LayoutTypeOK
    PROVE  /\ \A j \in imports : j.kind = "import"
           /\ \A m \in mutations : m.kind = "ref"
BY DEF LayoutTypeOK, ImportJournal, RefMutation

\* Saving the next phase of a candidate leaves a collection journal.
LEMMA NextPhaseType ==
    ASSUME LayoutTypeOK, NEW p \in Procs, \E j \in collections : j.plan = job[p].plan,
           NEW d \in Digests, NEW k \in 0..2, AtPhase(p, d, k), NextPhase(p, d)
    PROVE  LayoutTypeOK'
<1>1. Journal(p) \in GCJournal /\ Journal(p).phase[d] = k
    BY JournalOnDisk DEF LayoutTypeOK, AtPhase
<1>2. [Journal(p) EXCEPT !.phase[d] = @ + 1] \in GCJournal
    BY <1>1 DEF GCJournal
<1>3. QED
    BY <1>2 DEF NextPhase, SaveGC, LayoutTypeOK

\* Saving what became of a content object leaves a collection journal.
LEMMA StatusType ==
    ASSUME LayoutTypeOK, NEW p \in Procs, \E j \in collections : j.plan = job[p].plan,
           NEW b \in Blobs, NEW s \in {"deleted", "retained"},
           SaveGC(p, [Journal(p) EXCEPT !.status[b] = s])
    PROVE  collections' \subseteq GCJournal
<1>1. Journal(p) \in GCJournal
    BY JournalOnDisk DEF LayoutTypeOK
<1>2. [Journal(p) EXCEPT !.status[b] = s] \in GCJournal
    BY <1>1 DEF GCJournal
<1>3. QED
    BY <1>2 DEF SaveGC, LayoutTypeOK

-----------------------------------------------------------------------------
(* Type correctness *)

\* The empty repository is typed.
LEMMA TypeInit == Init => CoreTypeOK
BY RepositoryAssumption, LayoutAssumption
   DEF Init, CoreTypeOK, EmptyRepository, LayoutTypeOK, ProcTypeOK, RepositoryAssumption,
       LayoutAssumption, DigestOrNone, Labels, IdleJob, Idle

\* A stutter keeps the types.
LEMMA TypeUnchanged == CoreTypeOK /\ UNCHANGED core => CoreTypeOK'
BY DEF CoreTypeOK, LayoutTypeOK, ProcTypeOK, core, disk, procState

\* A payload check and the end of a lease touch the leases alone.
LEMMA NextCases ==
    ASSUME [Next]_vars
    PROVE  \/ \E p \in Procs : Step(p) \/ Call(p) \/ Kill(p) \/ WriteError(p)
           \/ UNCHANGED core
BY DEF Next, CheckPayload, EndLease, vars

\* Every step of every process keeps the types; the steps of a collection
\* need to know that the journal they advance is there (JobFits).
LEMMA TypeStep ==
    ASSUME IInv, [Next]_vars
    PROVE  CoreTypeOK'
<1>0. LayoutTypeOK /\ ProcTypeOK /\ faults \in 0..MaxFaults
    BY DEF IInv, CoreTypeOK
<1>a. \A p \in Procs : JobFits(p)
    BY DEF IInv, JournalDiscipline, Grounded
<1>1. ASSUME NEW p \in Procs, TakeLock(p) PROVE CoreTypeOK'
    <2>1. LayoutTypeOK' /\ faults' \in 0..MaxFaults
        BY <1>0, <1>a, <1>1 DEF TakeLock, disk, LayoutTypeOK
    <2>2. ProcTypeOK'
        BY <1>0, <1>a, <1>1 DEF TakeLock, ProcTypeOK, Labels
    <2>3. QED
        BY <2>1, <2>2 DEF CoreTypeOK
<1>2. ASSUME NEW p \in Procs, Recover(p) PROVE CoreTypeOK'
    <2>1. LayoutTypeOK' /\ faults' \in 0..MaxFaults
        BY <1>0, <1>a, <1>2 DEF Recover, disk, LayoutTypeOK
    <2>2. ASSUME NEW j \in imports \cup mutations, BeginUndo(p, j) PROVE ProcTypeOK'
        BY <1>0, <2>2, BeginUndoType
    <2>3. Abandon(p) \/ Finish(p) => ProcTypeOK'
        BY <1>0, AbandonType, FinishType
    <2>4. GoTo(p, "put") \/ GoTo(p, "cas") => ProcTypeOK'
        BY <1>0, GoToType DEF Labels
    <2>5. ProcTypeOK'
        BY <1>2, <2>2, <2>3, <2>4 DEF Recover
    <2>6. QED
        BY <2>1, <2>5 DEF CoreTypeOK
<1>3. ASSUME NEW p \in Procs, UndoReference(p) PROVE CoreTypeOK'
    <2>1. LayoutTypeOK' /\ faults' \in 0..MaxFaults
        BY <1>0, <1>a, <1>3
           DEF UndoReference, disk, LayoutTypeOK, ProcTypeOK, ImportJournal,
               RefMutation, IdleJob, DigestOrNone
    <2>2. ProcTypeOK'
        BY <1>0, <1>a, <1>3, GoToType, AbandonType DEF UndoReference, Labels
    <2>3. QED
        BY <2>1, <2>2 DEF CoreTypeOK
<1>4. ASSUME NEW p \in Procs, UndoCommit(p) PROVE CoreTypeOK'
    <2>1. LayoutTypeOK' /\ faults' \in 0..MaxFaults
        BY <1>0, <1>a, <1>4 DEF UndoCommit, disk, LayoutTypeOK
    <2>2. ProcTypeOK'
        BY <1>0, <1>a, <1>4, GoToType DEF UndoCommit, Labels
    <2>3. QED
        BY <2>1, <2>2 DEF CoreTypeOK
<1>5. ASSUME NEW p \in Procs, UndoRecord(p) PROVE CoreTypeOK'
    <2>1. LayoutTypeOK' /\ faults' \in 0..MaxFaults
        BY <1>0, <1>a, <1>5 DEF UndoRecord, disk, LayoutTypeOK
    <2>2. ProcTypeOK'
        BY <1>0, <1>a, <1>5, GoToType, AbandonType DEF UndoRecord, Labels
    <2>3. QED
        BY <2>1, <2>2 DEF CoreTypeOK
<1>6. ASSUME NEW p \in Procs, UndoAliases(p) PROVE CoreTypeOK'
    <2>1. LayoutTypeOK' /\ faults' \in 0..MaxFaults
        BY <1>0, <1>a, <1>6, AliasesType DEF UndoAliases, disk, LayoutTypeOK, WriteAlias
    <2>2. ProcTypeOK'
        BY <1>0, <1>a, <1>6, GoToType, AbandonType
           DEF UndoAliases, Labels, procState, ProcTypeOK
    <2>3. QED
        BY <2>1, <2>2 DEF CoreTypeOK
<1>7. ASSUME NEW p \in Procs, UndoAck(p) PROVE CoreTypeOK'
    <2>1. LayoutTypeOK' /\ faults' \in 0..MaxFaults
        BY <1>0, <1>a, <1>7 DEF UndoAck, disk, LayoutTypeOK
    <2>2. ProcTypeOK'
        BY <1>0, <1>a, <1>7, FinishType DEF UndoAck, Labels, ProcTypeOK, IdleJob, Idle
    <2>3. QED
        BY <2>1, <2>2 DEF CoreTypeOK
<1>8. ASSUME NEW p \in Procs, PutContent(p) PROVE CoreTypeOK'
    <2>1. LayoutTypeOK' /\ faults' \in 0..MaxFaults
        BY <1>0, <1>a, <1>8, JobTypes, LayoutAssumption
           DEF PutContent, disk, LayoutTypeOK, JobFits, LayoutAssumption, ContentOf,
               ImportJob
    <2>2. ProcTypeOK'
        BY <1>0, <1>a, <1>8, FinishType DEF PutContent, procState, ProcTypeOK
    <2>3. QED
        BY <2>1, <2>2 DEF CoreTypeOK
<1>9. ASSUME NEW p \in Procs, SaveImportJournal(p) PROVE CoreTypeOK'
    <2>1. job[p] \in ImportJob
        BY <1>0, <1>a, <1>9, JobTypes DEF SaveImportJournal, JobFits
    <2>2. ASSUME NEW b \in BOOLEAN, NEW c \in BOOLEAN, NEW r \in BOOLEAN
          PROVE  [kind |-> "import", digest |-> job[p].digest, ref |-> job[p].ref,
                  record |-> b, commit |-> c, reference |-> r] \in ImportJournal
        BY <2>1 DEF ImportJob, ImportJournal
    <2>3. imports' \subseteq ImportJournal
        BY <1>0, <1>9, <2>2 DEF SaveImportJournal, LayoutTypeOK
    <2>4. LayoutTypeOK' /\ faults' \in 0..MaxFaults
        BY <1>0, <1>9, <2>3 DEF SaveImportJournal, LayoutTypeOK
    <2>5. ProcTypeOK'
        BY <1>0, <1>9, GoToType, FinishType DEF SaveImportJournal, Labels
    <2>6. QED
        BY <2>4, <2>5 DEF CoreTypeOK
<1>10. ASSUME NEW p \in Procs, WriteRecord(p) PROVE CoreTypeOK'
    <2>1. LayoutTypeOK' /\ faults' \in 0..MaxFaults
        BY <1>0, <1>a, <1>10, JobTypes
           DEF WriteRecord, disk, LayoutTypeOK, JobFits, ImportJob
    <2>2. ProcTypeOK'
        BY <1>0, <1>a, <1>10, GoToType, FailType DEF WriteRecord, Labels
    <2>3. QED
        BY <2>1, <2>2 DEF CoreTypeOK
<1>11. ASSUME NEW p \in Procs, WriteCommit(p) PROVE CoreTypeOK'
    <2>1. LayoutTypeOK' /\ faults' \in 0..MaxFaults
        BY <1>0, <1>a, <1>11, JobTypes
           DEF WriteCommit, disk, LayoutTypeOK, JobFits, ImportJob
    <2>2. ProcTypeOK'
        BY <1>0, <1>a, <1>11, GoToType DEF WriteCommit, Labels
    <2>3. QED
        BY <2>1, <2>2 DEF CoreTypeOK
<1>12. ASSUME NEW p \in Procs, CompareRef(p) PROVE CoreTypeOK'
    <2>1. LayoutTypeOK' /\ faults' \in 0..MaxFaults
        BY <1>0, <1>a, <1>12, JobTypes
           DEF CompareRef, disk, LayoutTypeOK, JobFits, RefJob, RefMutation
    <2>2. ProcTypeOK'
        BY <1>0, <1>a, <1>12, GoToType, FinishType DEF CompareRef, Labels
    <2>3. QED
        BY <2>1, <2>2 DEF CoreTypeOK
<1>13. ASSUME NEW p \in Procs, WriteReference(p) PROVE CoreTypeOK'
    <2>1. LayoutTypeOK' /\ faults' \in 0..MaxFaults
        BY <1>0, <1>a, <1>13, JobTypes
           DEF WriteReference, disk, LayoutTypeOK, JobFits, ImportJob, RefJob,
               NewTarget, DigestOrNone
    <2>2. ProcTypeOK'
        BY <1>0, <1>a, <1>13, GoToType, FailType DEF WriteReference, Labels
    <2>3. QED
        BY <2>1, <2>2 DEF CoreTypeOK
<1>14. ASSUME NEW p \in Procs, RebuildAliases(p) PROVE CoreTypeOK'
    <2>1. LayoutTypeOK' /\ faults' \in 0..MaxFaults
        BY <1>0, <1>a, <1>14, AliasesType
           DEF RebuildAliases, disk, LayoutTypeOK, WriteAlias
    <2>2. ProcTypeOK'
        BY <1>0, <1>a, <1>14, GoToType, FailType
           DEF RebuildAliases, Labels, procState, ProcTypeOK
    <2>3. QED
        BY <2>1, <2>2 DEF CoreTypeOK
<1>15. ASSUME NEW p \in Procs, Acknowledge(p) PROVE CoreTypeOK'
    <2>1. LayoutTypeOK' /\ faults' \in 0..MaxFaults
        BY <1>0, <1>a, <1>15 DEF Acknowledge, disk, LayoutTypeOK
    <2>2. ProcTypeOK'
        BY <1>0, <1>a, <1>15, FinishType DEF Acknowledge, Labels
    <2>3. QED
        BY <2>1, <2>2 DEF CoreTypeOK
<1>16. ASSUME NEW p \in Procs, GCOpen(p) PROVE CoreTypeOK'
    <2>1. LayoutTypeOK' /\ faults' \in 0..MaxFaults
        BY <1>0, <1>a, <1>16, FreshPlanType
           DEF GCOpen, disk, LayoutTypeOK, FreshGCJournal, GCJournal
    <2>2. ProcTypeOK'
        BY <1>0, <1>a, <1>16, GoToType, FinishType DEF GCOpen, Labels
    <2>3. QED
        BY <2>1, <2>2 DEF CoreTypeOK
<1>17. ASSUME NEW p \in Procs, GCPreflight(p) PROVE CoreTypeOK'
    <2>1. LayoutTypeOK' /\ faults' \in 0..MaxFaults
        BY <1>0, <1>a, <1>17 DEF GCPreflight, disk, LayoutTypeOK
    <2>2. ProcTypeOK'
        BY <1>0, <1>a, <1>17, GoToType, FinishType DEF GCPreflight, Labels
    <2>3. QED
        BY <2>1, <2>2 DEF CoreTypeOK
<1>18. ASSUME NEW p \in Procs, GCRecords(p) PROVE CoreTypeOK'
    <2>1. ASSUME NEW d \in Digests, RemoveTree(p, d) PROVE CoreTypeOK'
        <3>1. \E j \in collections : j.plan = job[p].plan
            BY <1>a, <2>1 DEF RemoveTree, AtPhase, JobFits, CollectLabels
        <3>2. CASE AtPhase(p, d, 0) /\ NextPhase(p, d)
            <4>1. LayoutTypeOK'
                BY <1>0, <3>1, <3>2, NextPhaseType
            <4>2. QED
                BY <1>0, <3>2, <4>1 DEF NextPhase, CoreTypeOK, ProcTypeOK, procState
        <3>3. CASE materialized' = materialized \ {d} /\
              UNCHANGED <<content, records, commits, refs, aliases, imports, mutations,
                          collections, procState, faults>>
            BY <1>0, <3>3 DEF CoreTypeOK, LayoutTypeOK, ProcTypeOK, procState
        <3>4. QED
            BY <2>1, <3>2, <3>3 DEF RemoveTree
    <2>2. ASSUME NEW d \in Digests, RemoveCommit(p, d) PROVE CoreTypeOK'
        <3>1. \E j \in collections : j.plan = job[p].plan
            BY <1>a, <2>2 DEF RemoveCommit, AtPhase, JobFits, CollectLabels
        <3>2. CASE AtPhase(p, d, 1) /\ NextPhase(p, d)
            <4>1. LayoutTypeOK'
                BY <1>0, <3>1, <3>2, NextPhaseType
            <4>2. QED
                BY <1>0, <3>2, <4>1 DEF NextPhase, CoreTypeOK, ProcTypeOK, procState
        <3>3. CASE Finish(p) /\ UNCHANGED <<disk, faults>>
            BY <1>0, <3>3, FinishType DEF CoreTypeOK, LayoutTypeOK, disk
        <3>4. CASE UNCHANGED <<procState, faults>> /\ LayoutTypeOK'
            BY <1>0, <3>4 DEF CoreTypeOK, ProcTypeOK, procState
        <3>5. ASSUME NEW a \in Names, aliases' = [aliases EXCEPT ![a] = @ \ {d}],
                     UNCHANGED <<content, records, commits, refs, materialized,
                                 imports, mutations, collections>>
              PROVE  LayoutTypeOK'
            BY <1>0, <3>5 DEF LayoutTypeOK
        <3>6. QED
            BY <1>0, <2>2, <3>2, <3>3, <3>4, <3>5 DEF RemoveCommit, LayoutTypeOK
    <2>3. ASSUME NEW d \in Digests, RemoveRecord(p, d) PROVE CoreTypeOK'
        <3>1. \E j \in collections : j.plan = job[p].plan
            BY <1>a, <2>3 DEF RemoveRecord, AtPhase, JobFits, CollectLabels
        <3>2. CASE AtPhase(p, d, 2) /\ NextPhase(p, d)
            <4>1. LayoutTypeOK'
                BY <1>0, <3>1, <3>2, NextPhaseType
            <4>2. QED
                BY <1>0, <3>2, <4>1 DEF NextPhase, CoreTypeOK, ProcTypeOK, procState
        <3>3. CASE records' = records \ {d} /\
              UNCHANGED <<content, commits, refs, aliases, materialized, imports,
                          mutations, collections, procState, faults>>
            BY <1>0, <3>3 DEF CoreTypeOK, LayoutTypeOK, ProcTypeOK, procState
        <3>4. QED
            BY <2>3, <3>2, <3>3 DEF RemoveRecord
    <2>4. GoTo(p, "gcContent") /\ UNCHANGED <<disk, faults>> => CoreTypeOK'
        BY <1>0, GoToType DEF CoreTypeOK, LayoutTypeOK, disk, Labels
    <2>5. QED
        BY <1>18, <2>1, <2>2, <2>3, <2>4 DEF GCRecords
<1>19. ASSUME NEW p \in Procs, GCContent(p) PROVE CoreTypeOK'
    <2>1. Journal(p) \in collections /\ Journal(p) \in GCJournal
        BY <1>0, <1>a, <1>19, JournalOnDisk
           DEF GCContent, JobFits, CollectLabels, LayoutTypeOK
    <2>2. Journal(p).plan.deleteContent \subseteq Blobs
        BY <2>1 DEF GCJournal, GCPlan
    <2>3. collections' \subseteq GCJournal
        BY <1>0, <1>a, <1>19, <2>2, StatusType
           DEF GCContent, JobFits, CollectLabels, LayoutTypeOK
    <2>4. LayoutTypeOK' /\ faults' \in 0..MaxFaults
        BY <1>0, <1>a, <1>19, <2>3 DEF GCContent, LayoutTypeOK
    <2>5. ProcTypeOK'
        BY <1>0, <1>a, <1>19, FinishType DEF GCContent, procState, ProcTypeOK
    <2>6. QED
        BY <2>4, <2>5 DEF CoreTypeOK
<1>20. ASSUME NEW p \in Procs, StartImport(p) PROVE CoreTypeOK'
    <2>1. PICK j \in ImportJob \cup RefJob \cup GCJob : Enter(p, j)
        BY <1>0, <1>a, <1>20 DEF StartImport, ImportJob, DigestOrNone
    <2>2. LayoutTypeOK' /\ faults' \in 0..MaxFaults
        BY <1>0, <2>1 DEF Enter, disk, LayoutTypeOK
    <2>3. ProcTypeOK'
        BY <1>0, <2>1, EnterType
    <2>4. QED
        BY <2>2, <2>3 DEF CoreTypeOK
<1>21. ASSUME NEW p \in Procs, StartEquivalent(p) PROVE CoreTypeOK'
    <2>1. PICK j \in ImportJob \cup RefJob \cup GCJob : Enter(p, j)
        BY <1>0, <1>a, <1>21, RepositoryAssumption
           DEF StartEquivalent, ImportJob, DigestOrNone, RepositoryAssumption
    <2>2. LayoutTypeOK' /\ faults' \in 0..MaxFaults
        BY <1>0, <2>1 DEF Enter, disk, LayoutTypeOK
    <2>3. ProcTypeOK'
        BY <1>0, <2>1, EnterType
    <2>4. QED
        BY <2>2, <2>3 DEF CoreTypeOK
<1>22. ASSUME NEW p \in Procs, StartRefChange(p) PROVE CoreTypeOK'
    <2>1. PICK j \in ImportJob \cup RefJob \cup GCJob : Enter(p, j)
        BY <1>0, <1>a, <1>22, SnapshotType DEF StartRefChange, RefJob, DigestOrNone
    <2>2. LayoutTypeOK' /\ faults' \in 0..MaxFaults
        BY <1>0, <2>1 DEF Enter, disk, LayoutTypeOK
    <2>3. ProcTypeOK'
        BY <1>0, <2>1, EnterType
    <2>4. QED
        BY <2>2, <2>3 DEF CoreTypeOK
<1>23. ASSUME NEW p \in Procs, StartGC(p) PROVE CoreTypeOK'
    <2>1. PICK j \in ImportJob \cup RefJob \cup GCJob : Enter(p, j)
        BY <1>0, <1>a, <1>23, FreshPlanType DEF StartGC, GCJob, LayoutTypeOK, GCJournal
    <2>2. LayoutTypeOK' /\ faults' \in 0..MaxFaults
        BY <1>0, <2>1 DEF Enter, disk, LayoutTypeOK
    <2>3. ProcTypeOK'
        BY <1>0, <2>1, EnterType
    <2>4. QED
        BY <2>2, <2>3 DEF CoreTypeOK
<1>24. ASSUME NEW p \in Procs, Launch(p) PROVE CoreTypeOK'
    <2>1. LayoutTypeOK' /\ faults' \in 0..MaxFaults
        BY <1>0, <1>a, <1>24 DEF Launch, disk, LayoutTypeOK
    <2>2. ProcTypeOK'
        BY <1>0, <1>a, <1>24, GoToType DEF Launch, Labels, ProcTypeOK, RecoverJob
    <2>3. QED
        BY <2>1, <2>2 DEF CoreTypeOK
<1>25. ASSUME NEW p \in Procs, Kill(p) PROVE CoreTypeOK'
    <2>1. LayoutTypeOK' /\ faults' \in 0..MaxFaults
        BY <1>0, <1>a, <1>25, RepositoryAssumption
           DEF Kill, disk, LayoutTypeOK, RepositoryAssumption
    <2>2. ProcTypeOK'
        BY <1>0, <1>a, <1>25, ReturnType DEF Kill, Labels
    <2>3. QED
        BY <2>1, <2>2 DEF CoreTypeOK
<1>26. ASSUME NEW p \in Procs, WriteError(p) PROVE CoreTypeOK'
    <2>1. LayoutTypeOK' /\ faults' \in 0..MaxFaults
        BY <1>0, <1>a, <1>26, RepositoryAssumption
           DEF WriteError, disk, LayoutTypeOK, RepositoryAssumption
    <2>2. Fail(p) \/ Finish(p) \/ Abandon(p) => ProcTypeOK'
        BY <1>0, FailType, FinishType, AbandonType
    <2>3. ASSUME NEW label \in Labels, pc' = [pc EXCEPT ![p] = label],
                 outcome' = [outcome EXCEPT ![p] = "dirty"],
                       UNCHANGED <<lifecycle, job, undo>>
          PROVE  ProcTypeOK'
        BY <1>0, <2>3 DEF ProcTypeOK
    <2>4. "undoCommit" \in Labels /\ "undoRecord" \in Labels
        BY DEF Labels
    <2>5. ProcTypeOK'
        BY <1>26, <2>2, <2>3, <2>4 DEF WriteError
    <2>6. QED
        BY <2>1, <2>5 DEF CoreTypeOK
<1>27. ASSUME NEW p \in Procs, StartLease(p) PROVE CoreTypeOK'
    <2>1. PICK j \in LeaseJob : Enter(p, j)
        BY <1>27 DEF StartLease, LeaseJob
    <2>2. LayoutTypeOK' /\ faults' \in 0..MaxFaults
        BY <1>0, <2>1 DEF Enter, disk, LayoutTypeOK
    <2>3. ProcTypeOK'
        BY <1>0, <2>1, EnterType
    <2>4. QED
        BY <2>2, <2>3 DEF CoreTypeOK
<1>28. ASSUME NEW p \in Procs, LeaseTree(p) PROVE CoreTypeOK'
    <2>1. LayoutTypeOK' /\ faults' \in 0..MaxFaults
        BY <1>0, <1>28, JobTypes DEF LeaseTree, LeaseJob, LayoutTypeOK
    <2>2. ProcTypeOK'
        BY <1>0, <1>28, FinishType DEF LeaseTree
    <2>3. QED
        BY <2>1, <2>2 DEF CoreTypeOK
<1>29. ASSUME NEW p \in Procs, LeasePayload(p) PROVE CoreTypeOK'
    <2>1. LayoutTypeOK' /\ faults' \in 0..MaxFaults
        BY <1>0, <1>29 DEF LeasePayload, disk, LayoutTypeOK
    <2>2. ProcTypeOK'
        BY <1>0, <1>29, FinishType DEF LeasePayload
    <2>3. QED
        BY <2>1, <2>2 DEF CoreTypeOK
<1>30. QED
    BY <1>0, <1>1, <1>2, <1>3, <1>4, <1>5, <1>6, <1>7, <1>8, <1>9, <1>10, <1>11, <1>12,
       <1>13, <1>14, <1>15, <1>16, <1>17, <1>18, <1>19, <1>20, <1>21, <1>22, <1>23,
       <1>24, <1>25, <1>26, <1>27, <1>28, <1>29, TypeUnchanged, NextCases
       DEF Step, Call, IInv

-----------------------------------------------------------------------------
(* Lock and journal discipline: the shapes a step can have *)

\* The labels inside an operation are those that need the lock.
LEMMA ActiveLabels ==
    /\ UndoLabels \subseteq Active /\ WriteLabels \subseteq Active
    /\ {"put", "cas", "recover", "gcOpen", "lease"} \cup CollectLabels \subseteq Active
    /\ "idle" \notin Active /\ "down" \notin Active /\ "wait" \notin Active
BY DEF Active, Labels, UndoLabels, WriteLabels, CollectLabels

\* Outside an operation a process has no claim to keep.
LEMMA OutsideGrounded ==
    ASSUME NEW p \in Procs, pc[p] \notin Active
    PROVE  Grounded(p)
BY ActiveLabels DEF Grounded, JobFits, CleanStart, ImportCovered, RefChangeCovered,
   UndoGrounded, UndoLabels, WriteLabels, CollectLabels

\* A process inside an operation holds the lock, and no other is inside one.
LEMMA Alone ==
    ASSUME LockDiscipline, NEW p \in Procs, pc[p] \in Active
    PROVE  lifecycle = p /\ \A q \in Procs \ {p} : pc[q] \notin Active
BY DEF LockDiscipline

\* A step of the holder keeps the discipline if it keeps the single transaction
\* and its own claims: nobody else has any.
LEMMA MyStep ==
    ASSUME JournalDiscipline, NEW p \in Procs, pc[p] \in Active,
           \A q \in Procs \ {p} : pc'[q] = pc[q],
           pc'[p] \in Active => lifecycle' = p,
           SingleTransaction', Grounded(p)'
    PROVE  JournalDiscipline'
<1>1. \A q \in Procs \ {p} : pc'[q] \notin Active
    BY Alone DEF JournalDiscipline
<1>2. \A q \in Procs \ {p} : Grounded(q)'
    BY <1>1, ActiveLabels
    DEF Grounded, JobFits, CleanStart, ImportCovered, RefChangeCovered,
        UndoGrounded, UndoLabels, WriteLabels, CollectLabels
<1>3. LockDiscipline'
    BY <1>1 DEF LockDiscipline, Active
<1>4. QED
    BY <1>2, <1>3 DEF JournalDiscipline

\* Removing journals keeps the single transaction.
LEMMA FewerJournals ==
    ASSUME SingleTransaction, imports' \subseteq imports, mutations' \subseteq mutations
    PROVE  SingleTransaction'
BY DEF SingleTransaction

\* Returning or dying with the lock keeps the discipline, whatever journal is
\* left behind.
LEMMA ReturnStep ==
    ASSUME ProcTypeOK, JournalDiscipline, NEW p \in Procs, pc[p] \in Active,
           NEW label \in {"idle", "down"}, Return(p, label),
           imports' \subseteq imports, mutations' \subseteq mutations
    PROVE  JournalDiscipline'
<1>1. /\ \A q \in Procs \ {p} : pc'[q] = pc[q]
      /\ pc'[p] \notin Active
    BY ActiveLabels DEF Return, ProcTypeOK
<1>2. Grounded(p)'
    BY <1>1, ActiveLabels
    DEF Grounded, JobFits, CleanStart, ImportCovered, RefChangeCovered,
        UndoGrounded, UndoLabels, WriteLabels, CollectLabels
<1>3. SingleTransaction'
    BY FewerJournals DEF JournalDiscipline
<1>4. QED
    BY <1>1, <1>2, <1>3, MyStep

\* Finishing keeps the discipline.
LEMMA FinishStep ==
    ASSUME ProcTypeOK, JournalDiscipline, NEW p \in Procs, pc[p] \in Active, Finish(p),
           imports' \subseteq imports, mutations' \subseteq mutations
    PROVE  JournalDiscipline'
BY ReturnStep DEF Finish

\* Giving up keeps the discipline.
LEMMA AbandonStep ==
    ASSUME ProcTypeOK, JournalDiscipline, NEW p \in Procs, pc[p] \in Active, Abandon(p),
           imports' \subseteq imports, mutations' \subseteq mutations
    PROVE  JournalDiscipline'
BY ReturnStep DEF Abandon

\* A step from one label outside every operation to another keeps the discipline.
LEMMA OutsideStep ==
    ASSUME JournalDiscipline, NEW p \in Procs, pc[p] \notin Active, pc'[p] \notin Active,
           \A q \in Procs \ {p} : pc'[q] = pc[q] /\ job'[q] = job[q] /\ undo'[q] = undo[q],
           lifecycle' = lifecycle \/ lifecycle = p,
           UNCHANGED <<records, commits, refs, imports, mutations, collections>>
    PROVE  JournalDiscipline'
<1>1. LockDiscipline'
    BY DEF JournalDiscipline, LockDiscipline, Active
<1>2. SingleTransaction'
    BY DEF JournalDiscipline, SingleTransaction
<1>3. Grounded(p)'
    BY ActiveLabels
    DEF Grounded, JobFits, CleanStart, ImportCovered, RefChangeCovered,
        UndoGrounded, UndoLabels, WriteLabels, CollectLabels
<1>4. ASSUME NEW q \in Procs \ {p} PROVE Grounded(q)'
    BY DEF JournalDiscipline, Grounded, JobFits, CleanStart, ImportCovered,
           RefChangeCovered, UndoGrounded
<1>5. QED
    BY <1>1, <1>2, <1>3, <1>4 DEF JournalDiscipline

\* A step that changes no lock, no journal and no flagged file keeps the discipline.
LEMMA StillStep ==
    ASSUME JournalDiscipline,
           UNCHANGED <<procState, records, commits, refs, imports, mutations,
                       collections>>
    PROVE  JournalDiscipline'
BY DEF JournalDiscipline, LockDiscipline, SingleTransaction, Grounded, JobFits,
       CleanStart,
       ImportCovered, RefChangeCovered, UndoGrounded, procState

\* Turning to a journal on disk keeps the discipline.
LEMMA UndoStep ==
    ASSUME ProcTypeOK, JournalDiscipline, NEW p \in Procs, pc[p] \in Active,
           NEW j \in imports \cup mutations,
           undo' = [undo EXCEPT ![p] = j],
           pc' = [pc EXCEPT ![p] = "undoReference"],
           UNCHANGED <<disk, lifecycle, job>>
    PROVE  JournalDiscipline'
<1>1. /\ pc'[p] = "undoReference" /\ undo'[p] = j
      /\ \A q \in Procs \ {p} : pc'[q] = pc[q]
    BY DEF ProcTypeOK
<1>2. Grounded(p)'
    BY <1>1 DEF Grounded, JobFits, CleanStart, ImportCovered, RefChangeCovered,
                UndoGrounded, WriteLabels, CollectLabels, disk
<1>3. SingleTransaction'
    BY DEF JournalDiscipline, SingleTransaction, disk
<1>4. lifecycle' = p
    BY Alone DEF JournalDiscipline
<1>5. QED
    BY <1>1, <1>2, <1>3, <1>4, MyStep

\* A failing operation finds the journal it saved and turns to it.
LEMMA FailStep ==
    ASSUME ProcTypeOK, JournalDiscipline, NEW p \in Procs, pc[p] \in Active, Fail(p),
           UNCHANGED disk
    PROVE  JournalDiscipline'
<1>1. CASE Finish(p)
    BY <1>1, FinishStep DEF disk
<1>2. CASE \E j \in OwnJournals(p) :
              /\ undo' = [undo EXCEPT ![p] = j]
              /\ pc' = [pc EXCEPT ![p] = "undoReference"]
              /\ UNCHANGED <<lifecycle, job>>
    <2>1. OwnJournals(p) \subseteq imports \cup mutations
        BY DEF OwnJournals
    <2>2. QED
        BY <1>2, <2>1, UndoStep DEF disk
<1>3. QED
    BY <1>1, <1>2 DEF Fail

\* Moving on to a label whose claims hold keeps the discipline.
LEMMA GoToStep ==
    ASSUME ProcTypeOK, JournalDiscipline, NEW p \in Procs, pc[p] \in Active,
           NEW label \in Labels, GoTo(p, label), SingleTransaction',
           pc'[p] = label => Grounded(p)'
    PROVE  JournalDiscipline'
<1>1. pc'[p] = label /\ \A q \in Procs \ {p} : pc'[q] = pc[q]
    BY DEF GoTo, ProcTypeOK
<1>2. lifecycle' = p
    BY Alone DEF JournalDiscipline, GoTo
<1>3. QED
    BY <1>1, <1>2, MyStep

\* Calling an operation keeps the discipline.
LEMMA EnterStep ==
    ASSUME ProcTypeOK, JournalDiscipline, NEW p \in Procs, NEW j, Enter(p, j)
    PROVE  JournalDiscipline'
<1>1. /\ pc[p] \notin Active /\ pc'[p] \notin Active
      /\ \A q \in Procs \ {p} : pc'[q] = pc[q] /\ job'[q] = job[q] /\ undo'[q] = undo[q]
    BY ActiveLabels DEF Enter, ProcTypeOK
<1>2. QED
    BY <1>1, OutsideStep DEF Enter, disk

\* Every step of every process keeps the discipline.
LEMMA DisciplineStep ==
    ASSUME IInv, [Next]_vars
    PROVE  JournalDiscipline'
<1>0. LayoutTypeOK /\ ProcTypeOK /\ JournalDiscipline
    BY DEF IInv, CoreTypeOK
<1>a. \A p \in Procs : Grounded(p)
    BY <1>0 DEF JournalDiscipline
<1>b. SingleTransaction
    BY <1>0 DEF JournalDiscipline
<1>1. ASSUME NEW p \in Procs, TakeLock(p) PROVE JournalDiscipline'
    <2>1. lifecycle = None /\ \A q \in Procs : pc[q] \notin Active
        BY <1>0, <1>1, RepositoryAssumption
           DEF TakeLock, JournalDiscipline, LockDiscipline, RepositoryAssumption
    <2>2. /\ lifecycle' = p /\ \A q \in Procs \ {p} : pc'[q] = pc[q]
          /\ \/ pc'[p] = "gcOpen" /\ job'[p].kind = "gc"
             \/ pc'[p] \in {"recover", "lease"}
        BY <1>0, <1>1 DEF TakeLock, ProcTypeOK
    <2>3. LockDiscipline'
        BY <2>1, <2>2 DEF LockDiscipline, Active
    <2>4. SingleTransaction'
        BY <1>b, <1>1 DEF TakeLock, SingleTransaction, disk
    <2>5. \A q \in Procs \ {p} : Grounded(q)'
        BY <2>1, <2>2, ActiveLabels
           DEF Grounded, JobFits, CleanStart, ImportCovered, RefChangeCovered,
               UndoGrounded, UndoLabels, WriteLabels, CollectLabels
    <2>6. Grounded(p)'
        BY <2>2
           DEF Grounded, JobFits, CleanStart, ImportCovered, RefChangeCovered,
               UndoGrounded, UndoLabels, WriteLabels, CollectLabels
    <2>7. QED
        BY <2>3, <2>4, <2>5, <2>6 DEF JournalDiscipline
<1>2. ASSUME NEW p \in Procs, Recover(p) PROVE JournalDiscipline'
    <2>0. pc[p] \in Active
        BY <1>2, ActiveLabels DEF Recover, Labels
    <2>1. UNCHANGED disk
        BY <1>2 DEF Recover
    <2>2. ASSUME NEW j \in imports \cup mutations, BeginUndo(p, j) PROVE JournalDiscipline'
        BY <1>0, <2>0, <2>1, <2>2, UndoStep DEF BeginUndo
    <2>3. Abandon(p) \/ Finish(p) => JournalDiscipline'
        BY <1>0, <2>0, <2>1, AbandonStep, FinishStep DEF disk
    <2>4. SingleTransaction'
        BY <1>b, <2>1 DEF SingleTransaction, disk
    <2>5. ASSUME imports = {}, mutations = {}, NEW label \in {"put", "cas"}, GoTo(p, label),
                 job[p].kind = IF label = "put" THEN "import" ELSE "ref"
          PROVE  JournalDiscipline'
        <3>1. pc'[p] = label => Grounded(p)'
            BY <2>1, <2>5
               DEF GoTo, disk, Grounded, JobFits, CleanStart, ImportCovered,
                   RefChangeCovered, UndoGrounded, UndoLabels, WriteLabels,
                   CollectLabels
        <3>2. QED
            BY <1>0, <2>0, <2>4, <2>5, <3>1, GoToStep DEF Labels
    <2>6. QED
        BY <1>2, <2>2, <2>3, <2>5 DEF Recover
<1>3. ASSUME NEW p \in Procs, UndoReference(p) PROVE JournalDiscipline'
    <2>0. pc[p] \in Active
        BY <1>3, ActiveLabels DEF UndoReference, UndoLabels
    <2>1. UNCHANGED <<imports, mutations>>
        BY <1>3 DEF UndoReference
    <2>2. Abandon(p) => JournalDiscipline'
        BY <1>0, <2>0, <2>1, AbandonStep
    <2>3. SingleTransaction'
        BY <1>b, <2>1 DEF SingleTransaction
    <2>4. ASSUME NEW label \in {"undoCommit", "undoAliases"}, GoTo(p, label),
                 label = "undoCommit" => undo[p].kind = "import"
          PROVE  JournalDiscipline'
        <3>1. pc'[p] = label => Grounded(p)'
            BY <1>a, <1>3, <2>1, <2>4
               DEF UndoReference, GoTo, Grounded, JobFits, CleanStart, ImportCovered,
                   RefChangeCovered, UndoGrounded, UndoLabels, WriteLabels,
                   CollectLabels
        <3>2. QED
            BY <1>0, <2>0, <2>3, <2>4, <3>1, GoToStep DEF Labels
    <2>5. QED
        BY <1>3, <2>2, <2>4 DEF UndoReference
<1>4. ASSUME NEW p \in Procs, UndoCommit(p) PROVE JournalDiscipline'
    <2>0. pc[p] \in Active
        BY <1>4, ActiveLabels DEF UndoCommit, UndoLabels
    <2>1. UNCHANGED <<imports, mutations>> /\ GoTo(p, "undoRecord")
        BY <1>4 DEF UndoCommit
    <2>2. SingleTransaction'
        BY <1>b, <2>1 DEF SingleTransaction
    <2>3. pc'[p] = "undoRecord" => Grounded(p)'
        BY <1>a, <1>4, <2>1
           DEF UndoCommit, GoTo, Grounded, JobFits, CleanStart, ImportCovered,
               RefChangeCovered, UndoGrounded, UndoLabels, WriteLabels, CollectLabels
    <2>4. QED
        BY <1>0, <2>0, <2>1, <2>2, <2>3, GoToStep DEF Labels
<1>5. ASSUME NEW p \in Procs, UndoRecord(p) PROVE JournalDiscipline'
    <2>0. pc[p] \in Active
        BY <1>5, ActiveLabels DEF UndoRecord, UndoLabels
    <2>1. UNCHANGED <<imports, mutations>>
        BY <1>5 DEF UndoRecord
    <2>2. SingleTransaction'
        BY <1>b, <2>1 DEF SingleTransaction
    <2>3. Abandon(p) => JournalDiscipline'
        BY <1>0, <2>0, <2>1, AbandonStep
    <2>4. ASSUME GoTo(p, "undoAliases") PROVE JournalDiscipline'
        <3>1. pc'[p] = "undoAliases" => Grounded(p)'
            BY <1>a, <1>5, <2>1, <2>4
               DEF UndoRecord, GoTo, Grounded, JobFits, CleanStart, ImportCovered,
                   RefChangeCovered, UndoGrounded, UndoLabels, WriteLabels,
                   CollectLabels
        <3>2. QED
            BY <1>0, <2>0, <2>2, <2>4, <3>1, GoToStep DEF Labels
    <2>5. QED
        BY <1>5, <2>3, <2>4 DEF UndoRecord
<1>6. ASSUME NEW p \in Procs, UndoAliases(p) PROVE JournalDiscipline'
    <2>0. pc[p] \in Active
        BY <1>6, ActiveLabels DEF UndoAliases, UndoLabels
    <2>1. UNCHANGED <<records, commits, refs, imports, mutations, collections>>
        BY <1>6 DEF UndoAliases
    <2>2. SingleTransaction'
        BY <1>b, <2>1 DEF SingleTransaction
    <2>3. Abandon(p) => JournalDiscipline'
        BY <1>0, <2>0, <2>1, AbandonStep
    <2>4. UNCHANGED procState => JournalDiscipline'
        BY <1>0, <2>1, StillStep
    <2>5. ASSUME GoTo(p, "undoAck") PROVE JournalDiscipline'
        <3>1. pc'[p] = "undoAck" => Grounded(p)'
            BY <1>a, <1>6, <2>1, <2>5
               DEF UndoAliases, GoTo, Grounded, JobFits, CleanStart, ImportCovered,
                   RefChangeCovered, UndoGrounded, UndoLabels, WriteLabels,
                   CollectLabels
        <3>2. QED
            BY <1>0, <2>0, <2>2, <2>5, <3>1, GoToStep DEF Labels
    <2>6. QED
        BY <1>6, <2>3, <2>4, <2>5 DEF UndoAliases
<1>7. ASSUME NEW p \in Procs, UndoAck(p) PROVE JournalDiscipline'
    <2>0. pc[p] \in Active
        BY <1>7, ActiveLabels DEF UndoAck, UndoLabels
    <2>1. imports' \subseteq imports /\ mutations' \subseteq mutations
        BY <1>7 DEF UndoAck
    <2>2. Finish(p) => JournalDiscipline'
        BY <1>0, <2>0, <2>1, FinishStep
    <2>3. ASSUME pc' = [pc EXCEPT ![p] = "recover"],
          UNCHANGED <<lifecycle, job>> PROVE JournalDiscipline'
        <3>1. pc'[p] = "recover" /\ \A q \in Procs \ {p} : pc'[q] = pc[q]
            BY <1>0, <2>3 DEF ProcTypeOK
        <3>2. Grounded(p)'
            BY <3>1
               DEF Grounded, JobFits, CleanStart, ImportCovered, RefChangeCovered,
                   UndoGrounded, UndoLabels, WriteLabels, CollectLabels
        <3>3. SingleTransaction' /\ lifecycle' = p
            BY <1>0, <2>0, <2>1, <2>3, FewerJournals, Alone DEF JournalDiscipline
        <3>4. QED
            BY <1>0, <2>0, <3>1, <3>2, <3>3, MyStep
    <2>4. QED
        BY <1>7, <2>2, <2>3 DEF UndoAck
<1>8. ASSUME NEW p \in Procs, PutContent(p) PROVE JournalDiscipline'
    <2>0. pc[p] \in Active
        BY <1>8, ActiveLabels DEF PutContent, Labels
    <2>1. UNCHANGED <<records, commits, refs, imports, mutations, collections>>
        BY <1>8 DEF PutContent
    <2>2. Finish(p) => JournalDiscipline'
        BY <1>0, <2>0, <2>1, FinishStep
    <2>3. UNCHANGED procState => JournalDiscipline'
        BY <1>0, <2>1, StillStep
    <2>4. QED
        BY <1>8, <2>2, <2>3 DEF PutContent
<1>9. ASSUME NEW p \in Procs, SaveImportJournal(p) PROVE JournalDiscipline'
    <2>0. pc[p] \in Active
        BY <1>9, ActiveLabels DEF SaveImportJournal, Labels
    <2>1. /\ imports = {} /\ mutations = {} /\ job[p].kind = "import"
          /\ job[p] \in ImportJob
        BY <1>0, <1>a, <1>9, JobTypes
           DEF SaveImportJournal, Grounded, CleanStart, JobFits
    <2>2. UNCHANGED <<records, commits, refs, mutations, collections>>
        BY <1>9 DEF SaveImportJournal
    <2>3. CASE Finish(p) /\ UNCHANGED imports
        BY <1>0, <2>0, <2>2, <2>3, FinishStep
    <2>4. ASSUME GoTo(p, "record"), NEW previous,
                 previous = IF job[p].ref = None THEN None ELSE Target(job[p].ref),
                 previous \in {None, job[p].digest},
                 imports' = {[kind |-> "import", digest |-> job[p].digest, ref |-> job[p].ref,
                              record |-> job[p].digest \notin records,
                              commit |-> job[p].digest \notin commits,
                              reference |-> previous = None /\ job[p].ref # None]}
          PROVE  JournalDiscipline'
        <3>1. job[p].ref # None => previous = refs[job[p].ref]
            BY <2>1, <2>4 DEF Target
        <3>2. SingleTransaction'
            BY <2>1, <2>2, <2>4 DEF SingleTransaction
        <3>3. pc'[p] = "record" => ImportCovered(p)'
            BY <2>1, <2>2, <2>4, <3>1 DEF GoTo, ImportCovered
        <3>4. pc'[p] = "record" => Grounded(p)'
            BY <2>1, <2>4, <3>3
               DEF GoTo, Grounded, JobFits, CleanStart, RefChangeCovered, UndoGrounded,
                   UndoLabels, CollectLabels
        <3>5. QED
            BY <1>0, <2>0, <2>4, <3>2, <3>4, GoToStep DEF Labels
    <2>5. QED
        BY <1>9, <2>1, <2>3, <2>4 DEF SaveImportJournal
<1>10. ASSUME NEW p \in Procs, WriteRecord(p) PROVE JournalDiscipline'
    <2>0. pc[p] \in Active
        BY <1>10, ActiveLabels DEF WriteRecord, WriteLabels
    <2>1. UNCHANGED <<commits, refs, imports, mutations, collections>>
        BY <1>10 DEF WriteRecord
    <2>2. SingleTransaction'
        BY <1>b, <2>1 DEF SingleTransaction
    <2>3. Fail(p) /\ UNCHANGED records => JournalDiscipline'
        BY <1>0, <1>10, <2>0, FailStep DEF WriteRecord, disk
    <2>4. ASSUME GoTo(p, "commit") PROVE JournalDiscipline'
        <3>1. pc'[p] = "commit" => Grounded(p)'
            BY <1>a, <1>10, <2>1, <2>4
               DEF WriteRecord, GoTo, Grounded, JobFits, CleanStart, ImportCovered,
                   RefChangeCovered, UndoGrounded, UndoLabels, WriteLabels,
                   CollectLabels
        <3>2. QED
            BY <1>0, <2>0, <2>2, <2>4, <3>1, GoToStep DEF Labels
    <2>5. QED
        BY <1>10, <2>3, <2>4 DEF WriteRecord
<1>11. ASSUME NEW p \in Procs, WriteCommit(p) PROVE JournalDiscipline'
    <2>0. pc[p] \in Active
        BY <1>11, ActiveLabels DEF WriteCommit, WriteLabels
    <2>1. UNCHANGED <<records, refs, imports, mutations, collections>>
        BY <1>11 DEF WriteCommit
    <2>2. SingleTransaction'
        BY <1>b, <2>1 DEF SingleTransaction
    <2>3. job[p].kind = "import" /\ pc[p] = "commit"
        BY <1>a, <1>11 DEF WriteCommit, Grounded, JobFits
    <2>4. ASSUME NEW label \in {"aliases", "reference"}, GoTo(p, label),
                 label = "reference" => job[p].ref # None
          PROVE  JournalDiscipline'
        <3>1. pc'[p] = label => ImportCovered(p)'
            BY <1>a, <2>1, <2>3, <2>4 DEF GoTo, Grounded, ImportCovered, WriteLabels
        <3>2. pc'[p] = label => Grounded(p)'
            BY <1>a, <2>1, <2>3, <2>4, <3>1
               DEF GoTo, Grounded, JobFits, CleanStart, RefChangeCovered, UndoGrounded,
                   UndoLabels, CollectLabels
        <3>3. QED
            BY <1>0, <2>0, <2>2, <2>4, <3>2, GoToStep DEF Labels
    <2>5. QED
        BY <1>11, <2>4 DEF WriteCommit
<1>12. ASSUME NEW p \in Procs, CompareRef(p) PROVE JournalDiscipline'
    <2>0. pc[p] \in Active
        BY <1>12, ActiveLabels DEF CompareRef, Labels
    <2>1. UNCHANGED <<records, commits, refs, imports, collections>>
        BY <1>12 DEF CompareRef
    <2>2. /\ imports = {} /\ mutations = {} /\ job[p].kind = "ref"
          /\ job[p] \in RefJob
        BY <1>0, <1>a, <1>12, JobTypes DEF CompareRef, Grounded, CleanStart, JobFits
    <2>3. CASE Finish(p) /\ UNCHANGED mutations
        BY <1>0, <2>0, <2>1, <2>3, FinishStep
    <2>4. ASSUME GoTo(p, "reference"), refs[job[p].ref] = job[p].old,
                 IF job[p].old = job[p].new THEN mutations' = {}
                 ELSE mutations' = {[kind |-> "ref", ref |-> job[p].ref,
                                     previous |-> job[p].old, next |-> job[p].new]}
          PROVE  JournalDiscipline'
        <3>1. SingleTransaction'
            BY <2>1, <2>2, <2>4 DEF SingleTransaction
        <3>2. pc'[p] = "reference" => Grounded(p)'
            BY <2>1, <2>2, <2>4
               DEF GoTo, Grounded, JobFits, CleanStart, ImportCovered, RefChangeCovered,
                   UndoGrounded, UndoLabels, WriteLabels, CollectLabels
        <3>3. QED
            BY <1>0, <2>0, <2>4, <3>1, <3>2, GoToStep DEF Labels
    <2>5. QED
        BY <1>12, <2>2, <2>3, <2>4 DEF CompareRef
<1>13. ASSUME NEW p \in Procs, WriteReference(p) PROVE JournalDiscipline'
    <2>0. pc[p] \in Active
        BY <1>13, ActiveLabels DEF WriteReference, WriteLabels
    <2>1. UNCHANGED <<records, commits, imports, mutations, collections>>
        BY <1>13 DEF WriteReference
    <2>2. SingleTransaction'
        BY <1>b, <2>1 DEF SingleTransaction
    <2>3. Fail(p) /\ UNCHANGED refs => JournalDiscipline'
        BY <1>0, <1>13, <2>0, FailStep DEF WriteReference, disk
    <2>4. ASSUME GoTo(p, "aliases") PROVE JournalDiscipline'
        <3>1. pc'[p] = "aliases" => Grounded(p)'
            BY <1>a, <1>13, <2>1, <2>4
               DEF WriteReference, GoTo, Grounded, JobFits, CleanStart, ImportCovered,
                   RefChangeCovered, UndoGrounded, UndoLabels, WriteLabels,
                   CollectLabels
        <3>2. QED
            BY <1>0, <2>0, <2>2, <2>4, <3>1, GoToStep DEF Labels
    <2>5. QED
        BY <1>13, <2>3, <2>4 DEF WriteReference
<1>14. ASSUME NEW p \in Procs, RebuildAliases(p) PROVE JournalDiscipline'
    <2>0. pc[p] \in Active
        BY <1>14, ActiveLabels DEF RebuildAliases, WriteLabels
    <2>1. UNCHANGED <<records, commits, refs, imports, mutations, collections>>
        BY <1>14 DEF RebuildAliases
    <2>2. SingleTransaction'
        BY <1>b, <2>1 DEF SingleTransaction
    <2>3. Fail(p) /\ UNCHANGED aliases => JournalDiscipline'
        BY <1>0, <1>14, <2>0, FailStep DEF RebuildAliases, disk
    <2>4. UNCHANGED procState => JournalDiscipline'
        BY <1>0, <2>1, StillStep
    <2>5. ASSUME GoTo(p, "ack") PROVE JournalDiscipline'
        <3>1. pc'[p] = "ack" => Grounded(p)'
            BY <1>a, <1>14, <2>1, <2>5
               DEF RebuildAliases, GoTo, Grounded, JobFits, CleanStart, ImportCovered,
                   RefChangeCovered, UndoGrounded, UndoLabels, WriteLabels,
                   CollectLabels
        <3>2. QED
            BY <1>0, <2>0, <2>2, <2>5, <3>1, GoToStep DEF Labels
    <2>6. QED
        BY <1>14, <2>3, <2>4, <2>5 DEF RebuildAliases
<1>15. ASSUME NEW p \in Procs, Acknowledge(p) PROVE JournalDiscipline'
    <2>0. pc[p] \in Active
        BY <1>15, ActiveLabels DEF Acknowledge, WriteLabels
    <2>1. QED
        BY <1>0, <1>15, <2>0, FinishStep DEF Acknowledge
<1>16. ASSUME NEW p \in Procs, GCOpen(p) PROVE JournalDiscipline'
    <2>0. pc[p] \in Active
        BY <1>16, ActiveLabels DEF GCOpen, Labels
    <2>1. UNCHANGED <<records, commits, refs, imports, mutations>>
        BY <1>16 DEF GCOpen
    <2>2. SingleTransaction'
        BY <1>b, <2>1 DEF SingleTransaction
    <2>3. Finish(p) => JournalDiscipline'
        BY <1>0, <2>0, <2>1, FinishStep
    <2>4. job[p].kind = "gc"
        BY <1>a, <1>16 DEF GCOpen, Grounded, JobFits
    <2>5. ASSUME GoTo(p, "gcPreflight"), \E j \in collections' : j.plan = job[p].plan
          PROVE  JournalDiscipline'
        <3>1. pc'[p] = "gcPreflight" => Grounded(p)'
            BY <2>1, <2>4, <2>5
               DEF GoTo, Grounded, JobFits, CleanStart, ImportCovered, RefChangeCovered,
                   UndoGrounded, UndoLabels, WriteLabels, CollectLabels
        <3>2. QED
            BY <1>0, <2>0, <2>2, <2>5, <3>1, GoToStep DEF Labels
    <2>6. FreshGCJournal(job[p].plan).plan = job[p].plan
        BY DEF FreshGCJournal
    <2>7. QED
        BY <1>16, <2>3, <2>5, <2>6 DEF GCOpen
<1>17. ASSUME NEW p \in Procs, GCPreflight(p) PROVE JournalDiscipline'
    <2>0. pc[p] \in Active
        BY <1>17, ActiveLabels DEF GCPreflight, CollectLabels
    <2>1. UNCHANGED disk
        BY <1>17 DEF GCPreflight
    <2>2. SingleTransaction'
        BY <1>b, <2>1 DEF SingleTransaction, disk
    <2>3. Finish(p) => JournalDiscipline'
        BY <1>0, <2>0, <2>1, FinishStep DEF disk
    <2>4. ASSUME GoTo(p, "gcRecords") PROVE JournalDiscipline'
        <3>1. pc'[p] = "gcRecords" => Grounded(p)'
            BY <1>a, <1>17, <2>1, <2>4
               DEF GCPreflight, GoTo, disk, Grounded, JobFits, CleanStart,
                   ImportCovered, RefChangeCovered, UndoGrounded, UndoLabels,
                   WriteLabels, CollectLabels
        <3>2. QED
            BY <1>0, <2>0, <2>2, <2>4, <3>1, GoToStep DEF Labels
    <2>5. QED
        BY <1>17, <2>3, <2>4 DEF GCPreflight
<1>18. ASSUME NEW p \in Procs, GCRecords(p) PROVE JournalDiscipline'
    <2>0. pc[p] = "gcRecords" /\ pc[p] \in Active
        BY <1>18, ActiveLabels
           DEF GCRecords, RemoveTree, RemoveCommit, RemoveRecord, AtPhase, CollectLabels
    <2>1. UNCHANGED <<imports, mutations>>
        BY <1>18 DEF GCRecords, RemoveTree, RemoveCommit, RemoveRecord, NextPhase, disk
    <2>2. SingleTransaction'
        BY <1>b, <2>1 DEF SingleTransaction
    <2>3. Finish(p) => JournalDiscipline'
        BY <1>0, <2>0, <2>1, FinishStep
    <2>4. ASSUME GoTo(p, "gcContent"), UNCHANGED disk PROVE JournalDiscipline'
        <3>1. pc'[p] = "gcContent" => Grounded(p)'
            BY <1>a, <2>0, <2>4
               DEF GoTo, disk, Grounded, JobFits, CleanStart, ImportCovered,
                   RefChangeCovered, UndoGrounded, UndoLabels, WriteLabels,
                   CollectLabels
        <3>2. QED
            BY <1>0, <2>0, <2>2, <2>4, <3>1, GoToStep DEF Labels
    <2>5. ASSUME UNCHANGED procState, \E j \in collections' : j.plan = job[p].plan
          PROVE  JournalDiscipline'
        <3>1. Grounded(p)'
            BY <1>a, <2>0, <2>5
               DEF procState, Grounded, JobFits, CleanStart, ImportCovered,
                   RefChangeCovered, UndoGrounded, UndoLabels, WriteLabels,
                   CollectLabels
        <3>2. pc' = pc /\ lifecycle' = p
            BY <1>0, <2>0, <2>5, Alone DEF JournalDiscipline, procState
        <3>3. QED
            BY <1>0, <2>0, <2>2, <3>1, <3>2, MyStep
    <2>6. \E j \in collections : j.plan = job[p].plan
        BY <1>a, <2>0 DEF Grounded, JobFits, CollectLabels
    <2>7. ASSUME NEW d \in Digests, NextPhase(p, d) PROVE JournalDiscipline'
        <3>1. [Journal(p) EXCEPT !.phase[d] = @ + 1].plan = job[p].plan
            BY <1>0, <2>6, JournalOnDisk DEF LayoutTypeOK, GCJournal
        <3>2. QED
            BY <2>5, <2>7, <3>1 DEF NextPhase, SaveGC
    <2>8. ASSUME NEW d \in Digests,
                 RemoveTree(p, d) \/ RemoveCommit(p, d) \/ RemoveRecord(p, d)
          PROVE  JournalDiscipline'
        BY <2>3, <2>5, <2>6, <2>7, <2>8 DEF RemoveTree, RemoveCommit, RemoveRecord
    <2>9. QED
        BY <1>18, <2>4, <2>8 DEF GCRecords, disk
<1>19. ASSUME NEW p \in Procs, GCContent(p) PROVE JournalDiscipline'
    <2>0. pc[p] \in Active
        BY <1>19, ActiveLabels DEF GCContent, CollectLabels
    <2>1. UNCHANGED <<records, commits, refs, imports, mutations>>
        BY <1>19 DEF GCContent
    <2>2. SingleTransaction'
        BY <1>b, <2>1 DEF SingleTransaction
    <2>3. Finish(p) => JournalDiscipline'
        BY <1>0, <2>0, <2>1, FinishStep
    <2>4. \E j \in collections : j.plan = job[p].plan
        BY <1>a, <1>19 DEF GCContent, Grounded, JobFits, CollectLabels
    <2>5. ASSUME UNCHANGED procState, \E j \in collections' : j.plan = job[p].plan
          PROVE  JournalDiscipline'
        <3>1. Grounded(p)'
            BY <1>a, <1>19, <2>1, <2>5
               DEF GCContent, procState, Grounded, JobFits, CleanStart, ImportCovered,
                   RefChangeCovered, UndoGrounded, UndoLabels, WriteLabels,
                   CollectLabels
        <3>2. pc' = pc /\ lifecycle' = p
            BY <1>0, <2>0, <2>5, Alone DEF JournalDiscipline, procState
        <3>3. QED
            BY <1>0, <2>0, <2>2, <3>1, <3>2, MyStep
    <2>6. ASSUME NEW b, NEW s, SaveGC(p, [Journal(p) EXCEPT !.status[b] = s]),
                 UNCHANGED procState
          PROVE  JournalDiscipline'
        <3>1. [Journal(p) EXCEPT !.status[b] = s].plan = job[p].plan
            BY <1>0, <2>4, JournalOnDisk DEF LayoutTypeOK, GCJournal
        <3>2. QED
            BY <2>5, <2>6, <3>1 DEF SaveGC
    <2>7. QED
        BY <1>19, <2>3, <2>4, <2>5, <2>6 DEF GCContent
<1>20. ASSUME NEW p \in Procs, StartImport(p) PROVE JournalDiscipline'
    <2>1. PICK j : Enter(p, j)
        BY <1>20 DEF StartImport
    <2>2. QED
        BY <1>0, <2>1, EnterStep
<1>21. ASSUME NEW p \in Procs, StartEquivalent(p) PROVE JournalDiscipline'
    <2>1. PICK j : Enter(p, j)
        BY <1>21 DEF StartEquivalent
    <2>2. QED
        BY <1>0, <2>1, EnterStep
<1>22. ASSUME NEW p \in Procs, StartRefChange(p) PROVE JournalDiscipline'
    <2>1. PICK j : Enter(p, j)
        BY <1>22 DEF StartRefChange
    <2>2. QED
        BY <1>0, <2>1, EnterStep
<1>23. ASSUME NEW p \in Procs, StartGC(p) PROVE JournalDiscipline'
    <2>1. PICK j : Enter(p, j)
        BY <1>23 DEF StartGC
    <2>2. QED
        BY <1>0, <2>1, EnterStep
<1>24. ASSUME NEW p \in Procs, Launch(p) PROVE JournalDiscipline'
    <2>1. /\ pc[p] \notin Active /\ pc'[p] \notin Active
          /\ \A q \in Procs \ {p} : pc'[q] = pc[q] /\ job'[q] = job[q] /\ undo'[q] = undo[q]
          /\ UNCHANGED <<disk, lifecycle>>
        BY <1>0, <1>24, ActiveLabels DEF Launch, GoTo, ProcTypeOK
    <2>2. QED
        BY <1>0, <2>1, OutsideStep DEF disk
<1>25. ASSUME NEW p \in Procs, Kill(p) PROVE JournalDiscipline'
    <2>1. UNCHANGED disk /\ Return(p, "down")
        BY <1>25 DEF Kill
    <2>2. CASE pc[p] \in Active
        BY <1>0, <2>1, <2>2, ReturnStep DEF disk
    <2>3. CASE pc[p] \notin Active
        <3>1. /\ pc'[p] \notin Active
              /\ \A q \in Procs \ {p} : pc'[q] = pc[q] /\ job'[q] = job[q] /\ undo'[q] = undo[q]
              /\ lifecycle' = lifecycle \/ lifecycle = p
            BY <1>0, <2>1, ActiveLabels DEF Return, ProcTypeOK
        <3>2. QED
            BY <1>0, <2>1, <2>3, <3>1, OutsideStep DEF disk
    <2>4. QED
        BY <2>2, <2>3
<1>26. ASSUME NEW p \in Procs, WriteError(p) PROVE JournalDiscipline'
    <2>0. UNCHANGED disk /\ pc[p] \in Active
        BY <1>26, ActiveLabels DEF WriteError, UndoLabels, WriteLabels, CollectLabels
    <2>1. Fail(p) \/ Finish(p) \/ Abandon(p) => JournalDiscipline'
        BY <1>0, <2>0, FailStep, FinishStep, AbandonStep DEF disk
    <2>2. ASSUME pc[p] \in {"undoReference", "undoCommit"}, undo[p].kind = "import",
                 NEW label \in {"undoCommit", "undoRecord"}, pc' = [pc EXCEPT ![p] = label],
                 UNCHANGED <<lifecycle, job, undo>>
          PROVE  JournalDiscipline'
        <3>1. pc'[p] = label /\ \A q \in Procs \ {p} : pc'[q] = pc[q]
            BY <1>0, <2>2 DEF ProcTypeOK
        <3>2. Grounded(p)'
            BY <1>a, <2>0, <2>2, <3>1
               DEF disk, Grounded, JobFits, CleanStart, ImportCovered, RefChangeCovered,
                   UndoGrounded, UndoLabels, WriteLabels, CollectLabels
        <3>3. SingleTransaction' /\ lifecycle' = p
            BY <1>0, <1>b, <2>0, <2>2, Alone
               DEF SingleTransaction, JournalDiscipline, disk
        <3>4. QED
            BY <1>0, <2>0, <3>1, <3>2, <3>3, MyStep
    <2>3. pc[p] = "undoCommit" => undo[p].kind = "import"
        BY <1>a DEF Grounded, UndoGrounded
    <2>4. QED
        BY <1>26, <2>1, <2>2, <2>3 DEF WriteError
<1>27. ASSUME NEW p \in Procs, StartLease(p) PROVE JournalDiscipline'
    <2>1. PICK j : Enter(p, j)
        BY <1>27 DEF StartLease
    <2>2. QED
        BY <1>0, <2>1, EnterStep
<1>28. ASSUME NEW p \in Procs, LeaseTree(p) \/ LeasePayload(p) PROVE JournalDiscipline'
    <2>1. pc[p] \in Active
        BY <1>28, ActiveLabels DEF LeaseTree, LeasePayload
    <2>2. QED
        BY <1>0, <1>28, <2>1, FinishStep DEF LeaseTree, LeasePayload, disk
<1>29. CASE UNCHANGED core
    BY <1>0, <1>29, StillStep DEF core, disk
<1>30. QED
    BY <1>1, <1>2, <1>3, <1>4, <1>5, <1>6, <1>7, <1>8, <1>9, <1>10, <1>11, <1>12, <1>13,
       <1>14, <1>15, <1>16, <1>17, <1>18, <1>19, <1>20, <1>21, <1>22, <1>23, <1>24,
       <1>25, <1>26, <1>27, <1>28, <1>29, NextCases
       DEF Step, Call
===============================================================================
