----------------------------- MODULE Repository -----------------------------
(***************************************************************************)
(* Processes sharing one artifact repository: imports, reference changes,  *)
(* garbage collection, materialization and recovery (pkg/repository), each *)
(* broken into the writes it makes to the disk.  A process may be killed   *)
(* between two writes, or a write may fail; both draw on MaxFaults.        *)
(*                                                                         *)
(* Every mutation holds the repo-lifecycle file lock, which the kernel     *)
(* releases when its holder dies.  Plans and expected targets are read     *)
(* without it.  A process that starts rolls back the journals it finds; a  *)
(* process that was already running does so only in imports and reference  *)
(* changes.                                                                *)
(***************************************************************************)
EXTENDS RepositoryLayout

CONSTANTS
    Procs,          \* processes using the repository
    Equivalents,    \* pairs of digests of one manifest under two algorithms
    MaxFaults,      \* bound on kills and failed writes in a behaviour
    MaxLeases       \* bound on leases held at a time

ASSUME RepositoryAssumption ==
    /\ Equivalents \subseteq Digests \X Digests
    /\ MaxFaults \in Nat
    /\ MaxLeases \in Nat
    /\ None \notin Procs

VARIABLES
    lifecycle,      \* holder of the repo-lifecycle lock
    pc,             \* where each process stands
    job,            \* the operation it performs, with its arguments
    undo,           \* the journal it is rolling back
    outcome,        \* "failed": its own change is undone; "dirty": so is part of the cleanup
    leases,         \* file locks on one artifact that outlive the call that took them
    faults          \* kills and failed writes so far

procState == <<lifecycle, pc, job, undo, outcome>>
core == <<disk, procState, faults>>
vars == <<core, leases>>

ImportJob == [kind : {"import"}, digest : Digests, ref : Refs \cup {None},
              source : DigestOrNone]
\* DeleteRef is a change to None.
RefJob == [kind : {"ref"}, ref : Refs, old : DigestOrNone, new : DigestOrNone]
GCJob == [kind : {"gc"}, plan : GCPlan]
RecoverJob == [kind : {"recover"}]
\* LeaseMaterialized, PayloadSources
LeaseJob == [kind : {"tree", "payload"}, digest : Digests]
IdleJob == [kind : {"none"}]
Idle == [kind |-> "none"]

Labels ==
    {"down", "idle", "wait", "recover",
     "put", "record", "commit", "cas", "reference", "aliases", "ack",
     "undoReference", "undoCommit", "undoRecord", "undoAliases", "undoAck",
     "gcOpen", "gcPreflight", "gcRecords", "gcContent", "lease"}

ProcTypeOK ==
    /\ lifecycle \in Procs \cup {None}
    /\ pc \in [Procs -> Labels]
    /\ job \in [Procs -> ImportJob \cup RefJob \cup GCJob \cup RecoverJob \cup LeaseJob
                       \cup IdleJob]
    /\ undo \in [Procs -> ImportJournal \cup RefMutation \cup IdleJob]
    /\ outcome \in [Procs -> {"ok", "failed", "dirty"}]

\* "tree": materialization lock, shared.  The digest lock of a payload lease
\* is held before the payload is checked ("digest") and after ("payload").
Lease == [holder : Procs, kind : {"tree", "digest", "payload"}, digest : Digests]

CoreTypeOK == LayoutTypeOK /\ ProcTypeOK /\ faults \in 0..MaxFaults
TypeOK == CoreTypeOK /\ leases \subseteq Lease

Init ==
    /\ EmptyRepository
    /\ lifecycle = None
    /\ pc = [p \in Procs |-> "idle"]
    /\ job = [p \in Procs |-> Idle]
    /\ undo = [p \in Procs |-> Idle]
    /\ outcome = [p \in Procs |-> "ok"]
    /\ leases = {}
    /\ faults = 0

-----------------------------------------------------------------------------
(* Helpers *)

GoTo(p, label) ==
    /\ pc' = [pc EXCEPT ![p] = label]
    /\ UNCHANGED <<lifecycle, job, undo, outcome>>

\* The operation returns or dies: the lock is dropped, its memory is gone.
Return(p, label) ==
    /\ lifecycle' = IF lifecycle = p THEN None ELSE lifecycle
    /\ pc' = [pc EXCEPT ![p] = label]
    /\ job' = [job EXCEPT ![p] = Idle]
    /\ undo' = [undo EXCEPT ![p] = Idle]
    /\ outcome' = [outcome EXCEPT ![p] = "ok"]

Finish(p) == Return(p, "idle")

\* Recovery cannot proceed: the operation fails, and a starting process exits.
Abandon(p) == Return(p, IF job[p].kind = "recover" THEN "down" ELSE "idle")

\* The journal an import or a reference change saved for itself
OwnJournals(p) ==
    {j \in imports : job[p].kind = "import" /\ j.digest = job[p].digest /\ j.ref = job[p].ref}
    \cup {m \in mutations : job[p].kind = "ref" /\ m.ref = job[p].ref}

\* An operation that fails after saving its journal rolls it back.
Fail(p) ==
    \/ /\ OwnJournals(p) = {}
       /\ Finish(p)
    \/ \E j \in OwnJournals(p) :
          /\ undo' = [undo EXCEPT ![p] = j]
          /\ outcome' = [outcome EXCEPT ![p] = "failed"]
          /\ pc' = [pc EXCEPT ![p] = "undoReference"]
          /\ UNCHANGED <<lifecycle, job>>

\* An importer and a lessee wait for the digest lock, ApplyGC for the
\* materialization lock too, with the repo-lifecycle lock in hand.
DigestFree(d) == \A l \in leases : l.digest = d => l.kind = "tree"
Unleased(d) == \A l \in leases : l.digest # d

Enter(p, j) ==
    /\ pc[p] = "idle"
    /\ pc' = [pc EXCEPT ![p] = "wait"]
    /\ job' = [job EXCEPT ![p] = j]
    /\ UNCHANGED <<disk, lifecycle, undo, outcome, leases, faults>>

-----------------------------------------------------------------------------
(* Calls; what each reads before it asks for the lock *)

StartImport(p) ==
    \E d \in Digests, r \in Refs \cup {None} :
        Enter(p, [kind |-> "import", digest |-> d, ref |-> r, source |-> None])

StartEquivalent(p) ==
    \E e \in Equivalents :
        Enter(p, [kind |-> "import", digest |-> e[2], ref |-> None, source |-> e[1]])

\* registerExactRef, deleteStoredRef: the caller has read the reference, and
\* has just loaded the digest it points the reference at.
StartRefChange(p) ==
    /\ SnapshotReadable
    /\ \E r \in Refs, new \in {d \in Digests : Visible(d)} \cup {None} :
        /\ new # None \/ Snapshot[r] # None
        /\ Enter(p, [kind |-> "ref", ref |-> r, old |-> Snapshot[r], new |-> new])

\* ApplyGC: with a plan just computed, or one kept from an interrupted run
StartGC(p) ==
    \E plan \in {j.plan : j \in collections} \cup (IF PlanReadable THEN {FreshPlan} ELSE {}) :
        Enter(p, [kind |-> "gc", plan |-> plan])

\* LeaseMaterialized, Materialize, PayloadSources: of an artifact that the
\* caller has just loaded
StartLease(p) ==
    \E d \in Digests, kind \in {"tree"} \cup (IF MaxLeases > 0 THEN {"payload"} ELSE {}) :
        Visible(d) /\ Enter(p, [kind |-> kind, digest |-> d])

\* DefaultResolver recovers only if it sees a file in transactions/.
Launch(p) ==
    /\ pc[p] = "down"
    /\ IF imports = {} /\ mutations = {}
       THEN GoTo(p, "idle")
       ELSE /\ pc' = [pc EXCEPT ![p] = "wait"]
            /\ job' = [job EXCEPT ![p] = [kind |-> "recover"]]
            /\ UNCHANGED <<lifecycle, undo, outcome>>
    /\ UNCHANGED <<disk, leases, faults>>

\* Mutant: only reference changes recover first.
TakeLockImportUnrecovered(p) ==
    /\ pc[p] = "wait"
    /\ lifecycle = None
    /\ lifecycle' = p
    /\ pc' = [pc EXCEPT ![p] = CASE job[p].kind = "gc" -> "gcOpen"
                                 [] job[p].kind \in {"tree", "payload"} -> "lease"
                                 [] job[p].kind = "import" -> "put"
                                 [] OTHER -> "recover"]
    /\ UNCHANGED <<disk, job, undo, outcome, leases, faults>>

\* Mutant: a lease is taken under the locks of its artifact alone.
TakeLockNotToLease(p) ==
    /\ pc[p] = "wait"
    /\ IF job[p].kind \in {"tree", "payload"}
       THEN UNCHANGED lifecycle
       ELSE lifecycle = None /\ lifecycle' = p
    /\ pc' = [pc EXCEPT ![p] = CASE job[p].kind = "gc" -> "gcOpen"
                                 [] job[p].kind \in {"tree", "payload"} -> "lease"
                                 [] OTHER -> "recover"]
    /\ UNCHANGED <<disk, job, undo, outcome, leases, faults>>

\* ApplyGC and the leases do not recover once they have the lock.
TakeLock(p) ==
    /\ pc[p] = "wait"
    /\ lifecycle = None
    /\ lifecycle' = p
    /\ pc' = [pc EXCEPT ![p] = CASE job[p].kind = "gc" -> "gcOpen"
                                 [] job[p].kind \in {"tree", "payload"} -> "lease"
                                 [] OTHER -> "recover"]
    /\ UNCHANGED <<disk, job, undo, outcome, leases, faults>>

-----------------------------------------------------------------------------
(* recoverImportsLocked, and the rollback of one journal *)

BeginUndo(p, j) ==
    /\ undo' = [undo EXCEPT ![p] = j]
    /\ pc' = [pc EXCEPT ![p] = "undoReference"]
    /\ UNCHANGED <<lifecycle, job, outcome>>

\* Files sort by name, so import journals come first.
Recover(p) ==
    /\ pc[p] = "recover"
    /\ \/ \E j \in imports : BeginUndo(p, j)
       \/ /\ imports = {}
          /\ \E m \in mutations :
                IF WellFormed(m) /\ Owned(m) THEN BeginUndo(p, m) ELSE Abandon(p)
       \/ /\ imports = {} /\ mutations = {}
          /\ CASE job[p].kind = "import" -> GoTo(p, "put")
               [] job[p].kind = "ref" -> GoTo(p, "cas")
               [] OTHER -> Finish(p)
    /\ UNCHANGED <<disk, leases, faults>>

UndoReference(p) ==
    /\ pc[p] = "undoReference"
    /\ UNCHANGED <<content, records, commits, aliases, materialized,
                   imports, mutations, collections, leases, faults>>
    /\ LET j == undo[p] IN
       \/ /\ j.kind = "import"
          /\ j.reference /\ refs[j.ref] \notin {None, j.digest}
          /\ Abandon(p)
          /\ UNCHANGED refs
       \/ /\ j.kind = "import"
          /\ j.reference => refs[j.ref] \in {None, j.digest}
          /\ refs' = IF j.reference THEN [refs EXCEPT ![j.ref] = None] ELSE refs
          /\ GoTo(p, "undoCommit")
       \/ /\ j.kind = "ref"
          /\ refs' = IF refs[j.ref] = j.next
                     THEN [refs EXCEPT ![j.ref] = j.previous] ELSE refs
          /\ GoTo(p, "undoAliases")

\* Mutant: takes the marker even of an artifact committed before.
UndoCommitAlways(p) ==
    /\ pc[p] = "undoCommit"
    /\ commits' = commits \ {undo[p].digest}
    /\ GoTo(p, "undoRecord")
    /\ UNCHANGED <<content, records, refs, aliases, materialized,
                   imports, mutations, collections, leases, faults>>

UndoCommit(p) ==
    /\ pc[p] = "undoCommit"
    /\ commits' = IF undo[p].commit THEN commits \ {undo[p].digest} ELSE commits
    /\ GoTo(p, "undoRecord")
    /\ UNCHANGED <<content, records, refs, aliases, materialized,
                   imports, mutations, collections, leases, faults>>

UndoRecord(p) ==
    /\ pc[p] = "undoRecord"
    /\ records' = IF undo[p].record THEN records \ {undo[p].digest} ELSE records
    /\ IF outcome[p] = "dirty" THEN Abandon(p) ELSE GoTo(p, "undoAliases")
    /\ UNCHANGED <<content, commits, refs, aliases, materialized,
                   imports, mutations, collections, leases, faults>>

\* One alias file at a time; the index is derived afresh from the raw state.
WriteAlias ==
    /\ AliasesRebuildable
    /\ \E a \in Names :
          /\ aliases[a] # RebuiltAliases[a]
          /\ aliases' = [aliases EXCEPT ![a] = RebuiltAliases[a]]

UndoAliases(p) ==
    /\ pc[p] = "undoAliases"
    /\ \/ WriteAlias /\ UNCHANGED procState
       \/ AliasesRebuildable /\ aliases = RebuiltAliases /\ GoTo(p, "undoAck") /\ UNCHANGED aliases
       \/ ~AliasesRebuildable /\ Abandon(p) /\ UNCHANGED aliases
    /\ UNCHANGED <<content, records, commits, refs, materialized,
                   imports, mutations, collections, leases, faults>>

\* Mutant: recovery goes on without removing the journal.
UndoAckKept(p) ==
    /\ pc[p] = "undoAck"
    /\ IF outcome[p] = "ok"
       THEN /\ pc' = [pc EXCEPT ![p] = "recover"]
            /\ undo' = [undo EXCEPT ![p] = Idle]
            /\ UNCHANGED <<lifecycle, job, outcome>>
       ELSE Finish(p)
    /\ UNCHANGED <<disk, leases, faults>>

\* The journal goes last; recovery then continues, a failed call returns.
UndoAck(p) ==
    /\ pc[p] = "undoAck"
    /\ imports' = imports \ {undo[p]}
    /\ mutations' = mutations \ {undo[p]}
    /\ IF outcome[p] = "ok"
       THEN /\ pc' = [pc EXCEPT ![p] = "recover"]
            /\ undo' = [undo EXCEPT ![p] = Idle]
            /\ UNCHANGED <<lifecycle, job, outcome>>
       ELSE Finish(p)
    /\ UNCHANGED <<content, records, commits, refs, aliases, materialized,
                   collections, leases, faults>>

-----------------------------------------------------------------------------
(* ImportSources, CommitEquivalentManifest and importData *)

\* putSource publishes one immutable object that is not there yet.
\* CommitEquivalentManifest first loads its source record and layer, and is
\* done if the target is already there.
PutContent(p) ==
    /\ pc[p] = "put"
    /\ LET j == job[p]
           missing == ContentOf(j.digest) \ content
       IN \/ /\ j.source # None
             /\ ~(Visible(j.source) /\ Layer[j.source] \subseteq content) \/ Visible(j.digest)
             /\ Finish(p)
             /\ UNCHANGED content
          \/ /\ j.source # None =>
                   /\ Visible(j.source) /\ Layer[j.source] \subseteq content
                   /\ ~Visible(j.digest)
             /\ \E b \in missing : content' = content \cup {b}
             /\ UNCHANGED procState
    /\ UNCHANGED <<records, commits, refs, aliases, materialized,
                   imports, mutations, collections, leases, faults>>

\* Mutant: a reference to another artifact is moved.
SaveImportJournalUnguarded(p) ==
    /\ pc[p] = "put"
    /\ LET j == job[p]
           previous == IF j.ref = None THEN None ELSE Target(j.ref)
       IN /\ ContentOf(j.digest) \subseteq content
          /\ j.source # None => Visible(j.source) /\ ~Visible(j.digest)
          /\ DigestFree(j.digest)
          /\ imports' = imports \cup
               {[kind |-> "import", digest |-> j.digest, ref |-> j.ref,
                 record |-> j.digest \notin records,
                 commit |-> j.digest \notin commits,
                 reference |-> previous = None /\ j.ref # None]}
          /\ GoTo(p, "record")
    /\ UNCHANGED <<content, records, commits, refs, aliases, materialized,
                   mutations, collections, leases, faults>>

SaveImportJournal(p) ==
    /\ pc[p] = "put"
    /\ LET j == job[p]
           previous == IF j.ref = None THEN None ELSE Target(j.ref)
       IN /\ ContentOf(j.digest) \subseteq content
          /\ j.source # None => Visible(j.source) /\ ~Visible(j.digest)
          /\ \/ /\ previous \notin {None, j.digest}
                /\ Finish(p)
                /\ UNCHANGED imports
             \/ /\ previous \in {None, j.digest}
                /\ DigestFree(j.digest)
                /\ imports' = imports \cup
                     {[kind |-> "import", digest |-> j.digest, ref |-> j.ref,
                       record |-> j.digest \notin records,
                       commit |-> j.digest \notin commits,
                       reference |-> previous = None /\ j.ref # None]}
                /\ GoTo(p, "record")
    /\ UNCHANGED <<content, records, commits, refs, aliases, materialized,
                   mutations, collections, leases, faults>>

\* A record is immutable.  One written for an equivalent manifest names its
\* canonical alias, one written by ImportSources does not: they conflict.
WriteRecord(p) ==
    /\ pc[p] = "record"
    /\ \/ /\ job[p].digest \in records \cap {e[2] : e \in Equivalents}
          /\ Fail(p)
          /\ UNCHANGED records
       \/ /\ records' = records \cup {job[p].digest}
          /\ GoTo(p, "commit")
    /\ UNCHANGED <<content, commits, refs, aliases, materialized,
                   imports, mutations, collections, leases, faults>>

WriteCommit(p) ==
    /\ pc[p] = "commit"
    /\ commits' = commits \cup {job[p].digest}
    /\ GoTo(p, IF job[p].ref = None THEN "aliases" ELSE "reference")
    /\ UNCHANGED <<content, records, refs, aliases, materialized,
                   imports, mutations, collections, leases, faults>>

-----------------------------------------------------------------------------
(* UpdateRef, DeleteRef and updateRefWithHook *)

\* Mutant: an expected target of None is not compared.
CompareRefLoose(p) ==
    /\ pc[p] = "cas"
    /\ LET j == job[p] IN
       \/ /\ (j.old # None /\ refs[j.ref] # j.old) \/ (j.old = None /\ j.new = None)
          /\ Finish(p)
          /\ UNCHANGED mutations
       \/ /\ refs[j.ref] = j.old /\ j.old = j.new /\ j.new # None
          /\ GoTo(p, "reference")
          /\ UNCHANGED mutations
       \/ /\ refs[j.ref] = j.old \/ j.old = None
          /\ j.old # j.new
          /\ mutations' = mutations \cup
               {[kind |-> "ref", ref |-> j.ref, previous |-> j.old, next |-> j.new]}
          /\ GoTo(p, "reference")
    /\ UNCHANGED <<content, records, commits, refs, aliases, materialized,
                   imports, collections, leases, faults>>

\* Compare with the target the caller read, then journal the change.  A
\* change to the present target only rebuilds the aliases.
CompareRef(p) ==
    /\ pc[p] = "cas"
    /\ LET j == job[p] IN
       \/ /\ refs[j.ref] # j.old \/ (j.old = None /\ j.new = None)
          /\ Finish(p)
          /\ UNCHANGED mutations
       \/ /\ refs[j.ref] = j.old /\ j.old = j.new /\ j.new # None
          /\ GoTo(p, "reference")
          /\ UNCHANGED mutations
       \/ /\ refs[j.ref] = j.old /\ j.old # j.new
          /\ mutations' = mutations \cup
               {[kind |-> "ref", ref |-> j.ref, previous |-> j.old, next |-> j.new]}
          /\ GoTo(p, "reference")
    /\ UNCHANGED <<content, records, commits, refs, aliases, materialized,
                   imports, collections, leases, faults>>

NewTarget(j) == IF j.kind = "import" THEN j.digest ELSE j.new

\* A new target must load, its own import journal notwithstanding.
WriteReference(p) ==
    /\ pc[p] = "reference"
    /\ LET new == NewTarget(job[p]) IN
       \/ /\ new # None /\ ~Committed(new)
          /\ Fail(p)
          /\ UNCHANGED refs
       \/ /\ new # None => Committed(new)
          /\ refs' = [refs EXCEPT ![job[p].ref] = new]
          /\ GoTo(p, "aliases")
    /\ UNCHANGED <<content, records, commits, aliases, materialized,
                   imports, mutations, collections, leases, faults>>

\* Mutant: DeleteRef leaves the index as it is.
RebuildAliasesOnAdd(p) ==
    /\ pc[p] = "aliases"
    /\ IF job[p].kind = "ref" /\ NewTarget(job[p]) = None
       THEN GoTo(p, "ack") /\ UNCHANGED aliases
       ELSE \/ WriteAlias /\ UNCHANGED procState
            \/ /\ AliasesRebuildable /\ aliases = RebuiltAliases
               /\ GoTo(p, "ack") /\ UNCHANGED aliases
            \/ ~AliasesRebuildable /\ Fail(p) /\ UNCHANGED aliases
    /\ UNCHANGED <<content, records, commits, refs, materialized,
                   imports, mutations, collections, leases, faults>>

RebuildAliases(p) ==
    /\ pc[p] = "aliases"
    /\ \/ WriteAlias /\ UNCHANGED procState
       \/ AliasesRebuildable /\ aliases = RebuiltAliases /\ GoTo(p, "ack") /\ UNCHANGED aliases
       \/ ~AliasesRebuildable /\ Fail(p) /\ UNCHANGED aliases
    /\ UNCHANGED <<content, records, commits, refs, materialized,
                   imports, mutations, collections, leases, faults>>

\* Removing the journal is the acknowledgement.
Acknowledge(p) ==
    /\ pc[p] = "ack"
    /\ imports' = imports \ OwnJournals(p)
    /\ mutations' = mutations \ OwnJournals(p)
    /\ Finish(p)
    /\ UNCHANGED <<content, records, commits, refs, aliases, materialized,
                   collections, leases, faults>>

-----------------------------------------------------------------------------
(* ApplyGC *)

Journal(p) == CHOOSE j \in collections : j.plan = job[p].plan

SaveGC(p, j) == collections' = (collections \ {Journal(p)}) \cup {j}

\* Resume the plan's journal, or start one if the plan is still current.
GCOpen(p) ==
    /\ pc[p] = "gcOpen"
    /\ LET plan == job[p].plan IN
       \/ /\ \E j \in collections : j.plan = plan
          /\ IF GCJournalValid(Journal(p)) THEN GoTo(p, "gcPreflight") ELSE Finish(p)
          /\ UNCHANGED collections
       \/ /\ \A j \in collections : j.plan # plan
          /\ ~PlanReadable \/ FreshPlan # plan
          /\ Finish(p)
          /\ UNCHANGED collections
       \/ /\ \A j \in collections : j.plan # plan
          /\ PlanReadable /\ FreshPlan = plan
          /\ collections' = collections \cup {FreshGCJournal(plan)}
          /\ GoTo(p, "gcPreflight")
    /\ UNCHANGED <<content, records, commits, refs, aliases, materialized,
                   imports, mutations, leases, faults>>

GCPreflight(p) ==
    /\ pc[p] = "gcPreflight"
    /\ LET j == Journal(p)
           progressed == \E d \in j.plan.delete : j.phase[d] > 0
           untouched == {d \in j.plan.delete : j.phase[d] = 0}
       IN IF /\ SnapshotReadable
             /\ Snapshot = j.plan.refs \/ progressed
             /\ \A d \in untouched :
                   ~Referenced(Snapshot, d) /\ Described(d) /\ ~Pending(d)
          THEN GoTo(p, "gcRecords") ELSE Finish(p)
    /\ UNCHANGED <<disk, leases, faults>>

\* Candidates are taken in digest order, so at most one is half done; before
\* it touches one ApplyGC waits for its leases, whatever its phase.
Victims(j) ==
    LET begun == {d \in j.plan.delete : j.phase[d] \in 1..2}
    IN IF begun # {} THEN begun ELSE {d \in j.plan.delete : j.phase[d] = 0}

AtPhase(p, d, k) ==
    /\ pc[p] = "gcRecords"
    /\ d \in Victims(Journal(p))
    /\ Journal(p).phase[d] = k
    /\ Unleased(d)

\* Mutant: the phase is counted twice.
NextPhaseTwice(p, d) ==
    /\ SaveGC(p, [Journal(p) EXCEPT !.phase[d] = @ + 2])
    /\ UNCHANGED <<content, records, commits, refs, aliases, materialized,
                   imports, mutations, procState, leases, faults>>

NextPhase(p, d) ==
    /\ SaveGC(p, [Journal(p) EXCEPT !.phase[d] = @ + 1])
    /\ UNCHANGED <<content, records, commits, refs, aliases, materialized,
                   imports, mutations, procState, leases, faults>>

\* Mutant: the tree goes without the digest and materialization locks.
RemoveTreeLeased(p, d) ==
    /\ pc[p] = "gcRecords"
    /\ d \in Victims(Journal(p))
    /\ Journal(p).phase[d] = 0
    /\ \/ /\ d \in materialized
          /\ materialized' = materialized \ {d}
          /\ UNCHANGED <<content, records, commits, refs, aliases, imports,
                         mutations, collections, procState, leases, faults>>
       \/ d \notin materialized /\ NextPhase(p, d)

RemoveTree(p, d) ==
    /\ AtPhase(p, d, 0)
    /\ \/ /\ d \in materialized
          /\ materialized' = materialized \ {d}
          /\ UNCHANGED <<content, records, commits, refs, aliases, imports,
                         mutations, collections, procState, leases, faults>>
       \/ d \notin materialized /\ NextPhase(p, d)

\* Mutant: the names of the artifact stay in the index.
RemoveCommitNamed(p, d) ==
    /\ AtPhase(p, d, 1)
    /\ IF ~SnapshotReadable \/ Referenced(Snapshot, d)
       THEN Finish(p) /\ UNCHANGED <<disk, leases, faults>>
       ELSE \/ /\ d \in commits
               /\ commits' = commits \ {d}
               /\ UNCHANGED <<content, records, refs, aliases, materialized,
                              imports, mutations, collections, procState, leases, faults>>
            \/ d \notin commits /\ NextPhase(p, d)

\* References are read again, then the alias files and the marker go.
RemoveCommit(p, d) ==
    /\ AtPhase(p, d, 1)
    /\ IF ~SnapshotReadable \/ Referenced(Snapshot, d)
       THEN Finish(p) /\ UNCHANGED <<disk, leases, faults>>
       ELSE \/ \E a \in Names :
                 /\ d \in aliases[a]
                 /\ aliases' = [aliases EXCEPT ![a] = @ \ {d}]
                 /\ UNCHANGED <<content, records, commits, refs, materialized,
                                imports, mutations, collections, procState, leases, faults>>
            \/ /\ \A a \in Names : d \notin aliases[a]
               /\ d \in commits
               /\ commits' = commits \ {d}
               /\ UNCHANGED <<content, records, refs, aliases, materialized,
                              imports, mutations, collections, procState, leases, faults>>
            \/ /\ \A a \in Names : d \notin aliases[a]
               /\ d \notin commits
               /\ NextPhase(p, d)

\* Mutant: the phase is saved whether the record is gone or not.
RemoveRecordCounted(p, d) ==
    /\ AtPhase(p, d, 2)
    /\ \/ /\ d \in records
          /\ records' = records \ {d}
          /\ UNCHANGED <<content, commits, refs, aliases, materialized, imports,
                         mutations, collections, procState, leases, faults>>
       \/ NextPhase(p, d)

RemoveRecord(p, d) ==
    /\ AtPhase(p, d, 2)
    /\ \/ /\ d \in records
          /\ records' = records \ {d}
          /\ UNCHANGED <<content, commits, refs, aliases, materialized, imports,
                         mutations, collections, procState, leases, faults>>
       \/ d \notin records /\ NextPhase(p, d)

GCRecords(p) ==
    \/ \E d \in Digests : RemoveTree(p, d) \/ RemoveCommit(p, d) \/ RemoveRecord(p, d)
    \/ /\ pc[p] = "gcRecords"
       /\ Victims(Journal(p)) = {}
       /\ \A d \in Journal(p).plan.delete : Unleased(d)
       /\ GoTo(p, "gcContent")
       /\ UNCHANGED <<disk, leases, faults>>

\* What is protected is derived afresh for each object.
GCContent(p) ==
    /\ pc[p] = "gcContent"
    /\ UNCHANGED <<records, commits, refs, aliases, materialized,
                   imports, mutations, leases, faults>>
    /\ LET j == Journal(p)
           protected == GCProtected(j.plan)
           pending == {b \in j.plan.deleteContent : j.status[b] = "pending"}
       IN \/ \E b \in pending :
               \/ /\ ~SnapshotReadable \/ (b \in protected /\ b \notin content)
                  /\ Finish(p)
                  /\ UNCHANGED <<content, collections>>
               \/ /\ SnapshotReadable /\ b \in protected \cap content
                  /\ SaveGC(p, [j EXCEPT !.status[b] = "retained"])
                  /\ UNCHANGED <<content, procState>>
               \/ /\ SnapshotReadable /\ b \in content \ protected
                  /\ content' = content \ {b}
                  /\ UNCHANGED <<collections, procState>>
               \/ /\ SnapshotReadable /\ b \notin content \cup protected
                  /\ SaveGC(p, [j EXCEPT !.status[b] = "deleted"])
                  /\ UNCHANGED <<content, procState>>
          \/ /\ pending = {}
             /\ collections' = collections \ {j}
             /\ Finish(p)
             /\ UNCHANGED content

-----------------------------------------------------------------------------
(* LeaseMaterialized and PayloadSources; a caller that only wants the files   *)
(* (Materialize) closes its lease at once.                                    *)

Loadable(d) == Visible(d) /\ ContentOf(d) \subseteq content

Grant(p, kind, d) ==
    LET new == [holder |-> p, kind |-> kind, digest |-> d]
    IN \/ UNCHANGED leases
       \/ Cardinality(leases \cup {new}) <= MaxLeases /\ leases' = leases \cup {new}

\* The record is loaded and its content verified under both locks; a tree that
\* is missing is published in one rename.
LeaseTree(p) ==
    /\ pc[p] = "lease" /\ job[p].kind = "tree"
    /\ LET d == job[p].digest IN
          /\ DigestFree(d)
          /\ IF Loadable(d)
             THEN materialized' = materialized \cup {d} /\ Grant(p, "tree", d)
             ELSE UNCHANGED <<materialized, leases>>
    /\ Finish(p)
    /\ UNCHANGED <<content, records, commits, refs, aliases,
                   imports, mutations, collections, faults>>

\* The repo-lifecycle lock is given back before the payload is looked at.
LeasePayload(p) ==
    /\ pc[p] = "lease" /\ job[p].kind = "payload"
    /\ DigestFree(job[p].digest)
    /\ Grant(p, "digest", job[p].digest)
    /\ Finish(p)
    /\ UNCHANGED <<disk, faults>>

CheckPayload(p) ==
    /\ \E l \in leases :
          /\ l.holder = p /\ l.kind = "digest"
          /\ leases' = (leases \ {l}) \cup
                        (IF Loadable(l.digest) THEN {[l EXCEPT !.kind = "payload"]} ELSE {})
    /\ UNCHANGED core

\* MaterializationLease.Close, PayloadLease.Close: a review or an upload is over.
EndLease(p) ==
    /\ \E l \in leases : l.holder = p /\ leases' = leases \ {l}
    /\ UNCHANGED core

-----------------------------------------------------------------------------
(* Faults *)

\* The process is killed; the kernel releases its locks.
Kill(p) ==
    /\ faults < MaxFaults
    /\ faults' = faults + 1
    /\ pc[p] \notin {"down", "idle"} \/ \E l \in leases : l.holder = p
    /\ Return(p, "down")
    /\ leases' = {l \in leases : l.holder # p}
    /\ UNCHANGED disk

\* A write fails and the operation takes its error path.  In the removals of
\* a rollback the next removal is still tried and the journal then stays.
WriteError(p) ==
    /\ faults < MaxFaults
    /\ faults' = faults + 1
    /\ \/ /\ pc[p] \in {"record", "commit", "reference", "aliases", "ack"}
          /\ Fail(p)
       \/ /\ pc[p] \in {"put", "cas", "gcOpen", "gcRecords", "gcContent", "lease"}
          /\ Finish(p)
       \/ /\ pc[p] = "undoReference" /\ undo[p].kind = "import"
          /\ undo[p].reference /\ refs[undo[p].ref] = undo[p].digest
          /\ pc' = [pc EXCEPT ![p] = "undoCommit"]
          /\ outcome' = [outcome EXCEPT ![p] = "dirty"]
          /\ UNCHANGED <<lifecycle, job, undo>>
       \/ /\ pc[p] = "undoCommit" /\ undo[p].commit
          /\ pc' = [pc EXCEPT ![p] = "undoRecord"]
          /\ outcome' = [outcome EXCEPT ![p] = "dirty"]
          /\ UNCHANGED <<lifecycle, job, undo>>
       \/ /\ \/ pc[p] = "undoReference" /\ undo[p].kind = "ref"
             \/ pc[p] = "undoRecord" /\ undo[p].record
             \/ pc[p] \in {"undoAliases", "undoAck"}
          /\ Abandon(p)
    /\ UNCHANGED <<disk, leases>>

-----------------------------------------------------------------------------

\* What a process does by itself once it has called an operation
Step(p) ==
    \/ TakeLock(p) \/ Recover(p)
    \/ UndoReference(p) \/ UndoCommit(p) \/ UndoRecord(p) \/ UndoAliases(p) \/ UndoAck(p)
    \/ PutContent(p) \/ SaveImportJournal(p) \/ WriteRecord(p) \/ WriteCommit(p)
    \/ CompareRef(p) \/ WriteReference(p) \/ RebuildAliases(p) \/ Acknowledge(p)
    \/ GCOpen(p) \/ GCPreflight(p) \/ GCRecords(p) \/ GCContent(p)
    \/ LeaseTree(p) \/ LeasePayload(p)

Call(p) ==
    \/ StartImport(p) \/ StartEquivalent(p) \/ StartRefChange(p) \/ StartGC(p)
    \/ StartLease(p) \/ Launch(p)

Next == \E p \in Procs :
    \/ Step(p) \/ Call(p) \/ Kill(p) \/ WriteError(p)
    \/ CheckPayload(p) \/ EndLease(p)

Spec == Init /\ [][Next]_vars

FairSpec == Spec /\ \A p \in Procs : WF_vars(Step(p))

-----------------------------------------------------------------------------
(* What recovery would leave: an unacknowledged change counts as undone. *)

Installed ==
    {d \in records \cap commits :
        \A j \in imports : j.digest = d => ~j.record /\ ~j.commit}

Tags ==
    [r \in Refs |-> IF \E j \in imports : j.ref = r /\ j.reference THEN None ELSE Target(r)]

-----------------------------------------------------------------------------
(* Properties *)

\* At most one change is unacknowledged at any time, whatever crashed before:
\* every import and reference change first rolls back what it finds.  The
\* rollbacks rely on it, each undoing its own change without regard to others.
SingleTransaction ==
    /\ \A j, k \in imports : j = k
    /\ \A m, n \in mutations : m = n
    /\ imports = {} \/ mutations = {}

\* After any kill or failed write, a reference recovery keeps points at an
\* artifact recovery keeps: publication writes record, marker and reference in
\* that order, rollback removes only what its own import created, and a
\* collection reads the references again before it removes a marker.
ReferencesInstalled == \A r \in Refs : Tags[r] # None => Tags[r] \in Installed

\* "Reachable records, content, and materializations are never deleted"
\* (docs/application-repository-lifecycle.md): no collection takes content of
\* an artifact that a reference reaches.
ReachableContentKept ==
    \A r \in Refs : Tags[r] # None => ContentOf(Tags[r]) \subseteq content

\* Nobody holds the lock and no operation is unfinished.
Settled == lifecycle = None /\ imports = {} /\ mutations = {} /\ collections = {}

\* No artifact loses a name it is found by, although rollback, rebuild and
\* collection each rewrite the index file by file and any of them may be cut
\* short.  A half-collected record is the exception: its names go first.
NamesKept ==
    lifecycle = None /\ imports = {} /\ mutations = {} =>
        \A a \in Names :
            ShownAliases[a] \subseteq aliases[a] \cup
                {d \in Digests : \E j \in collections : d \in j.plan.delete /\ j.phase[d] > 0}

\* Once every operation has finished, readAlias accepts each index file, so a
\* lookup by name does not fail.  "GC may leave digest tombstones in an alias
\* list; resolution already filters uncommitted digests"
\* (docs/application-repository-lifecycle.md).
NamesResolve ==
    Settled => \A a \in Names : aliases[a] # {} => aliases[a] = ShownAliases[a]

\* A reference change that its process did not finish can be rolled back:
\* both targets its journal names still load while nobody holds the lock.
\* "Repository publication, leases, lifecycle journals, migration checkpoints,
\* check/GC behavior, and unified resolver migration are durable"
\* (docs/cli-audit-resolution.md).
RecoveryPossible == lifecycle = None => MutationsReadable

\* "Materialization, commit, record, and unique-content actions are idempotent
\* and resume from the journal after interruption"
\* (docs/application-repository-lifecycle.md): ApplyGC accepts the journal of
\* an interrupted collection, unless a candidate was brought back since.
CollectionResumable ==
    lifecycle = None =>
        \A j \in collections :
            (\A d \in j.plan.delete : d \notin materialized /\ (d \in commits => j.phase[d] < 2))
                => GCJournalValid(j)

\* What changes on disk is described by a journal.
Accounted ==
    /\ \A d \in records' \ records : \E j \in imports : j.digest = d /\ j.record
    /\ \A d \in commits' \ commits : \E j \in imports : j.digest = d /\ j.commit
    /\ \A d \in records \ records' :
          \/ \E j \in imports : j.digest = d /\ j.record
          \/ \E j \in collections : d \in j.plan.delete /\ j.phase[d] = 2
    /\ \A d \in commits \ commits' :
          \/ \E j \in imports : j.digest = d /\ j.commit
          \/ \E j \in collections : d \in j.plan.delete /\ j.phase[d] = 1
    /\ \A r \in Refs : refs'[r] # refs[r] =>
          \/ \E j \in imports : /\ j.ref = r /\ j.reference
                                /\ {refs[r], refs'[r]} = {None, j.digest}
          \/ \E m \in mutations : /\ m.ref = r
                                  /\ {refs[r], refs'[r]} = {m.previous, m.next}
    /\ \A b \in content \ content' :
          \E j \in collections : b \in j.plan.deleteContent /\ j.status[b] = "pending"

\* Write-ahead: every record, marker and reference an import or a reference
\* change adds or takes back is described by the journal it saved before, with
\* the flags that make its rollback undo exactly that; everything a collection
\* removes is a candidate of its journal, in the phase its resumption repeats.
\* No write of any process is left that recovery cannot account for.
JournalFirst == [][Accounted]_vars

\* A lease is held "until Close or callback return, preventing GC from deleting
\* an artifact in use" (docs/application-repository-lifecycle.md): no collection
\* takes a tree a review runs in or its artifact, and what an upload has checked
\* stays installed, visible and complete until it is over, although the
\* lifecycle lock was given back long before.
LeasesHonoured ==
    \A l \in leases :
        /\ l.kind = "tree" => l.digest \in materialized \cap Installed
        /\ l.kind = "payload" => l.digest \in Installed /\ Loadable(l.digest)

\* Reviews and uploads come to an end.
LeasesEnd == \A l \in Lease : []<>(l \notin leases)

\* The repo-lifecycle lock never stays with a process that is alive.  Imports,
\* collections and lease requests hold it while they wait for the leases of
\* other processes, so it takes that leases end; new ones cannot keep them
\* waiting, since each needs the lifecycle lock first.
LockReleased == LeasesEnd => \A p \in Procs : []<>(lifecycle # p)

\* Imports, reference changes and collections take effect in one step, at
\* their acknowledgement, or not at all, through kills and failed writes.
Atomic == INSTANCE ArtifactStore WITH
    Artifacts <- Digests, Tags <- Refs, Absent <- None,
    installed <- Installed, tags <- Tags
FailureAtomic == Atomic!StoreSpec
=============================================================================
