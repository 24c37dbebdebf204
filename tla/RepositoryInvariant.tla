-------------------------- MODULE RepositoryInvariant --------------------------
(***************************************************************************)
(* The inductive invariant behind the safety of Repository: what a process *)
(* that stands at a label knows of the lock, of its own operation and of   *)
(* the journals on disk.  It holds however many processes are killed and   *)
(* writes fail, because recovery runs before every change that journals.   *)
(***************************************************************************)
EXTENDS Repository

UndoLabels == {"undoReference", "undoCommit", "undoRecord", "undoAliases", "undoAck"}
WriteLabels == {"record", "commit", "reference", "aliases", "ack"}
CollectLabels == {"gcPreflight", "gcRecords", "gcContent"}

Active == Labels \ {"down", "idle", "wait"}

\* Only the holder of the lock is inside an operation.
LockDiscipline == \A p \in Procs : pc[p] \in Active => lifecycle = p

JobFits(p) ==
    /\ pc[p] \in {"put", "record", "commit"} => job[p].kind = "import"
    /\ pc[p] = "cas" => job[p].kind = "ref"
    /\ pc[p] \in {"reference", "aliases", "ack"} => job[p].kind \in {"import", "ref"}
    /\ pc[p] = "reference" /\ job[p].kind = "import" => job[p].ref # None
    /\ pc[p] \in {"gcOpen"} \cup CollectLabels => job[p].kind = "gc"
    /\ pc[p] \in CollectLabels => \E j \in collections : j.plan = job[p].plan

\* Nothing is unacknowledged when a change is about to be journaled.
CleanStart(p) == pc[p] \in {"put", "cas"} => imports = {} /\ mutations = {}

\* The flags of an import journal tell what the import is still to create.
ImportCovered(p) ==
    pc[p] \in WriteLabels /\ job[p].kind = "import" =>
        /\ mutations = {}
        /\ \E j \in imports :
              /\ imports = {j}
              /\ j.digest = job[p].digest /\ j.ref = job[p].ref
              /\ pc[p] = "record" /\ j.digest \notin records => j.record
              /\ pc[p] \in {"record", "commit"} /\ j.digest \notin commits => j.commit
              /\ pc[p] \in {"record", "commit", "reference"} /\ j.ref # None =>
                    \/ refs[j.ref] = j.digest
                    \/ refs[j.ref] = None /\ j.reference

RefChangeCovered(p) ==
    pc[p] \in WriteLabels /\ job[p].kind = "ref" =>
        /\ imports = {}
        /\ pc[p] = "reference" => refs[job[p].ref] = job[p].old
        /\ IF job[p].old = job[p].new THEN mutations = {}
           ELSE mutations = {[kind |-> "ref", ref |-> job[p].ref,
                              previous |-> job[p].old, next |-> job[p].new]}

UndoGrounded(p) ==
    /\ pc[p] \in UndoLabels => undo[p] \in imports \cup mutations
    /\ pc[p] \in {"undoCommit", "undoRecord"} => undo[p].kind = "import"

Grounded(p) ==
    JobFits(p) /\ CleanStart(p) /\ ImportCovered(p) /\ RefChangeCovered(p) /\ UndoGrounded(p)

\* A process inside an operation runs it over a journal of its own, at most
\* one of which exists, and that journal describes what is left to write.
JournalDiscipline ==
    /\ LockDiscipline
    /\ SingleTransaction
    /\ \A p \in Procs : Grounded(p)

IInv == CoreTypeOK /\ JournalDiscipline
-----------------------------------------------------------------------------
(* What each operation has already written or taken back *)

\* The lock keeps collections out, so what an import wrote is still there.
ImportDone(p) ==
    pc[p] \in WriteLabels /\ job[p].kind = "import" =>
        /\ ContentOf(job[p].digest) \subseteq content
        /\ pc[p] # "record" => job[p].digest \in records
        /\ pc[p] \in {"reference", "aliases", "ack"} => job[p].digest \in commits
        /\ pc[p] \in {"aliases", "ack"} /\ job[p].ref # None =>
              refs[job[p].ref] = job[p].digest

RefChangeDone(p) ==
    pc[p] \in {"aliases", "ack"} /\ job[p].kind = "ref" =>
        /\ refs[job[p].ref] = job[p].new
        /\ job[p].new # None => job[p].new \in records \cap commits

\* A rollback that is not "dirty" has undone all its labels say.
UndoDone(p) ==
    /\ outcome[p] = "dirty" => pc[p] \in {"undoCommit", "undoRecord"}
    /\ pc[p] \in UndoLabels \ {"undoReference"} /\ outcome[p] # "dirty" =>
          /\ undo[p].kind = "ref" => refs[undo[p].ref] = undo[p].previous
          /\ undo[p].kind = "import" =>
                /\ undo[p].reference => refs[undo[p].ref] = None
                /\ pc[p] # "undoCommit" /\ undo[p].commit => undo[p].digest \notin commits
                /\ pc[p] \in {"undoAliases", "undoAck"} /\ undo[p].record =>
                      undo[p].digest \notin records

\* The phases of the journal under way tell what is gone.
CollectDone(p) ==
    pc[p] \in CollectLabels =>
        \A d \in Journal(p).plan.delete :
            /\ Journal(p).phase[d] >= 2 => d \notin commits
            /\ Journal(p).phase[d] = 3 => d \notin records
            /\ pc[p] = "gcContent" => Journal(p).phase[d] = 3

AliasesDone(p) == pc[p] \in {"ack", "undoAck"} => aliases = RebuiltAliases

Progress(p) ==
    ImportDone(p) /\ RefChangeDone(p) /\ UndoDone(p) /\ CollectDone(p) /\ AliasesDone(p)

\* Nobody moves a reference that an unacknowledged change claims: the checks
\* of rollbackImport and validateRefMutationCurrent never fail.
ChangesOwned ==
    /\ \A j \in imports : j.reference => j.ref # None /\ refs[j.ref] \in {None, j.digest}
    /\ \A m \in mutations : Owned(m)

OneJournalPerPlan == \A i, j \in collections : i.plan = j.plan => i = j

HalfCollected == {d \in Digests : \E j \in collections : d \in j.plan.delete /\ j.phase[d] > 0}

\* NamesKept, while collections are under way too and for all the index holds.
NamesCovered ==
    imports = {} /\ mutations = {} =>
        \A a \in Names : RebuiltAliases[a] \subseteq aliases[a] \cup HalfCollected

\* What rollback, recovery and a resumed collection rely on when they read a
\* journal: it tells what is written and what is gone, and the references it
\* claims have not moved since.
Bookkeeping ==
    /\ ChangesOwned
    /\ OneJournalPerPlan
    /\ NamesCovered
    /\ \A p \in Procs : Progress(p)

BInv == IInv /\ Bookkeeping
-----------------------------------------------------------------------------
(* Content *)

\* Every installed artifact has all the content its record names.
InstalledComplete == \A d \in Installed : ContentOf(d) \subseteq content
-----------------------------------------------------------------------------
(* Up to the second fault *)

\* Every import and reference change with a journal is under way or being
\* rolled back, and its rollback has missed nothing.
Unbroken ==
    /\ \A p \in Procs : outcome[p] # "dirty"
    /\ imports # {} \/ mutations # {} =>
          \E p \in Procs : pc[p] \in WriteLabels \cup UndoLabels
    /\ ReferencesInstalled
    /\ InstalledComplete

\* A collection finds what its plan was made of.
PlanCurrent(p) ==
    pc[p] \in CollectLabels =>
        LET j == Journal(p) IN
        /\ j.plan.refs = Snapshot
        /\ MutationsReadable => SnapshotReadable
        /\ \A d \in j.plan.delete :
              /\ ~Referenced(Snapshot, d) /\ ~Pending(d)
              /\ pc[p] = "gcPreflight" => Described(d)
        /\ \A d \in records \ j.plan.delete :
              ~Pending(d) => ContentOf(d) \cap j.plan.deleteContent = {}

\* Every collection with a journal is under way.
Undisturbed ==
    /\ collections # {} =>
          \E p \in Procs : pc[p] \in CollectLabels /\ collections = {Journal(p)}
    /\ \A p \in Procs : PlanCurrent(p)

\* An unfinished reference change that nobody can roll back: no operation
\* writes any more.
Wedged ==
    /\ ~MutationsReadable
    /\ \A p \in Procs : pc[p] \notin WriteLabels \cup UndoLabels

OneBreak == Unbroken \/ Undisturbed \/ Wedged

\* One kill or failed write, wherever it strikes, breaks the repository in one
\* way at most: journals of imports and reference changes are left for recovery,
\* or a collection is left to be resumed, or a reference change that cannot be
\* rolled back keeps every operation from writing.
BrokenAtMostOnce ==
    /\ faults = 0 => Unbroken /\ Undisturbed
    /\ faults <= 1 => OneBreak
-----------------------------------------------------------------------------
(* Before the first fault *)

\* With NamesCovered: the index is the rebuilt one.
NamesExact ==
    imports = {} /\ mutations = {} =>
        \A a \in Names : aliases[a] \subseteq RebuiltAliases[a]

\* A collected record has left the index.
NamesGone(p) ==
    pc[p] \in CollectLabels =>
        \A d \in Journal(p).plan.delete :
            Journal(p).phase[d] >= 2 => \A a \in Names : d \notin aliases[a]

Calm == Unbroken /\ Undisturbed /\ NamesExact /\ \A p \in Procs : NamesGone(p)

\* Until the first kill or failed write no operation finds a journal of another,
\* a plan that has gone stale under its collection or an index file out of date:
\* the lock alone keeps imports, reference changes and collections apart.
CalmUntilFault == faults = 0 => Calm
=============================================================================
