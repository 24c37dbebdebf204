--------------------------- MODULE CatalogProposals ---------------------------
(***************************************************************************)
(* The review server of catalog training: HTTP requests that decide a      *)
(* finding (internal/train/reviewui), inbox rows that they read and later  *)
(* write back whole (internal/train/results), and the goroutines that turn *)
(* a finding into a catalog pull request (internal/train/catalogapply).    *)
(*                                                                         *)
(* Git set-up and clean-up run under the mutex catalogGitMu, which belongs *)
(* to nobody: Unlock releases it whoever locked it.  Commands and database *)
(* calls may fail.  Closing the server ends its goroutines where they are. *)
(***************************************************************************)
EXTENDS Integers, FiniteSets

CONSTANTS
    Findings,       \* rows of the inbox
    Jobs,           \* progress jobs: a bound on requests for a pull request
    Requests,       \* requests served at once
    Decisions,      \* statuses that requests give a finding: a bound
    MaxClosings,    \* bound on closings of the server
    None            \* no pull request

ASSUME ProposalsAssumption ==
    /\ None \notin Jobs
    /\ Decisions \subseteq {"new", "accepted", "applied", "dismissed"}
    /\ MaxClosings \in Nat

VARIABLES
    rows,           \* the inbox: status and pull request of each finding
    request,        \* what each request has read and is about to do
    step,           \* where the goroutine of each job stands
    job,            \* its finding, the row it is about to save, and how it went
    setupLocked,    \* its flag gitSetupLocked
    gitMu,          \* catalogGitMu: 1 while locked
    pulls,          \* jobs whose pull request exists on GitHub
    closings

vars == <<rows, request, step, job, setupLocked, gitMu, pulls, closings>>

Statuses == {"new", "accepted", "applied", "proposed", "dismissed", "covered"}
Row == [status : Statuses, pull : Jobs \cup {None}]
NewRow == [status |-> "new", pull |-> None]

Served == [kind |-> "served"]
Request ==
    {Served}
    \cup [kind : {"save"}, finding : Findings, row : Row]
    \cup [kind : {"reopenSave"}, finding : Findings, row : Row]
    \cup [kind : {"reopen", "scan", "insert"}, finding : Findings, overlap : BOOLEAN]

NoJob == [result |-> "none"]
Job == [finding : Findings, overlap : BOOLEAN, row : Row,
        result : {"ok", "failed", "covered"}]

Running == {"read", "lock", "fetch", "add", "generate", "push", "open", "record",
            "cleanup", "remove", "mark", "markSave", "finish"}

TypeOK ==
    /\ rows \in [Findings -> Row]
    /\ request \in [Requests -> Request]
    /\ step \in [Jobs -> Running \cup {"unused", "done", "dropped", "lost"}]
    /\ job \in [Jobs -> Job \cup {NoJob}]
    /\ setupLocked \in [Jobs -> BOOLEAN]
    /\ gitMu \in {0, 1}
    /\ pulls \subseteq Jobs
    /\ closings \in 0..MaxClosings

Init ==
    /\ rows = [f \in Findings |-> NewRow]
    /\ request = [q \in Requests |-> Served]
    /\ step = [j \in Jobs |-> "unused"]
    /\ job = [j \in Jobs |-> NoJob]
    /\ setupLocked = [j \in Jobs |-> FALSE]
    /\ gitMu = 0
    /\ pulls = {}
    /\ closings = 0

-----------------------------------------------------------------------------
(* Requests.  Accept, dismiss, reopen and apply read a row and save it with *)
(* another status; between the two, others may save theirs.                *)

Become(q, r) ==
    /\ request' = [request EXCEPT ![q] = r]
    /\ UNCHANGED <<step, job, setupLocked, gitMu, pulls, closings>>

\* Applying a rule takes minutes and refuses a row out of the review queue.
ReadForDecision(q, f, status) ==
    /\ request[q] = Served
    /\ status = "applied" => rows[f].status \notin {"dismissed", "covered"}
    /\ Become(q, [kind |-> "save", finding |-> f,
                  row |-> [rows[f] EXCEPT !.status = status]])
    /\ UNCHANGED rows

SaveDecision(q) ==
    /\ request[q].kind = "save"
    /\ rows' = [rows EXCEPT ![request[q].finding] = request[q].row]
    /\ Become(q, Served)

\* Bound: each request that may still start a job finds one.
JobsLeft ==
    Cardinality({j \in Jobs : step[j] = "unused"})
        > Cardinality({p \in Requests : request[p].kind \notin {"served", "save"}})

\* POST pull-request: a covered finding is first reopened if the reviewer asks
\* for a rule in spite of the overlap.
AskForProposal(q, f, overlap) ==
    /\ request[q] = Served
    /\ JobsLeft
    /\ Become(q, [kind |-> IF overlap /\ rows[f].status = "covered" THEN "reopen" ELSE "scan",
                  finding |-> f, overlap |-> overlap])
    /\ UNCHANGED rows

ReadToReopen(q) ==
    /\ request[q].kind = "reopen"
    /\ LET f == request[q].finding IN
       Become(q, [kind |-> "reopenSave", finding |-> f,
                  row |-> [rows[f] EXCEPT !.status = "new"]])
    /\ UNCHANGED rows

SaveReopened(q) ==
    /\ request[q].kind = "reopenSave"
    /\ LET f == request[q].finding IN
       /\ rows' = [rows EXCEPT ![f] = request[q].row]
       /\ Become(q, [kind |-> "scan", finding |-> f, overlap |-> TRUE])

\* jobsMu is released between looking for a running job of the finding and
\* adding one, so two requests can both find none.
ScanJobs(q) ==
    /\ request[q].kind = "scan"
    /\ LET busy == \E j \in Jobs : step[j] \in Running /\ job[j].finding = request[q].finding
       IN Become(q, IF busy THEN Served ELSE [request[q] EXCEPT !.kind = "insert"])
    /\ UNCHANGED rows

StartJob(q, j) ==
    /\ request[q].kind = "insert"
    /\ step[j] = "unused"
    /\ step' = [step EXCEPT ![j] = "read"]
    /\ job' = [job EXCEPT ![j] = [finding |-> request[q].finding, overlap |-> request[q].overlap,
                                  row |-> NewRow, result |-> "ok"]]
    /\ request' = [request EXCEPT ![q] = Served]
    /\ UNCHANGED <<rows, setupLocked, gitMu, pulls, closings>>

\* DELETE /api/jobs, and expiry in GET /api/jobs: finished jobs only
DropJob(j) ==
    /\ step[j] = "done"
    /\ step' = [step EXCEPT ![j] = "dropped"]
    /\ UNCHANGED <<rows, request, job, setupLocked, gitMu, pulls, closings>>

-----------------------------------------------------------------------------
(* The goroutine of a job: createPullRequestWithOptions and its caller *)

Goto(j, s) == step' = [step EXCEPT ![j] = s] /\ UNCHANGED <<request, closings>>

Succeed(j, s) == Goto(j, s) /\ UNCHANGED job

\* The step returns an error; what was deferred runs next.
Err(j, s) ==
    /\ Goto(j, s)
    /\ job' = [job EXCEPT ![j].result = "failed"]

Lock == gitMu = 0 /\ gitMu' = 1
Unlock == gitMu' = gitMu - 1

\* validateCandidate looks at the row only here, minutes before the row is
\* written back with the pull request.
ReadRow(j) ==
    /\ step[j] = "read"
    /\ \/ /\ rows[job[j].finding].status \notin {"dismissed", "covered"}
          /\ Succeed(j, "lock")
       \/ Err(j, "finish")
    /\ UNCHANGED <<rows, setupLocked, gitMu, pulls>>

LockSetup(j) ==
    /\ step[j] = "lock"
    /\ Lock
    /\ setupLocked' = [setupLocked EXCEPT ![j] = TRUE]
    /\ Goto(j, "fetch")
    /\ UNCHANGED <<rows, job, pulls>>

\* Mutant: an error returns without the deferred Unlock.
FetchKeepsLock(j) ==
    /\ step[j] = "fetch"
    /\ Succeed(j, "add") \/ Err(j, "finish")
    /\ UNCHANGED <<rows, setupLocked, gitMu, pulls>>

\* git fetch, the default branch and a temporary directory
Fetch(j) ==
    /\ step[j] = "fetch"
    /\ \/ Succeed(j, "add") /\ UNCHANGED <<setupLocked, gitMu>>
       \/ /\ Err(j, "finish")
          /\ setupLocked' = [setupLocked EXCEPT ![j] = FALSE]
          /\ Unlock
    /\ UNCHANGED <<rows, pulls>>

\* Mutant: the flag of the first deferred Unlock is not cleared.
AddWorktreeFlagKept(j) ==
    /\ step[j] = "add"
    /\ \/ Unlock /\ Succeed(j, "generate")
       \/ Err(j, "cleanup") /\ UNCHANGED gitMu
    /\ UNCHANGED <<rows, setupLocked, pulls>>

\* From here on the clean-up is deferred, and it runs before the deferred
\* Unlock: when git worktree add fails it finds the mutex locked.
AddWorktree(j) ==
    /\ step[j] = "add"
    /\ \/ /\ setupLocked' = [setupLocked EXCEPT ![j] = FALSE]
          /\ Unlock
          /\ Succeed(j, "generate")
       \/ Err(j, "cleanup") /\ UNCHANGED <<setupLocked, gitMu>>
    /\ UNCHANGED <<rows, pulls>>

\* The model writes the change, validates and commits it; unless the reviewer
\* allowed an overlap it may find the rule enforced already.
Generate(j) ==
    /\ step[j] = "generate"
    /\ \/ Succeed(j, "push")
       \/ Err(j, "cleanup")
       \/ /\ ~job[j].overlap
          /\ job' = [job EXCEPT ![j].result = "covered"]
          /\ Goto(j, "cleanup")
    /\ UNCHANGED <<rows, setupLocked, gitMu, pulls>>

\* Mutant: a failed push is not noticed.
PushUnchecked(j) ==
    /\ step[j] = "push"
    /\ Succeed(j, "open") \/ Succeed(j, "cleanup")
    /\ UNCHANGED <<rows, setupLocked, gitMu, pulls>>

Push(j) ==
    /\ step[j] = "push"
    /\ Succeed(j, "open") \/ Err(j, "cleanup")
    /\ UNCHANGED <<rows, setupLocked, gitMu, pulls>>

\* Mutant: an error of gh is taken for a pull request without an URL.
OpenPullLenient(j) ==
    /\ step[j] = "open"
    /\ \/ pulls' = pulls \cup {j} /\ Succeed(j, "record")
       \/ pulls' = pulls /\ Succeed(j, "record")
    /\ UNCHANGED <<rows, setupLocked, gitMu>>

\* gh may also create the pull request and print no URL.
OpenPull(j) ==
    /\ step[j] = "open"
    /\ \/ pulls' = pulls \cup {j} /\ Succeed(j, "record")
       \/ pulls' \in {pulls, pulls \cup {j}} /\ Err(j, "cleanup")
    /\ UNCHANGED <<rows, setupLocked, gitMu>>

Record(j) ==
    /\ step[j] = "record"
    /\ \/ /\ rows' = [rows EXCEPT ![job[j].finding] = [status |-> "proposed", pull |-> j]]
          /\ Succeed(j, "cleanup")
       \/ Err(j, "cleanup") /\ UNCHANGED rows
    /\ UNCHANGED <<setupLocked, gitMu, pulls>>

\* Mutant: the clean-up does not take the mutex.
CleanUpUnlocked(j) ==
    /\ step[j] = "cleanup"
    /\ gitMu' = 1
    /\ Goto(j, "remove")
    /\ UNCHANGED <<rows, job, setupLocked, pulls>>

CleanUp(j) ==
    /\ step[j] = "cleanup"
    /\ Lock
    /\ Goto(j, "remove")
    /\ UNCHANGED <<rows, job, setupLocked, pulls>>

\* The errors of git worktree remove and git branch -D are ignored.  What they
\* leave is under a name made of the time, so that no later job meets it.  The
\* clean-up unlocks, then the first deferred function if its flag is set.
RemoveWorktree(j) ==
    /\ step[j] = "remove"
    /\ gitMu' = IF setupLocked[j] THEN gitMu - 2 ELSE gitMu - 1
    /\ Goto(j, IF job[j].result = "covered" THEN "mark" ELSE "finish")
    /\ UNCHANGED <<rows, job, setupLocked, pulls>>

\* results.MarkCovered
ReadToMark(j) ==
    /\ step[j] = "mark"
    /\ \/ /\ job' = [job EXCEPT ![j].row = [rows[job[j].finding] EXCEPT !.status = "covered"]]
          /\ Goto(j, "markSave")
       \/ Err(j, "finish")
    /\ UNCHANGED <<rows, setupLocked, gitMu, pulls>>

SaveCovered(j) ==
    /\ step[j] = "markSave"
    /\ \/ /\ rows' = [rows EXCEPT ![job[j].finding] = job[j].row]
          /\ Succeed(j, "finish")
       \/ Err(j, "finish") /\ UNCHANGED rows
    /\ UNCHANGED <<setupLocked, gitMu, pulls>>

\* The row is read once more for display; a failure to do so is an error too.
Finish(j) ==
    /\ step[j] = "finish"
    /\ Succeed(j, "done") \/ Err(j, "done")
    /\ UNCHANGED <<rows, setupLocked, gitMu, pulls>>

-----------------------------------------------------------------------------

\* The command returns while goroutines run; the next server starts afresh.
CloseServer ==
    /\ closings < MaxClosings
    /\ closings' = closings + 1
    /\ step' = [j \in Jobs |-> CASE step[j] \in Running -> "lost"
                                 [] step[j] = "done" -> "dropped"
                                 [] OTHER -> step[j]]
    /\ request' = [q \in Requests |-> Served]
    /\ setupLocked' = [j \in Jobs |-> FALSE]
    /\ gitMu' = 0
    /\ UNCHANGED <<rows, job, pulls>>

Work(j) ==
    \/ ReadRow(j) \/ LockSetup(j) \/ Fetch(j) \/ AddWorktree(j) \/ Generate(j)
    \/ Push(j) \/ OpenPull(j) \/ Record(j) \/ CleanUp(j) \/ RemoveWorktree(j)
    \/ ReadToMark(j) \/ SaveCovered(j) \/ Finish(j)

Serve(q) ==
    \/ \E f \in Findings :
          \/ \E status \in Decisions : ReadForDecision(q, f, status)
          \/ \E overlap \in BOOLEAN : AskForProposal(q, f, overlap)
    \/ SaveDecision(q) \/ ReadToReopen(q) \/ SaveReopened(q) \/ ScanJobs(q)
    \/ \E j \in Jobs : StartJob(q, j)

Next ==
    \/ \E q \in Requests : Serve(q)
    \/ \E j \in Jobs : Work(j) \/ DropJob(j)
    \/ CloseServer

Spec == Init /\ [][Next]_vars

\* Go schedules every goroutine; the commands it runs return.
FairSpec == Spec /\ \A j \in Jobs : WF_vars(Work(j))
-----------------------------------------------------------------------------
(* Properties *)

\* A row names only the pull request of its own finding, once it exists.
Backed(f, row) ==
    /\ row.status = "proposed" => row.pull # None
    /\ row.pull # None => row.pull \in pulls /\ job[row.pull].finding = f

\* Whatever order requests and jobs save their rows in, the inbox never names
\* a pull request that does not exist or that belongs to another finding: a
\* whole-row save may bring back an old status, never a made-up proposal.
ProposalsBacked == \A f \in Findings : Backed(f, rows[f])

\* What a finished job reports is what happened on GitHub: a job without an
\* error opened its pull request, a covered one opened none, although each
\* step between may fail and the clean-up runs in all cases.
ReportsTrue ==
    \A j \in Jobs :
        step[j] = "done" =>
            /\ job[j].result = "ok" => j \in pulls
            /\ job[j].result = "covered" => j \notin pulls

\* Git set-up and clean-up of different jobs never overlap in the repository,
\* although two deferred functions and a flag share the unlocking.
InSetup(j) == step[j] \in {"fetch", "add", "remove"}
GitExclusive == \A j, k \in Jobs : InSetup(j) /\ InSetup(k) => j = k

\* A job whose set-up failed, waiting for the mutex it holds itself
Wedged(j) == step[j] = "cleanup" /\ setupLocked[j]

\* Every job finishes and can be retried, however many wait for the mutex,
\* unless git worktree add fails for one of them.
JobsFinish ==
    \A j \in Jobs :
        step[j] \in Running ~> step[j] \notin Running \/ \E k \in Jobs : Wedged(k)

\* A failed job ends, so that its finding can be retried: the review page
\* keeps the candidate "for retry after polling failure"
\* (internal/train/reviewui/server_test.go).
FailedJobsEnd ==
    \A j \in Jobs :
        step[j] \in Running /\ job[j].result = "failed" ~> step[j] \notin Running
=============================================================================
