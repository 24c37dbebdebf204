# Verification of the CLI: repository, registry tokens, reviews and training

This directory is the verification project kept beside the code of the CLI
(module `github.com/doomerlabs/doomer`): TLA+ modules translated from the Go
sources, TLC configurations that check them on small instances, and theorems
that TLAPS proves for instances of every size. Paths below are relative to the
repository root.

## 1. Inventory

What keeps state that several actors share, and where the difficult behaviour
is. `PROJECT.json` lists every component, the ones left out too, and under
`hazards` the lines at which something hard to test can go wrong.

| Component | State | Operations | Interacts with | Hard behaviour |
|---|---|---|---|---|
| Artifact repository (`pkg/repository/repository.go`, `transaction.go`, `import_sources.go`, `equivalent_manifest.go`) | records, commit markers, references, alias index, content objects, import and reference journals, all files | import, update and delete a reference, resolve, materialize, recover | every artifact command, through the repo-lifecycle lock | processes interleave; a process dies between two writes; a write fails; recovery itself dies |
| Garbage collection (`pkg/repository/lifecycle.go`) | plan, journal with a phase per record and a status per content object | `PlanGC`, `ApplyGC`, resumption | records, references and content of the repository | the plan is stale when applied; interruption at any phase; re-import of a candidate |
| Leases and materializations (`pkg/repository/sources.go`, `repository.go:1086-1218`) | digest and materialization locks, sealed trees | payload lease, `WithMaterialized` | collections, pushes, runs | locks that outlive the lifecycle lock; callbacks under a lock |
| File locks (`internal/publock`) | `flock(2)` per path | `Acquire`, `Close` | all of the above | release on process death, no reentrancy |
| Process start (`internal/adversary/resolver_default.go`) | none | recover, then open | the repository | a start fails if recovery does |
| Artifact commands (`cmd/artifact_*.go`, `cmd/remove.go`, `cmd/pack.go`) | what they read before they lock | pack, pull, push, remove, store gc | repository, registry | stale reads, one retry after a lost compare-and-swap |
| Review server (`internal/train/reviewui/server.go`) | job table, one goroutine per catalog pull request | accept, dismiss, reopen, apply, pull-request, list and drop jobs, close | inbox, catalog pull requests | requests and goroutines interleave; check-then-act on the job table |
| Catalog pull requests (`internal/train/catalogapply`) | `catalogGitMu`, worktrees, branches, pull requests | `CreatePullRequest`, `ApplyPlanned` | git, gh, the model, inbox | deferred clean-up under a mutex, effects in a row each of which may fail |
| Inbox (`internal/train/results`) | one SQLite row per finding | read a row, save a row whole | review server, hunts, commands | lost updates between read and save |
| Schedule and discovery (`internal/train/state`) | adversary cycle, window cursor, seen pull requests per target, each a file | select, take a window, load, record, save whole, reset | training runs | processes share the files; a store is saved whole from memory |
| Training runs (`internal/train/pipeline/hunt.go`, `author_hunt.go`, `pipeline.go`) | feeder, jobs channel, worker pool, outcome under a mutex | discover in waves, reserve, collect, admit, join | GitHub, schedule, results store | limits against work in flight; interrupt and kill at any point; quota refusals |
| Registry token cache (`pkg/oci/token_cache.go`, `registry.go:548-629`) | entries, generation and fetch in flight per key | get or fetch, invalidate, request with one retry | pull, push | an invalidation overtakes a fetch; waiters behind a failed fetch |
| Model capacity (`internal/modelreview/camel_capacity.go`, `fireworks.go`) | shared gate: limit, effective limit, slots, cool-down | acquire, release, cool down, credit | brokers of every reviewer and verifier of a process | wake-ups; a slot on every path; cancellation while waiting |
| GitHub gate (`internal/githubapi/ratelimit.go`) | hold-until | wait, note a refusal | training runs | delays only |
| Composite runs (`cmd/composite_run.go`) | result slots, semaphore, phase | run reviewers, repeat, collect, aggregate, exit | reviewer processes, capacity, verification | cancellation against late results; partial failures |
| Finding verification (`internal/findingverify`, `cmd/finding_verification.go`) | workers, a decision per candidate | verify in stages, correct, decide, report | composite runs, capacity | undecided and failed candidates; a report that is lost |
| Packing, manifests, archives, schemas, telemetry, auth, remaining commands | none shared | conversions, I/O | | |

What makes each correct:

* **repository**: a reference always points at an installed artifact; every
  operation takes effect once or not at all; at most one change is
  unacknowledged; nothing changes before a journal accounts for it; names keep
  leading to their artifacts; recovery is always possible; the lock is released;
* **collection**: reachable content is never deleted; an interrupted collection
  can be resumed;
* **catalog pull requests and inbox**: the inbox never names a pull request
  that does not exist; what a job reports is what happened; git set-up is
  exclusive; every job ends;
* **leases**: a leased tree or payload is not removed under its reader; no
  circular wait;
* **schedule**: adversaries take turns however many processes select; a
  target's windows go evenly round the catalog;
* **training run**: its limits hold; a pull request is collected once for an
  adversary; what is admitted is saved at once; the outcome it returns is
  complete; it always returns;
* **token cache**: one fetch at a time; a rejected token is neither cached nor
  handed out afterwards; no request waits for ever;
* **capacity**: every slot is counted and given back; nobody waits at an open
  gate;
* **composite run and verification**: a cancelled run leaves no slot of the
  results unwritten and no goroutine working; a clean opinion means a complete
  review; what is published was found by a completed reviewer and not withheld;
  the exit code tells an error from findings.

## 2. Modules

```
RepositoryLayout    files of the repository, what a reader sees, what GC plans
  Repository        processes, lock, journals, writes, kills; properties
    RepositoryInvariant   the inductive invariants
      RepositoryDiscipline  every step keeps types, lock, journals  (TLAPS)
        RepositoryProofs      discipline, bookkeeping, names        (TLAPS)
          RepositoryDurability  refinement, references, content     (TLAPS)
      MCRepository        instances for TLC (6 configurations)
  ArtifactStore     abstract: installed artifacts and a reference table,
                    implemented by Repository (property FailureAtomic)
CatalogProposals    review server, jobs, catalogGitMu, inbox; properties
  CatalogProposalsProofs  invariant and proofs                    (TLAPS)
  MCCatalogProposals      instances for TLC (2 configurations)
TrainSchedule       cycle file and catalog cursor; what every process may do
  Hunt              training runs composed with the schedule; properties
    HuntProofs            schedule, limits, saved rows, refinement  (TLAPS)
      HuntOnce            types, collected once, returned outcome   (TLAPS)
    MCHunt                instances for TLC (2 configurations)
ModelCapacity       the shared gate of a provider and the calls through it
  ReviewRun         a composed review and its verification, over the gate
    ReviewProofs          gate, refinement, results                 (TLAPS)
    MCReviewRun           instance for TLC
BearerTokens        the token cache and the requests through it
  BearerTokensProofs      invariant and proofs                      (TLAPS)
  MCBearerTokens          instance for TLC
```

### 2.1 `RepositoryLayout`, `Repository`

*State.* A file that is present is a member of a set, a reference file a
function value: `records` (`metadata/<digest>.json`), `commits`
(`commits/<digest>`), `refs`, `aliases` (one index file per name), `content`
(objects by digest), `materialized`, and the journals `imports`
(`journals/import-*`), `mutations` (`journals/refs-*`) and `collections`
(`gc/*`). A journal is a record of the fields its Go struct has, as far as
recovery reads them: the flags `record`, `commit` and `reference` say what this
import is going to create and rollback must take back. A process has a program
counter `pc`, the arguments of its operation `job`, the journal it is rolling
back `undo`, and `outcome`, which records whether its own change was undone and
whether part of the rollback failed. `lifecycle` is the repo-lifecycle lock.
`leases` are the locks on one artifact that outlive the call that took them: the
shared materialization lock of a review that runs in the tree, and the digest
lock of an upload, before and after the payload was checked.

*Actions.* One per durable write, in the order of the code:

| Action | Code |
|---|---|
| `StartImport`, `StartEquivalent`, `StartRefChange`, `StartGC`, `Launch` | entry of `ImportSources`, `CommitEquivalentManifest`, `UpdateRef`/`DeleteRef`, `ApplyGC` with a plan or a previous journal, `DefaultResolver` |
| `StartLease` | entry of `LeaseMaterialized`, `Materialize` and `PayloadSources` |
| `TakeLock` | `publock.Acquire` and, for imports and reference changes, the journals `recoverImportsLocked` finds |
| `PutContent`, `SaveImportJournal`, `WriteRecord`, `WriteCommit`, `WriteReference`, `RebuildAliases`, `Acknowledge` | `ImportSources` and `importData` |
| `CompareRef` | compare-and-swap and `beginRefMutation` in `UpdateRef` |
| `Recover`, `UndoReference`, `UndoCommit`, `UndoRecord`, `UndoAliases`, `UndoAck` | `recoverImportsLocked`, `rollbackImportJournal`, `commitRefMutation` |
| `GCOpen`, `GCPreflight`, `GCRecords`, `GCContent` | `ApplyGC`: journal, checks under the lock, one phase of one record, one content object |
| `LeaseTree`, `LeasePayload`, `CheckPayload`, `EndLease` | `LeaseMaterialized`; `PayloadSources` up to and after it gives the repo-lifecycle lock back; `Close` of either lease |
| `Kill`, `WriteError` | process death anywhere, which also gives back the locks and leases of the process; a failed write and its error path |

*Abstractions.* Content, reference and alias locks are taken only by a process
that already holds repo-lifecycle, so they are left out. Digest and
materialization locks can be held by leases of other processes: `DigestFree` and
`Unleased` are the waits of imports (`repository.go:159`), lease requests and
collections (`lifecycle.go:205-213`) for them, with repo-lifecycle in hand. That
a reader still open keeps a payload lease from closing is part of when its
holder ends it. `PlanGC` reads without the lock and is one
atomic snapshot. `updateRefWithHook`'s inline restore repeats the writes of the
rollback that follows it and is folded into it; saving a journal again with the
same flags is no step. A failed removal in an import's rollback does not stop
the next one; it sets `outcome` to "dirty", and the journal then stays.
Rebuilding the alias index writes one file after another and may stop between
them. `Resolve`, verification and migration checkpoints are not modelled, nor
are `Repair` and `RepairAll`, which no command calls. Resuming a collection by
passing the journal's own plan is an API-level operation: no command keeps a
plan, but `ApplyGC` and the documentation provide for it.

### 2.2 `ArtifactStore`

What callers rely on: `Install`, `Retarget`, `Untag` and `Collect`, each one
step on a set of artifacts and a reference table. The refinement mapping maps an
unacknowledged change to the state recovery would leave: `Installed` are the
records with a commit marker that no pending import is to remove, `Tags` the
references less those a pending change created.

### 2.3 `CatalogProposals`

*State.* `rows` is the inbox, each row reduced to its status and pull request.
`request` is what a request has read and is about to save, so that reading and
saving are two steps. `step` and `job` are a goroutine's position, finding,
snapshot and result. `gitMu` is `catalogGitMu` as a counter: `Unlock` subtracts
one whoever calls it, because a Go mutex has no owner. `setupLocked` is the
local flag `gitSetupLocked`; `pulls` is the effect on GitHub.

*Actions.* `ReadForDecision`/`SaveDecision` (accept, dismiss, reopen, apply),
`AskForProposal`, `ReadToReopen`, `SaveReopened`, `ScanJobs`, `StartJob` (POST
pull-request; `jobsMu` is released between the last two), `DropJob`;
`ReadRow`, `LockSetup`, `Fetch`, `AddWorktree`, `Generate`, `Push`, `OpenPull`,
`Record`, `CleanUp`, `RemoveWorktree` (`createPullRequestWithOptions`, with
deferred functions in the order Go runs them), `ReadToMark`, `SaveCovered`,
`Finish` (the caller's goroutine), `CloseServer`.

*Abstractions.* Generation and validation of a change are one step with three
ends: a change, an error, already covered. The end's `results.Get` is part of
`Finish`. A request whose database call fails does nothing, so it is not a step.
The errors of `git worktree remove` and `git branch -D` are ignored in the code
(`apply.go:163-164`), so a finished job may leave its worktree or branch behind;
both have names with the time in them, which no later job meets, and are left
out of the state.
PATCH edits of rule, adversary and mission, the assist and context endpoints,
two servers at once, and two jobs that would get one identifier or branch name
within one clock tick are not modelled.

### 2.4 `TrainSchedule`, `Hunt`

*State.* `TrainSchedule` holds the two files that training processes share:
`cycle` (selections per adversary and the last one) and the cursor `next` and
`seed`, with the snapshot each process loaded and the histories `chosen`,
`origin` and `probes`, which only the properties read. `Hunt` adds, per process,
the feeder's position `pc`, its mode, adversary and window, the discovery store
(`loaded`, `mem`) against the files (`disk`), the wave being discovered
(`slots`, `hits`), the job in hand, the channel `jobs`, what the workers are
doing (`work`), and the outcome (`turns`, `kept`, `fallback`, `interrupted`,
`result`); `rows` is `results.db`. The histories `begun`, `read`, `unsaved` and
`blurred` serve the properties: a target is *blurred* once two processes held
the same discovery file, or a save of it failed.

| Action | Code |
|---|---|
| `LoadAdversaryCycle`, `Select`; `LoadCycle`, `SelectTarget` | `state/cycle.go`; `pipeline.go:330-346` |
| `TakeCatalogWindow`, `ResetCatalogTarget`; `TakeWindow`, `ResetDiscovery` | `state/catalog_cursor.go`; `hunt.go:119-140`, `pipeline.go:402-416` |
| `Search` | historical scan and author search before the first wave |
| `BeginWave`, `Discover`, `DiscoverTogether`, `EndDiscover` | one wave of `feedLoop`: one goroutine per repository, or one call for all |
| `Reserve`, `Put`, `EndWave` | reservation under the mutex, the send that an interrupt may win |
| `Take`, `Collect`, `WaitForRateLimit`, `EndWait`, `Apply` | a worker, `collectOnePR`, `applyCollectResult` with `onKeep` |
| `CloseJobs`, `Join`, `Persist`, `Exit` | close, wait (eight seconds after an interrupt), copy of the outcome, catalog rows |
| `Launch`, `Interrupt`, `Kill` | a new process beside others, Ctrl-C, death |

*Abstractions.* A pull request stands for its cases and its evidence has one of
four kinds. Workers are alike, so the pool is the set of pull requests in hand.
`Collect` has the ends of `collectOnePR` that the hunt treats differently: cases
or none, a refusal for quota, and an ordinary error or another blocked
classification, which are recorded as blocked. `Interrupt` is the first signal,
which cancels the context (`cmd/root.go:19-30`); the second one, which ends the
process at once (`interrupt.go:11-27`), is a `Kill`.
Code under the hunt's mutex is one step; so are a record and the save after it,
because a save writes the whole store and repeats what was recorded in between.
The eight seconds that an interrupted hunt waits for its workers are a choice:
it may return before they do. Author searches do not look at the store again
when they reserve (as in the code). Not modelled: the pinned `--pr` mode, the
grading of collected cases by the runner, and the clamp of a cursor that lies
outside a catalog that has shrunk.

### 2.5 `ModelCapacity`, `ReviewRun`

*State.* `ModelCapacity` has the gate of a credential (`limit`, `effective`,
`active`, `successes` and `until`, the ticks left of a cool-down) and, per
call, its place in the request loop, its attempts, the delay left to it, how its
last request ended and whether its context is done. `ReviewRun` adds the phase
of the run, the goroutine of each job, its attempts and result slot, the
verification stage and decision of each candidate, and what was written.

| Action | Code |
|---|---|
| `Review`, `Enter`, `Acquire`, `Wake`, `GiveUp` | `sharedCamelGate`, `camelGate.acquire` |
| `Answer`, `Settle`, `Release` | the request, `cooldown` or `success`, `release`, the decision to repeat (`fireworks.go:102-131`) |
| `Stop`, `TimeOut`, `Tick` | contexts that end; time |
| `StartJob`, `SkipJob`, `AskModel`, `EndAttempt` | a job's goroutine: semaphore, reviewer, repetition |
| `Collect` | `wg.Wait` and the loop over the results |
| `RefuseSnapshot`, `StartVerify`, `AskVerifier`, `VerifierAnswers`, `EndVerify` | `findingverify.Run`, `verify`, `requestDecision`; the report |
| `Aggregate` | aggregate, opinion, exit code; a result that cannot be written (`composite_run.go:269-273`) ends in phase "unwritten" with an error |
| `Cancel` | the first Ctrl-C, which cancels the context (`cmd/root.go:19-30`) |

The methods of the gate run under its mutex and are one step each; what closing
`changed` does (every waiter goes back to the entrance) is part of `Release`.
`ModelCapacity` also has a specification of its own, `CapacitySpec`, in which
calls arrive and end their contexts in any way; `ReviewRun` implements it.

*Abstractions.* A reviewer is a process of somebody else's: it may ask the
model, once per attempt, and end in any way the runtime interface has, whatever
answer it got: among them with findings and `review.evidence-incomplete` at once
("doubted"). A failed reviewer's text decides whether it is repeated
(`composite_run.go:317`), and a reviewer may name the exhausted provider in it or
not, so after any answer either is possible. "busy" joins the answers that the
request loop repeats: 429, 5xx, a lost connection. The forced exit on a second
Ctrl-C is not modelled for a review, which keeps nothing on disk. The
broker's two seconds of grace are enough for a cancelled call to end before its
reviewer's session is closed. A cancellation reaches all contexts in one step.
The findings of a job are one candidate. Planning and routing of jobs,
deduplication of findings, prompts and citations are data and left out.

### 2.6 `BearerTokens`

One key of the cache: `entry`, `inflight` and `generation`, and the requests of
`HTTPRegistry.do`. A token is the number of the fetch that brought it; an
expiry is a choice in `Get`, for a token may expire at any time. `get` and the
section that joins or starts a fetch take the mutex separately and are two
steps. `EndFetch` is the third section: it stores, lands the fetch and wakes
those who wait. `Unauthorized` is a 401: it invalidates what was sent and, the
first time, goes for another token. Transport, redirects, the parsing of
challenges and scopes, and uploads are not modelled.

## 3. Runs

| Run | Instance | Distinct states | Shows |
|---|---|---|---|
| `repository` | 2 processes, 2 artifacts with a shared blob, 1 reference, 1 name, 1 fault | 1,229,795 | types; references lead to installed artifacts; names are kept; `Repository` implements `ArtifactStore`; write-ahead; one fault breaks one thing (`BrokenAtMostOnce`) |
| `calm` | 2 processes, 2 references, 2 names, an equivalent manifest sharing a layer, no fault | 320,609 | reachable content is kept; lookups by name settle; nothing goes stale (`CalmUntilFault`) |
| `crash` | 2 processes, 1 artifact, 1 lease at a time, 2 faults, fair | 785,288 | one unacknowledged change; the inductive invariants (`JournalDiscipline`, `Bookkeeping`); leases are honoured; the lock is released if leases end |
| `content` | as `repository` | violation | a collection in a process that does not recover deletes reachable content |
| `resume` | as `repository` | violation | a collection killed between a removal and its phase cannot be resumed |
| `wedge` | as `repository` | violation | a reference journal that can never be rolled back stops every later start |
| `proposals` | 1 finding, 2 jobs, 2 requests, 1 closing, every step may fail, fair | 602,820 | types; inbox, reports, exclusion; every job ends unless `git worktree add` failed for one |
| `stuck` | 1 finding, 2 jobs, 1 request, fair | violation | after that failure a job waits for itself forever |
| `hunt` | 1 run in every mode beside a process that moves the schedule, 2 launches, 2 adversaries, 3 repositories, 2 pull requests, 1 trouble of any kind, 1 refused or failed call, fair | 490,908 | types; limits; collected once; saved at once; complete outcome; turns of adversaries and repositories; every run returns |
| `history` | 1 run of the historical mode, 2 launches, 1 interrupt | violation | a rerun skips pull requests that were queued when the first run was interrupted |
| `review` | 2 jobs, limits 1 and 2, 1 verifier, 1 repetition of a request and of a reviewer, 2 stages, 2 corrections, fair | 450,838 | types; slots and waiters of the gate; nothing left behind; opinion, findings, exit code; every run ends |
| `tokens` | 3 requests, 2 of which know the challenge, fair | 427,294 | types; one fetch; rejected tokens; every request ends |

The five violations are disagreements of the code with a sentence of its
documentation, its page or its tests; `findings` in `PROJECT.json` quotes both
sides and the line. All but `stuck` take several legal operations and a fault
or an interrupt, which is why no test meets them.

*Bounds.* Repository: two processes suffice for one to hold a stale read or
plan across the other's whole operation; two artifacts give a candidate that is
collected and one that stays, and the shared blob makes the collection of one
touch content of the other; one fault lets an operation be cut at any write, and
the second one, in `crash`, cuts its recovery; one lease at a time (`MaxLeases`, none outside `crash`) is
enough for an import, a collection or another lease request to wait for it with
the lifecycle lock in hand. Proposals: two jobs, each of
which locks the mutex twice, meet at it in every order of set-up and clean-up;
two requests let both start a job for one finding. Hunt: with one worker and a
channel of one, two pull requests are one queued behind one being collected, and
the target of one is reached while the other is on its way; two launches let a
run meet what an interrupted one left behind; three repositories and windows of
two make the window at the end of the catalog short; the second process
(`Hunters` has only the first) stops after it took its window, which is all the
schedule sees of it, so that two processes that hold one discovery file meet in
the proofs and in the larger instance below only.
Review: two callers with different limits tighten the gate, wait for each
other and share a cool-down; `Recovery` is one instead of ten, delays are one
tick, one verification worker instead of four, two corrections instead of
three. Tokens: one request fetches, one waits, and one still uses the token that
is rejected. Faults, launches, troubles, refusals and closings are capped by
`MaxFaults`, `MaxLaunches`, `MaxTroubles`, `MaxRates` and `MaxClosings`;
operations are otherwise unlimited. Larger instances were explored once: two
hunting processes with the invariant of `HuntOnce` (11 million states), the gate
alone with three callers (2.8 million).

*Faults against properties.* With two faults and two artifacts
`ReferencesInstalled` and `FailureAtomic` fail (`MCRepository.cfg` with
`MaxFaults = 2` shows it in seconds):
a collection is interrupted after its first phase, its candidate is referenced
again, a re-import of it is killed, and the collection, resumed by its plan in a
process that does not recover, takes the candidate because the killed import
hides it. The cause is that of `content`. So `repository` has one fault, for
which section 4 proves the two properties, and `crash`, with two, checks what
holds with any number. `NamesResolve` is checked without faults
(`calm`): after a kill an alias index may stay that the next lookup rejects,
although the tombstones of a collection, of which
`docs/application-repository-lifecycle.md:52-54` speaks, are filtered.

*Fairness.* `Repository`: `WF_vars(Step(p))`, a process inside an operation goes
on with it; calls are not fair, and nothing obliges a killed process to come
back. A process that waits for a lease with the lifecycle lock in hand waits as
long as the lease lasts, so `LockReleased` has the premise `LeasesEnd`: every
review that runs in a tree and every upload ends. The code does not see to
that: a callback of `WithMaterialized` that waits for the lock it runs under
(`repository.go:1144-1146`) is excluded by it. `CatalogProposals`: `WF_vars(Work(j))`, Go
schedules every goroutine and commands it runs return; requests are not fair, and starvation at the mutex does
not arise because jobs are finite and each locks it twice. `Hunt`: the feeder
and the workers are scheduled, and a collection ends while the run is not
cancelled because the GitHub client gives up after sixty seconds
(`internal/githubapi/client.go:38`); after an interrupt a collection may hang,
and the run must return all the same. `ReviewRun`: goroutines are scheduled,
time passes, calls end with their time limit and reviewers end by themselves or
by `--timeout` (which is off by default: a reviewer that never ends holds the
run up, as it does in the code). `BearerTokens`: every step of a request, for
the HTTP client ends each exchange (`pkg/oci/network.go:15-28`); nothing ends
a wait but the fetch it waits for or the request's context. Fairness is weak
everywhere, and no user, caller or timer that the code does not control is fair.

Deadlock is checked in every run. Where a system may really end (all runs
launched and over, all requests done, the review over) the specification has a
step that says so (`Rest`, `Finished`); any other state without a successor is
an error. Symmetry is used for processes and for artifacts, exchanged together
with their manifests, in the safety runs of the repository only.

Every property of every passing run has a mutant in `PROJECT.json`: an
operator, kept in the module next to the action it varies and marked "Mutant",
under which TLC finds the property violated.

## 4. Proofs

TLAPS checks about 9,800 obligations in eight modules, from the assumptions the
modules make on their constants (`LayoutAssumption`, `RepositoryAssumption`,
`ProposalsAssumption`, `ScheduleAssumption`, `HuntAssumption`,
`CapacityAssumption`, `ReviewAssumption`, `TokenAssumption`); TLC evaluates them
in the runs. Every safety property of a passing run is stated by a theorem. Those
of the repository that too many faults would break are proved up to the number
of faults that the code bears, and for any number with the one step that breaks
them named.

**Repository: the discipline.** `SingleTransaction` is not inductive by itself: that a process
about to save a journal finds none depends on what it did under the lock. The
inductive invariant is `IInv == TypeOK /\ JournalDiscipline`, where
`JournalDiscipline` joins

* `LockDiscipline`: who is inside an operation holds the lock;
* `SingleTransaction`: at most one import or reference journal exists;
* `Grounded(p)`: what a process at a label knows: its job has the kind of the
  label (`JobFits`); no journal exists when it is to save one (`CleanStart`);
  the flags of its own journal say exactly what it has left to create
  (`ImportCovered`, `RefChangeCovered`); what it rolls back is a journal on disk
  (`UndoGrounded`).

`RepositoryDiscipline` proves that each action keeps these, `RepositoryProofs`
concludes: `Inductive`, `TypeCorrect`, `Discipline`, `Exclusion`,
`OneTransaction` (`Spec => []SingleTransaction`) and `WriteAhead`
(`Spec => JournalFirst`, an action property that follows from the invariant and
one step).

**Repository: the bookkeeping.** The discipline says what an operation has left
to do; what readers may rely on depends on what it has done. `Bookkeeping` joins

* `Progress(p)`: what a process at a label has written or taken back. The content
  of an import is there when its record is written, its marker when its reference
  is (`ImportDone`); the same for a reference change (`RefChangeDone`); a
  rollback that is not "dirty" has undone all its labels say (`UndoDone`); the
  phases of a collection tell what is gone (`CollectDone`); a journal is
  acknowledged over a rebuilt index (`AliasesDone`);
* `ChangesOwned`: nobody moves a reference that an unacknowledged change claims.
  So the checks of `rollbackImportJournal` and `validateRefMutationCurrent` that
  the reference still is the change's own never fail;
* `OneJournalPerPlan`: a resumed collection finds its journal;
* `NamesCovered`: between changes the index misses only names of half-collected
  artifacts.

`BInv == IInv /\ Bookkeeping` is inductive (`BookkeepingKept`), for any number of
kills and failed writes, and gives `JournalsTell` (`Spec => []Bookkeeping`) and
`NamesAreKept` (`Spec => []NamesKept`).

**Repository: durability.** `RepositoryDurability` shows what each step does to
`Installed` and `Tags`, the two sets the refinement mapping is made of. Two
kinds of step can be seen: an acknowledgement installs an artifact or moves a
reference, and one removal of a collection takes an artifact away. All other
steps, rollback and recovery among them, do not show (`UndoUnseen`,
`WriteUnseen`): the journal already hid what they change. The removal is right
only if nothing references the candidate, and `ApplyGC`, which never recovers,
decides that from what an unacknowledged import leaves visible. For any number
of faults the theorems therefore say what the code does, this step included, and
that no other step does harm:

* `HiddenCollected` is the step in which a collection removes the record of an
  installed artifact while an unacknowledged import is bringing it in again.
  Every other step of `Repository` is a step of `ArtifactStore` or a stutter
  (`AtomicButForHidden`), and no other step leaves a reference without its
  artifact (`InstalledButForHidden`).
* `HiddenContent` is the removal of content of such an artifact, the step that
  run `content` reaches. No other step takes content from an installed artifact
  (`CompleteButForHidden`).

`LeasesAreHonoured` proves `LeasesHonoured` for any number of processes, faults
and leases: what a review runs in, and what an upload has checked, is not
collected although the lifecycle lock was given back. The invariant needs the
bookkeeping: an import during an upload waits for it, and one during a review
finds the artifact installed, so that its rollback has nothing to take back.

Up to the second fault those steps cannot happen. `OneBreakAtMost` proves
`BrokenAtMostOnce`: one kill or failed write breaks the repository in one way at
most. It is `Unbroken` (every import and reference
journal belongs to the operation under way, or to its rollback, which has missed
nothing), or `Undisturbed` (every collection journal belongs to the collection
under way, whose plan is current: `PlanCurrent`), or `Wedged` (a reference change
that cannot be rolled back, of run `wedge`, keeps all others from writing). The
disjunction is what makes it inductive: a change left behind is harmless as long
as no collection is left behind that a process could resume past it, and the
reverse. The hardest part is that a current plan stays current through the
removals of its own collection (`PlanStays`): what it removes, no reference that
readers see leads to. From it follow, without hypotheses about collections,
`InstalledUpToOneFault` (`Spec => [](faults <= 1 => ReferencesInstalled)`) and
`AtomicUpToOneFault` (`Spec /\ [](faults <= 1) => FailureAtomic`), for every
`MaxFaults`: the first fault may come at any point, and everything up to the
second is covered. Two faults are too many (section 3), so the bound is sharp.

`CalmBeforeFaults` proves `CalmUntilFault`: until the first fault the repository
is whole in both ways, and the index is the rebuilt one between changes and
holds no name of a record a collection has taken. It gives `NamesBeforeFaults`
and `ContentBeforeFaults`, the properties of run `calm` for any number of
artifacts, references, names and processes.

One expression was rewritten for the proofs: in `FreshPlan` the difference from a
`UNION` is in parentheses, because the two tools bind it differently. TLC's
reading, the one meant, is unchanged.

**CatalogProposals.** `IInv` joins `TypeOK`, `JobsKnown`, `MutexDiscipline` (the
mutex is locked exactly while one job is to unlock it, and never by two),
`RowsBacked` (rows that were read and are still to be saved are backed like
those in the inbox) and `Course` (what a job would report now is true). Theorems: `ProposalsInductive`, `ProposalsTypeCorrect`,
`GitSetupExclusive`, `InboxBacked`, `ReportsTruth`: every safety
property of the `proposals` run, for any number of findings, jobs, requests and
closings. That `gitMu` stays in `{0, 1}` is the absence of Go's fatal "unlock of
unlocked mutex".

**Schedule and training runs.** `FairCycle` and `EvenProbing` are about
histories, so their invariants tie the histories to the files. `CycleInv`: the
selections in the cycle file are those that were made, and differ by at most
one. `WindowInv`: in each round of the catalog a target has been offered `k`
times every repository, and once more those between the origin of its first
window and its cursor, taken cyclically. Both are proved of `ScheduleSpec`
(`ScheduleFair`, `ScheduleEven`), in which any number of processes select and
take windows of any size, and carried over to training runs by
`HuntImplementsSchedule` (`Spec => ScheduleSpec`). `HuntInv` adds that a
process that is off holds nothing, and gives `HuntLimits` and `HuntSaved`: the
worker's own check of the target makes the limit hold, and a row is written, or
known to be unwritten, in the step that admits.

`HuntOnce` proves the central result, `HuntCollectsOnce`: for every number of
processes, launches, interrupts and kills, a pull request is collected at most
once for an adversary whose file was never held by two processes at once and
whose saves did not fail. `OnceInv` says why. For such a target:

* `StoreOwned`, `StoreTrue`: no two runs hold one store, and a store says what
  the file says;
* `SentRecorded`: what is in the hand, the channel or a worker is in the file,
  so that no later wave or run, also after a kill, can find it again;
* `SentOnce`: it is in one of these places only, and nobody has begun it;
* `AuthorFresh`: what an author search found is not in the file until it is
  sent, although it is not looked up again;
* `BegunOnce`: it was begun at most once, and not at all if it is not in the
  file.

`FromStore` (a run handles only repositories whose stores it has loaded) and
`IdleEarly` (a run that has no store holds no work) connect the processes.
`HuntReturns` (a hunt that nobody interrupted returns a complete outcome) and
`HuntTypeCorrect` complete the safety properties of the `hunt` run.

**Gate and composed reviews.** `CapacityInv` strengthens `SlotsCounted` and
`NoIdleCapacity` with types and with the fact that an existing gate has room for
at least one call; `GateSafe` proves it of `CapacitySpec`, for any number of
callers. The hard part is the last release: a waiter exists only while the gate
is full or a release is about to wake it, on the paths of a raised, lowered and
tightened limit. `ReviewImplementsCapacity` (`Spec => CapacitySpec`) carries it
over to composed reviews. `RunInv` then says, per phase, what is known: jobs
that ask are in a review and no others (`Asking`), after `Collect` every
goroutine has ended with a result (`Joined`), at the aggregate every candidate
is settled (`Ready`), and the output is what the results say (`Results`).
Theorems: `ReviewTypeCorrect`, `ReviewSlots`, `ReviewNoIdle`,
`ReviewNothingLeft`, `ReviewShip`, `ReviewPublished`, `ReviewExit`, every safety
property of the `review` run.

**Tokens.** `TokensInv` joins `TypeOK`, `SingleFlight`, `CacheCurrent` and
`FetchCurrent`: a fetch whose generation is the current one began after the
last invalidation. `OneFetch`, `TokenTypes`, `CacheStaysCurrent` and
`HandedStaysCurrent` (an action property) are all safety properties of the
`tokens` run.

**Only model-checked.** The liveness properties `LockReleased`, `JobsFinish`,
`RunsEnd`, `RunEnds` and `RequestsEnd`: liveness under fairness, and `ENABLED`,
are out of the prover's reach. What the five violation runs refute is not proved
false: a counterexample is TLC's.
## 5. Plan

What is left, in this order.

1. **Repository, further theorems.** `NamesResolve` after a recovery that no
   fault interrupts.
2. **Leases, further**: the callback of `WithMaterialized`, which runs under the
   lock and may enter the repository again (`repository.go:1146`), and the checks of a tree
   that is already there.
3. **Pulls**: the concurrent pulls of `cmd/auto_pull.go` and
   `cmd/artifact_pull.go` over `Repository` and `BearerTokens`, and the retry
   loops of `pull` and `remove` after a lost compare-and-swap.
4. **`CatalogProposals`, further**: PATCH edits and the columns they race with,
   `ApplyPlanned` with its roll-back in the reviewer's checkout.
5. **Training, further**: the pinned `--pr` mode, grading by the runner, the
   hold of `internal/githubapi/ratelimit.go`.
6. Migration checkpoints, `Verify` and `Reconcile` of the repository; project
   directory replacement.

## 6. Not modelled

Packing, manifests, archives and schemas, training scopes and reports, prompts
and citations: conversions of data that no actor shares; they are the larger
part of the source, which is why the mapped lines are a small share of it.
Planning and routing of review jobs, the execution of one reviewer; project
initialization and dependency resolution; self-update, telemetry,
authentication, output and flag handling; subprocess and network I/O.
`PROJECT.json` gives the reason for each.

## 7. Running

In this directory, `tlc -config MCRepository.cfg MCRepository.tla` for a run
(module and configuration of each are in `PROJECT.json`), `tlapm
RepositoryProofs.tla` for a proof.
