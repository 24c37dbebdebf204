------------------------------- MODULE Hunt -------------------------------
(***************************************************************************)
(* A training run: internal/train/pipeline/hunt.go, author_hunt.go and the *)
(* part of pipeline.go that calls them.  A run picks its adversary and its *)
(* window of the catalog (TrainSchedule), then hunts: a feeder discovers   *)
(* pull requests in waves, records each one as attempted in the discovery  *)
(* file and hands it to a pool of workers; a worker collects the review    *)
(* evidence of one pull request, records the outcome and, when there is    *)
(* evidence to keep, admits the pull request and saves its rows at once.   *)
(* Several processes may train at the same time; a process can be          *)
(* interrupted (Ctrl-C) or killed at any point, and launched again.        *)
(*                                                                         *)
(* One pull request stands for its cases.  The hunt mutex makes every      *)
(* block of code under it one step; a DiscoveryStore protects itself, and  *)
(* Record with the Save that follows it is one step, because Save writes   *)
(* the whole store and repeats whatever was recorded in between.           *)
(***************************************************************************)
EXTENDS TrainSchedule, Sequences, FiniteSets

CONSTANTS
    PRs, RepoOf,      \* pull requests and the repository of each
    Evidence,         \* what each one's reviews may contain when they are read
    Concurrency,      \* collect workers of a process
    QueueCap,         \* capacity of the jobs channel (2 * concurrency)
    TargetPRs,        \* pull requests to keep
    MaxTurns,         \* pull requests to try
    Modes,            \* discovery modes that runs use
    CollectOnly,      \* catalog training keeps unassigned evidence, too
    MaxLaunches,      \* bound: runs
    MaxTroubles,      \* bound: how often something goes wrong
    Kinds,            \* what may go wrong
    MaxRates,         \* bound: calls refused for quota or failed
    Hunters           \* bound: processes followed beyond their window

ASSUME HuntAssumption ==
    /\ RepoOf \in [PRs -> Repos] /\ IsFiniteSet(PRs)
    /\ Evidence \in [PRs -> SUBSET {"gold", "unassigned", "out_of_scope", "no_cases"}]
    /\ Concurrency \in Nat \ {0} /\ QueueCap \in Nat \ {0} /\ TargetPRs \in Nat \ {0} /\ MaxTurns \in Nat \ {0}
    /\ Modes \subseteq {"repos", "github_events", "history", "author"}
    /\ CollectOnly \in BOOLEAN
    /\ {MaxLaunches, MaxTroubles, MaxRates} \subseteq Nat
    /\ Hunters \subseteq Procs
    /\ Kinds \subseteq {"overlap", "kill", "interrupt", "search", "save", "rows", "reset"}

NoPR == "no_pr"

Outcomes == {"attempted", "graded", "candidate", "no_in_scope", "no_cases", "blocked"}
Unseen   == "unseen"

VARIABLES
    pc,           \* where the goroutine that runs the hunt (the feeder) is
    mode,         \* opts.DiscoveryMode, or "history" with opts.AllHistory
    target,       \* the adversary, which is the namespace of discovery state
    window,       \* repositories of this run
    cancelled,    \* ctx is done
    loaded, mem,  \* stores: the repositories loaded, and what they say
    historical,   \* pull requests the historical scan listed
    slots, hits,  \* repositories still being asked in this wave; candidates
    hand,         \* the job the feeder is sending
    enqueued,     \* a job of this wave was sent
    jobs,         \* the jobs channel
    work,         \* what a worker is doing with each pull request
    turns, kept, fallback, interrupted,     \* huntOutcome
    result,       \* the outcome's cases as the hunt returned them
    disk,         \* discovery files: [Targets -> [PRs -> outcome or Unseen]]
    rows,         \* pull requests with rows in results.db
    launches, troubles, rates,   \* how much of each bound is used
    unsaved,      \* history: rows that could not be written
    begun,        \* history: how often a collection of a PR was begun
    blurred,      \* history: targets whose file lost or missed a record
    read          \* history: pull requests whose evidence was read

feederVars == <<pc, mode, target, window, cancelled, historical, slots, hits, hand, enqueued>>
storeVars  == <<loaded, mem, disk, blurred>>
poolVars   == <<jobs, work>>
outVars    == <<turns, kept, fallback, interrupted, result>>
boundVars  == <<launches, troubles, rates>>
ghostVars  == <<unsaved, begun, read>>

vars == <<scheduleVars, feederVars, storeVars, poolVars, outVars, boundVars, ghostVars, rows>>

\* The workers are alike, so the pool is the set of pull requests in hand: each
\* is being collected, waits for GitHub's quota, or has a result to apply.
Results == (Outcomes \ {"attempted", "blocked"}) \cup {"rate", "error"}
Busy(r) == {p \in PRs : work[r][p] # "none"}

Active(r) == pc[r] # "off"

Trouble(kind) ==
    /\ kind \in Kinds /\ troubles < MaxTroubles
    /\ troubles' = troubles + 1

Refusal == rates < MaxRates /\ rates' = rates + 1

HuntInit ==
    /\ ScheduleInit
    /\ pc = [r \in Procs |-> "off"]
    /\ mode = [r \in Procs |-> "repos"]
    /\ target = [r \in Procs |-> 1]
    /\ window = [r \in Procs |-> {}]
    /\ cancelled = [r \in Procs |-> FALSE]
    /\ loaded = [r \in Procs |-> {}]
    /\ mem = [r \in Procs |-> [p \in PRs |-> Unseen]]
    /\ historical = [r \in Procs |-> {}]
    /\ slots = [r \in Procs |-> {}]
    /\ hits = [r \in Procs |-> {}]
    /\ hand = [r \in Procs |-> NoPR]
    /\ enqueued = [r \in Procs |-> FALSE]
    /\ jobs = [r \in Procs |-> <<>>]
    /\ work = [r \in Procs |-> [p \in PRs |-> "none"]]
    /\ turns = [r \in Procs |-> 0]
    /\ kept = [r \in Procs |-> {}]
    /\ fallback = [r \in Procs |-> {}]
    /\ interrupted = [r \in Procs |-> "no"]
    /\ result = [r \in Procs |-> {}]
    /\ disk = [t \in Targets |-> [p \in PRs |-> Unseen]]
    /\ rows = {}
    /\ launches = 0 /\ troubles = 0 /\ rates = 0
    /\ unsaved = {}
    /\ begun = [t \in Targets |-> [p \in PRs |-> 0]]
    /\ blurred = {}
    /\ read = {}

-----------------------------------------------------------------------------
(* The discovery stores                                                     *)

Seen(r, p) == mem[r][p] # Unseen

\* What a store of these repositories holds once it is loaded (storeFor keeps
\* the first load of a repository for the whole run).
WithLoaded(r, repos) ==
    [p \in PRs |-> IF RepoOf[p] \in repos \ loaded[r] THEN disk[target[r]][p] ELSE mem[r][p]]

\* Loading a store that another running process has, too: each will save the
\* whole file from its own memory.
Blurring(r, repos) ==
    IF \E q \in Procs \ {r} : /\ Active(q)
                              /\ target[q] = target[r]
                              /\ loaded[q] \cap repos # {}
    THEN blurred \cup {target[r]} ELSE blurred

StoreFor(r, repos) ==
    /\ loaded' = [loaded EXCEPT ![r] = @ \cup repos]
    /\ mem' = [mem EXCEPT ![r] = WithLoaded(r, repos)]
    /\ blurred' = Blurring(r, repos)

\* Record, then Save of the whole store.
RecordSaved(r, p, outcome) ==
    LET recorded == [mem[r] EXCEPT ![p] = outcome]
    IN  /\ mem' = [mem EXCEPT ![r] = recorded]
        /\ disk' = [disk EXCEPT ![target[r]] =
                       [x \in PRs |-> IF RepoOf[x] = RepoOf[p] THEN recorded[x] ELSE @[x]]]
        /\ UNCHANGED <<loaded, blurred>>

\* The error of Save is ignored: the record stays in memory.
RecordUnsaved(r, p, outcome) ==
    /\ Trouble("save")
    /\ mem' = [mem EXCEPT ![r][p] = outcome]
    /\ blurred' = blurred \cup {target[r]}
    /\ UNCHANGED <<loaded, disk>>

\* Mutant: the pull request is handed out without being recorded first.
SendUnrecorded(r, p, outcome) == UNCHANGED <<storeVars, troubles>>

RecordSave(r, p, outcome) ==
    \/ RecordSaved(r, p, outcome) /\ UNCHANGED troubles
    \/ RecordUnsaved(r, p, outcome)

-----------------------------------------------------------------------------
(* Launch                                                                   *)

\* A new process, alone or beside another one; its memory starts empty.
Launch(r) ==
    /\ pc[r] = "off"
    /\ IF \E q \in Procs : Active(q) THEN Trouble("overlap") ELSE UNCHANGED troubles
    /\ launches < MaxLaunches
    /\ launches' = launches + 1
    /\ \E m \in Modes : /\ r \notin Hunters => m = "repos"
                        /\ mode' = [mode EXCEPT ![r] = m]
    \* --cycle-adversaries, or the one namespace of catalog training
    /\ \E at \in {"load_cycle", "reset"} : pc' = [pc EXCEPT ![r] = at]
    /\ UNCHANGED <<target, window, cancelled, historical, slots, hits, hand, enqueued, scheduleVars,
                   storeVars, poolVars, outVars, ghostVars, rows, rates>>

LoadCycle(r) ==
    /\ pc[r] = "load_cycle"
    /\ LoadAdversaryCycle(r)
    /\ pc' = [pc EXCEPT ![r] = "select"]
    /\ UNCHANGED <<mode, target, window, cancelled, historical, slots, hits, hand, enqueued,
                   storeVars, poolVars, outVars, boundVars, ghostVars, rows>>

SelectTarget(r) ==
    /\ pc[r] = "select"
    /\ Select(r)
    /\ target' = [target EXCEPT ![r] = Selected(r)]
    /\ pc' = [pc EXCEPT ![r] = "reset"]
    /\ UNCHANGED <<mode, window, cancelled, historical, slots, hits, hand, enqueued,
                   storeVars, poolVars, outVars, boundVars, ghostVars, rows>>

\* --reset-discovery removes the target's discovery files and its position in
\* the catalog; a run that still holds a store will write it back.
ResetDiscovery(r) ==
    /\ pc[r] = "reset"
    /\ Trouble("reset")
    /\ disk' = [disk EXCEPT ![target[r]] = [p \in PRs |-> Unseen]]
    /\ begun' = [begun EXCEPT ![target[r]] = [p \in PRs |-> 0]]
    /\ blurred' = IF \E q \in Procs \ {r} : Active(q) /\ target[q] = target[r] /\ loaded[q] # {}
                  THEN blurred \cup {target[r]} ELSE blurred \ {target[r]}
    /\ ResetCatalogTarget(target[r])
    /\ pc' = [pc EXCEPT ![r] = "window"]
    /\ UNCHANGED <<mode, target, window, cancelled, historical, slots, hits, hand, enqueued,
                   loaded, mem, poolVars, outVars, launches, rates, unsaved, read, rows>>

\* The author mode searches by reviewer and needs no window.
TakeWindow(r) ==
    /\ pc[r] \in {"reset", "window"}
    /\ IF mode[r] = "author"
       THEN /\ window' = [window EXCEPT ![r] = {}]
            /\ UNCHANGED scheduleVars
       ELSE /\ window' = [window EXCEPT ![r] = Window(target[r], MaxTurns)]
            /\ TakeCatalogWindow(target[r], MaxTurns)
    /\ pc' = [pc EXCEPT ![r] = CASE r \notin Hunters -> "exit"
                                 [] r \in Hunters /\ mode[r] \in {"author", "history"} -> "search"
                                 [] OTHER -> "feed"]
    /\ UNCHANGED <<mode, target, cancelled, historical, slots, hits, hand, enqueued,
                   storeVars, poolVars, outVars, boundVars, ghostVars, rows>>

-----------------------------------------------------------------------------
(* The feeder                                                               *)

Limits(r) == turns[r] >= MaxTurns \/ Cardinality(kept[r]) >= TargetPRs

Unlimited(r) == mode[r] = "history"

Done(r) == ~Unlimited(r) /\ Limits(r)

Fresh(m, repos) == {p \in PRs : RepoOf[p] \in repos /\ m[p] = Unseen}

\* At most one candidate per repository.
Candidates(m, repos, among) ==
    {S \in SUBSET (Fresh(m, repos) \cap among) :
        \A p, q \in S : RepoOf[p] = RepoOf[q] => p = q}

Stop(r, why) ==
    /\ pc' = [pc EXCEPT ![r] = "close"]
    /\ interrupted' = IF why = "no" THEN interrupted ELSE [interrupted EXCEPT ![r] = why]

\* Before the first wave: the historical scan lists every unseen pull request
\* of the window, the author search every one the authors reviewed, up to the
\* turn limit.  Either may fail.
Search(r) ==
    LET repos == IF mode[r] = "author" THEN Repos ELSE window[r]
        fresh == Fresh(WithLoaded(r, repos), repos)
    IN  /\ pc[r] = "search"
        /\ StoreFor(r, repos)
        /\ \/ /\ UNCHANGED troubles
              /\ \E S \in SUBSET fresh :
                    IF mode[r] = "author"
                    THEN /\ Cardinality(S) <= MaxTurns
                         /\ hits' = [hits EXCEPT ![r] = S]
                         /\ UNCHANGED historical
                         /\ pc' = [pc EXCEPT ![r] = IF cancelled[r] \/ S = {} THEN "close" ELSE "send"]
                         /\ interrupted' = IF cancelled[r]
                                           THEN [interrupted EXCEPT ![r] = "cancel"] ELSE interrupted
                    ELSE /\ S = fresh
                         /\ historical' = [historical EXCEPT ![r] = S]
                         /\ pc' = [pc EXCEPT ![r] = "feed"]
                         /\ UNCHANGED <<hits, interrupted>>
           \/ /\ IF cancelled[r] THEN UNCHANGED troubles ELSE Trouble("search")
              /\ Stop(r, IF cancelled[r] THEN "cancel" ELSE "error")
              /\ UNCHANGED <<hits, historical>>
        /\ UNCHANGED <<mode, target, window, cancelled, slots, hand, enqueued, scheduleVars, disk,
                       poolVars, turns, kept, fallback, result, launches, rates, ghostVars, rows>>

\* The top of feedLoop: stop, or begin a wave over the window.
BeginWave(r) ==
    /\ pc[r] = "feed"
    /\ \/ /\ cancelled[r]
          /\ Stop(r, "cancel")
          /\ UNCHANGED <<slots, hits, enqueued>>
       \/ /\ ~cancelled[r]
          /\ Done(r) \/ window[r] = {}
          /\ Stop(r, "no")
          /\ UNCHANGED <<slots, hits, enqueued>>
       \/ /\ ~cancelled[r]
          /\ ~Done(r) /\ window[r] # {}
          /\ pc' = [pc EXCEPT ![r] = "discover"]
          /\ slots' = [slots EXCEPT ![r] = window[r]]
          /\ hits' = [hits EXCEPT ![r] = {}]
          /\ enqueued' = [enqueued EXCEPT ![r] = FALSE]
          /\ UNCHANGED interrupted
    /\ UNCHANGED <<mode, target, window, cancelled, historical, hand, scheduleVars, storeVars,
                   poolVars, turns, kept, fallback, result, boundVars, ghostVars, rows>>

\* Mode repos: one goroutine per repository asks for merged pull requests that
\* are not in the store yet.  It finds one, finds none (or fails), or is
\* refused for quota, which interrupts the hunt unless something else did.
Discover(r, i) ==
    /\ pc[r] = "discover" /\ mode[r] = "repos" /\ i \in slots[r]
    /\ slots' = [slots EXCEPT ![r] = @ \ {i}]
    /\ \/ /\ ~cancelled[r]
          /\ StoreFor(r, {i})
          /\ \E p \in Fresh(WithLoaded(r, {i}), {i}) : hits' = [hits EXCEPT ![r] = @ \cup {p}]
          /\ UNCHANGED <<interrupted, rates>>
       \/ UNCHANGED <<storeVars, hits, interrupted, rates>>
       \/ /\ ~cancelled[r] /\ Refusal
          /\ interrupted' = [interrupted EXCEPT ![r] = IF @ = "no" THEN "rate" ELSE @]
          /\ UNCHANGED <<storeVars, hits>>
    /\ UNCHANGED <<pc, mode, target, window, cancelled, historical, hand, enqueued, scheduleVars, disk,
                   poolVars, turns, kept, fallback, result, launches, troubles, ghostVars, rows>>

\* The other modes ask once for the wave, on the feeder itself: the mirror of
\* the public events, which may fail, or the lists of the historical scan.
DiscoverTogether(r) ==
    LET among == IF mode[r] = "history" THEN historical[r] ELSE PRs
    IN  /\ pc[r] = "discover" /\ mode[r] \in {"github_events", "history"} /\ slots[r] # {}
        /\ slots' = [slots EXCEPT ![r] = {}]
        /\ StoreFor(r, window[r])
        /\ \/ /\ \E S \in Candidates(WithLoaded(r, window[r]), window[r], among) :
                    /\ hits' = [hits EXCEPT ![r] = S]
                    /\ mode[r] = "history" =>
                          \A p \in Fresh(WithLoaded(r, window[r]), window[r]) \cap among :
                             \E q \in S : RepoOf[q] = RepoOf[p]
              /\ UNCHANGED <<pc, interrupted, troubles>>
           \/ /\ mode[r] = "github_events"
              /\ IF cancelled[r] THEN UNCHANGED troubles ELSE Trouble("search")
              /\ Stop(r, "error")
              /\ UNCHANGED hits
        /\ UNCHANGED <<mode, target, window, cancelled, historical, hand, enqueued, scheduleVars, disk,
                       poolVars, turns, kept, fallback, result, launches, rates, ghostVars, rows>>

\* The wave has been discovered.  When the context is done at the same time
\* the select of mode repos may take either case.
EndDiscover(r) ==
    /\ pc[r] = "discover" /\ slots[r] = {}
    /\ \/ /\ cancelled[r] /\ mode[r] = "repos"
          /\ Stop(r, "cancel")
       \/ /\ interrupted[r] = "rate"
          /\ Stop(r, "no")
       \/ /\ interrupted[r] # "rate"
          /\ pc' = [pc EXCEPT ![r] = "send"]
          /\ UNCHANGED interrupted
    /\ UNCHANGED <<mode, target, window, cancelled, historical, slots, hits, hand, enqueued,
                   scheduleVars, storeVars, poolVars, turns, kept, fallback, result, boundVars,
                   ghostVars, rows>>

\* Under the mutex: check the limits again, skip what has been recorded since
\* it was found, and record the attempt before any worker can see the job.
Reserve(r) ==
    /\ pc[r] = "send"
    /\ \/ /\ cancelled[r] /\ hits[r] # {}
          /\ Stop(r, "cancel")
          /\ UNCHANGED <<hits, hand, turns, storeVars, troubles>>
       \/ /\ ~cancelled[r] /\ hits[r] # {}
          /\ Done(r) \/ (mode[r] = "author" /\ interrupted[r] = "rate")
          /\ Stop(r, "no")
          /\ UNCHANGED <<hits, hand, turns, storeVars, troubles>>
       \/ /\ ~cancelled[r]
          /\ ~Done(r) /\ ~(mode[r] = "author" /\ interrupted[r] = "rate")
          /\ \E p \in hits[r] :
                /\ hits' = [hits EXCEPT ![r] = @ \ {p}]
                /\ IF Seen(r, p) /\ mode[r] # "author"
                   THEN UNCHANGED <<pc, hand, turns, storeVars, troubles>>
                   ELSE /\ turns' = [turns EXCEPT ![r] = @ + 1]
                        /\ hand' = [hand EXCEPT ![r] = p]
                        /\ pc' = [pc EXCEPT ![r] = "put"]
                        /\ RecordSave(r, p, "attempted")
          /\ UNCHANGED interrupted
    /\ UNCHANGED <<mode, target, window, cancelled, historical, slots, enqueued, scheduleVars,
                   poolVars, kept, fallback, result, launches, rates, ghostVars, rows>>

\* select { case jobs <- job: ... case <-ctx.Done(): ... }
Put(r) ==
    /\ pc[r] = "put"
    /\ hand' = [hand EXCEPT ![r] = NoPR]
    /\ \/ /\ Len(jobs[r]) < QueueCap
          /\ jobs' = [jobs EXCEPT ![r] = Append(@, hand[r])]
          /\ enqueued' = [enqueued EXCEPT ![r] = TRUE]
          /\ pc' = [pc EXCEPT ![r] = "send"]
          /\ UNCHANGED interrupted
       \/ /\ cancelled[r]
          /\ Stop(r, "cancel")
          /\ UNCHANGED <<jobs, enqueued>>
    /\ UNCHANGED <<mode, target, window, cancelled, historical, slots, hits, scheduleVars, storeVars,
                   work, turns, kept, fallback, result, boundVars, ghostVars, rows>>

\* Every candidate of the wave is sent: the next wave, unless nothing was new.
EndWave(r) ==
    /\ pc[r] = "send" /\ hits[r] = {}
    /\ IF mode[r] # "author" /\ enqueued[r]
       THEN pc' = [pc EXCEPT ![r] = "feed"] /\ UNCHANGED interrupted
       ELSE Stop(r, "no")
    /\ UNCHANGED <<mode, target, window, cancelled, historical, slots, hits, hand, enqueued,
                   scheduleVars, storeVars, poolVars, turns, kept, fallback, result, boundVars,
                   ghostVars, rows>>

-----------------------------------------------------------------------------
(* The workers                                                              *)

\* for job := range jobs: a job taken after an interrupt is dropped.
Take(r) ==
    /\ Active(r) /\ jobs[r] # <<>> /\ Cardinality(Busy(r)) < Concurrency
    /\ jobs' = [jobs EXCEPT ![r] = Tail(@)]
    /\ IF cancelled[r]
       THEN UNCHANGED <<work, begun>>
       ELSE LET p == Head(jobs[r])
            IN  /\ work' = [work EXCEPT ![r][p] = "collect"]
                /\ begun' = [begun EXCEPT ![target[r]][p] = @ + 1]
    /\ UNCHANGED <<feederVars, scheduleVars, storeVars, outVars, boundVars, unsaved, read, rows>>

Verdict(evidence) ==
    CASE evidence = "gold" -> "graded"
      [] evidence = "no_cases" -> "no_cases"
      [] evidence = "unassigned" /\ CollectOnly -> "candidate"
      [] OTHER -> "no_in_scope"

\* collectOnePR: the calls to GitHub and what is made of their answer.
Collect(r, p) ==
    LET Back(res) == work' = [work EXCEPT ![r][p] = res]
    IN  /\ work[r][p] = "collect"
        /\ \/ /\ \E evidence \in Evidence[p] :            \* also from a cached snapshot
                    /\ Back(Verdict(evidence))
                    /\ RecordSave(r, p, Verdict(evidence))
              /\ read' = read \cup {p}
              /\ UNCHANGED rates
           \/ /\ ~cancelled[r] /\ Refusal                \* refused for quota, or failed
              /\ \E res \in {"rate", "error"} : Back(res)
              /\ RecordSave(r, p, "blocked")
              /\ UNCHANGED read
           \/ /\ cancelled[r]                            \* the call was cancelled
              /\ Back("error")
              /\ RecordSave(r, p, "blocked")
              /\ UNCHANGED <<read, rates>>
           \/ /\ cancelled[r]                            \* before it was made
              /\ Back("error")
              /\ UNCHANGED <<storeVars, troubles, read, rates>>
        /\ UNCHANGED <<feederVars, scheduleVars, jobs, outVars, launches, unsaved,
                       begun, rows>>

\* With the whole history to read, a refused collection waits and is repeated.
MustRetry(r, p) == mode[r] = "history" /\ ~cancelled[r] /\ work[r][p] = "rate"

WaitForRateLimit(r, p) ==
    /\ MustRetry(r, p)
    /\ work' = [work EXCEPT ![r][p] = "wait"]
    /\ UNCHANGED <<feederVars, scheduleVars, storeVars, jobs, outVars, boundVars, ghostVars, rows>>

EndWait(r, p) ==
    /\ work[r][p] = "wait"
    /\ \/ work' = [work EXCEPT ![r][p] = "collect"]
       \/ /\ cancelled[r]
          /\ work' = [work EXCEPT ![r][p] = "error"]
    /\ UNCHANGED <<feederVars, scheduleVars, storeVars, jobs, outVars, boundVars, ghostVars, rows>>

\* applyCollectResult admits evidence while the target is not reached, and
\* onKeep saves what it admits.
Usable(res) == res \in {"graded", "candidate"}

\* Mutant: the limit is left to the feeder.
CanAdmitAny(r) == TRUE

CanAdmit(r) == Unlimited(r) \/ Cardinality(kept[r]) < TargetPRs

\* Mutant: rows are left to the end of the run.
OnKeepLater(p) == UNCHANGED <<rows, unsaved, troubles>>

OnKeep(p) ==
    \/ /\ rows' = rows \cup {p}
       /\ UNCHANGED <<unsaved, troubles>>
    \/ /\ Trouble("rows")
       /\ unsaved' = unsaved \cup {p}
       /\ UNCHANGED rows

Admit(r, p, res) ==
    IF Usable(res) /\ CanAdmit(r)
    THEN /\ kept' = [kept EXCEPT ![r] = @ \cup {p}]
         /\ OnKeep(p)
         /\ UNCHANGED fallback
    ELSE /\ fallback' = IF res = "no_in_scope" THEN [fallback EXCEPT ![r] = {p}] ELSE fallback
         /\ UNCHANGED <<kept, rows, unsaved, troubles>>

Apply(r, p) ==
    LET res == work[r][p]
    IN  /\ res \in Results /\ ~MustRetry(r, p)
        /\ work' = [work EXCEPT ![r][p] = "none"]
        /\ IF cancelled[r]
           THEN /\ IF Usable(res) THEN Admit(r, p, res)
                   ELSE UNCHANGED <<kept, rows, unsaved, troubles, fallback>>
                /\ UNCHANGED interrupted
           ELSE /\ Admit(r, p, res)
                /\ interrupted' = IF interrupted[r] = "no" /\ res = "rate"
                                  THEN [interrupted EXCEPT ![r] = "rate"] ELSE interrupted
        /\ UNCHANGED <<feederVars, scheduleVars, storeVars, jobs, turns, result,
                       launches, rates, begun, read>>

-----------------------------------------------------------------------------
(* The end of the hunt and of the run                                       *)

CloseJobs(r) ==
    /\ pc[r] = "close"
    /\ pc' = [pc EXCEPT ![r] = "join"]
    /\ UNCHANGED <<mode, target, window, cancelled, historical, slots, hits, hand, enqueued,
                   scheduleVars, storeVars, poolVars, outVars, boundVars, ghostVars, rows>>

\* Mutant: the hunt returns as soon as the channel is drained.
AllDoneDrained(r) == jobs[r] = <<>>

\* The workers end when the closed channel is empty and their work is applied.
AllDone(r) == jobs[r] = <<>> /\ Busy(r) = {}

\* Mutant: an interrupted hunt waits for its workers, too.
MayReturnDone(r) == AllDone(r)

\* When every worker is done or, after an interrupt, eight seconds later
\* whatever they do.
MayReturn(r) == AllDone(r) \/ cancelled[r]

\* The hunt returns a copy of its outcome.
Join(r) ==
    LET final == IF interrupted[r] = "no" /\ cancelled[r] THEN "cancel" ELSE interrupted[r]
    IN  /\ pc[r] = "join"
        /\ MayReturn(r)
        /\ interrupted' = [interrupted EXCEPT ![r] = final]
        /\ result' = [result EXCEPT ![r] = IF kept[r] # {} THEN kept[r] ELSE fallback[r]]
        /\ pc' = [pc EXCEPT ![r] = IF final \in {"cancel", "error"} THEN "exit" ELSE "persist"]
        /\ UNCHANGED <<mode, target, window, cancelled, historical, slots, hits, hand, enqueued,
                       scheduleVars, storeVars, poolVars, turns, kept, fallback, boundVars,
                       ghostVars, rows>>

\* A catalog run writes the rows of all its cases once more and fails when one
\* cannot be written; other runs grade the cases.
Persist(r) ==
    /\ pc[r] = "persist"
    /\ pc' = [pc EXCEPT ![r] = "exit"]
    /\ \/ /\ rows' = IF CollectOnly THEN rows \cup (result[r] \cap kept[r]) ELSE rows
          /\ UNCHANGED troubles
       \/ /\ CollectOnly /\ result[r] # {} /\ Trouble("rows")
          /\ UNCHANGED rows
    /\ UNCHANGED <<mode, target, window, cancelled, historical, slots, hits, hand, enqueued,
                   scheduleVars, storeVars, poolVars, outVars, launches, rates, ghostVars>>

\* The process ends, in its own time or killed; workers end with it.
Vanish(r) ==
    /\ pc' = [pc EXCEPT ![r] = "off"]
    /\ cancelled' = [cancelled EXCEPT ![r] = FALSE]
    /\ window' = [window EXCEPT ![r] = {}]
    /\ historical' = [historical EXCEPT ![r] = {}]
    /\ slots' = [slots EXCEPT ![r] = {}]
    /\ hits' = [hits EXCEPT ![r] = {}]
    /\ hand' = [hand EXCEPT ![r] = NoPR]
    /\ enqueued' = [enqueued EXCEPT ![r] = FALSE]
    /\ loaded' = [loaded EXCEPT ![r] = {}]
    /\ mem' = [mem EXCEPT ![r] = [p \in PRs |-> Unseen]]
    /\ jobs' = [jobs EXCEPT ![r] = <<>>]
    /\ work' = [work EXCEPT ![r] = [p \in PRs |-> "none"]]
    /\ turns' = [turns EXCEPT ![r] = 0]
    /\ kept' = [kept EXCEPT ![r] = {}]
    /\ fallback' = [fallback EXCEPT ![r] = {}]
    /\ interrupted' = [interrupted EXCEPT ![r] = "no"]
    /\ result' = [result EXCEPT ![r] = {}]
    /\ mode' = [mode EXCEPT ![r] = "repos"]
    /\ target' = [target EXCEPT ![r] = 1]
    /\ UNCHANGED <<scheduleVars, disk, blurred, ghostVars, launches, rates, rows>>

Exit(r) ==
    /\ pc[r] = "exit"
    /\ Vanish(r)
    /\ UNCHANGED troubles

Kill(r) ==
    /\ Active(r) /\ Trouble("kill")
    /\ Vanish(r)

\* Ctrl-C cancels the context of the run.
Interrupt(r) ==
    /\ Active(r) /\ ~cancelled[r] /\ pc[r] # "exit" /\ Trouble("interrupt")
    /\ cancelled' = [cancelled EXCEPT ![r] = TRUE]
    /\ UNCHANGED <<pc, mode, target, window, historical, slots, hits, hand, enqueued, scheduleVars,
                   storeVars, poolVars, outVars, launches, rates, ghostVars, rows>>

-----------------------------------------------------------------------------

FeederStep(r) ==
    \/ LoadCycle(r) \/ SelectTarget(r) \/ TakeWindow(r) \/ Search(r) \/ BeginWave(r)
    \/ \E i \in Repos : Discover(r, i)
    \/ DiscoverTogether(r) \/ EndDiscover(r) \/ Reserve(r) \/ Put(r) \/ EndWave(r)
    \/ CloseJobs(r) \/ Join(r) \/ Persist(r) \/ Exit(r)

WorkerStep(r) ==
    Take(r) \/ \E p \in PRs : WaitForRateLimit(r, p) \/ EndWait(r, p) \/ Apply(r, p)

HuntNext ==
    \E r \in Procs :
        \/ Launch(r) \/ ResetDiscovery(r) \/ Kill(r) \/ Interrupt(r)
        \/ FeederStep(r)
        \/ WorkerStep(r)
        \/ \E p \in PRs : Collect(r, p)

\* Every run has ended and the bound allows no other.
Rest == launches = MaxLaunches /\ (\A r \in Procs : ~Active(r)) /\ UNCHANGED vars

Spec == HuntInit /\ [][HuntNext \/ Rest]_vars

\* Goroutines are scheduled, and a call to GitHub ends: by its answer or by the
\* client's time limit.  After an interrupt a call may hang all the same.
Fairness ==
    \A r \in Procs :
        /\ WF_vars(FeederStep(r))
        /\ WF_vars(WorkerStep(r))
        /\ \A p \in PRs : WF_vars(~cancelled[r] /\ Collect(r, p))

FairSpec == Spec /\ Fairness

-----------------------------------------------------------------------------
(* Properties                                                               *)

FeederTypes ==
    /\ pc \in [Procs -> {"off", "load_cycle", "select", "reset", "window", "search", "feed",
                         "discover", "send", "put", "close", "join", "persist", "exit"}]
    /\ mode \in [Procs -> Modes \cup {"repos"}]
    /\ target \in [Procs -> Targets]
    /\ window \in [Procs -> SUBSET Repos] /\ slots \in [Procs -> SUBSET Repos]
    /\ cancelled \in [Procs -> BOOLEAN] /\ enqueued \in [Procs -> BOOLEAN]
    /\ historical \in [Procs -> SUBSET PRs] /\ hits \in [Procs -> SUBSET PRs]
    /\ hand \in [Procs -> PRs \cup {NoPR}]

StoreTypes ==
    /\ loaded \in [Procs -> SUBSET Repos]
    /\ mem \in [Procs -> [PRs -> Outcomes \cup {Unseen}]]
    /\ disk \in [Targets -> [PRs -> Outcomes \cup {Unseen}]]
    /\ blurred \subseteq Targets

PoolTypes ==
    /\ jobs \in [Procs -> Seq(PRs)]
    /\ work \in [Procs -> [PRs -> Results \cup {"none", "collect", "wait"}]]
    /\ begun \in [Targets -> [PRs -> Nat]]

OutcomeTypes ==
    /\ turns \in [Procs -> Nat]
    /\ kept \in [Procs -> SUBSET PRs] /\ fallback \in [Procs -> SUBSET PRs]
    /\ interrupted \in [Procs -> {"no", "cancel", "error", "rate"}]
    /\ result \in [Procs -> SUBSET PRs]
    /\ rows \subseteq PRs /\ unsaved \subseteq PRs /\ read \subseteq PRs
    /\ launches \in Nat /\ troubles \in Nat /\ rates \in Nat

TypeOK == ScheduleTypeOK /\ FeederTypes /\ StoreTypes /\ PoolTypes /\ OutcomeTypes

\* Jobs that are queued or being collected when the target is reached cannot
\* take the run past its limits: applyCollectResult checks the target again
\* under the mutex, and the feeder counts a turn before it sends a job.
LimitsKept ==
    \A r \in Procs : mode[r] # "history" =>
        turns[r] <= MaxTurns /\ Cardinality(kept[r]) <= TargetPRs

\* A pull request is collected once for an adversary, by whatever worker, wave
\* or run, also when a run was interrupted or killed in between: it is recorded
\* and saved before a worker can see it.  What breaks this is two processes
\* that hold the same discovery file at once, and a save that fails.
CollectedOnce == \A t \in Targets \ blurred : \A p \in PRs : begun[t][p] <= 1

\* Whatever was admitted before an interrupt or a kill has its rows in
\* results.db (onKeep runs with the admission, also after the context is done),
\* except for rows whose own write failed.
AdmittedSaved == \A r \in Procs : kept[r] \subseteq rows \cup unsaved

\* The outcome that an uninterrupted hunt returns is complete: no job is left
\* in the channel and no worker changes the outcome after the copy was made.
ReturnComplete ==
    \A r \in Procs : pc[r] = "persist" /\ ~cancelled[r] =>
        /\ jobs[r] = <<>> /\ hand[r] = NoPR
        /\ result[r] = IF kept[r] # {} THEN kept[r] ELSE fallback[r]

\* Every run ends: the feeder and its workers never wait for each other, with
\* a full channel, a refused or hung call, or an interrupt at any point.
RunsEnd == \A r \in Procs : []<>~Active(r)

\* docs/train.md:62-77 promises "every merged PR in a date-bounded repository
\* window" and that after Ctrl-C "rerunning resumes from the seen-PR state":
\* a historical run that ends normally leaves no pull request of its window
\* unread.
HistoryRead ==
    \A r \in Procs :
        pc[r] = "exit" /\ mode[r] = "history" /\ interrupted[r] = "no" =>
            \A p \in PRs : RepoOf[p] \in window[r] => p \in read
=============================================================================
