------------------------------ MODULE HuntOnce ------------------------------
(***************************************************************************)
(* Proof that a pull request is collected once, for every number of        *)
(* processes, workers and pull requests, and that a hunt that was not      *)
(* interrupted returns a complete outcome.  It rests on the types of all   *)
(* variables, which are proved first.                                      *)
(***************************************************************************)
EXTENDS HuntProofs

-----------------------------------------------------------------------------
(* Types                                                                    *)

\* No process runs and every file is empty.
LEMMA TypesInit == HuntInit => TypeOK
<1> SUFFICES ASSUME HuntInit PROVE TypeOK
  OBVIOUS
<1>1. ScheduleTypeOK
  <2>1. 1 \in Targets /\ 0 \in Repos
    BY ScheduleAssumption DEF Targets, Repos
  <2> QED BY <2>1 DEF HuntInit, ScheduleInit, ScheduleTypeOK, Unset
<1>2. 1 \in Targets /\ <<>> \in Seq(PRs)
  BY ScheduleAssumption DEF Targets
<1> QED BY <1>1, <1>2 DEF HuntInit, TypeOK, FeederTypes, StoreTypes, PoolTypes, OutcomeTypes, Results, Outcomes

\* The schedule is typed with its invariant, but for the snapshots.
LEMMA ScheduleTypes ==
    ASSUME HuntInv, TypeOK, [HuntNext \/ Rest]_vars
    PROVE  ScheduleTypeOK'
<1>1. CycleInv' /\ WindowInv'
  BY HuntInvNext DEF HuntInv
<1>2. snapshot' \in [Procs -> [sel : [Targets -> Nat], last : {Nobody} \cup Targets]]
  <2>1. [ScheduleNext]_scheduleVars
    BY HuntSchedules
  <2>2. ASSUME NEW r \in Procs, LoadAdversaryCycle(r)
        PROVE  snapshot' = [snapshot EXCEPT ![r] = cycle]
    BY <2>2 DEF LoadAdversaryCycle
  <2>3. ASSUME NEW r \in Procs, Select(r)
        PROVE  snapshot' = [snapshot EXCEPT ![r] = cycle']
    BY <2>3 DEF Select
  <2>4. ASSUME NEW t \in Targets,
               (\E limit \in Nat \ {0} : TakeCatalogWindow(t, limit)) \/ ResetCatalogTarget(t)
        PROVE  snapshot' = snapshot
    BY <2>4 DEF TakeCatalogWindow, ResetCatalogTarget, cycleVars
  <2>5. \/ snapshot' = snapshot
        \/ \E r \in Procs : \/ snapshot' = [snapshot EXCEPT ![r] = cycle]
                            \/ snapshot' = [snapshot EXCEPT ![r] = cycle']
    BY <2>1, <2>2, <2>3, <2>4 DEF ScheduleNext, scheduleVars
  <2> QED BY <1>1, <2>5 DEF TypeOK, ScheduleTypeOK, HuntInv, CycleInv
<1>3. chosen' \in [Targets -> Nat]
  BY <1>1 DEF CycleInv
<1> QED BY <1>1, <1>2, <1>3 DEF ScheduleTypeOK, CycleInv, WindowInv

\* A job is sent from the hand, which is full while the feeder sends.
HandFull ==
    \A r \in Procs : IF pc[r] = "put" THEN hand[r] \in PRs ELSE hand[r] = NoPR

\* The hand is empty at first.
LEMMA HandInit == HuntInit => HandFull
  BY DEF HuntInit, HandFull

\* Whatever goes wrong is counted.
LEMMA TroubleTyped ==
    ASSUME TypeOK, NEW kind, Trouble(kind) PROVE troubles' \in Nat
  BY DEF Trouble, TypeOK, OutcomeTypes

\* Loading and saving keep the stores typed.
LEMMA StoreTyped ==
    ASSUME TypeOK, NEW r \in Procs, NEW repos \in SUBSET Repos
    PROVE  /\ WithLoaded(r, repos) \in [PRs -> Outcomes \cup {Unseen}]
           /\ StoreFor(r, repos) =>
                /\ loaded' \in [Procs -> SUBSET Repos]
                /\ mem' \in [Procs -> [PRs -> Outcomes \cup {Unseen}]]
                /\ blurred' \subseteq Targets
<1> USE DEF TypeOK, FeederTypes, StoreTypes
<1>1. WithLoaded(r, repos) \in [PRs -> Outcomes \cup {Unseen}]
  BY DEF WithLoaded
<1>2. Blurring(r, repos) \subseteq Targets
  BY DEF Blurring
<1>3. ASSUME StoreFor(r, repos)
      PROVE  /\ loaded' = [loaded EXCEPT ![r] = @ \cup repos]
             /\ mem' = [mem EXCEPT ![r] = WithLoaded(r, repos)]
             /\ blurred' = Blurring(r, repos)
  BY <1>3 DEF StoreFor
<1>4. ASSUME StoreFor(r, repos)
      PROVE  loaded' \in [Procs -> SUBSET Repos]
  BY <1>3, <1>4
<1>5. ASSUME StoreFor(r, repos)
      PROVE  mem' \in [Procs -> [PRs -> Outcomes \cup {Unseen}]]
  BY <1>1, <1>3, <1>5
<1> QED BY <1>1, <1>2, <1>3, <1>4, <1>5

\* So does a record.
LEMMA RecordTyped ==
    ASSUME TypeOK, NEW r \in Procs, NEW p \in PRs, NEW outcome \in Outcomes,
           RecordSave(r, p, outcome)
    PROVE  /\ loaded' \in [Procs -> SUBSET Repos]
           /\ mem' \in [Procs -> [PRs -> Outcomes \cup {Unseen}]]
           /\ disk' \in [Targets -> [PRs -> Outcomes \cup {Unseen}]]
           /\ blurred' \subseteq Targets
           /\ troubles' \in Nat
<1> USE DEF TypeOK, FeederTypes, StoreTypes
<1>1. CASE RecordSaved(r, p, outcome) /\ UNCHANGED troubles
  <2> DEFINE recorded == [mem[r] EXCEPT ![p] = outcome]
             saved == [x \in PRs |-> IF RepoOf[x] = RepoOf[p] THEN recorded[x]
                                     ELSE disk[target[r]][x]]
  <2>1. recorded \in [PRs -> Outcomes \cup {Unseen}] /\ saved \in [PRs -> Outcomes \cup {Unseen}]
    OBVIOUS
  <2>2. mem' = [mem EXCEPT ![r] = recorded] /\ disk' = [disk EXCEPT ![target[r]] = saved]
        /\ loaded' = loaded /\ blurred' = blurred
    BY <1>1 DEF RecordSaved
  <2> HIDE DEF recorded, saved
  <2> QED BY <1>1, <2>1, <2>2 DEF OutcomeTypes
<1>2. CASE RecordUnsaved(r, p, outcome)
  BY <1>2, TroubleTyped DEF RecordUnsaved
<1> QED BY <1>1, <1>2 DEF RecordSave

\* What a step leaves alone keeps its types.
LEMMA SameFeeder == TypeOK /\ HandFull /\ UNCHANGED feederVars => FeederTypes' /\ HandFull'
  BY DEF TypeOK, FeederTypes, HandFull, feederVars

\* The stores are among it.
LEMMA SameStores == TypeOK /\ UNCHANGED storeVars => StoreTypes'
  BY DEF TypeOK, StoreTypes, storeVars

\* And the jobs with the workers.
LEMMA SamePool == TypeOK /\ UNCHANGED <<poolVars, begun>> => PoolTypes'
  BY DEF TypeOK, PoolTypes, poolVars

\* And the outcome of a hunt.
LEMMA SameOutcome ==
    TypeOK /\ UNCHANGED <<outVars, boundVars, unsaved, read, rows>> => OutcomeTypes'
  BY DEF TypeOK, OutcomeTypes, outVars, boundVars

RunTyped == FeederTypes /\ StoreTypes /\ PoolTypes /\ OutcomeTypes /\ HandFull

\* The start of a run.
LEMMA LaunchTyped ==
    ASSUME HuntInv, TypeOK, HandFull, NEW r \in Procs, Launch(r) \/ LoadCycle(r) \/ SelectTarget(r) \/ TakeWindow(r)
    PROVE  RunTyped'
<1>1. CASE Launch(r)
  <2>1. StoreTypes' /\ PoolTypes'
    BY <1>1, SameStores, SamePool DEF Launch, ghostVars
  <2>2. OutcomeTypes'
    BY <1>1, TroubleTyped DEF Launch, TypeOK, OutcomeTypes, ghostVars, outVars
  <2>3. FeederTypes' /\ HandFull'
    BY <1>1 DEF Launch, TypeOK, FeederTypes, HandFull
  <2> QED BY <2>1, <2>2, <2>3 DEF RunTyped
<1>2. CASE LoadCycle(r)
  <2>1. StoreTypes' /\ PoolTypes' /\ OutcomeTypes'
    BY <1>2, SameStores, SamePool, SameOutcome DEF LoadCycle, ghostVars
  <2>2. FeederTypes' /\ HandFull'
    BY <1>2 DEF LoadCycle, TypeOK, FeederTypes, HandFull
  <2> QED BY <2>1, <2>2 DEF RunTyped
<1>3. CASE SelectTarget(r)
  <2>1. StoreTypes' /\ PoolTypes' /\ OutcomeTypes'
    BY <1>3, SameStores, SamePool, SameOutcome DEF SelectTarget, ghostVars
  <2>2. Selected(r) \in Targets
    BY PeekTied DEF Selected, Reloaded, HuntInv, CycleInv, Tied
  <2>3. FeederTypes' /\ HandFull'
    BY <1>3, <2>2 DEF SelectTarget, TypeOK, FeederTypes, HandFull
  <2> QED BY <2>1, <2>3 DEF RunTyped
<1>4. CASE TakeWindow(r)
  <2>1. StoreTypes' /\ PoolTypes' /\ OutcomeTypes'
    BY <1>4, SameStores, SamePool, SameOutcome DEF TakeWindow, ghostVars
  <2>2. target[r] \in Targets /\ MaxTurns \in Nat \ {0}
    BY HuntAssumption DEF HuntInv, Typed
  <2>3. Window(target[r], MaxTurns) \subseteq Repos
    BY <2>2, WindowBounds, ScheduleAssumption DEF HuntInv, Window, Repos
  <2>4. /\ window' \in [Procs -> SUBSET Repos]
        /\ pc' \in {[pc EXCEPT ![r] = "exit"], [pc EXCEPT ![r] = "search"], [pc EXCEPT ![r] = "feed"]}
        /\ pc[r] \in {"reset", "window"}
        /\ UNCHANGED <<mode, target, cancelled, historical, slots, hits, hand, enqueued>>
    <3>1. window' = [window EXCEPT ![r] = {}] \/ window' = [window EXCEPT ![r] = Window(target[r], MaxTurns)]
      BY <1>4 DEF TakeWindow
    <3>2. window' \in [Procs -> SUBSET Repos]
      BY <2>3, <3>1 DEF TypeOK, FeederTypes
    <3> QED BY <1>4, <3>2 DEF TakeWindow
  <2>5. FeederTypes' /\ HandFull'
    BY <2>4 DEF TypeOK, FeederTypes, HandFull
  <2> QED BY <2>1, <2>5 DEF RunTyped
<1> QED BY <1>1, <1>2, <1>3, <1>4

\* A reset of discovery state.
LEMMA ResetTyped ==
    ASSUME HuntInv, TypeOK, HandFull, NEW r \in Procs, ResetDiscovery(r)
    PROVE  RunTyped'
<1> USE DEF ResetDiscovery, TypeOK
<1>1. FeederTypes' /\ HandFull'
  BY DEF FeederTypes, HandFull
<1>2. StoreTypes'
  BY DEF FeederTypes, StoreTypes
<1>3. PoolTypes'
  BY DEF FeederTypes, PoolTypes, poolVars
<1>4. OutcomeTypes'
  BY TroubleTyped DEF OutcomeTypes, outVars
<1> QED BY <1>1, <1>2, <1>3, <1>4 DEF RunTyped

\* The parts of a wave that touch no store.
LEMMA WaveTyped ==
    ASSUME HuntInv, TypeOK, HandFull, NEW r \in Procs, BeginWave(r) \/ EndDiscover(r) \/ EndWave(r) \/ CloseJobs(r)
    PROVE  RunTyped'
<1>1. StoreTypes' /\ PoolTypes'
  BY SameStores, SamePool DEF BeginWave, EndDiscover, EndWave, CloseJobs, ghostVars
<1>2. OutcomeTypes'
  BY DEF BeginWave, EndDiscover, EndWave, CloseJobs, Stop, TypeOK, OutcomeTypes, ghostVars, outVars, boundVars
<1>3. FeederTypes' /\ HandFull'
  BY DEF BeginWave, EndDiscover, EndWave, CloseJobs, Stop, TypeOK, FeederTypes, HandFull
<1> QED BY <1>1, <1>2, <1>3 DEF RunTyped

\* The searches, which load stores.
LEMMA SearchTyped ==
    ASSUME HuntInv, TypeOK, HandFull, NEW r \in Procs, Search(r)
    PROVE  RunTyped'
<1> DEFINE repos == IF mode[r] = "author" THEN Repos ELSE window[r]
           fresh == Fresh(WithLoaded(r, repos), repos)
<1>1. repos \in SUBSET Repos
  BY DEF TypeOK, FeederTypes
<1>2. StoreFor(r, repos) /\ UNCHANGED disk
  BY DEF Search
<1>3. StoreTypes'
  BY <1>1, <1>2, StoreTyped DEF TypeOK, StoreTypes
<1>4. PoolTypes'
  BY SamePool DEF Search, ghostVars
<1>5. OutcomeTypes'
  BY TroubleTyped DEF Search, Stop, TypeOK, OutcomeTypes, ghostVars
<1>6. fresh \subseteq PRs
  BY DEF Fresh
<1>7. /\ hits' = hits \/ \E S \in SUBSET PRs : hits' = [hits EXCEPT ![r] = S]
      /\ historical' = historical \/ \E S \in SUBSET PRs : historical' = [historical EXCEPT ![r] = S]
      /\ \E place \in {"close", "send", "feed"} : pc' = [pc EXCEPT ![r] = place]
      /\ pc[r] = "search"
      /\ UNCHANGED <<mode, target, window, cancelled, slots, hand, enqueued>>
  BY <1>6 DEF Search, Stop
<1>8. hits' \in [Procs -> SUBSET PRs] /\ historical' \in [Procs -> SUBSET PRs]
  BY <1>7 DEF TypeOK, FeederTypes
<1>9. FeederTypes' /\ HandFull'
  BY <1>7, <1>8 DEF TypeOK, FeederTypes, HandFull
<1> QED BY <1>3, <1>4, <1>5, <1>9 DEF RunTyped

\* The discoveries of a wave.
LEMMA DiscoverTyped ==
    ASSUME HuntInv, TypeOK, HandFull, NEW r \in Procs, DiscoverTogether(r) \/ \E i \in Repos : Discover(r, i)
    PROVE  RunTyped'
<1>1. CASE DiscoverTogether(r)
  <2>1. StoreFor(r, window[r]) /\ UNCHANGED disk /\ window[r] \in SUBSET Repos
    BY <1>1 DEF DiscoverTogether, TypeOK, FeederTypes
  <2>2. StoreTypes'
    BY <2>1, StoreTyped DEF TypeOK, StoreTypes
  <2>3. PoolTypes'
    BY <1>1, SamePool DEF DiscoverTogether, ghostVars
  <2>4. OutcomeTypes'
    BY <1>1, TroubleTyped DEF DiscoverTogether, Stop, TypeOK, OutcomeTypes, ghostVars
  <2>5. \A m, repos, among : \A S \in Candidates(m, repos, among) : S \subseteq PRs
    BY DEF Candidates, Fresh
  <2>6. /\ hits' = hits \/ \E S \in SUBSET PRs : hits' = [hits EXCEPT ![r] = S]
        /\ slots' = [slots EXCEPT ![r] = {}]
        /\ pc' = pc \/ pc' = [pc EXCEPT ![r] = "close"]
        /\ pc[r] = "discover"
        /\ UNCHANGED <<mode, target, window, cancelled, historical, hand, enqueued>>
    BY <1>1, <2>5 DEF DiscoverTogether, Stop
  <2>7. hits' \in [Procs -> SUBSET PRs]
    BY <2>6 DEF TypeOK, FeederTypes
  <2>8. FeederTypes' /\ HandFull'
    BY <2>6, <2>7 DEF TypeOK, FeederTypes, HandFull
  <2> QED BY <2>2, <2>3, <2>4, <2>8 DEF RunTyped
<1>2. ASSUME NEW i \in Repos, Discover(r, i)
      PROVE  RunTyped'
  <2>1. UNCHANGED disk /\ (StoreFor(r, {i}) \/ UNCHANGED storeVars)
    BY <1>2 DEF Discover, storeVars
  <2>2. StoreTypes'
    BY <2>1, StoreTyped DEF TypeOK, StoreTypes, storeVars
  <2>3. PoolTypes'
    BY <1>2, SamePool DEF Discover, ghostVars
  <2>4. OutcomeTypes'
    BY <1>2 DEF Discover, Refusal, TypeOK, OutcomeTypes, ghostVars
  <2>5. \A m, repos : Fresh(m, repos) \subseteq PRs
    BY DEF Fresh
  <2>6. /\ hits' = hits \/ \E p \in PRs : hits' = [hits EXCEPT ![r] = @ \cup {p}]
        /\ slots' = [slots EXCEPT ![r] = @ \ {i}]
        /\ UNCHANGED <<pc, mode, target, window, cancelled, historical, hand, enqueued>>
    BY <1>2, <2>5 DEF Discover
  <2>7. hits' \in [Procs -> SUBSET PRs]
    BY <2>6 DEF TypeOK, FeederTypes
  <2>8. FeederTypes' /\ HandFull'
    BY <2>6, <2>7 DEF TypeOK, FeederTypes, HandFull
  <2> QED BY <2>2, <2>3, <2>4, <2>8 DEF RunTyped
<1> QED BY <1>1, <1>2

\* The reservation of a job, and its way into the channel.
LEMMA ReserveTyped ==
    ASSUME HuntInv, TypeOK, HandFull, NEW r \in Procs, Reserve(r) \/ Put(r)
    PROVE  RunTyped'
<1>1. CASE Reserve(r)
  <2>1. PoolTypes'
    BY <1>1, SamePool DEF Reserve, ghostVars
  <2>2. StoreTypes' /\ troubles' \in Nat
    <3>1. (UNCHANGED <<storeVars, troubles>>) \/ \E p \in PRs : RecordSave(r, p, "attempted")
      BY <1>1 DEF Reserve, TypeOK, FeederTypes
    <3> QED BY <3>1, RecordTyped DEF TypeOK, StoreTypes, storeVars, OutcomeTypes, Outcomes
  <2>3. OutcomeTypes'
    BY <1>1, <2>2 DEF Reserve, Stop, TypeOK, OutcomeTypes, ghostVars
  <2>4. /\ hits' = hits \/ \E p \in hits[r] : hits' = [hits EXCEPT ![r] = @ \ {p}]
        /\ \/ hand' = hand /\ pc' \in {pc, [pc EXCEPT ![r] = "close"]}
           \/ pc' = [pc EXCEPT ![r] = "put"] /\ \E p \in hits[r] : hand' = [hand EXCEPT ![r] = p]
        /\ pc[r] = "send"
        /\ UNCHANGED <<mode, target, window, cancelled, historical, slots, enqueued>>
    BY <1>1 DEF Reserve, Stop
  <2>5. FeederTypes'
    <3>1. hits[r] \subseteq PRs
      BY DEF TypeOK, FeederTypes
    <3>2. hits' \in [Procs -> SUBSET PRs]
      BY <2>4 DEF TypeOK, FeederTypes
    <3> QED BY <2>4, <3>1, <3>2 DEF TypeOK, FeederTypes
  <2>6. HandFull'
    BY <2>4 DEF TypeOK, FeederTypes, HandFull
  <2> QED BY <2>1, <2>2, <2>3, <2>5, <2>6 DEF RunTyped
<1>2. CASE Put(r)
  <2>1. StoreTypes' /\ OutcomeTypes'
    BY <1>2, SameStores DEF Put, Stop, TypeOK, OutcomeTypes, ghostVars, boundVars
  <2>2. hand[r] \in PRs
    BY <1>2 DEF Put, HandFull
  <2>3. PoolTypes'
    <3>1. Append(jobs[r], hand[r]) \in Seq(PRs)
      BY <2>2 DEF TypeOK, PoolTypes
    <3>2. /\ jobs' = jobs \/ jobs' = [jobs EXCEPT ![r] = Append(jobs[r], hand[r])]
          /\ UNCHANGED <<work, begun>>
      BY <1>2 DEF Put, ghostVars
    <3> QED BY <3>1, <3>2 DEF TypeOK, PoolTypes
  <2>4. FeederTypes' /\ HandFull'
    BY <1>2 DEF Put, Stop, TypeOK, FeederTypes, HandFull
  <2> QED BY <2>1, <2>3, <2>4 DEF RunTyped
<1> QED BY <1>1, <1>2

\* The workers.
LEMMA WorkTyped ==
    ASSUME HuntInv, TypeOK, HandFull, NEW r \in Procs, Take(r) \/ \E p \in PRs : WaitForRateLimit(r, p) \/ EndWait(r, p)
    PROVE  RunTyped'
<1>1. FeederTypes' /\ HandFull' /\ StoreTypes' /\ OutcomeTypes'
  <2>1. UNCHANGED <<feederVars, storeVars, outVars, boundVars, unsaved, read, rows>>
    BY DEF Take, WaitForRateLimit, EndWait, ghostVars
  <2> QED BY <2>1, SameFeeder, SameStores, SameOutcome
<1>2. CASE Take(r)
  <2>1. Tail(jobs[r]) \in Seq(PRs) /\ Head(jobs[r]) \in PRs
    BY <1>2 DEF Take, TypeOK, PoolTypes
  <2>2. /\ jobs' = [jobs EXCEPT ![r] = Tail(jobs[r])]
        /\ work' = work \/ work' = [work EXCEPT ![r][Head(jobs[r])] = "collect"]
        /\ begun' = begun \/ begun' = [begun EXCEPT ![target[r]][Head(jobs[r])] = @ + 1]
    BY <1>2 DEF Take
  <2>3. jobs' \in [Procs -> Seq(PRs)]
    BY <2>1, <2>2 DEF TypeOK, PoolTypes
  <2>4. PICK p \in PRs : /\ work' = work \/ work' = [work EXCEPT ![r][p] = "collect"]
                         /\ begun' = begun \/ begun' = [begun EXCEPT ![target[r]][p] = @ + 1]
    BY <2>1, <2>2
  <2>5. work' \in [Procs -> [PRs -> Results \cup {"none", "collect", "wait"}]]
    <3>1. "collect" \in Results \cup {"none", "collect", "wait"}
      OBVIOUS
    <3>2. CASE work' = [work EXCEPT ![r][p] = "collect"]
      BY <3>1, <3>2 DEF TypeOK, PoolTypes
    <3>3. CASE work' = work
      BY <3>3 DEF TypeOK, PoolTypes
    <3> QED BY <2>4, <3>2, <3>3
  <2>6. begun' \in [Targets -> [PRs -> Nat]]
    <3>1. PICK t \in Targets : begun' = begun \/ begun' = [begun EXCEPT ![t][p] = @ + 1]
      BY <2>4 DEF TypeOK, FeederTypes
    <3>2. PICK n \in Nat : begun' = begun \/ begun' = [begun EXCEPT ![t][p] = n]
      BY <3>1 DEF TypeOK, PoolTypes
    <3>3. CASE begun' = [begun EXCEPT ![t][p] = n]
      BY <3>3 DEF TypeOK, PoolTypes
    <3>4. CASE begun' = begun
      BY <3>4 DEF TypeOK, PoolTypes
    <3> QED BY <3>2, <3>3, <3>4
  <2> QED BY <1>1, <2>3, <2>5, <2>6 DEF RunTyped, PoolTypes
<1>3. CASE \E p \in PRs : WaitForRateLimit(r, p) \/ EndWait(r, p)
  <2>1. /\ \E p \in PRs : \E state \in {"wait", "collect", "error"} :
              work' = [work EXCEPT ![r][p] = state]
        /\ UNCHANGED <<jobs, begun>>
    BY <1>3 DEF WaitForRateLimit, EndWait, ghostVars
  <2>2. PICK p \in PRs, state \in {"wait", "collect", "error"} :
            work' = [work EXCEPT ![r][p] = state]
    BY <2>1
  <2>3. state \in Results \cup {"none", "collect", "wait"}
    BY DEF Results
  <2>4. PoolTypes'
    BY <2>1, <2>2, <2>3 DEF TypeOK, PoolTypes
  <2> QED BY <1>1, <2>4 DEF RunTyped
<1> QED BY <1>2, <1>3

\* A collection and its result.
LEMMA CollectTyped ==
    ASSUME HuntInv, TypeOK, HandFull, NEW r \in Procs, NEW p \in PRs, Collect(r, p) \/ Apply(r, p)
    PROVE  RunTyped'
<1>1. FeederTypes' /\ HandFull'
  BY SameFeeder DEF Collect, Apply
<1>2. CASE Collect(r, p)
  <2>1. \A evidence : Verdict(evidence) \in Results /\ Verdict(evidence) \in Outcomes
    BY DEF Verdict, Results, Outcomes
  <2>2. \/ UNCHANGED <<storeVars, troubles>>
        \/ \E outcome \in Outcomes : RecordSave(r, p, outcome)
    BY <1>2, <2>1 DEF Collect, Outcomes
  <2>3. StoreTypes' /\ troubles' \in Nat
    BY <2>2, RecordTyped DEF TypeOK, StoreTypes, storeVars, OutcomeTypes
  <2>4. (\E res \in Results : work' = [work EXCEPT ![r][p] = res]) /\ UNCHANGED <<jobs, begun>>
    BY <1>2, <2>1 DEF Collect, Results
  <2>5. PoolTypes'
    BY <2>4 DEF TypeOK, PoolTypes
  <2>6. OutcomeTypes'
    BY <1>2, <2>3 DEF Collect, Refusal, TypeOK, OutcomeTypes, outVars
  <2> QED BY <1>1, <2>3, <2>5, <2>6 DEF RunTyped
<1>3. CASE Apply(r, p)
  <2>1. StoreTypes'
    BY <1>3, SameStores DEF Apply
  <2>2. PoolTypes'
    BY <1>3 DEF Apply, TypeOK, PoolTypes
  <2>3. /\ kept' = kept \/ kept' = [kept EXCEPT ![r] = @ \cup {p}]
        /\ fallback' = fallback \/ fallback' = [fallback EXCEPT ![r] = {p}]
        /\ rows' = rows \/ rows' = rows \cup {p}
        /\ unsaved' = unsaved \/ unsaved' = unsaved \cup {p}
        /\ troubles' \in Nat
        /\ interrupted' = interrupted \/ interrupted' = [interrupted EXCEPT ![r] = "rate"]
        /\ UNCHANGED <<turns, result, launches, rates, read>>
    BY <1>3, TroubleTyped DEF Apply, Admit, OnKeep, TypeOK, OutcomeTypes
  <2>4. OutcomeTypes'
    BY <2>3 DEF TypeOK, OutcomeTypes
  <2> QED BY <1>1, <2>1, <2>2, <2>4 DEF RunTyped
<1> QED BY <1>2, <1>3

\* The end of a run.
LEMMA EndTyped ==
    ASSUME HuntInv, TypeOK, HandFull, NEW r \in Procs, Join(r) \/ Persist(r) \/ Interrupt(r)
    PROVE  RunTyped'
<1>1. StoreTypes' /\ PoolTypes'
  BY SameStores, SamePool DEF Join, Persist, Interrupt, ghostVars
<1>2. FeederTypes' /\ HandFull'
  BY DEF Join, Persist, Interrupt, TypeOK, FeederTypes, HandFull
<1>3. OutcomeTypes'
  <2>1. CASE Join(r)
    BY <2>1 DEF Join, TypeOK, FeederTypes, OutcomeTypes, ghostVars, boundVars
  <2>2. CASE Persist(r)
    BY <2>2, TroubleTyped DEF Persist, TypeOK, OutcomeTypes, ghostVars, outVars
  <2>3. CASE Interrupt(r)
    BY <2>3, TroubleTyped DEF Interrupt, TypeOK, OutcomeTypes, ghostVars, outVars
  <2> QED BY <2>1, <2>2, <2>3
<1> QED BY <1>1, <1>2, <1>3 DEF RunTyped

\* The end of a process.
LEMMA VanishTyped ==
    ASSUME HuntInv, TypeOK, HandFull, NEW r \in Procs, Exit(r) \/ Kill(r)
    PROVE  RunTyped'
<1>1. Vanish(r) /\ troubles' \in Nat
  BY TroubleTyped DEF Exit, Kill, TypeOK, OutcomeTypes
<1>2. FeederTypes' /\ HandFull'
  BY <1>1, ScheduleAssumption DEF Vanish, TypeOK, FeederTypes, HandFull, Targets
<1>3. StoreTypes'
  <2>1. [p \in PRs |-> Unseen] \in [PRs -> Outcomes \cup {Unseen}]
    OBVIOUS
  <2> QED BY <1>1, <2>1 DEF Vanish, TypeOK, StoreTypes
<1>4. PoolTypes'
  <2>1. [p \in PRs |-> "none"] \in [PRs -> Results \cup {"none", "collect", "wait"}]
    OBVIOUS
  <2> QED BY <1>1, <2>1 DEF Vanish, TypeOK, PoolTypes, ghostVars
<1>5. OutcomeTypes'
  BY <1>1 DEF Vanish, TypeOK, OutcomeTypes, ghostVars
<1> QED BY <1>2, <1>3, <1>4, <1>5 DEF RunTyped

\* Every step keeps the types.
LEMMA TypesNext ==
    HuntInv /\ TypeOK /\ HandFull /\ [HuntNext \/ Rest]_vars => TypeOK' /\ HandFull'
<1> SUFFICES ASSUME HuntInv, TypeOK, HandFull, [HuntNext \/ Rest]_vars
             PROVE  RunTyped'
  BY ScheduleTypes DEF RunTyped, TypeOK
<1>1. CASE UNCHANGED vars
  <2>1. UNCHANGED <<feederVars, storeVars, poolVars, outVars, boundVars, ghostVars, rows>>
    BY <1>1 DEF vars
  <2> QED BY <2>1, SameFeeder, SameStores, SamePool, SameOutcome DEF RunTyped, ghostVars
<1>2. ASSUME NEW r \in Procs, FeederStep(r)
      PROVE  RunTyped'
  BY <1>2, LaunchTyped, SearchTyped, WaveTyped, DiscoverTyped, ReserveTyped, EndTyped, VanishTyped
     DEF FeederStep
<1>3. ASSUME NEW r \in Procs, WorkerStep(r) \/ \E p \in PRs : Collect(r, p)
      PROVE  RunTyped'
  BY <1>3, WorkTyped, CollectTyped DEF WorkerStep
<1>4. ASSUME NEW r \in Procs, Launch(r) \/ ResetDiscovery(r) \/ Kill(r) \/ Interrupt(r)
      PROVE  RunTyped'
  BY <1>4, LaunchTyped, ResetTyped, EndTyped, VanishTyped
<1> QED BY <1>1, <1>2, <1>3, <1>4 DEF HuntNext, Rest

\* The variables of a training run have their types.
THEOREM HuntTypeCorrect == Spec => []TypeOK
<1> QED BY HuntInvInit, HuntInvNext, TypesInit, HandInit, TypesNext, PTL DEF Spec

-----------------------------------------------------------------------------
(* Collected once                                                           *)

\* Where a run is before it has loaded a store.
Early == {"off", "load_cycle", "select", "reset", "window"}

\* A pull request that is recorded and on its way to a worker, or with one.
Held(r, p)   == pc[r] = "put" /\ hand[r] = p
Queued(r, p) == \E i \in 1 .. Len(jobs[r]) : jobs[r][i] = p
Sent(r, p)   == Held(r, p) \/ Queued(r, p)
InWork(r, p) == work[r][p] # "none"
Distinct(r)  == \A i, j \in 1 .. Len(jobs[r]) : i # j => jobs[r][i] # jobs[r][j]

Idle(r) ==
    /\ loaded[r] = {} /\ hits[r] = {} /\ jobs[r] = <<>>
    /\ \A p \in PRs : ~Held(r, p) /\ ~InWork(r, p)

IdleEarly == \A r \in Procs : pc[r] \in Early => Idle(r)

\* A run handles pull requests of repositories whose records it has loaded.
FromStore ==
    \A r \in Procs : \A p \in PRs :
        Sent(r, p) \/ InWork(r, p) \/ p \in hits[r] => RepoOf[p] \in loaded[r]

\* The runs of a target share no store, and each knows what its files say.
StoreOwned(t) ==
    \A q, r \in Procs : q # r /\ target[q] = t /\ target[r] = t => loaded[q] \cap loaded[r] = {}

StoreTrue(t) ==
    \A r \in Procs : target[r] = t =>
        \A p \in PRs : RepoOf[p] \in loaded[r] => mem[r][p] = disk[t][p]

\* What was sent is in the file, once, and nobody has begun it; what the author
\* search found is not in the file until it is sent.
SentRecorded(t) ==
    \A r \in Procs : target[r] = t =>
        \A p \in PRs : Sent(r, p) \/ InWork(r, p) => disk[t][p] # Unseen

SentOnce(t) ==
    \A r \in Procs : target[r] = t =>
        /\ \A p \in PRs : Sent(r, p) => begun[t][p] = 0
        /\ \A p \in PRs : ~(Held(r, p) /\ Queued(r, p))
        /\ Distinct(r)

AuthorFresh(t) ==
    \A r \in Procs : target[r] = t /\ mode[r] = "author" =>
        \A p \in PRs : p \in hits[r] => disk[t][p] = Unseen

BegunOnce(t) ==
    \A p \in PRs : begun[t][p] <= 1 /\ (disk[t][p] = Unseen => begun[t][p] = 0)

Clear(t) ==
    /\ StoreOwned(t) /\ StoreTrue(t) /\ SentRecorded(t) /\ SentOnce(t)
    /\ AuthorFresh(t) /\ BegunOnce(t)

OnceInv == IdleEarly /\ FromStore /\ \A t \in Targets \ blurred : Clear(t)

\* All that is known of a state.
Known == HuntInv /\ TypeOK /\ HandFull /\ OnceInv

\* Nothing is loaded, sent or begun at first.
LEMMA OnceInit == HuntInit => OnceInv
<1> SUFFICES ASSUME HuntInit PROVE OnceInv
  OBVIOUS
<1>1. \A r \in Procs : Idle(r)
  BY DEF HuntInit, Idle, Held, InWork
<1>2. IdleEarly
  BY <1>1 DEF IdleEarly
<1>3. \A r \in Procs, p \in PRs : ~Sent(r, p) /\ ~InWork(r, p) /\ p \notin hits[r]
  BY <1>1 DEF Idle, Sent, Queued
<1>4. FromStore
  BY <1>3 DEF FromStore
<1>5. ASSUME NEW t \in Targets
      PROVE  Clear(t)
  <2>1. StoreOwned(t) /\ StoreTrue(t)
    BY DEF HuntInit, StoreOwned, StoreTrue
  <2>2. SentRecorded(t) /\ AuthorFresh(t)
    BY <1>3 DEF SentRecorded, AuthorFresh
  <2>3. SentOnce(t)
    BY <1>1, <1>3 DEF SentOnce, Distinct, Idle, Sent
  <2>4. BegunOnce(t)
    BY DEF HuntInit, BegunOnce
  <2> QED BY <2>1, <2>2, <2>3, <2>4 DEF Clear
<1> QED BY <1>2, <1>4, <1>5 DEF OnceInv

\* Taking a job from the channel leaves the others as they were.
LEMMA TakenFromQueue ==
    ASSUME NEW r \in Procs, jobs[r] \in Seq(PRs), jobs[r] # <<>>, jobs'[r] = Tail(jobs[r])
    PROVE  /\ \A p \in PRs : Queued(r, p)' => Queued(r, p)
           /\ Distinct(r) => Distinct(r)'
           /\ \A p \in PRs : Distinct(r) /\ p = Head(jobs[r]) => ~Queued(r, p)'
<1>1. /\ Len(jobs[r]) \in Nat \ {0} /\ Len(jobs'[r]) = Len(jobs[r]) - 1
      /\ \A i \in 1 .. Len(jobs'[r]) : jobs'[r][i] = jobs[r][i + 1]
      /\ Head(jobs[r]) = jobs[r][1]
  OBVIOUS
<1>2. \A p \in PRs : Queued(r, p)' => Queued(r, p)
  <2> SUFFICES ASSUME NEW p \in PRs, NEW i \in 1 .. Len(jobs'[r]), jobs'[r][i] = p
               PROVE  Queued(r, p)
    BY DEF Queued
  <2>1. i + 1 \in 1 .. Len(jobs[r]) /\ jobs[r][i + 1] = p
    BY <1>1
  <2> QED BY <2>1 DEF Queued
<1>3. ASSUME Distinct(r), NEW i \in 1 .. Len(jobs'[r]), NEW j \in 1 .. Len(jobs'[r]), i # j
      PROVE  jobs'[r][i] # jobs'[r][j]
  <2>1. i + 1 \in 1 .. Len(jobs[r]) /\ j + 1 \in 1 .. Len(jobs[r]) /\ i + 1 # j + 1
    BY <1>1, <1>3
  <2> QED BY <1>1, <1>3, <2>1 DEF Distinct
<1>4. ASSUME Distinct(r), NEW i \in 1 .. Len(jobs'[r])
      PROVE  jobs'[r][i] # Head(jobs[r])
  <2>1. i + 1 \in 1 .. Len(jobs[r]) /\ 1 \in 1 .. Len(jobs[r]) /\ i + 1 # 1
    BY <1>1
  <2> QED BY <1>1, <1>4, <2>1 DEF Distinct
<1>5. Distinct(r) => Distinct(r)'
  BY <1>3 DEF Distinct
<1>6. \A p \in PRs : Distinct(r) /\ p = Head(jobs[r]) => ~Queued(r, p)'
  BY <1>4 DEF Queued
<1> QED BY <1>2, <1>5, <1>6

\* A job that was not in the channel keeps it free of repetition.
LEMMA AddedToQueue ==
    ASSUME NEW r \in Procs, jobs[r] \in Seq(PRs), NEW p \in PRs, jobs'[r] = Append(jobs[r], p)
    PROVE  /\ \A x \in PRs : Queued(r, x)' => Queued(r, x) \/ x = p
           /\ Distinct(r) /\ ~Queued(r, p) => Distinct(r)'
<1>1. /\ Len(jobs[r]) \in Nat /\ Len(jobs'[r]) = Len(jobs[r]) + 1
      /\ \A i \in 1 .. Len(jobs[r]) : jobs'[r][i] = jobs[r][i]
      /\ jobs'[r][Len(jobs[r]) + 1] = p
  OBVIOUS
<1>2. \A x \in PRs : Queued(r, x)' => Queued(r, x) \/ x = p
  BY <1>1 DEF Queued
<1>3. Distinct(r) /\ ~Queued(r, p) => Distinct(r)'
  BY <1>1 DEF Distinct, Queued
<1> QED BY <1>2, <1>3

\* A process that sends, begins and loads nothing new.
Lesser(r) ==
    /\ target'[r] = target[r] /\ mode'[r] = mode[r]
    /\ loaded'[r] = loaded[r] /\ mem'[r] = mem[r]
    /\ hits'[r] \subseteq hits[r]
    /\ jobs'[r] = jobs[r] \/ (jobs[r] # <<>> /\ jobs'[r] = Tail(jobs[r]))
    /\ \A p \in PRs : (Held(r, p)' => Held(r, p)) /\ (InWork(r, p)' => InWork(r, p))
    /\ pc'[r] \in Early => pc[r] \in Early

\* Such a process queues nothing new and stays idle if it was.
LEMMA LesserFacts ==
    ASSUME Known, NEW r \in Procs, Lesser(r)
    PROVE  /\ \A p \in PRs : Queued(r, p)' => Queued(r, p)
           /\ Distinct(r) => Distinct(r)'
           /\ Idle(r) => Idle(r)'
<1>1. jobs[r] \in Seq(PRs)
  BY DEF Known, TypeOK, PoolTypes
<1>2. CASE jobs'[r] = jobs[r]
  BY <1>2 DEF Lesser, Queued, Distinct, Idle
<1>3. CASE jobs[r] # <<>> /\ jobs'[r] = Tail(jobs[r])
  BY <1>1, <1>3, TakenFromQueue DEF Idle
<1> QED BY <1>2, <1>3 DEF Lesser

\* When every process does less, or is idle afterwards, and no file changes,
\* then nothing is collected twice.
LEMMA LessStep ==
    ASSUME Known, UNCHANGED <<disk, blurred, begun>>,
           \A r \in Procs : Lesser(r) \/ Idle(r)'
    PROVE  OnceInv'
<1>1. IdleEarly'
  <2>1. ASSUME NEW r \in Procs, pc'[r] \in Early, Lesser(r)
        PROVE  Idle(r)'
    <3>1. Idle(r)
      BY <2>1 DEF Known, OnceInv, IdleEarly, Lesser
    <3> QED BY <2>1, <3>1, LesserFacts
  <2> QED BY <2>1 DEF IdleEarly
<1>2. \A r \in Procs, p \in PRs : Idle(r)' => ~Sent(r, p)' /\ ~InWork(r, p)' /\ p \notin hits'[r]
  BY DEF Idle, Sent, Queued
<1>3. \A r \in Procs, p \in PRs : Lesser(r) => (Sent(r, p)' => Sent(r, p))
  BY LesserFacts DEF Lesser, Sent
<1>4. FromStore'
  BY <1>2, <1>3 DEF FromStore, Known, OnceInv, Lesser
<1>5. ASSUME NEW t \in Targets \ blurred
      PROVE  Clear(t)'
  <2>0. Clear(t)
    BY <1>5 DEF Known, OnceInv
  <2> USE DEF Clear
  <2>1. StoreOwned(t)'
    BY <2>0 DEF StoreOwned, Lesser, Idle
  <2>2. StoreTrue(t)'
    BY <2>0 DEF StoreTrue, Lesser, Idle
  <2>3. SentRecorded(t)'
    BY <2>0, <1>2, <1>3 DEF SentRecorded, Lesser
  <2>4. SentOnce(t)'
    <3>1. ASSUME NEW r \in Procs, target'[r] = t, Idle(r)'
          PROVE  /\ \A p \in PRs : ~Sent(r, p)'
                 /\ \A p \in PRs : ~(Held(r, p) /\ Queued(r, p))'
                 /\ Distinct(r)'
      BY <3>1, <1>2 DEF Idle, Distinct
    <3>2. ASSUME NEW r \in Procs, target'[r] = t, Lesser(r)
          PROVE  /\ \A p \in PRs : Sent(r, p)' => begun'[t][p] = 0
                 /\ \A p \in PRs : ~(Held(r, p) /\ Queued(r, p))'
                 /\ Distinct(r)'
      BY <2>0, <3>2, <1>3, LesserFacts DEF SentOnce, Lesser
    <3> QED BY <3>1, <3>2 DEF SentOnce
  <2>5. AuthorFresh(t)'
    BY <2>0, <1>2 DEF AuthorFresh, Lesser
  <2>6. BegunOnce(t)'
    BY <2>0 DEF BegunOnce
  <2> QED BY <2>1, <2>2, <2>3, <2>4, <2>5, <2>6
<1> QED BY <1>1, <1>4, <1>5 DEF OnceInv

\* A run that loads stores no other run of its target holds, and finds what
\* they do not list.
LEMMA StoreStep ==
    ASSUME Known, NEW r \in Procs, NEW repos \in SUBSET Repos, StoreFor(r, repos),
           UNCHANGED <<disk, begun, target, mode, jobs, work, hand>>,
           pc[r] \notin Early \cup {"put"}, pc'[r] \notin Early \cup {"put"},
           \A q \in Procs : q # r => pc'[q] = pc[q] /\ hits'[q] = hits[q],
           \A p \in hits'[r] : p \in hits[r] \/ (RepoOf[p] \in repos /\ mem'[r][p] = Unseen)
    PROVE  OnceInv'
<1>1. /\ loaded' = [loaded EXCEPT ![r] = @ \cup repos]
      /\ mem' = [mem EXCEPT ![r] = WithLoaded(r, repos)]
      /\ blurred' = Blurring(r, repos)
  BY DEF StoreFor
<1>2. /\ loaded'[r] = loaded[r] \cup repos /\ mem'[r] = WithLoaded(r, repos)
      /\ \A q \in Procs : q # r => loaded'[q] = loaded[q] /\ mem'[q] = mem[q]
  BY <1>1 DEF Known, TypeOK, StoreTypes
<1>3. \A q \in Procs, p \in PRs : /\ Held(q, p)' <=> Held(q, p)
                                  /\ Queued(q, p)' <=> Queued(q, p)
                                  /\ InWork(q, p)' <=> InWork(q, p)
  BY DEF Held, Queued, InWork
<1>4. \A q \in Procs, p \in PRs : Sent(q, p)' <=> Sent(q, p)
  BY <1>3 DEF Sent
<1>5. IdleEarly'
  BY <1>2, <1>3 DEF IdleEarly, Idle, Known, OnceInv
<1>6. FromStore'
  BY <1>2, <1>3, <1>4 DEF FromStore, Known, OnceInv
<1>7. ASSUME NEW t \in Targets \ blurred'
      PROVE  Clear(t)'
  <2>1. /\ t \notin blurred
        /\ t = target[r] => \A q \in Procs : q # r /\ Active(q) /\ target[q] = t
                                             => loaded[q] \cap repos = {}
    BY <1>1, <1>7 DEF Blurring
  <2>2. Clear(t)
    BY <1>7, <2>1 DEF Known, OnceInv
  <2>3. t = target[r] => \A q \in Procs : q # r /\ target[q] = t => loaded[q] \cap repos = {}
    <3>1. \A q \in Procs : ~Active(q) => loaded[q] = {}
      BY DEF Active, Known, OnceInv, IdleEarly, Early, Idle
    <3> QED BY <2>1, <3>1
  <2> USE DEF Clear
  <2>4. StoreOwned(t)'
    BY <1>2, <2>2, <2>3 DEF StoreOwned
  <2>5. StoreTrue(t)'
    BY <1>2, <2>2 DEF StoreTrue, WithLoaded
  <2>6. SentRecorded(t)'
    BY <1>3, <1>4, <2>2 DEF SentRecorded
  <2>7. SentOnce(t)'
    BY <1>3, <1>4, <2>2 DEF SentOnce, Distinct
  <2>8. AuthorFresh(t)'
    <3> SUFFICES ASSUME NEW q \in Procs, target[q] = t, mode[q] = "author", NEW p \in PRs, p \in hits'[q]
                 PROVE  disk[t][p] = Unseen
      BY DEF AuthorFresh
    <3>1. CASE p \in hits[q]
      BY <2>2, <3>1 DEF AuthorFresh
    <3>2. CASE q = r /\ RepoOf[p] \in repos /\ mem'[r][p] = Unseen
      BY <1>2, <2>5, <3>2 DEF StoreTrue
    <3> QED BY <3>1, <3>2
  <2>9. BegunOnce(t)'
    BY <2>2 DEF BegunOnce
  <2> QED BY <2>4, <2>5, <2>6, <2>7, <2>8, <2>9
<1> QED BY <1>5, <1>6, <1>7 DEF OnceInv

\* A record that is saved changes one entry of one file, while the store of the
\* run says what the file says.
LEMMA RecordFacts ==
    ASSUME Known, NEW r \in Procs, NEW p \in PRs, NEW outcome \in Outcomes,
           RecordSave(r, p, outcome), RepoOf[p] \in loaded[r], NEW t \in Targets \ blurred'
    PROVE  /\ t \notin blurred /\ Clear(t) /\ loaded' = loaded
           /\ \A q \in Procs, x \in PRs :
                 mem'[q][x] = IF q = r /\ x = p THEN outcome ELSE mem[q][x]
           /\ \A x \in PRs : disk'[t][x] = IF t = target[r] /\ x = p THEN outcome ELSE disk[t][x]
<1>1. /\ t \notin blurred /\ loaded' = loaded
      /\ mem' = [mem EXCEPT ![r] = [mem[r] EXCEPT ![p] = outcome]]
  BY DEF RecordSave, RecordSaved, RecordUnsaved
<1>2. Clear(t)
  BY <1>1 DEF Known, OnceInv
<1>3. mem[r] \in [PRs -> Outcomes \cup {Unseen}] /\ disk \in [Targets -> [PRs -> Outcomes \cup {Unseen}]]
      /\ target[r] \in Targets /\ mem \in [Procs -> [PRs -> Outcomes \cup {Unseen}]]
  BY DEF Known, TypeOK, FeederTypes, StoreTypes
<1>4. CASE t # target[r]
  <2>1. disk'[t] = disk[t]
    BY <1>3, <1>4 DEF RecordSave, RecordSaved, RecordUnsaved
  <2> QED BY <1>1, <1>2, <1>3, <1>4, <2>1
<1>5. CASE t = target[r]
  <2>1. RecordSaved(r, p, outcome)
    BY <1>1, <1>5 DEF RecordSave, RecordUnsaved
  <2>2. disk'[t] = [x \in PRs |-> IF RepoOf[x] = RepoOf[p] THEN [mem[r] EXCEPT ![p] = outcome][x]
                                  ELSE disk[t][x]]
    BY <1>3, <1>5, <2>1 DEF RecordSaved
  <2>3. \A x \in PRs : RepoOf[x] = RepoOf[p] => mem[r][x] = disk[t][x]
    BY <1>2, <1>5 DEF Clear, StoreTrue
  <2>4. \A x \in PRs : disk'[t][x] = IF x = p THEN outcome ELSE disk[t][x]
    BY <1>3, <2>2, <2>3
  <2> QED BY <1>1, <1>2, <1>3, <1>5, <2>4
<1> QED BY <1>4, <1>5

\* What is loaded stays loaded while a record is saved.
LEMMA RecordLoaded ==
    ASSUME NEW r, NEW p, NEW outcome, RecordSave(r, p, outcome)
    PROVE  loaded' = loaded
  BY DEF RecordSave, RecordSaved, RecordUnsaved

\* A record of what is with a worker sends nothing and begins nothing.
LEMMA RecordStep ==
    ASSUME Known, NEW r \in Procs, NEW p \in PRs, NEW outcome \in Outcomes \ {"attempted"},
           InWork(r, p), RecordSave(r, p, outcome),
           UNCHANGED <<begun, target, mode, jobs, hand, pc, hits>>,
           \A q \in Procs, x \in PRs : InWork(q, x)' => InWork(q, x)
    PROVE  OnceInv'
<1>1. RepoOf[p] \in loaded[r] /\ loaded' = loaded
  BY RecordLoaded DEF Known, OnceInv, FromStore
<1>2. \A q \in Procs, x \in PRs : /\ Held(q, x)' <=> Held(q, x)
                                  /\ Queued(q, x)' <=> Queued(q, x)
  BY DEF Held, Queued
<1>3. \A q \in Procs, x \in PRs : Sent(q, x)' <=> Sent(q, x)
  BY <1>2 DEF Sent
<1>4. IdleEarly'
  BY <1>1, <1>2 DEF IdleEarly, Idle, Known, OnceInv
<1>5. FromStore'
  BY <1>1, <1>3 DEF FromStore, Known, OnceInv
<1>6. ASSUME NEW t \in Targets \ blurred'
      PROVE  Clear(t)'
  <2>1. /\ Clear(t)
        /\ \A q \in Procs, x \in PRs : mem'[q][x] = IF q = r /\ x = p THEN outcome ELSE mem[q][x]
        /\ \A x \in PRs : disk'[t][x] = IF t = target[r] /\ x = p THEN outcome ELSE disk[t][x]
    BY <1>1, <1>6, RecordFacts
  <2>2. outcome # Unseen
    BY DEF Outcomes, Unseen
  <2>3. t = target[r] => disk[t][p] # Unseen
    BY <2>1 DEF Clear, SentRecorded
  <2> USE DEF Clear
  <2>4. StoreOwned(t)'
    BY <1>1, <2>1 DEF StoreOwned
  <2>5. StoreTrue(t)'
    <3> SUFFICES ASSUME NEW q \in Procs, target[q] = t, NEW x \in PRs, RepoOf[x] \in loaded[q]
                 PROVE  mem'[q][x] = disk'[t][x]
      BY <1>1 DEF StoreTrue
    <3>1. mem[q][x] = disk[t][x]
      BY <2>1 DEF StoreTrue
    <3>2. t = target[r] /\ x = p => q = r
      BY <1>1, <2>1 DEF StoreOwned
    <3> QED BY <2>1, <3>1, <3>2
  <2>6. SentRecorded(t)'
    BY <1>3, <2>1, <2>2 DEF SentRecorded
  <2>7. SentOnce(t)'
    BY <1>2, <1>3, <2>1 DEF SentOnce, Distinct
  <2>8. AuthorFresh(t)'
    BY <2>1, <2>3 DEF AuthorFresh
  <2>9. BegunOnce(t)'
    BY <2>1, <2>2 DEF BegunOnce
  <2> QED BY <2>4, <2>5, <2>6, <2>7, <2>8, <2>9
<1> QED BY <1>4, <1>5, <1>6 DEF OnceInv

\* Steps that touch neither stores nor jobs.
LEMMA CalmStep ==
    ASSUME Known, NEW r \in Procs, UNCHANGED <<target, mode, loaded, mem, disk, blurred, begun, jobs>>,
           \A q \in Procs : hits'[q] \subseteq hits[q],
           \A q \in Procs : q # r => pc'[q] = pc[q] /\ hand'[q] = hand[q],
           pc'[r] \in Early => pc[r] \in Early,
           pc'[r] = "put" => pc[r] = "put" /\ hand'[r] = hand[r],
           \A q \in Procs, x \in PRs : InWork(q, x)' => InWork(q, x)
    PROVE  OnceInv'
<1>1. ASSUME NEW q \in Procs
      PROVE  Lesser(q)
  <2>1. \A x \in PRs : Held(q, x)' => Held(q, x)
    BY DEF Held
  <2> QED BY <2>1 DEF Lesser
<1> QED BY <1>1, LessStep

\* The steps of the feeder between its stores and its jobs.
LEMMA FeederCalm ==
    ASSUME Known, NEW r \in Procs,
           \/ LoadCycle(r) \/ TakeWindow(r) \/ BeginWave(r) \/ EndDiscover(r) \/ EndWave(r)
           \/ CloseJobs(r) \/ Join(r) \/ Persist(r) \/ Interrupt(r)
    PROVE  OnceInv'
<1>1. /\ UNCHANGED <<target, mode, loaded, mem, disk, blurred, begun, jobs, work, hand>>
      /\ hits' = hits \/ hits' = [hits EXCEPT ![r] = {}]
      /\ \/ pc' = pc
         \/ pc[r] \in Early /\ pc' = [pc EXCEPT ![r] = "select"]
         \/ \E place \in {"exit", "search", "feed", "close", "discover", "send", "join", "persist"} :
               pc' = [pc EXCEPT ![r] = place]
  <2>1. CASE LoadCycle(r) \/ TakeWindow(r)
    BY <2>1 DEF LoadCycle, TakeWindow, storeVars, poolVars, ghostVars, Early
  <2>2. CASE BeginWave(r)
    BY <2>2 DEF BeginWave, Stop, storeVars, poolVars, ghostVars
  <2>3. CASE EndDiscover(r) \/ EndWave(r) \/ CloseJobs(r)
    BY <2>3 DEF EndDiscover, EndWave, CloseJobs, Stop, storeVars, poolVars, ghostVars
  <2>4. CASE Join(r) \/ Persist(r) \/ Interrupt(r)
    BY <2>4 DEF Join, Persist, Interrupt, storeVars, poolVars, ghostVars
  <2> QED BY <2>1, <2>2, <2>3, <2>4
<1>2. \A q \in Procs : hits'[q] \subseteq hits[q]
  BY <1>1 DEF Known, TypeOK, FeederTypes
<1>3. /\ \A q \in Procs : q # r => pc'[q] = pc[q]
      /\ pc'[r] \in Early => pc[r] \in Early
      /\ pc'[r] = "put" => pc[r] = "put"
  BY <1>1 DEF Known, TypeOK, FeederTypes, Early
<1>4. \A q \in Procs, x \in PRs : InWork(q, x)' => InWork(q, x)
  BY <1>1 DEF InWork
<1> QED BY <1>1, <1>2, <1>3, <1>4, CalmStep

\* The steps of a worker after it has begun.
LEMMA WorkerCalm ==
    ASSUME Known, NEW r \in Procs, NEW p \in PRs,
           WaitForRateLimit(r, p) \/ EndWait(r, p) \/ Apply(r, p)
    PROVE  OnceInv'
<1>1. /\ UNCHANGED <<target, mode, loaded, mem, disk, blurred, begun, jobs, hand, pc, hits>>
      /\ InWork(r, p)
      /\ \E state : work' = [work EXCEPT ![r][p] = state]
  BY DEF WaitForRateLimit, EndWait, Apply, MustRetry, InWork, Results, Outcomes, feederVars,
         storeVars, ghostVars
<1>2. \A q \in Procs, x \in PRs : InWork(q, x)' => InWork(q, x)
  BY <1>1 DEF InWork, Known, TypeOK, PoolTypes
<1>3. /\ pc'[r] \in Early => pc[r] \in Early
      /\ pc'[r] = "put" => pc[r] = "put" /\ hand'[r] = hand[r]
      /\ \A q \in Procs : q # r => pc'[q] = pc[q] /\ hand'[q] = hand[q]
      /\ \A q \in Procs : hits'[q] \subseteq hits[q]
  BY <1>1
<1> QED BY <1>1, <1>2, <1>3, CalmStep

\* Runs that begin and processes that end.
LEMMA IdleStep ==
    ASSUME Known, NEW r \in Procs, Launch(r) \/ SelectTarget(r) \/ Exit(r) \/ Kill(r)
    PROVE  OnceInv'
<1>1. UNCHANGED <<disk, blurred, begun>>
  BY DEF Launch, SelectTarget, Exit, Kill, Vanish, storeVars, ghostVars
<1>2. ASSUME NEW q \in Procs, q # r
      PROVE  Lesser(q)
  <2>1. /\ target'[q] = target[q] /\ mode'[q] = mode[q] /\ loaded'[q] = loaded[q]
        /\ mem'[q] = mem[q] /\ hits'[q] = hits[q] /\ jobs'[q] = jobs[q] /\ pc'[q] = pc[q]
        /\ hand'[q] = hand[q] /\ work'[q] = work[q]
    <3>1. CASE Launch(r) \/ SelectTarget(r)
      BY <1>2, <3>1 DEF Launch, SelectTarget, storeVars, poolVars, Known, TypeOK, FeederTypes
    <3>2. CASE Exit(r) \/ Kill(r)
      BY <1>2, <3>2 DEF Exit, Kill, Vanish, Known, TypeOK, FeederTypes, StoreTypes, PoolTypes
    <3> QED BY <3>1, <3>2
  <2> QED BY <2>1 DEF Lesser, Held, InWork
<1>3. Idle(r)'
  <2>1. CASE Launch(r) \/ SelectTarget(r)
    <3>1. /\ pc[r] \in Early /\ pc'[r] # "put"
          /\ UNCHANGED <<loaded, hits, jobs, work>>
      BY <2>1 DEF Launch, SelectTarget, storeVars, poolVars, Early, Known, TypeOK, FeederTypes
    <3> QED BY <3>1 DEF Known, OnceInv, IdleEarly, Idle, Held, InWork
  <2>2. CASE Exit(r) \/ Kill(r)
    <3>1. /\ loaded'[r] = {} /\ hits'[r] = {} /\ jobs'[r] = <<>> /\ pc'[r] = "off"
          /\ work'[r] = [p \in PRs |-> "none"]
      BY <2>2 DEF Exit, Kill, Vanish, Known, TypeOK, FeederTypes, StoreTypes, PoolTypes
    <3> QED BY <3>1 DEF Idle, Held, InWork
  <2> QED BY <2>1, <2>2
<1> QED BY <1>1, <1>2, <1>3, LessStep

\* A reset while no other run has loaded the target's stores starts afresh; any
\* other one leaves the target blurred.
LEMMA ResetStep ==
    ASSUME Known, NEW r \in Procs, ResetDiscovery(r)
    PROVE  OnceInv'
<1>1. /\ pc[r] = "reset" /\ pc' = [pc EXCEPT ![r] = "window"]
      /\ UNCHANGED <<target, mode, loaded, mem, hits, jobs, work, hand>>
      /\ disk' = [disk EXCEPT ![target[r]] = [p \in PRs |-> Unseen]]
      /\ begun' = [begun EXCEPT ![target[r]] = [p \in PRs |-> 0]]
      /\ blurred' = IF \E q \in Procs \ {r} : Active(q) /\ target[q] = target[r] /\ loaded[q] # {}
                    THEN blurred \cup {target[r]} ELSE blurred \ {target[r]}
  BY DEF ResetDiscovery, poolVars
<1>2. Idle(r)
  BY <1>1 DEF Known, OnceInv, IdleEarly, Early
<1>3. /\ \A q \in Procs : q # r => pc'[q] = pc[q]
      /\ pc'[r] = "window"
  BY <1>1 DEF Known, TypeOK, FeederTypes
<1>4. \A q \in Procs, x \in PRs : /\ Held(q, x)' <=> Held(q, x)
                                  /\ Queued(q, x)' <=> Queued(q, x)
                                  /\ InWork(q, x)' <=> InWork(q, x)
  BY <1>1, <1>3 DEF Held, Queued, InWork
<1>5. \A q \in Procs, x \in PRs : Sent(q, x)' <=> Sent(q, x)
  BY <1>4 DEF Sent
<1>6. IdleEarly'
  BY <1>1, <1>2, <1>3, <1>4 DEF IdleEarly, Idle, Known, OnceInv
<1>7. FromStore'
  BY <1>1, <1>4, <1>5 DEF FromStore, Known, OnceInv
<1>8. ASSUME NEW t \in Targets \ blurred'
      PROVE  Clear(t)'
  <2>1. CASE t # target[r]
    <3>1. t \notin blurred /\ disk'[t] = disk[t] /\ begun'[t] = begun[t]
      BY <1>1, <1>8, <2>1 DEF Known, TypeOK, FeederTypes, StoreTypes, PoolTypes
    <3>2. Clear(t)
      BY <1>8, <3>1 DEF Known, OnceInv
    <3> USE DEF Clear
    <3>3. StoreOwned(t)' /\ StoreTrue(t)'
      BY <1>1, <3>1, <3>2 DEF StoreOwned, StoreTrue
    <3>4. SentRecorded(t)' /\ AuthorFresh(t)' /\ BegunOnce(t)'
      BY <1>1, <1>4, <1>5, <3>1, <3>2 DEF SentRecorded, AuthorFresh, BegunOnce
    <3>5. SentOnce(t)'
      BY <1>1, <1>4, <1>5, <3>1, <3>2 DEF SentOnce, Distinct
    <3> QED BY <3>3, <3>4, <3>5
  <2>2. CASE t = target[r]
    <3>1. \A q \in Procs : q # r /\ Active(q) /\ target[q] = t => loaded[q] = {}
      BY <1>1, <1>8, <2>2
    <3>2. \A q \in Procs : target[q] = t => loaded[q] = {}
      BY <1>2, <3>1 DEF Active, Known, OnceInv, IdleEarly, Early, Idle
    <3>3. \A q \in Procs : target[q] = t =>
             \A x \in PRs : ~Sent(q, x) /\ ~InWork(q, x) /\ x \notin hits[q]
      BY <3>2 DEF Known, OnceInv, FromStore
    <3>4. \A x \in PRs : disk'[t][x] = Unseen /\ begun'[t][x] = 0
      BY <1>1, <2>2 DEF Known, TypeOK, FeederTypes, StoreTypes, PoolTypes
    <3>5. ASSUME NEW q \in Procs, target[q] = t
          PROVE  jobs[q] = <<>>
      <4>1. jobs[q] \in Seq(PRs)
        BY DEF Known, TypeOK, PoolTypes
      <4>2. ASSUME jobs[q] # <<>>
            PROVE  FALSE
        <5>1. 1 \in 1 .. Len(jobs[q]) /\ jobs[q][1] \in PRs
          BY <4>1, <4>2
        <5> QED BY <3>3, <3>5, <5>1 DEF Sent, Queued
      <4> QED BY <4>2
    <3> USE DEF Clear
    <3>6. StoreOwned(t)' /\ StoreTrue(t)'
      BY <1>1, <3>2 DEF StoreOwned, StoreTrue
    <3>7. SentRecorded(t)' /\ AuthorFresh(t)' /\ BegunOnce(t)'
      BY <1>1, <1>4, <1>5, <3>3, <3>4 DEF SentRecorded, AuthorFresh, BegunOnce
    <3>8. SentOnce(t)'
      BY <1>1, <1>4, <1>5, <3>3, <3>5 DEF SentOnce, Distinct, Sent
    <3> QED BY <3>6, <3>7, <3>8
  <2> QED BY <2>1, <2>2
<1> QED BY <1>6, <1>7, <1>8 DEF OnceInv

\* The searches and discoveries.
LEMMA SearchOnce ==
    ASSUME Known, NEW r \in Procs,
           Search(r) \/ DiscoverTogether(r) \/ \E i \in Repos : Discover(r, i)
    PROVE  OnceInv'
<1> DEFINE Found(repos) == \A p \in hits'[r] :
                 p \in hits[r] \/ (RepoOf[p] \in repos /\ mem'[r][p] = Unseen)
<1>1. \A repos : StoreFor(r, repos) => mem'[r] = WithLoaded(r, repos)
  BY DEF StoreFor, Known, TypeOK, StoreTypes
<1>2. \A m, repos : \A p \in Fresh(m, repos) : RepoOf[p] \in repos /\ m[p] = Unseen
  BY DEF Fresh
<1>3. \A q \in Procs : q # r => pc'[q] = pc[q] /\ hits'[q] = hits[q]
  BY DEF Search, DiscoverTogether, Discover, Stop, Known, TypeOK, FeederTypes
<1>4. /\ UNCHANGED <<disk, begun, target, mode, jobs, work, hand>>
      /\ pc[r] \in {"search", "discover"}
      /\ pc' = pc \/ \E place \in {"close", "send", "feed"} : pc' = [pc EXCEPT ![r] = place]
  BY DEF Search, DiscoverTogether, Discover, Stop, poolVars, ghostVars
<1>5. pc[r] \notin Early \cup {"put"} /\ pc'[r] \notin Early \cup {"put"}
  BY <1>4 DEF Early, Known, TypeOK, FeederTypes
<1>6. CASE Search(r)
  <2> DEFINE repos == IF mode[r] = "author" THEN Repos ELSE window[r]
             fresh == Fresh(WithLoaded(r, repos), repos)
  <2>1. repos \in SUBSET Repos
    BY DEF Known, TypeOK, FeederTypes
  <2>2. StoreFor(r, repos) /\ (hits' = hits \/ \E S \in SUBSET fresh : hits' = [hits EXCEPT ![r] = S])
    BY <1>6 DEF Search
  <2>3. hits' = hits \/ hits'[r] \subseteq fresh
    BY <2>2 DEF Known, TypeOK, FeederTypes
  <2>4. Found(repos)
    BY <1>1, <1>2, <2>2, <2>3
  <2> HIDE DEF repos
  <2> QED BY <1>3, <1>4, <1>5, <2>1, <2>2, <2>4, StoreStep
<1>7. CASE DiscoverTogether(r)
  <2> DEFINE fresh == Fresh(WithLoaded(r, window[r]), window[r])
  <2>1. StoreFor(r, window[r]) /\ window[r] \in SUBSET Repos
    BY <1>7 DEF DiscoverTogether, Known, TypeOK, FeederTypes
  <2>2. hits' = hits \/ \E S \in SUBSET fresh : hits' = [hits EXCEPT ![r] = S]
    BY <1>7 DEF DiscoverTogether, Candidates
  <2>3. hits' = hits \/ hits'[r] \subseteq fresh
    BY <2>2 DEF Known, TypeOK, FeederTypes
  <2>4. Found(window[r])
    BY <1>1, <1>2, <2>1, <2>3
  <2> QED BY <1>3, <1>4, <1>5, <2>1, <2>4, StoreStep
<1>8. ASSUME NEW i \in Repos, Discover(r, i)
      PROVE  OnceInv'
  <2> DEFINE fresh == Fresh(WithLoaded(r, {i}), {i})
  <2>1. \/ UNCHANGED <<storeVars, hits>>
        \/ StoreFor(r, {i}) /\ \E p \in fresh : hits' = [hits EXCEPT ![r] = @ \cup {p}]
    BY <1>8 DEF Discover, storeVars
  <2>2. CASE UNCHANGED <<storeVars, hits>>
    <3>1. UNCHANGED <<target, mode, loaded, mem, disk, blurred, begun, jobs, work, hand, hits, pc>>
      BY <1>8, <2>2 DEF Discover, storeVars, poolVars, ghostVars
    <3> QED BY <3>1, CalmStep DEF InWork
  <2>3. CASE StoreFor(r, {i}) /\ \E p \in fresh : hits' = [hits EXCEPT ![r] = @ \cup {p}]
    <3>1. \A p \in hits'[r] : p \in hits[r] \/ p \in fresh
      BY <2>3 DEF Known, TypeOK, FeederTypes
    <3>2. Found({i})
      BY <1>1, <1>2, <2>3, <3>1
    <3>3. {i} \in SUBSET Repos
      OBVIOUS
    <3> QED BY <1>3, <1>4, <1>5, <2>3, <3>2, <3>3, StoreStep
  <2> QED BY <2>1, <2>2, <2>3
<1> QED BY <1>6, <1>7, <1>8

\* The end of a collection.
LEMMA CollectOnce ==
    ASSUME Known, NEW r \in Procs, NEW p \in PRs, Collect(r, p)
    PROVE  OnceInv'
<1>1. /\ InWork(r, p)
      /\ UNCHANGED <<begun, target, mode, jobs, hand, pc, hits>>
      /\ \E state : work' = [work EXCEPT ![r][p] = state]
  BY DEF Collect, InWork, feederVars
<1>2. \A q \in Procs, x \in PRs : InWork(q, x)' => InWork(q, x)
  BY <1>1 DEF InWork, Known, TypeOK, PoolTypes
<1>3. \A evidence : Verdict(evidence) \in Outcomes \ {"attempted"}
  BY DEF Verdict, Outcomes
<1>4. \/ UNCHANGED storeVars
      \/ \E outcome \in Outcomes \ {"attempted"} : RecordSave(r, p, outcome)
  BY <1>3 DEF Collect, Outcomes
<1>5. CASE UNCHANGED storeVars
  <2>1. UNCHANGED <<loaded, mem, disk, blurred>>
    BY <1>5 DEF storeVars
  <2> QED BY <1>1, <1>2, <2>1, CalmStep
<1>6. ASSUME NEW outcome \in Outcomes \ {"attempted"}, RecordSave(r, p, outcome)
      PROVE  OnceInv'
  BY <1>1, <1>2, <1>6, RecordStep
<1> QED BY <1>4, <1>5, <1>6

\* A pull request that is reserved was in no file and in nobody's hands.
LEMMA ReserveOnce ==
    ASSUME Known, NEW r \in Procs, Reserve(r)
    PROVE  OnceInv'
<1>1. /\ pc[r] = "send" /\ UNCHANGED <<target, mode, begun, jobs, work>>
      /\ \/ /\ UNCHANGED <<storeVars, hand>>
            /\ pc' \in {pc, [pc EXCEPT ![r] = "close"]}
            /\ hits' = hits \/ \E p \in hits[r] : hits' = [hits EXCEPT ![r] = @ \ {p}]
         \/ \E p \in hits[r] : /\ hits' = [hits EXCEPT ![r] = @ \ {p}]
                               /\ ~Seen(r, p) \/ mode[r] = "author"
                               /\ hand' = [hand EXCEPT ![r] = p]
                               /\ pc' = [pc EXCEPT ![r] = "put"]
                               /\ RecordSave(r, p, "attempted")
  BY DEF Reserve, Stop, poolVars, ghostVars
<1>2. CASE /\ UNCHANGED <<storeVars, hand>>
           /\ pc' \in {pc, [pc EXCEPT ![r] = "close"]}
           /\ hits' = hits \/ \E p \in hits[r] : hits' = [hits EXCEPT ![r] = @ \ {p}]
  <2>1. /\ \A q \in Procs : hits'[q] \subseteq hits[q]
        /\ \A q \in Procs : q # r => pc'[q] = pc[q]
        /\ pc'[r] \in {"send", "close"}
    BY <1>1, <1>2 DEF Known, TypeOK, FeederTypes
  <2>2. UNCHANGED <<loaded, mem, disk, blurred, hand>>
    BY <1>2 DEF storeVars
  <2> QED BY <1>1, <2>1, <2>2, CalmStep DEF Early, InWork
<1>3. ASSUME NEW p \in hits[r],
             hits' = [hits EXCEPT ![r] = @ \ {p}],
             ~Seen(r, p) \/ mode[r] = "author",
             hand' = [hand EXCEPT ![r] = p],
             pc' = [pc EXCEPT ![r] = "put"],
             RecordSave(r, p, "attempted")
      PROVE  OnceInv'
  <2>1. /\ p \in PRs /\ RepoOf[p] \in loaded[r] /\ loaded' = loaded
        /\ "attempted" \in Outcomes /\ "attempted" # Unseen
    <3>1. p \in PRs
      BY DEF Known, TypeOK, FeederTypes
    <3>2. RepoOf[p] \in loaded[r]
      BY <3>1 DEF Known, OnceInv, FromStore
    <3> QED BY <1>3, <3>1, <3>2, RecordLoaded DEF Outcomes, Unseen
  <2>2. /\ \A q \in Procs : q # r => pc'[q] = pc[q] /\ hand'[q] = hand[q] /\ hits'[q] = hits[q]
        /\ pc'[r] = "put" /\ hand'[r] = p /\ hits'[r] = hits[r] \ {p}
    BY <1>3 DEF Known, TypeOK, FeederTypes
  <2>3. \A q \in Procs, x \in PRs : /\ Held(q, x)' <=> Held(q, x) \/ (q = r /\ x = p)
                                    /\ Queued(q, x)' <=> Queued(q, x)
                                    /\ InWork(q, x)' <=> InWork(q, x)
    BY <1>1, <2>2 DEF Held, Queued, InWork
  <2>4. \A q \in Procs, x \in PRs : Sent(q, x)' <=> Sent(q, x) \/ (q = r /\ x = p)
    BY <2>3 DEF Sent
  <2>5. IdleEarly'
    BY <1>1, <2>1, <2>2, <2>3 DEF IdleEarly, Idle, Known, OnceInv, Early
  <2>6. FromStore'
    <3> SUFFICES ASSUME NEW q \in Procs, NEW x \in PRs,
                        Sent(q, x)' \/ InWork(q, x)' \/ x \in hits'[q]
                 PROVE  RepoOf[x] \in loaded[q]
      BY <2>1 DEF FromStore
    <3>1. (q = r /\ x = p) \/ Sent(q, x) \/ InWork(q, x) \/ x \in hits[q]
      BY <2>2, <2>3, <2>4
    <3> QED BY <2>1, <3>1 DEF Known, OnceInv, FromStore
  <2>7. ASSUME NEW t \in Targets \ blurred'
        PROVE  Clear(t)'
    <3>1. /\ Clear(t)
          /\ \A q \in Procs, x \in PRs :
                mem'[q][x] = IF q = r /\ x = p THEN "attempted" ELSE mem[q][x]
          /\ \A x \in PRs : disk'[t][x] = IF t = target[r] /\ x = p THEN "attempted" ELSE disk[t][x]
      BY <1>3, <2>1, <2>7, RecordFacts
    <3> USE DEF Clear
    <3>2. t = target[r] => disk[t][p] = Unseen /\ begun[t][p] = 0
      <4> SUFFICES ASSUME t = target[r] PROVE disk[t][p] = Unseen /\ begun[t][p] = 0
        OBVIOUS
      <4>1. CASE ~Seen(r, p)
        BY <2>1, <3>1, <4>1 DEF Seen, StoreTrue, BegunOnce
      <4>2. CASE mode[r] = "author"
        BY <2>1, <3>1, <4>2 DEF AuthorFresh, BegunOnce
      <4> QED BY <1>3, <4>1, <4>2
    <3>3. \A q \in Procs : target[q] = t /\ t = target[r] => ~Sent(q, p) /\ ~InWork(q, p)
      BY <2>1, <3>1, <3>2 DEF SentRecorded
    <3>4. StoreOwned(t)'
      BY <1>1, <2>1, <3>1 DEF StoreOwned
    <3>5. ASSUME NEW q \in Procs, target[q] = t, t = target[r], RepoOf[p] \in loaded[q]
          PROVE  q = r
      BY <2>1, <3>1, <3>5 DEF StoreOwned
    <3>6. StoreTrue(t)'
      <4> SUFFICES ASSUME NEW q \in Procs, target[q] = t, NEW x \in PRs, RepoOf[x] \in loaded[q]
                   PROVE  mem'[q][x] = disk'[t][x]
        BY <1>1, <2>1 DEF StoreTrue
      <4>1. mem[q][x] = disk[t][x]
        BY <3>1 DEF StoreTrue
      <4> QED BY <3>1, <3>5, <4>1
    <3>7. SentRecorded(t)'
      BY <1>1, <2>1, <2>3, <2>4, <3>1 DEF SentRecorded
    <3>8. SentOnce(t)'
      <4> SUFFICES ASSUME NEW q \in Procs, target[q] = t
                   PROVE  /\ \A x \in PRs : Sent(q, x)' => begun[t][x] = 0
                          /\ \A x \in PRs : ~(Held(q, x)' /\ Queued(q, x)')
                          /\ Distinct(q)'
        BY <1>1 DEF SentOnce
      <4>1. \A x \in PRs : Sent(q, x)' => begun[t][x] = 0
        BY <2>4, <3>1, <3>2 DEF SentOnce
      <4>2. \A x \in PRs : ~(Held(q, x)' /\ Queued(q, x)')
        BY <2>3, <3>1, <3>3 DEF SentOnce, Sent
      <4>3. Distinct(q)'
        BY <1>1, <3>1 DEF SentOnce, Distinct
      <4> QED BY <4>1, <4>2, <4>3
    <3>9. AuthorFresh(t)'
      <4> SUFFICES ASSUME NEW q \in Procs, target[q] = t, mode[q] = "author", NEW x \in PRs, x \in hits'[q]
                   PROVE  disk'[t][x] = Unseen
        BY <1>1 DEF AuthorFresh
      <4>1. x \in hits[q] /\ disk[t][x] = Unseen /\ RepoOf[x] \in loaded[q]
        BY <2>2, <3>1 DEF AuthorFresh, Known, OnceInv, FromStore
      <4>2. ~(t = target[r] /\ x = p)
        BY <2>2, <3>5, <4>1
      <4> QED BY <3>1, <4>1, <4>2
    <3>10. BegunOnce(t)'
      BY <1>1, <2>1, <3>1 DEF BegunOnce
    <3> QED BY <3>4, <3>6, <3>7, <3>8, <3>9, <3>10
  <2> QED BY <2>5, <2>6, <2>7 DEF OnceInv
<1> QED BY <1>1, <1>2, <1>3

\* From the hand into the channel.
LEMMA PutOnce ==
    ASSUME Known, NEW r \in Procs, Put(r)
    PROVE  OnceInv'
<1>1. /\ pc[r] = "put" /\ hand' = [hand EXCEPT ![r] = NoPR]
      /\ UNCHANGED <<target, mode, loaded, mem, disk, blurred, begun, work, hits>>
      /\ \/ jobs' = [jobs EXCEPT ![r] = Append(@, hand[r])] /\ pc' = [pc EXCEPT ![r] = "send"]
         \/ UNCHANGED jobs /\ pc' = [pc EXCEPT ![r] = "close"]
  BY DEF Put, Stop, storeVars, ghostVars
<1>2. /\ \A q \in Procs : q # r => pc'[q] = pc[q] /\ hand'[q] = hand[q]
      /\ pc'[r] \in {"send", "close"}
  BY <1>1 DEF Known, TypeOK, FeederTypes
<1>3. CASE UNCHANGED jobs
  <2>1. pc'[r] \notin Early /\ pc'[r] # "put"
    BY <1>2 DEF Early
  <2> QED BY <1>1, <1>2, <1>3, <2>1, CalmStep DEF InWork
<1>4. CASE jobs' = [jobs EXCEPT ![r] = Append(@, hand[r])]
  <2>1. PICK p \in PRs : p = hand[r]
    BY <1>1 DEF Known, HandFull
  <2>2. jobs[r] \in Seq(PRs) /\ jobs'[r] = Append(jobs[r], p)
        /\ \A q \in Procs : q # r => jobs'[q] = jobs[q]
    BY <1>4, <2>1 DEF Known, TypeOK, PoolTypes
  <2>3. /\ \A x \in PRs : Queued(r, x)' => Queued(r, x) \/ x = p
        /\ Distinct(r) /\ ~Queued(r, p) => Distinct(r)'
        /\ \A q \in Procs, x \in PRs : q # r => (Queued(q, x)' <=> Queued(q, x))
        /\ \A q \in Procs : q # r => (Distinct(q)' <=> Distinct(q))
    BY <2>2, AddedToQueue DEF Queued, Distinct
  <2>4. /\ Held(r, p)
        /\ \A x \in PRs : ~Held(r, x)'
        /\ \A q \in Procs, x \in PRs : q # r => (Held(q, x)' <=> Held(q, x))
        /\ \A q \in Procs, x \in PRs : InWork(q, x)' <=> InWork(q, x)
    BY <1>1, <1>2, <2>1 DEF Held, InWork
  <2>5. \A q \in Procs, x \in PRs : Sent(q, x)' => Sent(q, x)
    BY <2>3, <2>4 DEF Sent
  <2>6. IdleEarly'
    BY <1>1, <1>2, <2>2, <2>4 DEF IdleEarly, Idle, Known, OnceInv, Early
  <2>7. FromStore'
    BY <1>1, <2>4, <2>5 DEF FromStore, Known, OnceInv
  <2>8. ASSUME NEW t \in Targets \ blurred'
        PROVE  Clear(t)'
    <3>1. Clear(t)
      BY <1>1, <2>8 DEF Known, OnceInv
    <3> USE DEF Clear
    <3>2. StoreOwned(t)' /\ StoreTrue(t)' /\ AuthorFresh(t)' /\ BegunOnce(t)'
      BY <1>1, <3>1 DEF StoreOwned, StoreTrue, AuthorFresh, BegunOnce
    <3>3. SentRecorded(t)'
      BY <1>1, <2>4, <2>5, <3>1 DEF SentRecorded
    <3>4. SentOnce(t)'
      <4> SUFFICES ASSUME NEW q \in Procs, target[q] = t
                   PROVE  /\ \A x \in PRs : Sent(q, x)' => begun[t][x] = 0
                          /\ \A x \in PRs : ~(Held(q, x)' /\ Queued(q, x)')
                          /\ Distinct(q)'
        BY <1>1 DEF SentOnce
      <4>1. \A x \in PRs : Sent(q, x)' => begun[t][x] = 0
        BY <2>5, <3>1 DEF SentOnce
      <4>2. \A x \in PRs : ~(Held(q, x)' /\ Queued(q, x)')
        BY <2>3, <2>4, <3>1 DEF SentOnce
      <4>3. Distinct(q)'
        BY <2>3, <2>4, <3>1 DEF SentOnce
      <4> QED BY <4>1, <4>2, <4>3
    <3> QED BY <3>2, <3>3, <3>4
  <2> QED BY <2>6, <2>7, <2>8 DEF OnceInv
<1> QED BY <1>1, <1>3, <1>4

\* A worker begins with a job that nobody has begun and nobody else has.
LEMMA TakeOnce ==
    ASSUME Known, NEW r \in Procs, Take(r)
    PROVE  OnceInv'
<1>1. /\ jobs[r] # <<>> /\ jobs' = [jobs EXCEPT ![r] = Tail(@)]
      /\ UNCHANGED <<target, mode, loaded, mem, disk, blurred, hits, hand, pc>>
      /\ \/ UNCHANGED <<work, begun>>
         \/ /\ work' = [work EXCEPT ![r][Head(jobs[r])] = "collect"]
            /\ begun' = [begun EXCEPT ![target[r]][Head(jobs[r])] = @ + 1]
  BY DEF Take, feederVars, storeVars
<1>2. /\ jobs[r] \in Seq(PRs) /\ jobs'[r] = Tail(jobs[r])
      /\ \A q \in Procs : q # r => jobs'[q] = jobs[q]
  BY <1>1 DEF Known, TypeOK, PoolTypes
<1>3. CASE UNCHANGED <<work, begun>>
  <2>1. \A q \in Procs : Lesser(q)
    BY <1>1, <1>2, <1>3 DEF Lesser, Held, InWork
  <2> QED BY <1>1, <1>3, <2>1, LessStep
<1>4. CASE /\ work' = [work EXCEPT ![r][Head(jobs[r])] = "collect"]
           /\ begun' = [begun EXCEPT ![target[r]][Head(jobs[r])] = @ + 1]
  <2>1. PICK p \in PRs : p = Head(jobs[r])
    BY <1>1, <1>2
  <2>2. Queued(r, p)
    <3>1. 1 \in 1 .. Len(jobs[r]) /\ jobs[r][1] = p
      BY <1>1, <1>2, <2>1
    <3> QED BY <3>1 DEF Queued
  <2>3. /\ \A x \in PRs : Queued(r, x)' => Queued(r, x)
        /\ Distinct(r) => Distinct(r)' /\ ~Queued(r, p)'
        /\ \A q \in Procs, x \in PRs : q # r => (Queued(q, x)' <=> Queued(q, x))
        /\ \A q \in Procs : q # r => (Distinct(q)' <=> Distinct(q))
    BY <1>1, <1>2, <2>1, TakenFromQueue DEF Queued, Distinct
  <2>4. \A q \in Procs, x \in PRs : InWork(q, x)' => InWork(q, x) \/ (q = r /\ x = p)
    <3>1. work' = [work EXCEPT ![r][p] = "collect"]
      BY <1>4, <2>1
    <3> QED BY <3>1 DEF InWork, Known, TypeOK, PoolTypes
  <2>5. \A q \in Procs, x \in PRs : Held(q, x)' <=> Held(q, x)
    BY <1>1 DEF Held
  <2>6. \A q \in Procs, x \in PRs : Sent(q, x)' => Sent(q, x)
    BY <2>3, <2>5 DEF Sent
  <2>7. Sent(r, p) /\ RepoOf[p] \in loaded[r]
    BY <2>2 DEF Sent, Known, OnceInv, FromStore
  <2>8. IdleEarly'
    <3>1. jobs[r] # <<>> => ~Idle(r)
      BY DEF Idle
    <3>2. pc[r] \notin Early
      BY <1>1, <3>1 DEF Known, OnceInv, IdleEarly
    <3> QED BY <1>1, <1>2, <2>4, <2>5, <3>2 DEF IdleEarly, Idle, Known, OnceInv
  <2>9. FromStore'
    BY <1>1, <2>4, <2>6, <2>7 DEF FromStore, Known, OnceInv
  <2>10. ASSUME NEW t \in Targets \ blurred'
         PROVE  Clear(t)'
    <3>1. Clear(t)
      BY <1>1, <2>10 DEF Known, OnceInv
    <3> USE DEF Clear
    <3>2. \A x \in PRs : begun'[t][x] = IF t = target[r] /\ x = p THEN begun[t][x] + 1 ELSE begun[t][x]
      <4>1. begun' = [begun EXCEPT ![target[r]][p] = @ + 1]
        BY <1>4, <2>1
      <4> QED BY <4>1 DEF Known, TypeOK, FeederTypes, PoolTypes
    <3>3. t = target[r] => begun[t][p] = 0 /\ disk[t][p] # Unseen
      BY <2>7, <3>1 DEF SentOnce, SentRecorded
    <3>4. StoreOwned(t)' /\ StoreTrue(t)' /\ AuthorFresh(t)'
      BY <1>1, <3>1 DEF StoreOwned, StoreTrue, AuthorFresh
    <3>5. SentRecorded(t)'
      BY <1>1, <2>4, <2>6, <3>1, <3>3 DEF SentRecorded
    <3>6. SentOnce(t)'
      <4> SUFFICES ASSUME NEW q \in Procs, target[q] = t
                   PROVE  /\ \A x \in PRs : Sent(q, x)' => begun'[t][x] = 0
                          /\ \A x \in PRs : ~(Held(q, x)' /\ Queued(q, x)')
                          /\ Distinct(q)'
        BY <1>1 DEF SentOnce
      <4>1. ~(t = target[r] /\ Sent(q, p)')
        <5>1. CASE q = r
          BY <2>2, <2>3, <2>5, <3>1, <5>1 DEF SentOnce, Sent
        <5>2. ASSUME q # r, t = target[r], Sent(q, p)'
              PROVE  FALSE
          <6>1. RepoOf[p] \in loaded[q]
            BY <2>6, <5>2 DEF Known, OnceInv, FromStore
          <6> QED BY <2>7, <3>1, <5>2, <6>1 DEF StoreOwned
        <5> QED BY <5>1, <5>2
      <4>2. \A x \in PRs : Sent(q, x)' => begun'[t][x] = 0
        BY <2>6, <3>1, <3>2, <4>1 DEF SentOnce
      <4>3. \A x \in PRs : ~(Held(q, x)' /\ Queued(q, x)')
        BY <2>3, <2>5, <3>1 DEF SentOnce
      <4>4. Distinct(q)'
        BY <2>3, <3>1 DEF SentOnce
      <4> QED BY <4>2, <4>3, <4>4
    <3>7. BegunOnce(t)'
      BY <1>1, <3>1, <3>2, <3>3 DEF BegunOnce
    <3> QED BY <3>4, <3>5, <3>6, <3>7
  <2> QED BY <2>8, <2>9, <2>10 DEF OnceInv
<1> QED BY <1>1, <1>3, <1>4

\* Every step keeps what makes a collection unique.
LEMMA OnceNext == Known /\ [HuntNext \/ Rest]_vars => OnceInv'
<1> SUFFICES ASSUME Known, [HuntNext \/ Rest]_vars
             PROVE  OnceInv'
  OBVIOUS
<1>1. CASE UNCHANGED vars
  <2>1. \A r \in Procs : Lesser(r)
    BY <1>1 DEF vars, feederVars, storeVars, poolVars, Lesser, Held, InWork
  <2> QED BY <1>1, <2>1, LessStep DEF vars, storeVars, ghostVars
<1>2. ASSUME NEW r \in Procs, FeederStep(r)
      PROVE  OnceInv'
  BY <1>2, FeederCalm, IdleStep, SearchOnce, ReserveOnce, PutOnce DEF FeederStep
<1>3. ASSUME NEW r \in Procs, WorkerStep(r) \/ \E p \in PRs : Collect(r, p)
      PROVE  OnceInv'
  BY <1>3, TakeOnce, WorkerCalm, CollectOnce DEF WorkerStep
<1>4. ASSUME NEW r \in Procs, Launch(r) \/ ResetDiscovery(r) \/ Kill(r) \/ Interrupt(r)
      PROVE  OnceInv'
  BY <1>4, IdleStep, ResetStep, FeederCalm
<1> QED BY <1>1, <1>2, <1>3, <1>4 DEF HuntNext, Rest

\* All that is known holds throughout.
LEMMA KnownThroughout == Spec => []Known
<1>1. HuntInit => Known
  BY HuntInvInit, TypesInit, HandInit, OnceInit DEF Known
<1>2. Known /\ [HuntNext \/ Rest]_vars => Known'
  BY HuntInvNext, TypesNext, OnceNext DEF Known
<1> QED BY <1>1, <1>2, PTL DEF Spec

\* A pull request is collected once for an adversary, by whatever process,
\* worker, wave or run, with interrupts and kills at any point, as long as no
\* two processes hold one discovery file and no save of it fails.
THEOREM HuntCollectsOnce == Spec => []CollectedOnce
<1>1. Known => CollectedOnce
  BY DEF Known, OnceInv, Clear, BegunOnce, CollectedOnce
<1> QED BY <1>1, KnownThroughout, PTL

-----------------------------------------------------------------------------
(* What a hunt returns                                                      *)

\* Once it has returned uninterrupted, no worker is left to change it.
Returned ==
    \A r \in Procs : pc[r] = "persist" /\ ~cancelled[r] =>
        /\ jobs[r] = <<>> /\ \A p \in PRs : ~InWork(r, p)
        /\ result[r] = IF kept[r] # {} THEN kept[r] ELSE fallback[r]

LEMMA ReturnedNext ==
    Known /\ Returned /\ [HuntNext \/ Rest]_vars => Returned'
<1> SUFFICES ASSUME Known, Returned, [HuntNext \/ Rest]_vars,
                    NEW q \in Procs, pc'[q] = "persist", ~cancelled'[q]
             PROVE  /\ jobs'[q] = <<>> /\ \A p \in PRs : ~InWork(q, p)'
                    /\ result'[q] = IF kept'[q] # {} THEN kept'[q] ELSE fallback'[q]
  BY DEF Returned
<1> USE DEF Known, TypeOK, FeederTypes
<1>1. ASSUME pc[q] = "persist", ~cancelled[q],
             UNCHANGED <<jobs[q], work[q], kept[q], fallback[q], result[q]>>
      PROVE  /\ jobs'[q] = <<>> /\ \A p \in PRs : ~InWork(q, p)'
             /\ result'[q] = IF kept'[q] # {} THEN kept'[q] ELSE fallback'[q]
  BY <1>1 DEF Returned, InWork
<1> DEFINE Goal == /\ jobs'[q] = <<>> /\ \A p \in PRs : ~InWork(q, p)'
                   /\ result'[q] = IF kept'[q] # {} THEN kept'[q] ELSE fallback'[q]
<1>2. ASSUME NEW r \in Procs,
             \/ Launch(r) \/ LoadCycle(r) \/ SelectTarget(r) \/ ResetDiscovery(r) \/ TakeWindow(r)
             \/ BeginWave(r) \/ EndDiscover(r) \/ EndWave(r) \/ CloseJobs(r) \/ Persist(r)
             \/ Interrupt(r)
      PROVE  Goal
  <2>1. /\ pc[q] = "persist" /\ ~cancelled[q]
    BY <1>2 DEF Launch, LoadCycle, SelectTarget, ResetDiscovery, TakeWindow, BeginWave, EndDiscover,
                EndWave, CloseJobs, Persist, Interrupt, Stop
  <2>2. UNCHANGED <<jobs, work, kept, fallback, result>>
    BY <1>2 DEF Launch, LoadCycle, SelectTarget, ResetDiscovery, TakeWindow, BeginWave, EndDiscover,
                EndWave, CloseJobs, Persist, Interrupt, poolVars, outVars
  <2> QED BY <1>1, <2>1, <2>2
<1>3. ASSUME NEW r \in Procs,
             Search(r) \/ DiscoverTogether(r) \/ (\E i \in Repos : Discover(r, i)) \/ Reserve(r)
      PROVE  Goal
  <2>1. pc[q] = "persist" /\ ~cancelled[q]
    BY <1>3 DEF Search, DiscoverTogether, Discover, Reserve, Stop
  <2>2. UNCHANGED <<jobs, work, kept, fallback, result>>
    BY <1>3 DEF Search, DiscoverTogether, Discover, Reserve, poolVars, outVars
  <2> QED BY <1>1, <2>1, <2>2
<1>4. ASSUME NEW r \in Procs, Put(r)
      PROVE  Goal
  <2>1. pc[q] = "persist" /\ ~cancelled[q] /\ q # r
    BY <1>4 DEF Put, Stop
  <2>2. UNCHANGED <<work, kept, fallback, result>> /\ jobs'[q] = jobs[q]
    BY <1>4, <2>1 DEF Put, PoolTypes
  <2> QED BY <1>1, <2>1, <2>2
<1>5. ASSUME NEW r \in Procs, Join(r)
      PROVE  Goal
  <2>1. CASE q # r
    <3>1. /\ pc[q] = "persist" /\ ~cancelled[q] /\ UNCHANGED <<jobs, work, kept, fallback>>
          /\ result'[q] = result[q]
      BY <1>5, <2>1 DEF Join, OutcomeTypes, poolVars
    <3> QED BY <1>1, <3>1
  <2>2. CASE q = r
    <3>1. ~cancelled[q] /\ AllDone(q) /\ UNCHANGED <<jobs, work, kept, fallback>>
          /\ result'[q] = IF kept[q] # {} THEN kept[q] ELSE fallback[q]
      BY <1>5, <2>2 DEF Join, MayReturn, OutcomeTypes, poolVars
    <3> QED BY <3>1 DEF AllDone, Busy, InWork
  <2> QED BY <2>1, <2>2
<1>6. ASSUME NEW r \in Procs, Exit(r) \/ Kill(r)
      PROVE  Goal
  <2>1. q # r /\ pc[q] = "persist" /\ ~cancelled[q]
    BY <1>6 DEF Exit, Kill, Vanish
  <2>2. UNCHANGED <<jobs[q], work[q], kept[q], fallback[q], result[q]>>
    BY <1>6, <2>1 DEF Exit, Kill, Vanish, PoolTypes, OutcomeTypes
  <2> QED BY <1>1, <2>1, <2>2
<1>7. ASSUME NEW r \in Procs,
             Take(r) \/ \E p \in PRs : \/ WaitForRateLimit(r, p) \/ EndWait(r, p)
                                       \/ Collect(r, p) \/ Apply(r, p)
      PROVE  Goal
  <2>1. pc[q] = "persist" /\ ~cancelled[q]
    BY <1>7 DEF Take, WaitForRateLimit, EndWait, Collect, Apply, feederVars
  <2>2. q # r
    <3>1. jobs[q] = <<>> /\ \A p \in PRs : ~InWork(q, p)
      BY <2>1 DEF Returned
    <3>2. jobs[r] # <<>> \/ \E p \in PRs : InWork(r, p)
      BY <1>7 DEF Take, WaitForRateLimit, EndWait, Collect, Apply, MustRetry, InWork, Results, Outcomes
    <3> QED BY <3>1, <3>2
  <2>3. UNCHANGED <<jobs[q], work[q], kept[q], fallback[q], result[q]>>
    <3>1. CASE Take(r)
      BY <2>2, <3>1 DEF Take, PoolTypes, outVars
    <3>2. CASE \E p \in PRs : WaitForRateLimit(r, p) \/ EndWait(r, p) \/ Collect(r, p)
      BY <2>2, <3>2 DEF WaitForRateLimit, EndWait, Collect, PoolTypes, outVars
    <3>3. CASE \E p \in PRs : Apply(r, p)
      BY <2>2, <3>3 DEF Apply, Admit, PoolTypes, OutcomeTypes
    <3> QED BY <1>7, <3>1, <3>2, <3>3
  <2> QED BY <1>1, <2>1, <2>3
<1>8. CASE UNCHANGED vars
  BY <1>1, <1>8 DEF vars, feederVars, poolVars, outVars
<1> QED
  BY <1>2, <1>3, <1>4, <1>5, <1>6, <1>7, <1>8 DEF HuntNext, FeederStep, WorkerStep, Rest

\* What an uninterrupted hunt returns is complete.
THEOREM HuntReturns == Spec => []ReturnComplete
<1>1. HuntInit => Returned
  BY DEF HuntInit, Returned
<1>2. Known /\ Returned => ReturnComplete
  BY DEF Known, HandFull, Returned, ReturnComplete
<1> QED BY <1>1, <1>2, KnownThroughout, ReturnedNext, PTL DEF Spec
=============================================================================
