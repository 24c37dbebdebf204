---------------------------- MODULE HuntProofs ------------------------------
(***************************************************************************)
(* Proofs about training runs, for every number of processes, adversaries, *)
(* repositories and pull requests.  The schedule comes first, on its own:  *)
(* adversaries are selected evenly and a target's windows go round the     *)
(* whole catalog.  A run implements it.                                    *)
(***************************************************************************)
EXTENDS Hunt, TLAPS, FiniteSetTheorems, WellFoundedInduction

-----------------------------------------------------------------------------
(* Selections                                                               *)

\* A set of naturals that is not empty has a least member.
LEMMA HasLeast ==
    ASSUME NEW S \in SUBSET Nat, S # {}
    PROVE  \E x \in S : \A y \in S : x <= y
<1>1. PICK x \in S : \A y \in S : ~ (<<y, x>> \in OpToRel(<, Nat))
  BY NatLessThanWellFounded, WFMin
<1>2. \A y \in S : ~ (y < x)
  BY <1>1 DEF OpToRel
<1> QED BY <1>2

\* Least yields it.
LEMMA LeastIn ==
    ASSUME NEW S \in SUBSET Nat, S # {}
    PROVE  Least(S) \in S /\ \A y \in S : Least(S) <= y
  BY HasLeast DEF Least

\* Some adversary has been selected least.
LEMMA TiedExists ==
    ASSUME NEW c, c.sel \in [Targets -> Nat]
    PROVE  Tied(c) # {} /\ Tied(c) \in SUBSET Nat
<1> DEFINE S == {c.sel[t] : t \in Targets}
<1>1. 1 \in Targets
  BY ScheduleAssumption DEF Targets
<1>2. S \in SUBSET Nat /\ S # {}
  BY <1>1
<1>3. PICK x \in S : \A y \in S : x <= y
  BY <1>2, HasLeast
<1> QED BY <1>3 DEF Tied, Targets

\* And the next selection is one of those.
LEMMA PeekTied ==
    ASSUME NEW c, c.sel \in [Targets -> Nat], c.last \in {Nobody} \cup Targets
    PROVE  Peek(c) \in Tied(c)
<1> DEFINE later == {t \in Tied(c) : t > c.last}
<1>1. later \in SUBSET Nat /\ later \subseteq Tied(c)
  BY TiedExists
<1>2. CASE c.last = Nobody \/ later = {}
  BY <1>2, TiedExists, LeastIn DEF Peek
<1>3. CASE ~ (c.last = Nobody \/ later = {})
  BY <1>1, <1>3, LeastIn DEF Peek
<1> QED BY <1>2, <1>3

\* The file counts every selection, and no adversary is two ahead of another.
CycleInv ==
    /\ cycle \in [sel : [Targets -> Nat], last : {Nobody} \cup Targets]
    /\ chosen = cycle.sel
    /\ FairCycle

\* A selection raises the count of a target that was selected least.
LEMMA SelectFair ==
    ASSUME CycleInv, NEW r, Select(r)
    PROVE  CycleInv'
<1> DEFINE t == Peek(cycle)
<1>1. t \in Targets /\ \A u \in Targets : cycle.sel[t] <= cycle.sel[u]
  BY PeekTied DEF CycleInv, Tied
<1>2. /\ cycle' = [sel |-> [cycle.sel EXCEPT ![t] = @ + 1], last |-> t]
      /\ chosen' = [chosen EXCEPT ![t] = @ + 1]
  BY DEF Select, Reloaded
<1>3. cycle'.sel = [cycle.sel EXCEPT ![t] = @ + 1] /\ cycle'.last = t
  BY <1>2
<1>4. cycle'.sel \in [Targets -> Nat]
  BY <1>1, <1>3 DEF CycleInv
<1>5. cycle' \in [sel : [Targets -> Nat], last : {Nobody} \cup Targets]
  BY <1>1, <1>2, <1>3, <1>4
<1>6. chosen' = cycle'.sel
  BY <1>2, <1>3 DEF CycleInv
<1>7. FairCycle'
  BY <1>1, <1>2 DEF CycleInv, FairCycle
<1> QED BY <1>5, <1>6, <1>7 DEF CycleInv

-----------------------------------------------------------------------------
(* Windows                                                                  *)

\* Repositories that target t has searched once more than the others: those
\* from where its first window began up to where its next one begins.
Ahead(t, i) ==
    IF origin[t] <= next[t] THEN origin[t] <= i /\ i < next[t]
    ELSE origin[t] <= i \/ i < next[t]

Laps(t, k) ==
    \A i \in Repos : probes[t][i] = IF next[t] # Unset /\ Ahead(t, i) THEN k + 1 ELSE k

WindowInv ==
    /\ next \in [Targets -> {Unset} \cup Repos]
    /\ seed \in Repos
    /\ origin \in [Targets -> Repos]
    /\ probes \in [Targets -> [Repos -> Nat]]
    /\ \A t \in Targets : \E k \in Nat : Laps(t, k)
    /\ \A t \in Targets : next[t] = Unset => Laps(t, 0)

\* A window stays inside the catalog and the next one begins where it ends.
LEMMA WindowBounds ==
    ASSUME WindowInv, NEW t \in Targets, NEW limit \in Nat \ {0}
    PROVE  /\ WindowStart(t) \in Repos
           /\ WindowCount(t, limit) \in Nat \ {0}
           /\ WindowStart(t) + WindowCount(t, limit) <= Total
           /\ NextStart(t, limit) \in Repos
<1>1. WindowStart(t) \in Repos
  BY DEF WindowInv, WindowStart, Unset, Repos
<1>2. /\ WindowCount(t, limit) \in Nat \ {0}
      /\ WindowStart(t) + WindowCount(t, limit) <= Total
  BY <1>1, ScheduleAssumption DEF WindowCount, Repos
<1> QED BY <1>1, <1>2, ScheduleAssumption DEF NextStart, Repos

\* Another window keeps the search even: it goes on where the last one ended
\* and may begin another lap.
LEMMA TakeEven ==
    ASSUME WindowInv, NEW t \in Targets, NEW limit \in Nat \ {0}, TakeCatalogWindow(t, limit)
    PROVE  WindowInv'
<1> DEFINE s == WindowStart(t)
           e == s + WindowCount(t, limit)
           n == NextStart(t, limit)
           o == IF next[t] = Unset THEN s ELSE origin[t]
<1>0. /\ s \in Repos /\ n \in Repos /\ o \in Repos /\ e \in Nat /\ s < e /\ e <= Total
      /\ n = IF e = Total THEN 0 ELSE e
  <2>1. s \in Repos /\ WindowCount(t, limit) \in Nat \ {0} /\ e <= Total
    BY WindowBounds
  <2>2. e \in Nat /\ s < e /\ n = IF e = Total THEN 0 ELSE e
    BY <2>1, ScheduleAssumption DEF NextStart, Repos
  <2>3. o \in Repos
    BY <2>1 DEF WindowInv
  <2>4. n \in Repos
    BY WindowBounds
  <2> QED BY <2>1, <2>2, <2>3, <2>4
<1>1. /\ next' = [next EXCEPT ![t] = n]
      /\ seed' = IF next[t] = Unset THEN n ELSE seed
      /\ origin' = IF next[t] = Unset THEN [origin EXCEPT ![t] = seed] ELSE origin
      /\ probes' = [probes EXCEPT ![t] =
                      [i \in Repos |-> IF s <= i /\ i < e THEN probes[t][i] + 1 ELSE probes[t][i]]]
  <2>1. \A i \in Repos : i \in Window(t, limit) <=> s <= i /\ i < e
    BY <1>0, WindowBounds, ScheduleAssumption DEF Window, Repos
  <2>2. [i \in Repos |-> IF i \in Window(t, limit) THEN probes[t][i] + 1 ELSE probes[t][i]]
          = [i \in Repos |-> IF s <= i /\ i < e THEN probes[t][i] + 1 ELSE probes[t][i]]
    BY <2>1
  <2>3. probes' = [probes EXCEPT ![t] =
          [i \in Repos |-> IF i \in Window(t, limit) THEN probes[t][i] + 1 ELSE probes[t][i]]]
    BY DEF TakeCatalogWindow, WindowInv
  <2>4. /\ next' = [next EXCEPT ![t] = n]
        /\ seed' = IF next[t] = Unset THEN n ELSE seed
        /\ origin' = IF next[t] = Unset THEN [origin EXCEPT ![t] = seed] ELSE origin
    BY DEF TakeCatalogWindow
  <2> QED BY <2>2, <2>3, <2>4
<1> DEFINE p == probes[t]
           q == [i \in Repos |-> IF s <= i /\ i < e THEN p[i] + 1 ELSE p[i]]
<1>2. /\ next' \in [Targets -> {Unset} \cup Repos] /\ seed' \in Repos
      /\ origin' \in [Targets -> Repos]
  BY <1>0, <1>1 DEF WindowInv
<1>3. p \in [Repos -> Nat] /\ q \in [Repos -> Nat]
  BY DEF WindowInv
<1>4. probes' \in [Targets -> [Repos -> Nat]] /\ probes'[t] = q
  BY <1>1, <1>3 DEF WindowInv
<1>5. origin'[t] = o /\ next'[t] = n /\ n # Unset
  BY <1>0, <1>1 DEF WindowInv, WindowStart, Unset, Repos
<1>10. \A l \in Nat : Laps(t, l)' <=>
         \A i \in Repos : q[i] = IF (IF o <= n THEN o <= i /\ i < n ELSE o <= i \/ i < n)
                                 THEN l + 1 ELSE l
  BY <1>4, <1>5 DEF Laps, Ahead
<1>11. \A i \in Repos : /\ q[i] = IF s <= i /\ i < e THEN p[i] + 1 ELSE p[i]
                        /\ i \in Nat /\ i < Total /\ p[i] \in Nat
  BY <1>3, ScheduleAssumption DEF Repos
<1>12. s \in Nat /\ o \in Nat /\ Total \in Nat /\ s < Total /\ o < Total
  BY <1>0, ScheduleAssumption DEF Repos
<1>6. PICK k \in Nat : Laps(t, k) /\ (next[t] = Unset => k = 0)
  BY DEF WindowInv
<1>7. \E l \in Nat : Laps(t, l)'
  <2>1. CASE next[t] = Unset
    <3>1. \A i \in Repos : p[i] = 0
      BY <1>6, <2>1 DEF Laps
    <3>2. CASE e = Total /\ s = 0
      <4>1. \A i \in Repos : q[i] = IF (IF o <= n THEN o <= i /\ i < n ELSE o <= i \/ i < n)
                                   THEN 1 + 1 ELSE 1
        <5> SUFFICES ASSUME NEW i \in Repos
                     PROVE  q[i] = IF (IF o <= n THEN o <= i /\ i < n ELSE o <= i \/ i < n)
                                   THEN 1 + 1 ELSE 1
          OBVIOUS
        <5>1. p[i] = 0 /\ o = s
          BY <2>1, <3>1 
        <5> HIDE DEF s, e, n, o, p, q
        <5> QED BY <1>0, <1>11, <1>12, <2>1, <5>1, <3>2
      <4> QED BY <1>10, <4>1
    <3>3. CASE ~ (e = Total /\ s = 0)
      <4>1. \A i \in Repos : q[i] = IF (IF o <= n THEN o <= i /\ i < n ELSE o <= i \/ i < n)
                                   THEN 0 + 1 ELSE 0
        <5> SUFFICES ASSUME NEW i \in Repos
                     PROVE  q[i] = IF (IF o <= n THEN o <= i /\ i < n ELSE o <= i \/ i < n)
                                   THEN 0 + 1 ELSE 0
          OBVIOUS
        <5>1. p[i] = 0 /\ o = s
          BY <2>1, <3>1 
        <5> HIDE DEF s, e, n, o, p, q
        <5> QED BY <1>0, <1>11, <1>12, <2>1, <5>1, <3>3
      <4> QED BY <1>10, <4>1
    <3> QED BY <3>2, <3>3
  <2>2. CASE next[t] # Unset
    <3>1. s = next[t] /\ o = origin[t]
      BY <2>2 DEF WindowStart
    <3>2. \A i \in Repos : p[i] = IF Ahead(t, i) THEN k + 1 ELSE k
      BY <1>6, <2>2 DEF Laps
    <3>3. CASE (s < o /\ e >= o) \/ (e = Total /\ o = 0)
      <4>1. \A i \in Repos : q[i] = IF (IF o <= n THEN o <= i /\ i < n ELSE o <= i \/ i < n)
                                   THEN (k + 1) + 1 ELSE (k + 1)
        <5> SUFFICES ASSUME NEW i \in Repos
                     PROVE  q[i] = IF (IF o <= n THEN o <= i /\ i < n ELSE o <= i \/ i < n)
                                   THEN (k + 1) + 1 ELSE (k + 1)
          OBVIOUS
        <5>1. /\ p[i] = IF (IF o <= s THEN o <= i /\ i < s ELSE o <= i \/ i < s) THEN k + 1 ELSE k
              /\ k \in Nat
          BY <1>6, <3>1, <3>2 DEF Ahead
        <5> HIDE DEF s, e, n, o, p, q
        <5> QED BY <1>0, <1>11, <1>12, <5>1, <3>3
      <4> QED BY <1>10, <4>1
    <3>4. CASE ~ ((s < o /\ e >= o) \/ (e = Total /\ o = 0))
      <4>1. \A i \in Repos : q[i] = IF (IF o <= n THEN o <= i /\ i < n ELSE o <= i \/ i < n)
                                   THEN k + 1 ELSE k
        <5> SUFFICES ASSUME NEW i \in Repos
                     PROVE  q[i] = IF (IF o <= n THEN o <= i /\ i < n ELSE o <= i \/ i < n)
                                   THEN k + 1 ELSE k
          OBVIOUS
        <5>1. /\ p[i] = IF (IF o <= s THEN o <= i /\ i < s ELSE o <= i \/ i < s) THEN k + 1 ELSE k
              /\ k \in Nat
          BY <1>6, <3>1, <3>2 DEF Ahead
        <5> HIDE DEF s, e, n, o, p, q
        <5>2. CASE s < o /\ e < o
          BY <1>0, <1>11, <1>12, <5>1, <5>2
        <5>3. CASE o <= s /\ ~ (e = Total /\ o = 0)
          BY <1>0, <1>11, <1>12, <5>1, <5>3
        <5> QED BY <1>0, <1>12, <5>2, <5>3, <3>4
      <4> QED BY <1>10, <4>1
    <3> QED BY <3>3, <3>4
  <2> QED BY <2>1, <2>2
<1>8. \A u \in Targets : u # t =>
        next'[u] = next[u] /\ origin'[u] = origin[u] /\ probes'[u] = probes[u]
  BY <1>1 DEF WindowInv
<1>9. \A u \in Targets, l \in Nat : u # t => (Laps(u, l)' <=> Laps(u, l))
  BY <1>8 DEF Laps, Ahead
<1>13. \A u \in Targets : \E l \in Nat : Laps(u, l)'
  <2> SUFFICES ASSUME NEW u \in Targets PROVE \E l \in Nat : Laps(u, l)'
    OBVIOUS
  <2>1. CASE u = t
    BY <1>7, <2>1
  <2>2. CASE u # t
    <3>1. PICK l \in Nat : Laps(u, l)
      BY DEF WindowInv
    <3> QED BY <1>9, <2>2, <3>1
  <2> QED BY <2>1, <2>2
<1>14. \A u \in Targets : next'[u] = Unset => Laps(u, 0)'
  BY <1>5, <1>8, <1>9 DEF WindowInv
<1> QED BY <1>2, <1>4, <1>13, <1>14 DEF WindowInv

\* A reset forgets the laps of its target, too.
LEMMA ResetEven ==
    ASSUME WindowInv, NEW t \in Targets, ResetCatalogTarget(t)
    PROVE  WindowInv'
<1> USE DEF ResetCatalogTarget, WindowInv
<1>1. /\ next' \in [Targets -> {Unset} \cup Repos] /\ seed' \in Repos
      /\ origin' \in [Targets -> Repos]
      /\ probes' \in [Targets -> [Repos -> Nat]]
  OBVIOUS
<1>2. Laps(t, 0)'
  BY DEF Laps
<1>3. \A u \in Targets, l \in Nat : u # t => (Laps(u, l)' <=> Laps(u, l))
  BY DEF Laps, Ahead
<1>4. \A u \in Targets : u # t => next'[u] = next[u]
  OBVIOUS
<1> QED BY <1>1, <1>2, <1>3, <1>4

\* The schedule begins even.
LEMMA ScheduleInvInit == ScheduleInit => CycleInv /\ WindowInv
<1> SUFFICES ASSUME ScheduleInit PROVE CycleInv /\ WindowInv
  OBVIOUS
<1> USE DEF ScheduleInit
<1>1. cycle.sel = [t \in Targets |-> 0] /\ cycle.last = Nobody
  OBVIOUS
<1>2. CycleInv
  BY <1>1 DEF CycleInv, FairCycle
<1>3. 0 \in Repos
  BY ScheduleAssumption DEF Repos
<1>4. \A t \in Targets : Laps(t, 0)
  BY DEF Laps
<1>5. /\ next \in [Targets -> {Unset} \cup Repos] /\ origin \in [Targets -> Repos]
      /\ probes \in [Targets -> [Repos -> Nat]] /\ seed \in Repos
  BY <1>3
<1>6. WindowInv
  BY <1>4, <1>5 DEF WindowInv
<1> QED BY <1>2, <1>6

\* Every step of the schedule keeps it even.
LEMMA ScheduleInvNext ==
    CycleInv /\ WindowInv /\ [ScheduleNext]_scheduleVars => CycleInv' /\ WindowInv'
<1> SUFFICES ASSUME CycleInv, WindowInv, [ScheduleNext]_scheduleVars
             PROVE  CycleInv' /\ WindowInv'
  OBVIOUS
<1>1. ASSUME UNCHANGED <<cycle, chosen>>
      PROVE  CycleInv'
  BY <1>1 DEF CycleInv, FairCycle
<1>2. ASSUME UNCHANGED cursorVars
      PROVE  WindowInv'
  BY <1>2 DEF WindowInv, Laps, Ahead, cursorVars
<1>3. ASSUME NEW r \in Procs, LoadAdversaryCycle(r)
      PROVE  CycleInv' /\ WindowInv'
  BY <1>1, <1>2, <1>3 DEF LoadAdversaryCycle
<1>4. ASSUME NEW r \in Procs, Select(r)
      PROVE  CycleInv' /\ WindowInv'
  BY <1>2, <1>4, SelectFair DEF Select
<1>5. ASSUME NEW t \in Targets, NEW limit \in Nat \ {0}, TakeCatalogWindow(t, limit)
      PROVE  CycleInv' /\ WindowInv'
  BY <1>1, <1>5, TakeEven DEF TakeCatalogWindow, cycleVars
<1>6. ASSUME NEW t \in Targets, ResetCatalogTarget(t)
      PROVE  CycleInv' /\ WindowInv'
  BY <1>1, <1>6, ResetEven DEF ResetCatalogTarget, cycleVars
<1>7. CASE UNCHANGED scheduleVars
  BY <1>1, <1>2, <1>7 DEF scheduleVars, cursorVars
<1> QED BY <1>3, <1>4, <1>5, <1>6, <1>7 DEF ScheduleNext

\* Laps that differ by one step at most are what EvenProbing asks for.
LEMMA LapsEven == WindowInv => EvenProbing
<1> SUFFICES ASSUME WindowInv, NEW t \in Targets, NEW i \in Repos, NEW j \in Repos
             PROVE  probes[t][i] - probes[t][j] <= 1
  BY DEF EvenProbing
<1>1. PICK k \in Nat : Laps(t, k)
  BY DEF WindowInv
<1> QED BY <1>1 DEF Laps

\* On its own the schedule selects evenly.
THEOREM ScheduleFair == ScheduleSpec => []FairCycle
<1>1. CycleInv => FairCycle
  BY DEF CycleInv
<1> QED BY <1>1, ScheduleInvInit, ScheduleInvNext, PTL DEF ScheduleSpec

\* And its windows go evenly round the catalog.
THEOREM ScheduleEven == ScheduleSpec => []EvenProbing
<1> QED BY LapsEven, ScheduleInvInit, ScheduleInvNext, PTL DEF ScheduleSpec

-----------------------------------------------------------------------------
(* Training runs                                                            *)

Typed ==
    /\ target \in [Procs -> Targets]
    /\ mode = [r \in Procs |-> mode[r]]
    /\ pc = [r \in Procs |-> pc[r]]
    /\ turns \in [Procs -> Nat]
    /\ kept \in [Procs -> SUBSET PRs]
    /\ work = [r \in Procs |-> [p \in PRs |-> work[r][p]]]

\* Where the feeder of a running process may go.
Afoot == {"load_cycle", "select", "reset", "window", "search", "feed", "discover", "send", "put",
          "close", "join", "persist", "exit"}

\* A process that is not there has counted and kept nothing, and no worker.
OffClean ==
    \A r \in Procs : pc[r] = "off" =>
        turns[r] = 0 /\ kept[r] = {} /\ \A p \in PRs : work[r][p] = "none"

HuntInv == CycleInv /\ WindowInv /\ Typed /\ OffClean /\ LimitsKept /\ AdmittedSaved

\* No process runs at the beginning.
LEMMA HuntInvInit == HuntInit => HuntInv
<1> SUFFICES ASSUME HuntInit PROVE HuntInv
  OBVIOUS
<1>1. CycleInv /\ WindowInv
  BY ScheduleInvInit DEF HuntInit
<1>2. Typed
  BY ScheduleAssumption DEF HuntInit, Typed, Targets
<1>3. OffClean /\ AdmittedSaved
  BY DEF HuntInit, OffClean, AdmittedSaved
<1>4. LimitsKept
  <2>1. Cardinality({}) = 0 /\ TargetPRs \in Nat /\ MaxTurns \in Nat
    BY HuntAssumption, FS_EmptySet
  <2> QED BY <2>1 DEF HuntInit, LimitsKept
<1> QED BY <1>1, <1>2, <1>3, <1>4 DEF HuntInv

\* What a run does to the schedule is a step of it, or nothing.
LEMMA HuntSchedules ==
    HuntInv /\ [HuntNext \/ Rest]_vars => [ScheduleNext]_scheduleVars
<1> SUFFICES ASSUME HuntInv, [HuntNext \/ Rest]_vars
             PROVE  ScheduleNext \/ UNCHANGED scheduleVars
  OBVIOUS
<1>1. ASSUME NEW r \in Procs, Launch(r) \/ Kill(r) \/ Interrupt(r)
      PROVE  UNCHANGED scheduleVars
  BY <1>1 DEF Launch, Kill, Interrupt, Vanish
<1>2. ASSUME NEW r \in Procs, ResetDiscovery(r)
      PROVE  ScheduleNext
  <2>1. ResetCatalogTarget(target[r]) /\ target[r] \in Targets
    BY <1>2 DEF ResetDiscovery, HuntInv, Typed
  <2> QED BY <2>1 DEF ScheduleNext
<1>3. ASSUME NEW r \in Procs, LoadCycle(r) \/ SelectTarget(r)
      PROVE  ScheduleNext
  BY <1>3 DEF LoadCycle, SelectTarget, ScheduleNext
<1>4. ASSUME NEW r \in Procs, TakeWindow(r)
      PROVE  ScheduleNext \/ UNCHANGED scheduleVars
  <2>1. UNCHANGED scheduleVars \/ TakeCatalogWindow(target[r], MaxTurns)
    BY <1>4 DEF TakeWindow
  <2>2. target[r] \in Targets /\ MaxTurns \in Nat \ {0}
    BY HuntAssumption DEF HuntInv, Typed
  <2> QED BY <2>1, <2>2 DEF ScheduleNext
<1>5. ASSUME NEW r \in Procs, Search(r) \/ BeginWave(r) \/ (\E i \in Repos : Discover(r, i))
      PROVE  UNCHANGED scheduleVars
  BY <1>5 DEF Search, BeginWave, Discover
<1>6. ASSUME NEW r \in Procs, DiscoverTogether(r) \/ EndDiscover(r) \/ Reserve(r) \/ Put(r)
      PROVE  UNCHANGED scheduleVars
  BY <1>6 DEF DiscoverTogether, EndDiscover, Reserve, Put
<1>7. ASSUME NEW r \in Procs, EndWave(r) \/ CloseJobs(r) \/ Join(r) \/ Persist(r) \/ Exit(r)
      PROVE  UNCHANGED scheduleVars
  BY <1>7 DEF EndWave, CloseJobs, Join, Persist, Exit, Vanish
<1>8. ASSUME NEW r \in Procs, WorkerStep(r) \/ (\E p \in PRs : Collect(r, p))
      PROVE  UNCHANGED scheduleVars
  BY <1>8 DEF WorkerStep, Take, WaitForRateLimit, EndWait, Apply, Collect
<1>9. CASE UNCHANGED vars
  BY <1>9 DEF vars
<1> QED BY <1>1, <1>2, <1>3, <1>4, <1>5, <1>6, <1>7, <1>8, <1>9 DEF HuntNext, FeederStep, Rest

\* A step that counts, keeps and writes nothing, and begins no work for a
\* process that is not there, keeps the rest of the invariant.
LEMMA QuietStep ==
    ASSUME HuntInv, UNCHANGED <<target, mode, turns, kept>>, UNCHANGED <<rows, unsaved>>,
           pc' = [q \in Procs |-> pc'[q]],
           work' = [q \in Procs |-> [p \in PRs |-> work'[q][p]]],
           \A q \in Procs : pc'[q] = "off" => pc[q] = "off" /\ work'[q] = work[q]
    PROVE  Typed' /\ OffClean' /\ LimitsKept' /\ AdmittedSaved'
<1> USE DEF HuntInv
<1>1. Typed'
  BY DEF Typed
<1>2. OffClean'
  BY DEF OffClean
<1>3. LimitsKept' /\ AdmittedSaved'
  BY DEF LimitsKept, AdmittedSaved
<1> QED BY <1>1, <1>2, <1>3

\* The end of a process clears what it counted.
LEMMA VanishKeeps ==
    ASSUME HuntInv, NEW r \in Procs, Vanish(r)
    PROVE  Typed' /\ OffClean' /\ LimitsKept' /\ AdmittedSaved'
<1> USE DEF HuntInv
<1>1. /\ target' = [target EXCEPT ![r] = 1] /\ mode' = [mode EXCEPT ![r] = "repos"]
      /\ pc' = [pc EXCEPT ![r] = "off"] /\ turns' = [turns EXCEPT ![r] = 0]
      /\ kept' = [kept EXCEPT ![r] = {}] /\ work' = [work EXCEPT ![r] = [p \in PRs |-> "none"]]
      /\ unsaved' = unsaved /\ rows' = rows
  BY DEF Vanish, ghostVars
<1>2. Typed'
  <2>1. /\ target' \in [Procs -> Targets] /\ turns' \in [Procs -> Nat]
        /\ kept' \in [Procs -> SUBSET PRs]
    BY <1>1, ScheduleAssumption DEF Typed, Targets
  <2>2. mode' = [q \in Procs |-> mode'[q]] /\ pc' = [q \in Procs |-> pc'[q]]
    BY <1>1 DEF Typed
  <2>3. \A q \in Procs : work'[q] = [p \in PRs |-> work'[q][p]]
    BY <1>1 DEF Typed
  <2>4. work' = [q \in Procs |-> work'[q]]
    BY <1>1 DEF Typed
  <2> QED BY <2>1, <2>2, <2>3, <2>4 DEF Typed
<1>3. OffClean'
  BY <1>1 DEF OffClean, Typed
<1>4. AdmittedSaved'
  BY <1>1 DEF AdmittedSaved, Typed
<1>5. Cardinality({}) = 0 /\ TargetPRs \in Nat /\ MaxTurns \in Nat
  BY HuntAssumption, FS_EmptySet
<1>6. LimitsKept'
  BY <1>1, <1>5 DEF LimitsKept, Typed
<1> QED BY <1>2, <1>3, <1>4, <1>6

\* The limits of a run hold for what it admits, and its rows are saved at once.
LEMMA ApplyKeeps ==
    ASSUME HuntInv, NEW r \in Procs, NEW p \in PRs, Apply(r, p)
    PROVE  Typed' /\ OffClean' /\ LimitsKept' /\ AdmittedSaved'
<1> USE DEF HuntInv
<1>1. /\ work[r][p] \in Results
      /\ work' = [work EXCEPT ![r][p] = "none"]
      /\ UNCHANGED <<target, mode, pc, turns>>
  BY DEF Apply, feederVars
<1>2. work[r][p] # "none"
  BY <1>1 DEF Results, Outcomes
<1>3. pc[r] # "off"
  BY <1>2 DEF OffClean
<1>4. /\ work' = [q \in Procs |-> [x \in PRs |-> work'[q][x]]]
      /\ \A q \in Procs : q # r => work'[q] = work[q]
  BY <1>1 DEF Typed
<1>5. CASE UNCHANGED <<kept, rows, unsaved>>
  <2>1. \A q \in Procs : pc'[q] = "off" => pc[q] = "off" /\ work'[q] = work[q]
    BY <1>1, <1>3, <1>4
  <2>2. pc' = [q \in Procs |-> pc'[q]]
    BY <1>1 DEF Typed
  <2> QED BY <1>1, <1>4, <1>5, <2>1, <2>2, QuietStep
<1>6. CASE /\ CanAdmit(r)
           /\ kept' = [kept EXCEPT ![r] = @ \cup {p}]
           /\ OnKeep(p)
  <2>1. Typed'
    BY <1>1, <1>4, <1>6 DEF Typed
  <2>2. OffClean'
    BY <1>1, <1>3, <1>4, <1>6 DEF OffClean, Typed
  <2>3. AdmittedSaved'
    <3>1. rows \cup unsaved \subseteq rows' \cup unsaved' /\ p \in rows' \cup unsaved'
      BY <1>6 DEF OnKeep
    <3>2. \A q \in Procs : kept'[q] \subseteq kept[q] \cup {p}
      BY <1>6 DEF Typed
    <3> QED BY <3>1, <3>2 DEF AdmittedSaved
  <2>4. ASSUME mode[r] # "history"
        PROVE  Cardinality(kept[r] \cup {p}) <= TargetPRs
    <3>1. Cardinality(kept[r]) < TargetPRs
      BY <1>6, <2>4 DEF CanAdmit, Unlimited
    <3>2. IsFiniteSet(kept[r])
      BY HuntAssumption, FS_Subset DEF Typed
    <3>3. Cardinality(kept[r]) \in Nat
      BY <3>2, FS_CardinalityType
    <3>4. \/ Cardinality(kept[r] \cup {p}) = Cardinality(kept[r]) + 1
          \/ Cardinality(kept[r] \cup {p}) = Cardinality(kept[r])
      BY <3>2, FS_AddElement
    <3> QED BY <3>1, <3>3, <3>4, HuntAssumption
  <2>5. LimitsKept'
    BY <1>1, <1>6, <2>4 DEF LimitsKept, Typed
  <2> QED BY <2>1, <2>2, <2>3, <2>5
<1> QED BY <1>5, <1>6 DEF Apply, Admit

\* The feeder counts a turn while there is one left.
LEMMA ReserveKeeps ==
    ASSUME HuntInv, NEW r \in Procs, Reserve(r)
    PROVE  Typed' /\ OffClean' /\ LimitsKept' /\ AdmittedSaved'
<1> USE DEF HuntInv
<1>1. /\ UNCHANGED <<mode, target, kept, rows, unsaved, work>>
      /\ pc[r] = "send"
      /\ pc' \in {pc, [pc EXCEPT ![r] = "close"], [pc EXCEPT ![r] = "put"]}
      /\ turns' = turns \/ (~Done(r) /\ turns' = [turns EXCEPT ![r] = @ + 1])
  BY DEF Reserve, Stop, poolVars, ghostVars
<1>2. /\ pc' = [q \in Procs |-> pc'[q]]
      /\ \A q \in Procs : pc'[q] = "off" => pc[q] = "off" /\ q # r
  BY <1>1 DEF Typed
<1>3. CASE turns' = turns
  BY <1>1, <1>2, <1>3, QuietStep DEF Typed
<1>4. CASE ~Done(r) /\ turns' = [turns EXCEPT ![r] = @ + 1]
  <2>1. Typed'
    BY <1>1, <1>2, <1>4 DEF Typed
  <2>2. OffClean'
    BY <1>1, <1>2, <1>4 DEF OffClean, Typed
  <2>3. AdmittedSaved'
    BY <1>1 DEF AdmittedSaved
  <2>4. mode[r] # "history" => turns[r] + 1 <= MaxTurns
    BY <1>4, HuntAssumption DEF Done, Unlimited, Limits, Typed
  <2>5. LimitsKept'
    BY <1>1, <1>4, <2>4 DEF LimitsKept, Typed
  <2> QED BY <2>1, <2>2, <2>3, <2>5
<1> QED BY <1>1, <1>3, <1>4

\* So does a step that changes what a worker of a running process is doing.
LEMMA WorkStep ==
    ASSUME HuntInv, UNCHANGED <<target, mode, turns, kept, rows, unsaved, pc>>,
           NEW r \in Procs, pc[r] # "off", NEW p, NEW state,
           work' = [work EXCEPT ![r][p] = state]
    PROVE  Typed' /\ OffClean' /\ LimitsKept' /\ AdmittedSaved'
<1> USE DEF HuntInv
<1>1. \A q \in Procs : q # r => work'[q] = work[q]
  BY DEF Typed
<1>2. work' = [q \in Procs |-> work'[q]]
  BY DEF Typed
<1>3. work'[r] = [work[r] EXCEPT ![p] = state]
  BY DEF Typed
<1>4. \A q \in Procs : work[q] = [x \in PRs |-> work[q][x]]
  BY DEF Typed
<1>5. work'[r] = [x \in PRs |-> work'[r][x]]
  BY <1>3, <1>4
<1>6. \A q \in Procs : work'[q] = [x \in PRs |-> work'[q][x]]
  BY <1>1, <1>4, <1>5
<1>7. work' = [q \in Procs |-> [x \in PRs |-> work'[q][x]]]
  BY <1>2, <1>6
<1>8. pc' = [q \in Procs |-> pc'[q]]
  BY DEF Typed
<1> QED BY <1>1, <1>7, <1>8, QuietStep

\* Every step keeps the invariant.
LEMMA HuntInvNext == HuntInv /\ [HuntNext \/ Rest]_vars => HuntInv'
<1> SUFFICES ASSUME HuntInv, [HuntNext \/ Rest]_vars
             PROVE  HuntInv'
  OBVIOUS
<1> DEFINE Kept == Typed' /\ OffClean' /\ LimitsKept' /\ AdmittedSaved'
<1> USE DEF HuntInv
<1>1. CycleInv' /\ WindowInv'
  BY HuntSchedules, ScheduleInvNext
<1>2. ASSUME UNCHANGED <<target, mode, turns, kept, rows, unsaved, work>>,
             NEW r \in Procs, pc[r] # "off",
             pc' = pc \/ \E place \in Afoot : pc' = [pc EXCEPT ![r] = place]
      PROVE  Kept
  <2>1. pc' = [q \in Procs |-> pc'[q]] /\ work' = [q \in Procs |-> [p \in PRs |-> work'[q][p]]]
    BY <1>2 DEF Typed, Afoot
  <2>2. \A q \in Procs : pc'[q] = "off" => pc[q] = "off" /\ work'[q] = work[q]
    BY <1>2 DEF Typed, Afoot
  <2> QED BY <1>2, <2>1, <2>2, QuietStep
<1>3. ASSUME NEW r \in Procs, Launch(r)
      PROVE  Kept
  <2>1. /\ pc[r] = "off" /\ UNCHANGED <<target, turns, kept, rows, unsaved, work>>
        /\ \E m \in Modes : mode' = [mode EXCEPT ![r] = m]
        /\ \E at \in {"load_cycle", "reset"} : pc' = [pc EXCEPT ![r] = at]
    BY <1>3 DEF Launch, outVars, poolVars, ghostVars
  <2>2. Typed'
    BY <2>1 DEF Typed
  <2>3. OffClean'
    BY <2>1 DEF OffClean, Typed
  <2>4. AdmittedSaved'
    BY <2>1 DEF AdmittedSaved
  <2>5. Cardinality({}) = 0 /\ TargetPRs \in Nat /\ MaxTurns \in Nat
    BY HuntAssumption, FS_EmptySet
  <2>6. turns[r] = 0 /\ kept[r] = {}
    BY <2>1 DEF OffClean
  <2>7. \A q \in Procs : q # r => mode'[q] = mode[q]
    BY <2>1 DEF Typed
  <2>8. LimitsKept'
    BY <2>1, <2>5, <2>6, <2>7 DEF LimitsKept
  <2> QED BY <2>2, <2>3, <2>4, <2>8
<1>4. ASSUME NEW r \in Procs, Kill(r) \/ Exit(r)
      PROVE  Kept
  BY <1>4, VanishKeeps DEF Kill, Exit
<1>5. ASSUME NEW r \in Procs, SelectTarget(r)
      PROVE  Kept
  <2>1. Selected(r) \in Targets
    BY PeekTied DEF Selected, Reloaded, CycleInv, Tied
  <2>2. /\ target' = [target EXCEPT ![r] = Selected(r)] /\ pc' = [pc EXCEPT ![r] = "reset"]
        /\ pc[r] = "select" /\ UNCHANGED <<mode, turns, kept, rows, unsaved, work>>
    BY <1>5 DEF SelectTarget, outVars, poolVars, ghostVars
  <2>3. Typed'
    BY <2>1, <2>2 DEF Typed
  <2>4. OffClean' /\ AdmittedSaved' /\ LimitsKept'
    BY <2>2 DEF OffClean, AdmittedSaved, LimitsKept, Typed
  <2> QED BY <2>3, <2>4
<1>6. ASSUME NEW r \in Procs, LoadCycle(r) \/ ResetDiscovery(r) \/ TakeWindow(r)
      PROVE  Kept
  <2>1. UNCHANGED <<target, mode, turns, kept, rows, unsaved, work>>
    BY <1>6 DEF LoadCycle, ResetDiscovery, TakeWindow, outVars, poolVars, ghostVars
  <2>2. pc[r] \in {"load_cycle", "reset", "window"}
    BY <1>6 DEF LoadCycle, ResetDiscovery, TakeWindow
  <2>3. \E place \in {"select", "window", "exit", "search", "feed"} : pc' = [pc EXCEPT ![r] = place]
    BY <1>6 DEF LoadCycle, ResetDiscovery, TakeWindow
  <2> QED BY <1>2, <2>1, <2>2, <2>3 DEF Afoot
<1>7. ASSUME NEW r \in Procs,
             Search(r) \/ BeginWave(r) \/ (\E i \in Repos : Discover(r, i)) \/ DiscoverTogether(r)
             \/ EndDiscover(r)
      PROVE  Kept
  <2>1. UNCHANGED <<target, mode, turns, kept, rows, unsaved, work>>
    BY <1>7 DEF Search, BeginWave, Discover, DiscoverTogether, EndDiscover, poolVars, ghostVars
  <2>2. pc[r] \in {"search", "feed", "discover"}
    BY <1>7 DEF Search, BeginWave, Discover, DiscoverTogether, EndDiscover
  <2>3. \/ pc' = pc
        \/ \E place \in {"close", "send", "feed", "discover"} : pc' = [pc EXCEPT ![r] = place]
    <3>1. CASE Search(r)
      BY <3>1 DEF Search, Stop
    <3>2. CASE BeginWave(r)
      BY <3>2 DEF BeginWave, Stop
    <3>3. CASE \E i \in Repos : Discover(r, i)
      BY <3>3 DEF Discover
    <3>4. CASE DiscoverTogether(r)
      BY <3>4 DEF DiscoverTogether, Stop
    <3>5. CASE EndDiscover(r)
      BY <3>5 DEF EndDiscover, Stop
    <3> QED BY <1>7, <3>1, <3>2, <3>3, <3>4, <3>5
  <2> QED BY <1>2, <2>1, <2>2, <2>3 DEF Afoot
<1>8. ASSUME NEW r \in Procs, Reserve(r)
      PROVE  Kept
  BY <1>8, ReserveKeeps
<1>9. ASSUME NEW r \in Procs, Put(r) \/ EndWave(r) \/ CloseJobs(r) \/ Join(r)
      PROVE  Kept
  <2>1. UNCHANGED <<target, mode, turns, kept, rows, unsaved, work>>
    BY <1>9 DEF Put, EndWave, CloseJobs, Join, poolVars, outVars, ghostVars
  <2>2. pc[r] \in {"put", "send", "close", "join"}
    BY <1>9 DEF Put, EndWave, CloseJobs, Join
  <2>3. \E place \in {"close", "send", "feed", "join", "exit", "persist"} :
           pc' = [pc EXCEPT ![r] = place]
    BY <1>9 DEF Put, EndWave, CloseJobs, Join, Stop
  <2> QED BY <1>2, <2>1, <2>2, <2>3 DEF Afoot
<1>10. ASSUME NEW r \in Procs, Persist(r)
       PROVE  Kept
  <2>1. /\ UNCHANGED <<target, mode, turns, kept, unsaved, work>>
        /\ pc[r] = "persist" /\ pc' = [pc EXCEPT ![r] = "exit"] /\ rows \subseteq rows'
    BY <1>10 DEF Persist, outVars, poolVars, ghostVars
  <2>2. Typed'
    BY <2>1 DEF Typed
  <2>3. OffClean' /\ AdmittedSaved' /\ LimitsKept'
    BY <2>1 DEF OffClean, AdmittedSaved, LimitsKept, Typed
  <2> QED BY <2>2, <2>3
<1>11. ASSUME NEW r \in Procs, Interrupt(r)
       PROVE  Kept
  <2>1. /\ UNCHANGED <<target, mode, turns, kept, rows, unsaved, work, pc>> /\ pc[r] # "off"
    BY <1>11 DEF Interrupt, Active, outVars, poolVars, ghostVars
  <2> QED BY <1>2, <2>1
<1>12. ASSUME NEW r \in Procs, Take(r)
       PROVE  Kept
  <2>1. /\ UNCHANGED <<target, mode, turns, kept, rows, unsaved, pc>> /\ pc[r] # "off"
        /\ \/ work' = work
           \/ work' = [work EXCEPT ![r][Head(jobs[r])] = "collect"]
    BY <1>12 DEF Take, Active, feederVars, outVars
  <2> QED BY <1>2, <2>1, WorkStep
<1>13. ASSUME NEW r \in Procs, NEW p \in PRs,
              Collect(r, p) \/ WaitForRateLimit(r, p) \/ EndWait(r, p)
       PROVE  Kept
  <2>1. /\ UNCHANGED <<target, mode, turns, kept, rows, unsaved, pc>>
        /\ work[r][p] # "none"
    BY <1>13 DEF Collect, WaitForRateLimit, EndWait, MustRetry, feederVars, outVars, ghostVars
  <2>2. \E state : work' = [work EXCEPT ![r][p] = state]
    BY <1>13 DEF Collect, WaitForRateLimit, EndWait
  <2>3. pc[r] # "off"
    BY <2>1 DEF OffClean
  <2> QED BY <2>1, <2>2, <2>3, WorkStep
<1>14. ASSUME NEW r \in Procs, NEW p \in PRs, Apply(r, p)
       PROVE  Kept
  BY <1>14, ApplyKeeps
<1>15. CASE UNCHANGED vars
  <2>1. UNCHANGED <<target, mode, turns, kept, rows, unsaved, pc, work>>
    BY <1>15 DEF vars, feederVars, outVars, poolVars, ghostVars
  <2>2. Typed' /\ OffClean'
    BY <2>1 DEF Typed, OffClean
  <2>3. LimitsKept' /\ AdmittedSaved'
    BY <2>1 DEF LimitsKept, AdmittedSaved
  <2> QED BY <2>2, <2>3, <1>1
<1> QED
  BY <1>1, <1>3, <1>4, <1>5, <1>6, <1>7, <1>8, <1>9, <1>10, <1>11, <1>12, <1>13, <1>14, <1>15
     DEF HuntNext, FeederStep, WorkerStep, Rest

\* A training run, whatever it meets, uses the schedule as the schedule promises.
THEOREM HuntImplementsSchedule == Spec => ScheduleSpec
<1>1. HuntInit => ScheduleInit
  BY DEF HuntInit
<1> QED BY <1>1, HuntInvInit, HuntInvNext, HuntSchedules, PTL DEF Spec, ScheduleSpec

\* Adversaries are selected evenly, however many processes train.
THEOREM HuntFair == Spec => []FairCycle
<1> QED BY HuntImplementsSchedule, ScheduleFair, PTL

\* The windows of an adversary's runs go evenly round the catalog.
THEOREM HuntEven == Spec => []EvenProbing
<1> QED BY HuntImplementsSchedule, ScheduleEven, PTL

\* No run goes past its limits, whatever is queued or in hand when it reaches them.
THEOREM HuntLimits == Spec => []LimitsKept
<1>1. HuntInv => LimitsKept
  BY DEF HuntInv
<1> QED BY <1>1, HuntInvInit, HuntInvNext, PTL DEF Spec

\* Whatever a run has admitted is in results.db, unless its own write failed.
THEOREM HuntSaved == Spec => []AdmittedSaved
<1>1. HuntInv => AdmittedSaved
  BY DEF HuntInv
<1> QED BY <1>1, HuntInvInit, HuntInvNext, PTL DEF Spec
=============================================================================
