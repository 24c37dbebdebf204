--------------------------- MODULE TrainSchedule ---------------------------
(***************************************************************************)
(* The durable schedule that training processes share: which adversary the *)
(* next run trains (state/cycle.go, the file adversary-cycle.json) and     *)
(* which window of the repository catalog it searches                      *)
(* (state/catalog_cursor.go, catalog-cursor.json).  Both files are read,   *)
(* changed and saved under a process lock, so that a selection and a       *)
(* reservation are one step each; the snapshot that LoadAdversaryCycle     *)
(* hands out before the selection is not taken under the same lock.        *)
(***************************************************************************)
EXTENDS Integers

CONSTANTS Procs,       \* training processes
          NTargets,    \* adversaries, numbered in the order of their ids
          Total        \* repositories of the catalog

ASSUME ScheduleAssumption == NTargets \in Nat \ {0} /\ Total \in Nat \ {0}

Targets == 1 .. NTargets
Repos   == 0 .. Total - 1
Unset   == -1          \* a target the cursor file does not list
Nobody  == 0           \* LastTarget of a new cycle file

VARIABLES
    cycle,      \* adversary-cycle.json: [sel: selections per target, last]
    snapshot,   \* what each process loaded of it
    next,       \* catalog-cursor.json: NextByTarget
    seed,       \* and NextSeed
    chosen,     \* history: how often each target was really selected
    origin,     \* history: where a target's first window began
    probes      \* history: how often a target was offered each repository

cycleVars    == <<cycle, snapshot, chosen>>
cursorVars   == <<next, seed, origin, probes>>
scheduleVars == <<cycle, snapshot, chosen, next, seed, origin, probes>>

Least(S) == CHOOSE x \in S : \A y \in S : x <= y

ScheduleInit ==
    /\ cycle = [sel |-> [t \in Targets |-> 0], last |-> Nobody]
    /\ snapshot = [r \in Procs |-> [sel |-> [t \in Targets |-> 0], last |-> Nobody]]
    /\ chosen = [t \in Targets |-> 0]
    /\ next = [t \in Targets |-> Unset]
    /\ seed = 0
    /\ origin = [t \in Targets |-> 0]
    /\ probes = [t \in Targets |-> [i \in Repos |-> 0]]

-----------------------------------------------------------------------------
(* Round robin over the adversaries                                         *)

LoadAdversaryCycle(r) ==
    /\ snapshot' = [snapshot EXCEPT ![r] = cycle]
    /\ UNCHANGED <<cycle, chosen, cursorVars>>

\* The least selected targets, and among them the next one in id order.
Tied(c) == {t \in Targets : \A u \in Targets : c.sel[t] <= c.sel[u]}

Peek(c) ==
    LET later == {t \in Tied(c) : t > c.last}
    IN  IF c.last = Nobody \/ later = {} THEN Least(Tied(c)) ELSE Least(later)

\* Mutant: the selection is made on the snapshot loaded before the lock.
ReloadedStale(r) == snapshot[r]

\* Select reloads the file under the lock and forgets the caller's snapshot.
Reloaded(r) == cycle

Selected(r) == Peek(Reloaded(r))

Select(r) ==
    LET c == Reloaded(r)
        t == Peek(c)
        saved == [sel |-> [c.sel EXCEPT ![t] = @ + 1], last |-> t]
    IN  /\ cycle' = saved
        /\ snapshot' = [snapshot EXCEPT ![r] = saved]
        /\ chosen' = [chosen EXCEPT ![t] = @ + 1]
        /\ UNCHANGED cursorVars

-----------------------------------------------------------------------------
(* Windows over the catalog                                                 *)

WindowStart(t) == IF next[t] = Unset THEN seed ELSE next[t]

\* At most limit repositories, and never past the end of the catalog: a limit
\* above the size of the catalog counts as the size.
WindowCount(t, limit) ==
    LET remaining == Total - WindowStart(t)
    IN  IF limit > remaining THEN remaining ELSE limit

Window(t, limit) == WindowStart(t) .. WindowStart(t) + WindowCount(t, limit) - 1

\* Mutant: the reservation is not saved.
NextStartUnsaved(t, limit) == WindowStart(t)

\* Mutant: the position does not wrap at the end of the catalog.
NextStartUnwrapped(t, limit) == WindowStart(t) + WindowCount(t, limit)

\* (start + count) % total, for a window that does not pass the end.
NextStart(t, limit) ==
    LET end == WindowStart(t) + WindowCount(t, limit)
    IN  IF end = Total THEN 0 ELSE end

TakeCatalogWindow(t, limit) ==
    /\ next' = [next EXCEPT ![t] = NextStart(t, limit)]
    /\ seed' = IF next[t] = Unset THEN NextStart(t, limit) ELSE seed
    /\ origin' = IF next[t] = Unset THEN [origin EXCEPT ![t] = seed] ELSE origin
    /\ probes' = [probes EXCEPT ![t] =
                     [i \in Repos |-> IF i \in Window(t, limit) THEN @[i] + 1 ELSE @[i]]]
    /\ UNCHANGED cycleVars

\* ResetCatalogTarget, with the history of the forgotten position.
ResetCatalogTarget(t) ==
    /\ next' = [next EXCEPT ![t] = Unset]
    /\ probes' = [probes EXCEPT ![t] = [i \in Repos |-> 0]]
    /\ UNCHANGED <<seed, origin, cycleVars>>

ScheduleNext ==
    \/ \E r \in Procs : LoadAdversaryCycle(r) \/ Select(r)
    \/ \E t \in Targets : \/ \E limit \in Nat \ {0} : TakeCatalogWindow(t, limit)
                          \/ ResetCatalogTarget(t)

ScheduleSpec == ScheduleInit /\ [][ScheduleNext]_scheduleVars

-----------------------------------------------------------------------------
(* Properties                                                               *)

ScheduleTypeOK ==
    /\ cycle \in [sel : [Targets -> Nat], last : {Nobody} \cup Targets]
    /\ snapshot \in [Procs -> [sel : [Targets -> Nat], last : {Nobody} \cup Targets]]
    /\ chosen \in [Targets -> Nat]
    /\ next \in [Targets -> {Unset} \cup Repos]
    /\ seed \in Repos
    /\ origin \in [Targets -> Repos]
    /\ probes \in [Targets -> [Repos -> Nat]]

\* However many processes select at the same time, no adversary is trained
\* twice more often than another one: Select reloads the cycle file under its
\* lock (cycle.go, Select), so that no selection is lost.
FairCycle == \A t, u \in Targets : chosen[t] - chosen[u] <= 1

\* A target's windows go round the whole catalog: no repository is searched
\* twice more often than another one, wherever the first window began and
\* however short the window at the end of the catalog was (TakeCatalogWindow).
EvenProbing == \A t \in Targets : \A i, j \in Repos : probes[t][i] - probes[t][j] <= 1
=============================================================================
