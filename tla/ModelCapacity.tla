--------------------------- MODULE ModelCapacity ---------------------------
(***************************************************************************)
(* The adaptive gate in front of the Camel provider                        *)
(* (internal/modelreview/camel_capacity.go) and the request loop that goes *)
(* through it (reviewChatCompletions in fireworks.go).  All the brokers of *)
(* one CLI process share the gate of a credential, whatever reviewer or    *)
(* verifier they serve.  A rejected request halves the capacity and closes *)
(* the gate for a while; answers that come later restore it one by one.    *)
(*                                                                         *)
(* The gate's mutex makes each of its methods one step.  The channel       *)
(* `changed` is modelled by what closing it does: whoever captured it goes *)
(* on.  A delay is a number of ticks that is left of it.                   *)
(***************************************************************************)
EXTENDS Integers, FiniteSets

CONSTANTS
    Callers,          \* goroutines inside CamelProvider.Review
    Limits,           \* MaxConcurrency of the providers they are given
    RequestRetries,   \* repetitions of a rejected request
    Recovery,         \* good answers in a row that restore one unit: 10
    MaxDelay          \* bound: ticks of the longest delay

ASSUME CapacityAssumption ==
    /\ IsFiniteSet(Callers)
    /\ Limits \subseteq Nat \ {0} /\ Limits # {}
    /\ RequestRetries \in Nat /\ Recovery \in Nat \ {0} /\ MaxDelay \in Nat \ {0}

VARIABLES
    at,        \* where each call is
    tries,     \* requestAttempt
    left,      \* ticks left of the delay it waits for, or will wait for
    answer,    \* how the last request ended
    stopped,   \* its context is done
    gate       \* the shared camelGate, NoGate before the first call

capacityVars == <<at, tries, left, answer, stopped, gate>>

Places  == {"idle", "enter", "acquire", "sleep", "wait", "call", "settle", "release",
            "backoff", "done"}
Answers == {"none", "ok", "busy", "refused"}

NoGate == [limit |-> 0, effective |-> 0, active |-> 0, successes |-> 0, until |-> 0]

Least(m, n)   == IF m <= n THEN m ELSE n
Largest(m, n) == IF m >= n THEN m ELSE n

CapacityInit ==
    /\ at = [c \in Callers |-> "idle"]
    /\ tries = [c \in Callers |-> 0]
    /\ left = [c \in Callers |-> 0]
    /\ answer = [c \in Callers |-> "none"]
    /\ stopped = [c \in Callers |-> FALSE]
    /\ gate = NoGate

Goto(c, place) == at' = [at EXCEPT ![c] = place]

\* CamelProvider.Review with a context that may be over: sharedCamelGate makes the gate, or tightens it.
SharedGate(limit) ==
    IF gate = NoGate
    THEN [NoGate EXCEPT !.limit = limit, !.effective = limit]
    ELSE [gate EXCEPT !.limit = Least(@, limit),
                      !.effective = Least(@, Least(gate.limit, limit))]

Review(c, limit, over) ==
    /\ at[c] \in {"idle", "done"}
    /\ gate' = SharedGate(limit)
    /\ answer' = [answer EXCEPT ![c] = "none"]
    /\ stopped' = [stopped EXCEPT ![c] = over]
    /\ Goto(c, "enter")
    /\ UNCHANGED <<tries, left>>

\* Review returns; what it kept for the request is forgotten.
Cancelled(c) ==
    /\ Goto(c, "done")
    /\ answer' = [answer EXCEPT ![c] = "refused"]
    /\ tries' = [tries EXCEPT ![c] = 0]
    /\ left' = [left EXCEPT ![c] = 0]
    /\ stopped' = [stopped EXCEPT ![c] = FALSE]

\* acquire looks at its context, then at the gate.
Enter(c) ==
    /\ at[c] = "enter"
    /\ IF stopped[c] THEN Cancelled(c)
       ELSE Goto(c, "acquire") /\ UNCHANGED <<tries, left, answer, stopped>>
    /\ UNCHANGED gate

Cooling == gate.until > 0
Free    == gate.active < gate.effective

Acquire(c) ==
    /\ at[c] = "acquire"
    /\ IF Cooling THEN /\ Goto(c, "sleep")
                       /\ left' = [left EXCEPT ![c] = gate.until]
                       /\ UNCHANGED gate
       ELSE IF Free THEN /\ Goto(c, "call")
                         /\ gate' = [gate EXCEPT !.active = @ + 1]
                         /\ UNCHANGED left
       ELSE Goto(c, "wait") /\ UNCHANGED <<left, gate>>
    /\ UNCHANGED <<tries, answer, stopped>>

\* The end of a delay: try to get in again.
Wake(c) ==
    /\ at[c] \in {"sleep", "backoff"} /\ left[c] = 0
    /\ Goto(c, "enter")
    /\ UNCHANGED <<tries, left, answer, stopped, gate>>

\* ctx.Done while it waits for the gate, for a release or for a retry.
GiveUp(c) ==
    /\ at[c] \in {"sleep", "wait", "backoff"} /\ stopped[c]
    /\ Cancelled(c)
    /\ UNCHANGED gate

Retryable(c) == answer[c] = "busy"

\* Mutant: a request whose context is done returns at once.
AfterAnswerUnlessStopped(c) == IF stopped[c] THEN "done" ELSE "settle"

AfterAnswer(c) == "settle"

\* The request ends: with 2xx, with a status or an error that may pass (429,
\* 5xx, a lost connection, a context that is done), or with another status.
Answer(c) ==
    /\ at[c] = "call"
    /\ Goto(c, AfterAnswer(c))
    /\ \E a \in Answers \ {"none"} :
          /\ answer' = [answer EXCEPT ![c] = a]
          /\ IF a = "busy"
             THEN \E d \in 1 .. MaxDelay : left' = [left EXCEPT ![c] = d]
             ELSE UNCHANGED left
    /\ UNCHANGED <<tries, stopped, gate>>

\* Mutant: half of one is none.
CooledToNothing(delay) ==
    [gate EXCEPT !.effective = @ \div 2, !.successes = 0, !.until = Largest(@, delay)]

Cooled(delay) ==
    [gate EXCEPT !.effective = Largest(1, @ \div 2),
                 !.successes = 0,
                 !.until = Largest(@, delay)]

\* An answer to a request that was in flight when another one was rejected is
\* no evidence of recovery.
Credited ==
    IF Cooling THEN gate
    ELSE IF gate.successes + 1 >= Recovery
    THEN [gate EXCEPT !.effective = Least(gate.limit, @ + 1), !.successes = 0]
    ELSE [gate EXCEPT !.successes = @ + 1]

\* The cool-down is published before the slot is given up, also when the
\* request will not be repeated.
Settle(c) ==
    /\ at[c] = "settle"
    /\ Goto(c, "release")
    /\ gate' = IF Retryable(c) /\ ~stopped[c] THEN Cooled(left[c])
               ELSE IF answer[c] = "ok" THEN Credited
               ELSE gate
    /\ UNCHANGED <<tries, left, answer, stopped>>

\* Mutant: a release during a cool-down is not announced.
WokenUnlessCooling(x) == IF at[x] = "wait" /\ ~Cooling THEN "enter" ELSE at[x]

\* close(changed) wakes every waiter of the channel.
Woken(x) == IF at[x] = "wait" THEN "enter" ELSE at[x]

Repeats(c) == Retryable(c) /\ tries[c] < RequestRetries /\ ~stopped[c]

\* Unless it repeats the request, Review returns the answer or an error.
Release(c) ==
    /\ at[c] = "release"
    /\ gate' = [gate EXCEPT !.active = @ - 1]
    /\ at' = [x \in Callers |-> IF x # c THEN Woken(x)
                                ELSE IF Repeats(c) THEN "backoff" ELSE "done"]
    /\ tries' = [tries EXCEPT ![c] = IF Repeats(c) THEN @ + 1 ELSE 0]
    /\ left' = [left EXCEPT ![c] = IF Repeats(c) THEN @ ELSE 0]
    /\ answer' = [answer EXCEPT ![c] = IF Repeats(c) \/ @ = "ok" THEN @ ELSE "refused"]
    /\ stopped' = [stopped EXCEPT ![c] = FALSE]

\* The contexts of some calls are done: a time limit, a reviewer's or the run's.
InReview(c) == at[c] \notin {"idle", "done"}

Stop(calls) ==
    /\ stopped' = [c \in Callers |-> stopped[c] \/ c \in calls]
    /\ UNCHANGED <<at, tries, left, answer, gate>>

Counting(c) == at[c] \in {"sleep", "backoff"} /\ left[c] > 0

Tick ==
    /\ Cooling \/ \E c \in Callers : Counting(c)
    /\ gate' = [gate EXCEPT !.until = Largest(0, @ - 1)]
    /\ left' = [c \in Callers |-> IF Counting(c) THEN left[c] - 1 ELSE left[c]]
    /\ UNCHANGED <<at, tries, answer, stopped>>

CallStep(c) == Enter(c) \/ Acquire(c) \/ Wake(c) \/ GiveUp(c) \/ Answer(c) \/ Settle(c) \/ Release(c)

CapacityNext ==
    \/ Tick
    \/ \E calls \in SUBSET Callers : Stop(calls)
    \/ \E c \in Callers : \/ CallStep(c)
                         \/ \E limit \in Limits, over \in BOOLEAN : Review(c, limit, over)

CapacitySpec == CapacityInit /\ [][CapacityNext]_capacityVars

\* Goroutines run and time passes; a request ends by its answer or with the
\* time limit of its context (broker.go, reviewHandler).
CapacityFairness ==
    /\ WF_capacityVars(Tick)
    /\ \A c \in Callers : WF_capacityVars(CallStep(c))

-----------------------------------------------------------------------------
(* Properties                                                               *)

InFlight == {c \in Callers : at[c] \in {"call", "settle", "release"}}

CapacityTypeOK ==
    /\ at \in [Callers -> Places]
    /\ tries \in [Callers -> 0 .. RequestRetries]
    /\ left \in [Callers -> 0 .. MaxDelay]
    /\ answer \in [Callers -> Answers]
    /\ stopped \in [Callers -> BOOLEAN]
    /\ gate \in [limit : Nat, effective : Nat, active : Nat, successes : 0 .. Recovery - 1,
                 until : 0 .. MaxDelay]
    /\ gate # NoGate => gate.effective \in 1 .. gate.limit
    /\ \A c \in Callers : InReview(c) => gate # NoGate

\* Every slot is held by one request in flight and given back once, on the
\* paths of an answer, a rejection, a lost connection and a cancellation.
SlotsCounted == gate.active = Cardinality(InFlight)

\* Nobody waits at an open gate.  Only a release wakes waiters: a cool-down
\* that has run out and a raised capacity wake nobody, so a waiter must never
\* be left behind by the last release there is (camel_capacity.go:53-81).
NoIdleCapacity ==
    (\E c \in Callers : at[c] = "wait") =>
        ~Free \/ \E d \in Callers : at[d] = "release"
=============================================================================
