---------------------------- MODULE ReviewProofs ----------------------------
(***************************************************************************)
(* Proofs about the model gate and the composed review that goes through   *)
(* it, for every number of calls, limits, jobs, workers and repetitions.   *)
(* The gate comes first, on its own: it counts its slots and never leaves  *)
(* a waiter behind.  A composed review implements it, so that it inherits  *)
(* both, and what it writes at the end follows from an invariant of its    *)
(* own.                                                                    *)
(***************************************************************************)
EXTENDS ReviewRun, TLAPS, FiniteSetTheorems

-----------------------------------------------------------------------------
(* The gate                                                                 *)

GateType == [limit : Nat, effective : Nat, active : Nat, successes : 0 .. Recovery - 1,
             until : 0 .. MaxDelay]

\* An open gate has room for at least one call.
GateSound(g) == g \in GateType /\ (g # NoGate => g.effective \in 1 .. g.limit)

\* The gate that is not there is no gate with a limit.
LEMMA NoGateType == NoGate \in GateType
  BY CapacityAssumption DEF NoGate, GateType

\* What the assignments of a cool-down and of a recovery make of a gate.
LEMMA GateFields ==
    ASSUME NEW x, NEW y, NEW z, gate \in GateType
    PROVE  /\ [gate EXCEPT !.effective = x, !.successes = y]
                = [limit |-> gate.limit, effective |-> x, active |-> gate.active,
                   successes |-> y, until |-> gate.until]
           /\ [gate EXCEPT !.effective = x, !.successes = y, !.until = z]
                = [limit |-> gate.limit, effective |-> x, active |-> gate.active,
                   successes |-> y, until |-> z]
<1> DEFINE g1 == [limit |-> gate.limit, effective |-> x, active |-> gate.active,
                  successes |-> gate.successes, until |-> gate.until]
           g2 == [limit |-> gate.limit, effective |-> x, active |-> gate.active,
                  successes |-> y, until |-> gate.until]
           g3 == [limit |-> gate.limit, effective |-> x, active |-> gate.active,
                  successes |-> y, until |-> z]
<1>1. [gate EXCEPT !.effective = x] = g1
  BY DEF GateType
<1>2. [g1 EXCEPT !.successes = y] = g2
  OBVIOUS
<1>3. [g2 EXCEPT !.until = z] = g3
  OBVIOUS
<1> HIDE DEF g1, g2, g3
<1>4. [[gate EXCEPT !.effective = x] EXCEPT !.successes = y] = g2
  BY <1>1, <1>2
<1>5. [[[gate EXCEPT !.effective = x] EXCEPT !.successes = y] EXCEPT !.until = z] = g3
  BY <1>3, <1>4
<1> QED BY <1>4, <1>5 DEF g2, g3

\* Another provider makes the gate or tightens it.
LEMMA SharedGateSound ==
    ASSUME GateSound(gate), NEW limit \in Limits
    PROVE  /\ GateSound(SharedGate(limit)) /\ SharedGate(limit) # NoGate
           /\ SharedGate(limit).active = gate.active
           /\ gate # NoGate => SharedGate(limit).effective <= gate.effective
<1> DEFINE g == SharedGate(limit)
<1>1. limit \in Nat \ {0}
  BY CapacityAssumption
<1>2. CASE gate = NoGate
  <2>1. g = [limit |-> limit, effective |-> limit, active |-> 0, successes |-> 0, until |-> 0]
    BY <1>2 DEF SharedGate, NoGate
  <2> QED BY <1>1, <1>2, <2>1, CapacityAssumption DEF GateSound, GateType, NoGate
<1>3. CASE gate # NoGate
  <2>1. g = [gate EXCEPT !.limit = Least(@, limit), !.effective = Least(@, Least(gate.limit, limit))]
    BY <1>3 DEF SharedGate
  <2>2. gate \in GateType /\ gate.effective \in 1 .. gate.limit
    BY <1>3 DEF GateSound
  <2>3. g = [limit |-> Least(gate.limit, limit),
             effective |-> Least(gate.effective, Least(gate.limit, limit)),
             active |-> gate.active, successes |-> gate.successes, until |-> gate.until]
    BY <2>1, <2>2 DEF GateType
  <2>4. /\ Least(gate.limit, limit) \in Nat
        /\ Least(gate.effective, Least(gate.limit, limit)) \in 1 .. Least(gate.limit, limit)
        /\ Least(gate.effective, Least(gate.limit, limit)) <= gate.effective
    BY <1>1, <2>2 DEF Least, GateType
  <2> QED BY <2>2, <2>3, <2>4 DEF GateSound, GateType, NoGate
<1> QED BY <1>2, <1>3

\* A cool-down leaves room for one and never makes more room.
LEMMA CooledSound ==
    ASSUME GateSound(gate), gate # NoGate, NEW delay \in 0 .. MaxDelay
    PROVE  /\ GateSound(Cooled(delay)) /\ Cooled(delay) # NoGate
           /\ Cooled(delay).active = gate.active
           /\ Cooled(delay).effective <= gate.effective
<1>1. gate \in GateType /\ gate.effective \in 1 .. gate.limit
  BY DEF GateSound
<1>2. Largest(1, gate.effective \div 2) \in 1 .. gate.effective
  BY <1>1 DEF Largest, GateType
<1>3. Cooled(delay) = [limit |-> gate.limit, effective |-> Largest(1, gate.effective \div 2),
                       active |-> gate.active, successes |-> 0,
                       until |-> Largest(gate.until, delay)]
  <2> DEFINE x == Largest(1, gate.effective \div 2)
             z == Largest(gate.until, delay)
  <2>1. Cooled(delay) = [gate EXCEPT !.effective = x, !.successes = 0, !.until = z]
    BY DEF Cooled
  <2> HIDE DEF x, z
  <2>2. Cooled(delay) = [limit |-> gate.limit, effective |-> x, active |-> gate.active,
                         successes |-> 0, until |-> z]
    BY <1>1, <2>1, GateFields
  <2> QED BY <2>2 DEF x, z
<1>4. Largest(gate.until, delay) \in 0 .. MaxDelay
  BY <1>1 DEF Largest, GateType
<1>5. Cooled(delay) \in GateType
  BY <1>1, <1>2, <1>3, <1>4, CapacityAssumption DEF GateType
<1>6. /\ Cooled(delay).effective = Largest(1, gate.effective \div 2)
      /\ Cooled(delay).limit = gate.limit /\ Cooled(delay).active = gate.active
  BY <1>3
<1>7. NoGate.effective = 0
  BY DEF NoGate
<1>8. gate.limit \in Nat /\ gate.effective \in Nat
  BY <1>1 DEF GateType
<1> QED BY <1>1, <1>2, <1>5, <1>6, <1>7, <1>8 DEF GateSound

\* A credited answer may make room for one more, within the limit.
LEMMA CreditedSound ==
    ASSUME GateSound(gate), gate # NoGate
    PROVE  GateSound(Credited) /\ Credited # NoGate /\ Credited.active = gate.active
<1>1. gate \in GateType /\ gate.effective \in 1 .. gate.limit
  BY DEF GateSound
<1>2. CASE gate.successes + 1 >= Recovery
  <2>1. [gate EXCEPT !.effective = Least(gate.limit, @ + 1), !.successes = 0]
          = [limit |-> gate.limit, effective |-> Least(gate.limit, gate.effective + 1),
             active |-> gate.active, successes |-> 0, until |-> gate.until]
    <3> DEFINE x == Least(gate.limit, gate.effective + 1)
    <3> HIDE DEF x
    <3>1. [gate EXCEPT !.effective = x, !.successes = 0]
            = [limit |-> gate.limit, effective |-> x, active |-> gate.active,
               successes |-> 0, until |-> gate.until]
      BY <1>1, GateFields
    <3> QED BY <3>1 DEF x
  <2>2. Least(gate.limit, gate.effective + 1) \in 1 .. gate.limit
    BY <1>1 DEF Least, GateType
  <2>3. Credited \in {gate, [limit |-> gate.limit, effective |-> Least(gate.limit, gate.effective + 1),
                            active |-> gate.active, successes |-> 0, until |-> gate.until]}
    BY <1>2, <2>1 DEF Credited
  <2>4. Credited \in GateType
    BY <1>1, <2>2, <2>3, CapacityAssumption DEF GateType
  <2>5. /\ Credited.effective \in 1 .. gate.limit
        /\ Credited.limit = gate.limit /\ Credited.active = gate.active
    BY <1>1, <2>2, <2>3
  <2>6. NoGate.effective = 0
    BY DEF NoGate
  <2> QED BY <2>4, <2>5, <2>6 DEF GateSound
<1>3. CASE ~ (gate.successes + 1 >= Recovery)
  <2>1. [gate EXCEPT !.successes = @ + 1]
          = [limit |-> gate.limit, effective |-> gate.effective,
             active |-> gate.active, successes |-> gate.successes + 1, until |-> gate.until]
    BY <1>1 DEF GateType
  <2>2. gate.successes + 1 \in 0 .. Recovery - 1
    BY <1>1, <1>3, CapacityAssumption DEF GateType
  <2> QED BY <1>1, <1>3, <2>1, <2>2 DEF Credited, GateSound, GateType, NoGate
<1> QED BY <1>2, <1>3

CapacityInv == CapacityTypeOK /\ SlotsCounted /\ NoIdleCapacity

\* The type invariant says so of the gate there is.
LEMMA CapacityTypeSound == CapacityTypeOK => GateSound(gate)
  BY DEF CapacityTypeOK, GateSound, GateType

\* The gate begins with nobody inside.
LEMMA CapacityInvInit == CapacityInit => CapacityInv
<1> SUFFICES ASSUME CapacityInit PROVE CapacityInv
  OBVIOUS
<1> USE DEF CapacityInit
<1>1. CapacityTypeOK
  <2>1. at \in [Callers -> Places] /\ answer \in [Callers -> Answers] /\ stopped \in [Callers -> BOOLEAN]
    BY DEF Places, Answers
  <2>2. tries \in [Callers -> 0 .. RequestRetries] /\ left \in [Callers -> 0 .. MaxDelay]
    BY CapacityAssumption
  <2>3. gate \in GateType /\ gate = NoGate
    BY NoGateType
  <2>4. \A c \in Callers : ~InReview(c)
    BY DEF InReview
  <2> QED BY <2>1, <2>2, <2>3, <2>4 DEF CapacityTypeOK, GateType
<1>2. SlotsCounted
  <2>1. InFlight = {}
    BY DEF InFlight
  <2> QED BY <2>1, FS_EmptySet DEF SlotsCounted, NoGate
<1>3. NoIdleCapacity
  BY DEF NoIdleCapacity
<1> QED BY <1>1, <1>2, <1>3 DEF CapacityInv

\* The type invariant with a gate that changes as a whole.
LEMMA CapacityTypeFrom ==
    ASSUME CapacityTypeOK, GateSound(gate)',
           at' \in [Callers -> Places], tries' \in [Callers -> 0 .. RequestRetries],
           left' \in [Callers -> 0 .. MaxDelay], answer' \in [Callers -> Answers],
           stopped' \in [Callers -> BOOLEAN],
           gate' # NoGate \/ (\A c \in Callers : at'[c] \in {"idle", "done"})
    PROVE  CapacityTypeOK'
  BY DEF CapacityTypeOK, GateSound, GateType, InReview

\* The requests in flight are finitely many.
LEMMA InFlightFinite == IsFiniteSet(InFlight) /\ Cardinality(InFlight) \in Nat
  BY CapacityAssumption, FS_Subset, FS_CardinalityType DEF InFlight

\* Who releases a slot holds one.
LEMMA ReleaseHolds ==
    ASSUME SlotsCounted, NEW c \in Callers, Release(c)
    PROVE  gate.active > 0
<1>1. c \in InFlight
  BY DEF Release, InFlight
<1>2. Cardinality(InFlight) # 0
  BY <1>1, InFlightFinite, FS_EmptySet
<1> QED BY <1>2, InFlightFinite DEF SlotsCounted

\* One call after another, types are kept.
LEMMA CapacityTypeNext ==
    ASSUME CapacityTypeOK, SlotsCounted, [CapacityNext]_capacityVars
    PROVE  CapacityTypeOK'
<1> USE DEF Places
<1>0. GateSound(gate) /\ \A c \in Callers : InReview(c) => gate # NoGate
  BY CapacityTypeSound DEF CapacityTypeOK
<1>1. ASSUME NEW c \in Callers, NEW limit \in Limits, NEW over \in BOOLEAN, Review(c, limit, over)
      PROVE  CapacityTypeOK'
  <2>1. GateSound(gate)' /\ gate' # NoGate
    BY <1>0, <1>1, SharedGateSound DEF Review, GateSound
  <2>2. /\ at' \in [Callers -> Places] /\ answer' \in [Callers -> Answers]
        /\ stopped' \in [Callers -> BOOLEAN] /\ UNCHANGED <<tries, left>>
    BY <1>1 DEF Review, Goto, CapacityTypeOK, Answers
  <2> QED BY <2>1, <2>2, CapacityTypeFrom DEF CapacityTypeOK
<1>2. ASSUME NEW c \in Callers, Enter(c) \/ GiveUp(c)
      PROVE  CapacityTypeOK'
  <2>1. at[c] \notin {"idle", "done"} /\ gate' = gate
    BY <1>2 DEF Enter, GiveUp
  <2>2. gate # NoGate
    BY <1>0, <2>1 DEF InReview
  <2>3. /\ at' \in [Callers -> Places] /\ answer' \in [Callers -> Answers]
        /\ stopped' \in [Callers -> BOOLEAN]
    BY <1>2 DEF Enter, GiveUp, Cancelled, Goto, CapacityTypeOK, Answers
  <2>4. tries' \in [Callers -> 0 .. RequestRetries] /\ left' \in [Callers -> 0 .. MaxDelay]
    BY <1>2, CapacityAssumption DEF Enter, GiveUp, Cancelled, CapacityTypeOK
  <2>5. GateSound(gate)'
    BY <1>0, <2>1 DEF GateSound
  <2> QED BY <2>1, <2>2, <2>3, <2>4, <2>5, CapacityTypeFrom
<1>3. ASSUME NEW c \in Callers, Acquire(c)
      PROVE  CapacityTypeOK'
  <2>1. at[c] = "acquire" /\ gate # NoGate /\ gate \in GateType
    BY <1>0, <1>3 DEF Acquire, InReview, GateSound
  <2>2. gate' = gate \/ gate' = [gate EXCEPT !.active = @ + 1]
    BY <1>3 DEF Acquire
  <2>3. GateSound(gate)' /\ gate' # NoGate
    <3>1. CASE gate' = gate
      BY <1>0, <2>1, <3>1 DEF GateSound
    <3>2. CASE gate' = [gate EXCEPT !.active = @ + 1]
      <4>1. /\ gate' \in GateType /\ gate'.limit = gate.limit /\ gate'.effective = gate.effective
        BY <2>1, <3>2 DEF GateType
      <4>2. gate.effective \in 1 .. gate.limit /\ gate.limit \in Nat /\ NoGate.effective = 0
        BY <1>0, <2>1 DEF GateSound, GateType, NoGate
      <4> QED BY <4>1, <4>2 DEF GateSound
    <3> QED BY <2>2, <3>1, <3>2
  <2>4. /\ at' \in [Callers -> Places] /\ left' \in [Callers -> 0 .. MaxDelay]
        /\ UNCHANGED <<tries, answer, stopped>>
    BY <1>3, <2>1 DEF Acquire, Goto, CapacityTypeOK, GateType
  <2> QED BY <2>3, <2>4, CapacityTypeFrom DEF CapacityTypeOK
<1>4. ASSUME NEW c \in Callers, Wake(c) \/ Answer(c)
      PROVE  CapacityTypeOK'
  <2>1. at[c] \notin {"idle", "done"} /\ gate' = gate /\ UNCHANGED <<tries, stopped>>
    BY <1>4 DEF Wake, Answer
  <2>2. gate # NoGate
    BY <1>0, <2>1 DEF InReview
  <2>3. at' \in [Callers -> Places] /\ answer' \in [Callers -> Answers]
    BY <1>4 DEF Wake, Answer, AfterAnswer, Goto, CapacityTypeOK
  <2>4. left' \in [Callers -> 0 .. MaxDelay]
    BY <1>4, CapacityAssumption DEF Wake, Answer, CapacityTypeOK
  <2>5. GateSound(gate)'
    BY <1>0, <2>1 DEF GateSound
  <2> QED BY <2>1, <2>2, <2>3, <2>4, <2>5, CapacityTypeFrom DEF CapacityTypeOK
<1>5. ASSUME NEW c \in Callers, Settle(c)
      PROVE  CapacityTypeOK'
  <2>1. gate # NoGate /\ left[c] \in 0 .. MaxDelay
    BY <1>0, <1>5 DEF Settle, InReview, CapacityTypeOK
  <2>2. gate' \in {Cooled(left[c]), Credited, gate}
    BY <1>5 DEF Settle
  <2>3. GateSound(gate)' /\ gate' # NoGate
    BY <1>0, <2>1, <2>2, CooledSound, CreditedSound DEF GateSound
  <2>4. at' \in [Callers -> Places] /\ UNCHANGED <<tries, left, answer, stopped>>
    BY <1>5 DEF Settle, Goto, CapacityTypeOK
  <2> QED BY <2>3, <2>4, CapacityTypeFrom DEF CapacityTypeOK
<1>6. ASSUME NEW c \in Callers, Release(c)
      PROVE  CapacityTypeOK'
  <2>0. gate.active > 0
    BY <1>6, ReleaseHolds
  <2>1. gate # NoGate /\ gate \in GateType
    BY <1>0, <1>6 DEF Release, InReview, GateSound
  <2>2. gate' = [gate EXCEPT !.active = @ - 1]
    BY <1>6 DEF Release
  <2>3. GateSound(gate)' /\ gate' # NoGate
    <3>1. /\ gate' \in GateType /\ gate'.limit = gate.limit /\ gate'.effective = gate.effective
      BY <2>0, <2>1, <2>2 DEF GateType
    <3>2. gate.effective \in 1 .. gate.limit /\ gate.limit \in Nat /\ NoGate.effective = 0
      BY <1>0, <2>1 DEF GateSound, GateType, NoGate
    <3> QED BY <3>1, <3>2 DEF GateSound
  <2>4. at' \in [Callers -> Places] /\ left' \in [Callers -> 0 .. MaxDelay]
    BY <1>6, CapacityAssumption DEF Release, Woken, CapacityTypeOK
  <2>5. tries' \in [Callers -> 0 .. RequestRetries]
    <3>1. Repeats(c) => tries[c] + 1 \in 0 .. RequestRetries
      BY CapacityAssumption DEF Repeats, CapacityTypeOK
    <3> QED BY <1>6, <3>1, CapacityAssumption DEF Release, CapacityTypeOK
  <2>6. stopped' \in [Callers -> BOOLEAN] /\ answer' \in [Callers -> Answers]
    BY <1>6 DEF Release, CapacityTypeOK, Answers
  <2> QED BY <2>3, <2>4, <2>5, <2>6, CapacityTypeFrom DEF CapacityTypeOK
<1>7. ASSUME NEW calls \in SUBSET Callers, Stop(calls)
      PROVE  CapacityTypeOK'
  BY <1>7 DEF Stop, CapacityTypeOK, InReview
<1>8. ASSUME Tick
      PROVE  CapacityTypeOK'
  <2>1. gate \in GateType /\ gate' = [gate EXCEPT !.until = Largest(0, @ - 1)]
    BY <1>0, <1>8 DEF Tick, GateSound
  <2>2. left' \in [Callers -> 0 .. MaxDelay]
    <3>1. \A c \in Callers : left[c] \in 0 .. MaxDelay /\ (Counting(c) => left[c] > 0)
      BY DEF Counting, CapacityTypeOK
    <3>2. \A c \in Callers : Counting(c) => left[c] - 1 \in 0 .. MaxDelay
      BY <3>1, CapacityAssumption
    <3> QED BY <1>8, <3>1, <3>2 DEF Tick
  <2>3. /\ gate' \in GateType /\ gate'.limit = gate.limit /\ gate'.effective = gate.effective
    <3>1. Largest(0, gate.until - 1) \in 0 .. MaxDelay
      BY <2>1, CapacityAssumption DEF GateType, Largest
    <3> QED BY <2>1, <3>1 DEF GateType
  <2>4. CASE gate = NoGate
    BY <1>0, <1>8, <2>2, <2>3, <2>4
       DEF Tick, GateSound, GateType, NoGate, Largest, CapacityTypeOK, InReview
  <2>5. CASE gate # NoGate
    <3>1. gate.effective \in 1 .. gate.limit /\ gate.limit \in Nat /\ NoGate.effective = 0
      BY <1>0, <2>1, <2>5 DEF GateSound, GateType, NoGate
    <3>2. GateSound(gate)' /\ gate' # NoGate
      BY <2>3, <3>1 DEF GateSound
    <3> QED BY <1>8, <2>2, <3>2, CapacityTypeFrom DEF Tick, CapacityTypeOK
  <2> QED BY <2>4, <2>5
<1>9. CASE UNCHANGED capacityVars
  BY <1>9 DEF capacityVars, CapacityTypeOK, InReview
<1> QED
  BY <1>1, <1>2, <1>3, <1>4, <1>5, <1>6, <1>7, <1>8, <1>9 DEF CapacityNext, CallStep

\* A slot is counted while its request is in flight.
LEMMA SlotsNext ==
    ASSUME CapacityTypeOK, SlotsCounted, [CapacityNext]_capacityVars
    PROVE  SlotsCounted'
<1> USE DEF InFlight, SlotsCounted
<1>0. GateSound(gate) /\ gate \in GateType
  BY CapacityTypeSound DEF GateSound
<1>1. ASSUME gate'.active = gate.active, InFlight' = InFlight
      PROVE  SlotsCounted'
  BY <1>1
<1>2. ASSUME NEW c \in Callers, NEW limit \in Limits, NEW over \in BOOLEAN, Review(c, limit, over)
      PROVE  SlotsCounted'
  <2>1. gate'.active = gate.active
    BY <1>0, <1>2, SharedGateSound DEF Review
  <2>2. InFlight' = InFlight
    BY <1>2 DEF Review, Goto, CapacityTypeOK
  <2> QED BY <1>1, <2>1, <2>2
<1>3. ASSUME NEW c \in Callers, Enter(c) \/ GiveUp(c) \/ Wake(c) \/ Answer(c)
      PROVE  SlotsCounted'
  <2>1. gate' = gate
    BY <1>3 DEF Enter, GiveUp, Wake, Answer
  <2>2. InFlight' = InFlight
    BY <1>3 DEF Enter, GiveUp, Wake, Answer, Cancelled, AfterAnswer, Goto, CapacityTypeOK
  <2> QED BY <1>1, <2>1, <2>2
<1>4. ASSUME NEW c \in Callers, Acquire(c)
      PROVE  SlotsCounted'
  <2>1. CASE at'[c] = "call"
    <3>1. gate' = [gate EXCEPT !.active = @ + 1]
      BY <1>4, <2>1 DEF Acquire, Goto, CapacityTypeOK
    <3>2. gate'.active = gate.active + 1
      BY <1>0, <3>1 DEF GateType
    <3>3. InFlight' = InFlight \cup {c} /\ c \notin InFlight
      BY <1>4, <2>1 DEF Acquire, Goto, CapacityTypeOK
    <3> QED BY <3>2, <3>3, InFlightFinite, FS_AddElement
  <2>2. CASE at'[c] # "call"
    <3>1. gate' = gate
      BY <1>4, <2>2 DEF Acquire, Goto, CapacityTypeOK
    <3>2. InFlight' = InFlight
      BY <1>4, <2>2 DEF Acquire, Goto, CapacityTypeOK
    <3> QED BY <1>1, <3>1, <3>2
  <2> QED BY <2>1, <2>2
<1>5. ASSUME NEW c \in Callers, Settle(c)
      PROVE  SlotsCounted'
  <2>1. gate # NoGate /\ left[c] \in 0 .. MaxDelay
    BY <1>5 DEF Settle, InReview, CapacityTypeOK
  <2>2. gate' \in {Cooled(left[c]), Credited, gate}
    BY <1>5 DEF Settle
  <2>3. gate'.active = gate.active
    BY <1>0, <2>1, <2>2, CooledSound, CreditedSound
  <2>4. InFlight' = InFlight
    BY <1>5 DEF Settle, Goto, CapacityTypeOK
  <2> QED BY <1>1, <2>3, <2>4
<1>6. ASSUME NEW c \in Callers, Release(c)
      PROVE  SlotsCounted'
  <2>1. gate' = [gate EXCEPT !.active = @ - 1]
    BY <1>6 DEF Release
  <2>2. gate'.active = gate.active - 1
    BY <1>0, <2>1 DEF GateType
  <2>3. InFlight' = InFlight \ {c} /\ c \in InFlight
    BY <1>6 DEF Release, Woken, CapacityTypeOK
  <2> QED BY <2>2, <2>3, InFlightFinite, FS_RemoveElement
<1>7. ASSUME NEW calls \in SUBSET Callers, Stop(calls)
      PROVE  SlotsCounted'
  BY <1>7 DEF Stop
<1>8. ASSUME Tick
      PROVE  SlotsCounted'
  <2>1. gate'.active = gate.active
    BY <1>0, <1>8 DEF Tick, GateType
  <2> QED BY <1>1, <1>8, <2>1 DEF Tick
<1>9. CASE UNCHANGED capacityVars
  BY <1>9 DEF capacityVars
<1> QED
  BY <1>2, <1>3, <1>4, <1>5, <1>6, <1>7, <1>8, <1>9 DEF CapacityNext, CallStep

\* What could leave a waiter at an open gate wakes every waiter, or is followed
\* by a release that will.
LEMMA NoIdleNext ==
    ASSUME CapacityTypeOK, NoIdleCapacity, [CapacityNext]_capacityVars
    PROVE  NoIdleCapacity'
<1> USE DEF NoIdleCapacity
<1>0. /\ GateSound(gate) /\ gate \in GateType
      /\ \A c \in Callers : at[c] = "wait" => gate # NoGate
  BY CapacityTypeSound DEF GateSound, CapacityTypeOK, InReview
<1>1. gate.active \in Nat /\ gate.effective \in Nat
  BY <1>0 DEF GateType
<1>2. ASSUME \A x \in Callers : at'[x] = "wait" => at[x] = "wait",
             \A x \in Callers : at[x] = "release" => at'[x] = "release",
             gate'.active = gate.active, gate'.effective \in Nat,
             (\E x \in Callers : at[x] = "wait") => gate'.effective <= gate.effective
      PROVE  NoIdleCapacity'
  BY <1>1, <1>2 DEF Free
<1>3. ASSUME NEW c \in Callers, NEW limit \in Limits, NEW over \in BOOLEAN, Review(c, limit, over)
      PROVE  NoIdleCapacity'
  <2>1. /\ gate' = SharedGate(limit) /\ at[c] \in {"idle", "done"}
        /\ at' = [at EXCEPT ![c] = "enter"]
    BY <1>3 DEF Review, Goto
  <2>2. /\ gate'.active = gate.active /\ gate'.effective \in Nat
        /\ gate # NoGate => gate'.effective <= gate.effective
    BY <1>0, <2>1, SharedGateSound DEF GateSound, GateType
  <2>3. /\ \A x \in Callers : at'[x] = "wait" => at[x] = "wait"
        /\ \A x \in Callers : at[x] = "release" => at'[x] = "release"
    BY <2>1 DEF CapacityTypeOK
  <2> QED BY <1>0, <1>2, <2>2, <2>3
<1>4. ASSUME NEW c \in Callers, Enter(c) \/ GiveUp(c) \/ Wake(c) \/ Answer(c)
      PROVE  NoIdleCapacity'
  <2>1. gate' = gate /\ at[c] # "release" /\ \E place \in Places \ {"wait"} : at' = [at EXCEPT ![c] = place]
    BY <1>4 DEF Enter, GiveUp, Wake, Answer, Cancelled, AfterAnswer, Goto, Places
  <2>2. /\ \A x \in Callers : at'[x] = "wait" => at[x] = "wait"
        /\ \A x \in Callers : at[x] = "release" => at'[x] = "release"
    BY <2>1 DEF CapacityTypeOK
  <2> QED BY <1>1, <1>2, <2>1, <2>2
<1>5. ASSUME NEW c \in Callers, Acquire(c)
      PROVE  NoIdleCapacity'
  <2>1. CASE at'[c] = "wait"
    <3>1. gate' = gate /\ ~Free
      BY <1>5, <2>1 DEF Acquire, Goto, CapacityTypeOK
    <3> QED BY <3>1 DEF Free
  <2>2. CASE at'[c] # "wait"
    <3>1. /\ \A x \in Callers : at'[x] = "wait" => at[x] = "wait"
          /\ \A x \in Callers : at[x] = "release" => at'[x] = "release"
      BY <1>5, <2>2 DEF Acquire, Goto, CapacityTypeOK
    <3>2. CASE gate' = gate
      BY <1>1, <1>2, <3>1, <3>2
    <3>3. CASE gate' = [gate EXCEPT !.active = @ + 1]
      <4>1. gate'.active = gate.active + 1 /\ gate'.effective = gate.effective
        BY <1>0, <3>3 DEF GateType
      <4> QED BY <1>1, <3>1, <4>1 DEF Free
    <3> QED BY <1>5, <3>2, <3>3 DEF Acquire
  <2> QED BY <2>1, <2>2
<1>6. ASSUME NEW c \in Callers, Settle(c)
      PROVE  NoIdleCapacity'
  <2>1. at'[c] = "release"
    BY <1>6 DEF Settle, Goto, CapacityTypeOK
  <2> QED BY <2>1
<1>7. ASSUME NEW c \in Callers, Release(c)
      PROVE  NoIdleCapacity'
  <2>1. \A x \in Callers : at'[x] # "wait"
    BY <1>7 DEF Release, Woken
  <2> QED BY <2>1
<1>8. ASSUME NEW calls \in SUBSET Callers, Stop(calls)
      PROVE  NoIdleCapacity'
  BY <1>8 DEF Stop, Free
<1>9. ASSUME Tick
      PROVE  NoIdleCapacity'
  <2>1. gate'.active = gate.active /\ gate'.effective = gate.effective
    BY <1>0, <1>9 DEF Tick, GateType
  <2> QED BY <1>9, <2>1 DEF Tick, Free
<1>10. CASE UNCHANGED capacityVars
  BY <1>10 DEF capacityVars, Free
<1> QED
  BY <1>3, <1>4, <1>5, <1>6, <1>7, <1>8, <1>9, <1>10 DEF CapacityNext, CallStep

\* The gate's invariant.
LEMMA CapacityInvNext == CapacityInv /\ [CapacityNext]_capacityVars => CapacityInv'
  BY CapacityTypeNext, SlotsNext, NoIdleNext DEF CapacityInv

\* The gate counts every slot once and leaves nobody waiting beside a free one.
THEOREM GateSafe == CapacitySpec => [](CapacityTypeOK /\ SlotsCounted /\ NoIdleCapacity)
  BY CapacityInvInit, CapacityInvNext, PTL DEF CapacitySpec, CapacityInv

-----------------------------------------------------------------------------
(* The composed review                                                      *)

RunTyped ==
    /\ phase \in {"review", "verify", "aggregate", "ok", "findings", "error", "unwritten"}
    /\ cancelled \in BOOLEAN
    /\ job \in [Jobs -> {"new", "attempt", "asking", "done", "verifying"}]
    /\ outcome \in [Jobs -> Complete \cup Failures \cup {Unknown}]
    /\ decision \in [Jobs -> Settled \cup {Unknown}]
    /\ stage = [j \in Jobs |-> stage[j]]

\* Only a goroutine that asks has a call at the gate.
Asking == \A j \in Jobs : InReview(j) => job[j] \in {"asking", "verifying"}

\* A goroutine ends with its result written, and only the verification starts others.
Joined ==
    /\ \A j \in Jobs : job[j] \in {"done", "verifying"} => outcome[j] # Unknown
    /\ phase # "review" => \A j \in Jobs : job[j] \in {"done", "verifying"}
    /\ \A j \in Jobs : job[j] = "verifying" =>
          phase = "verify" /\ j \in Candidates /\ stage[j] # NoStage /\ decision[j] = Unknown

\* What the verification and the aggregation find.
Ready ==
    /\ phase \in {"verify", "aggregate"} => \A j \in Jobs : outcome[j] # "partial"
    /\ phase = "aggregate" /\ verify => \A j \in Candidates : decision[j] \in Settled
    /\ \A j \in Jobs : stage[j] # NoStage => phase # "review" /\ j \in Candidates
    /\ ~Over => output = NoOutput

Results == ShipSound /\ PublishedSound /\ ExitRight

RunInv == RunTyped /\ Asking /\ Joined /\ Ready /\ Results

\* A review begins with every job still to run.
LEMMA RunInvInit == Init => RunInv
<1> SUFFICES ASSUME Init PROVE RunInv
  OBVIOUS
<1> USE DEF Init, CapacityInit
<1>1. RunTyped
  BY DEF RunTyped, Unknown
<1>2. Asking
  BY ReviewAssumption DEF Asking, InReview
<1>3. Joined
  BY DEF Joined
<1>4. Ready
  BY DEF Ready
<1>5. Results
  BY DEF Results, ShipSound, PublishedSound, ExitRight, NoOutput
<1> QED BY <1>1, <1>2, <1>3, <1>4, <1>5 DEF RunInv

\* The gate's own steps do not touch the review, nor put a call where none was.
LEMMA GateKeepsRun ==
    ASSUME RunInv, UNCHANGED runVars,
           \A j \in Jobs : at[j] \in {"idle", "done"} => at'[j] \in {"idle", "done"}
    PROVE  RunInv'
<1> USE DEF RunInv, runVars
<1>1. RunTyped'
  BY DEF RunTyped
<1>2. Asking'
  BY DEF Asking, InReview
<1>3. Joined'
  BY DEF Joined, Candidates
<1>4. Ready'
  BY DEF Ready, Candidates, Over
<1>5. Results'
  BY DEF Results, ShipSound, PublishedSound, ExitRight, Candidates, Failed, Completed
<1> QED BY <1>1, <1>2, <1>3, <1>4, <1>5

\* The steps of the gate are of that kind.
LEMMA GateSteps ==
    ASSUME CapacityTypeOK, Gate \/ (\E j \in Jobs : TimeOut(j))
    PROVE  /\ UNCHANGED runVars
           /\ \A j \in Jobs : at[j] \in {"idle", "done"} => at'[j] \in {"idle", "done"}
<1>0. Callers = Jobs /\ at = [j \in Jobs |-> at[j]]
  BY ReviewAssumption DEF CapacityTypeOK
<1>1. CASE Tick /\ UNCHANGED runVars
  BY <1>1 DEF Tick
<1>2. ASSUME NEW c \in Jobs, Enter(c) \/ Acquire(c) \/ Wake(c) \/ GiveUp(c) \/ Answer(c) \/ Settle(c)
      PROVE  \A j \in Jobs : at[j] \in {"idle", "done"} => at'[j] \in {"idle", "done"}
  <2>1. at[c] \notin {"idle", "done"}
    BY <1>2 DEF Enter, Acquire, Wake, GiveUp, Answer, Settle
  <2>2. \A j \in Jobs : j # c => at'[j] = at[j]
    BY <1>0, <1>2 DEF Enter, Acquire, Wake, GiveUp, Answer, Settle, Cancelled, Goto
  <2> QED BY <2>1, <2>2
<1>3. ASSUME NEW c \in Jobs, Release(c)
      PROVE  \A j \in Jobs : at[j] \in {"idle", "done"} => at'[j] \in {"idle", "done"}
  BY <1>0, <1>3 DEF Release, Woken
<1>4. CASE \E j \in Jobs : TimeOut(j)
  BY <1>4 DEF TimeOut, Stop
<1> QED BY <1>1, <1>2, <1>3, <1>4 DEF Gate, CallStep

\* A review job works while the results are not collected.
LEMMA JobKeeps ==
    ASSUME CapacityTypeOK, RunInv, NEW j \in Jobs, JobStep(j)
    PROVE  RunInv'
<1> USE DEF RunInv
<1>0. Callers = Jobs /\ at = [i \in Jobs |-> at[i]]
  BY ReviewAssumption DEF CapacityTypeOK
<1>1. /\ job[j] \in {"new", "attempt", "asking"} /\ phase = "review" /\ phase' = phase
      /\ UNCHANGED <<cancelled, verify, stage, decision, unverified, output>>
  BY DEF JobStep, StartJob, SkipJob, AskModel, EndAttempt, Joined, RunTyped
<1>2. /\ job' \in [Jobs -> {"new", "attempt", "asking", "done", "verifying"}]
      /\ outcome' \in [Jobs -> Complete \cup Failures \cup {Unknown}]
      /\ \A i \in Jobs : i # j => job'[i] = job[i] /\ outcome'[i] = outcome[i] /\ at'[i] = at[i]
      /\ job'[j] \in {"attempt", "asking", "done"}
      /\ job'[j] = "done" => outcome'[j] # Unknown
      /\ at'[j] \notin {"idle", "done"} => job'[j] = "asking"
  <2>1. CASE StartJob(j)
    BY <1>0, <1>1, <2>1 DEF StartJob, RunTyped, capacityVars, Asking, InReview
  <2>2. CASE SkipJob(j)
    BY <1>0, <1>1, <2>2 DEF SkipJob, RunTyped, capacityVars, Failures, Asking, InReview, Unknown
  <2>3. CASE AskModel(j)
    BY <1>0, <1>1, <2>3 DEF AskModel, Review, Goto, RunTyped
  <2>4. CASE EndAttempt(j)
    <3>1. /\ UNCHANGED capacityVars /\ (job[j] = "attempt" \/ (job[j] = "asking" /\ ~InReview(j)))
          /\ \E how \in Complete \cup Failures :
                \/ job' = [job EXCEPT ![j] = "attempt"] /\ UNCHANGED outcome
                \/ /\ job' = [job EXCEPT ![j] = "done"]
                   /\ outcome' = [outcome EXCEPT ![j] = how]
      BY <2>4 DEF EndAttempt, Ends
    <3>2. Unknown \notin Complete \cup Failures
      BY DEF Complete, Failures, Unknown
    <3> QED BY <1>0, <1>1, <3>1, <3>2 DEF RunTyped, capacityVars, Asking, InReview
  <2> QED BY <2>1, <2>2, <2>3, <2>4 DEF JobStep
<1>3. RunTyped'
  BY <1>1, <1>2 DEF RunTyped
<1>4. Asking'
  BY <1>2 DEF Asking, InReview
<1>5. Joined'
  BY <1>1, <1>2 DEF Joined
<1>6. ~Over' /\ output' = NoOutput
  BY <1>1 DEF Ready, Over
<1>7. Ready'
  BY <1>1, <1>6 DEF Ready
<1>8. Results'
  BY <1>6 DEF Results, ShipSound, PublishedSound, ExitRight, NoOutput, Over
<1> QED BY <1>3, <1>4, <1>5, <1>7, <1>8

\* The loop over the results drops what failed reviewers left, or gives up.
LEMMA CollectKeeps ==
    ASSUME RunInv, Collect
    PROVE  RunInv'
<1> USE DEF RunInv
<1>1. /\ phase = "review" /\ \A j \in Jobs : job[j] = "done"
      /\ UNCHANGED <<at, cancelled, verify, job, stage, decision, unverified, output>>
      /\ \/ cancelled /\ phase' = "error" /\ outcome' = outcome
         \/ phase' \in {"verify", "aggregate"} /\ outcome' = [j \in Jobs |-> Kept(j)]
            /\ (phase' = "aggregate" <=> ~verify)
  BY DEF Collect, JobsOver, capacityVars
<1>2. \A j \in Jobs : /\ Kept(j) \in (Complete \cup Failures \cup {Unknown}) \ {"partial"}
                      /\ outcome[j] # Unknown => Kept(j) # Unknown
  BY DEF Kept, RunTyped, Failures, Complete, Unknown
<1>3. RunTyped'
  BY <1>1, <1>2 DEF RunTyped
<1>4. Asking'
  BY <1>1 DEF Asking, InReview
<1>5. \A j \in Jobs : stage[j] = NoStage
  BY <1>1 DEF Ready
<1>6. Joined'
  BY <1>1, <1>2 DEF Joined
<1>7. output' = NoOutput
  BY <1>1 DEF Ready, Over
<1>8. Ready'
  BY <1>1, <1>2, <1>5, <1>7 DEF Ready
<1>9. Results'
  BY <1>1, <1>7 DEF Results, ShipSound, PublishedSound, ExitRight, NoOutput
<1> QED BY <1>3, <1>4, <1>6, <1>8, <1>9

\* The verification decides every candidate, or ends with an error.
LEMMA VerifyKeeps ==
    ASSUME CapacityTypeOK, RunInv, NEW j \in Jobs, VerifyStep(j)
    PROVE  RunInv'
<1> USE DEF RunInv
<1>0. Callers = Jobs /\ at = [i \in Jobs |-> at[i]]
  BY ReviewAssumption DEF CapacityTypeOK
<1>1. /\ phase = "verify" /\ phase' = phase /\ j \in Candidates
      /\ UNCHANGED <<cancelled, verify, outcome, unverified, output>>
      /\ \A i \in Jobs : i # j => /\ job'[i] = job[i] /\ at'[i] = at[i]
                                  /\ stage'[i] = stage[i] /\ decision'[i] = decision[i]
      /\ job' \in [Jobs -> {"new", "attempt", "asking", "done", "verifying"}]
      /\ decision' \in [Jobs -> Settled \cup {Unknown}]
      /\ stage' = [i \in Jobs |-> stage'[i]]
      /\ job'[j] \in {"done", "verifying"}
      /\ job'[j] = "verifying" => stage'[j] # NoStage /\ decision'[j] = Unknown
      /\ at'[j] \notin {"idle", "done"} => job'[j] = "verifying"
  <2>1. CASE StartVerify(j)
    <3>1. /\ phase = "verify" /\ j \in Candidates /\ stage[j] = NoStage
          /\ UNCHANGED <<at, phase, cancelled, verify, job, outcome, unverified, output>>
          /\ stage' = [stage EXCEPT ![j] = [round |-> 1, try |-> 1]]
          /\ decision' = decision \/ decision' = [decision EXCEPT ![j] = "failed"]
      BY <2>1 DEF StartVerify, Decide, capacityVars
    <3>2. job[j] = "done"
      BY <3>1 DEF Joined
    <3> QED BY <1>0, <3>1, <3>2 DEF RunTyped, Settled, Asking, InReview
  <2>2. CASE AskVerifier(j)
    <3>1. /\ phase = "verify" /\ stage[j] # NoStage /\ decision[j] = Unknown /\ job[j] = "done"
          /\ UNCHANGED <<phase, cancelled, verify, outcome, unverified, output, stage>>
          /\ \/ /\ job' = [job EXCEPT ![j] = "verifying"] /\ decision' = decision
                /\ at' = [at EXCEPT ![j] = "enter"]
             \/ /\ decision' = [decision EXCEPT ![j] = "failed"] /\ UNCHANGED <<at, job>>
      BY <2>2 DEF AskVerifier, Open, Decide, Review, Goto, capacityVars
    <3>2. j \in Candidates
      BY <3>1 DEF Ready
    <3> QED BY <1>0, <3>1, <3>2 DEF RunTyped, Settled, Asking, InReview
  <2>3. CASE VerifierAnswers(j)
    <3>1. /\ phase = "verify" /\ stage[j] # NoStage /\ decision[j] = Unknown
          /\ job' = [job EXCEPT ![j] = "done"] /\ ~InReview(j)
          /\ UNCHANGED <<at, phase, cancelled, verify, outcome, unverified, output>>
      BY <2>3 DEF VerifierAnswers, Open, capacityVars
    <3>2. /\ decision' = decision
             \/ \E what \in Settled : decision' = [decision EXCEPT ![j] = what]
          /\ stage' = stage \/ \E new : stage' = [stage EXCEPT ![j] = new]
      BY <2>3 DEF VerifierAnswers, Decide, Settled, Published
    <3>3. j \in Candidates
      BY <3>1 DEF Ready
    <3> QED BY <1>0, <3>1, <3>2, <3>3 DEF RunTyped, InReview
  <2> QED BY <2>1, <2>2, <2>3 DEF VerifyStep
<1>2. RunTyped'
  BY <1>1 DEF RunTyped
<1>3. Asking'
  BY <1>1 DEF Asking, InReview
<1>4. Candidates' = Candidates
  BY <1>1 DEF Candidates
<1>5. Joined'
  BY <1>1, <1>4 DEF Joined
<1>6. output' = NoOutput
  BY <1>1 DEF Ready, Over
<1>7. Ready'
  BY <1>1, <1>4, <1>6 DEF Ready
<1>8. Results'
  BY <1>1, <1>6 DEF Results, ShipSound, PublishedSound, ExitRight, NoOutput
<1> QED BY <1>2, <1>3, <1>5, <1>7, <1>8

\* With every candidate decided no verifier is left behind.
LEMMA EndVerifyKeeps ==
    ASSUME RunInv, RefuseSnapshot \/ EndVerify
    PROVE  RunInv'
<1> USE DEF RunInv
<1>1. /\ phase = "verify" /\ phase' \in {"error", "aggregate"}
      /\ UNCHANGED <<at, cancelled, verify, job, outcome, stage, decision, output>>
      /\ phase' = "error" => unverified'
      /\ phase' = "aggregate" => \A j \in Candidates : decision[j] \in Settled
      /\ \A j \in Jobs : job[j] # "verifying"
  <2>1. Unknown \notin Settled
    BY DEF Unknown, Settled, Published
  <2> QED BY <2>1 DEF RefuseSnapshot, EndVerify, capacityVars, Joined
<1>2. RunTyped'
  BY <1>1 DEF RunTyped
<1>3. Asking'
  BY <1>1 DEF Asking, InReview
<1>4. Candidates' = Candidates
  BY <1>1 DEF Candidates
<1>5. Joined'
  BY <1>1 DEF Joined
<1>6. output' = NoOutput
  BY <1>1 DEF Ready, Over
<1>7. Ready'
  BY <1>1, <1>4, <1>6 DEF Ready
<1>8. Results'
  BY <1>1, <1>6 DEF Results, ShipSound, PublishedSound, ExitRight, NoOutput
<1> QED BY <1>2, <1>3, <1>5, <1>7, <1>8

\* The result says what the review found, and no more.
LEMMA AggregateKeeps ==
    ASSUME RunInv, Aggregate
    PROVE  RunInv'
<1> USE DEF RunInv
<1>1. /\ phase = "aggregate" /\ phase' \in {"error", "ok", "findings", "unwritten"}
      /\ UNCHANGED <<at, cancelled, verify, job, outcome, stage, decision, unverified>>
  BY DEF Aggregate, capacityVars
<1>2. /\ Candidates' = Candidates /\ Failed' = Failed /\ Completed' = Completed
      /\ Over'
  BY <1>1 DEF Candidates, Failed, Completed, Over
<1>3. RunTyped' /\ Asking' /\ Joined' /\ Ready'
  <2>1. RunTyped'
    BY <1>1 DEF RunTyped
  <2>2. Asking'
    BY <1>1 DEF Asking, InReview
  <2>3. Joined'
    BY <1>1, <1>2 DEF Joined
  <2>4. Ready'
    BY <1>1, <1>2 DEF Ready
  <2> QED BY <2>1, <2>2, <2>3, <2>4
<1>4. \A j \in Jobs : outcome[j] \in (Complete \cup Failures) \ {"partial"}
  BY <1>1 DEF RunTyped, Ready, Joined
<1>5. CASE \A j \in Jobs : ~HasEnvelope(j)
  <2>1. phase' = "error" /\ output' = NoOutput
    BY <1>1, <1>5 DEF Aggregate, Ready, Over
  <2>2. Failed = Jobs /\ Completed = {} /\ 1 \in Jobs
    BY <1>4, <1>5, ReviewAssumption DEF Failed, Completed, HasEnvelope, Complete, Failures, Jobs
  <2>3. Results'
    BY <1>2, <2>1, <2>2 DEF Results, ShipSound, PublishedSound, ExitRight, NoOutput
  <2> QED BY <1>3, <2>3
<1>6. CASE phase' = "unwritten"
  <2>1. output' = NoOutput
    BY <1>1, <1>6 DEF Aggregate, Ready, Over, Fatal
  <2>2. Results'
    BY <1>6, <2>1 DEF Results, ShipSound, PublishedSound, ExitRight, NoOutput
  <2> QED BY <1>3, <2>2
<1>7. CASE (\E j \in Jobs : HasEnvelope(j)) /\ phase' # "unwritten"
  <2> DEFINE findings == {j \in Jobs : Publishes(j)}
  <2>1. /\ phase' = IF Fatal THEN "error" ELSE IF findings # {} THEN "findings" ELSE "ok"
        /\ \E opinion \in Opinions(findings) : output' = [findings |-> findings, ship |-> opinion]
    BY <1>7 DEF Aggregate
  <2>2. PICK opinion \in Opinions(findings) :
          output'.findings = findings /\ output'.ship = opinion
    BY <2>1
  <2>3. findings = {j \in Jobs : /\ outcome[j] \in {"findings", "doubted"}
                                 /\ verify => decision[j] \notin {"reject", "open", "failed"}}
    <3>1. \A j \in Jobs : j \in Candidates <=> outcome[j] \in {"findings", "doubted"}
      BY <1>4 DEF Candidates
    <3>2. verify => \A j \in Candidates : decision[j] \in Settled
      BY <1>1 DEF Ready
    <3> QED BY <3>1, <3>2 DEF Publishes, Settled, Published
  <2>4. PublishedSound'
    BY <1>1, <2>2, <2>3 DEF PublishedSound
  <2>5. ExitRight'
    BY <1>1, <1>2, <2>1, <2>2 DEF ExitRight, Fatal, HardErr
  <2>6. ASSUME opinion = "yes"
        PROVE  /\ \A j \in Jobs : outcome[j] \in {"clean", "findings", "skipped"}
               /\ verify => findings = {} /\ \A j \in Candidates : decision[j] = "reject"
    <3>1. ~Incomplete /\ (verify => Verified /\ findings = {})
      BY <2>2, <2>6 DEF Opinions
    <3>2. \A j \in Jobs : outcome[j] \in {"clean", "findings", "skipped"}
      BY <1>4, <3>1 DEF Incomplete, Failed, Failures, Complete
    <3>3. verify => \A j \in Candidates : decision[j] \in Settled
      BY <1>1 DEF Ready
    <3>4. ASSUME verify, NEW j \in Candidates
          PROVE  decision[j] = "reject"
      <4>1. decision[j] \notin {"open", "failed"} /\ j \in Jobs
        BY <3>1, <3>4 DEF Verified, Withheld, Candidates
      <4>2. decision[j] \notin Published
        BY <3>1, <3>4, <4>1 DEF Publishes
      <4> QED BY <3>3, <3>4, <4>1, <4>2 DEF Settled
    <3> QED BY <3>1, <3>2, <3>4
  <2>7. ShipSound'
    BY <1>1, <1>2, <2>2, <2>6 DEF ShipSound
  <2> QED BY <1>3, <2>4, <2>5, <2>7 DEF Results
<1> QED BY <1>5, <1>6, <1>7

ReviewInv == CapacityInv /\ RunInv

\* Whatever a composed review does to the gate, the gate allows.
LEMMA ReviewGate ==
    ASSUME RunInv, [Next \/ Rest]_vars
    PROVE  [CapacityNext]_capacityVars
<1> SUFFICES CapacityNext \/ UNCHANGED capacityVars
  OBVIOUS
<1> USE DEF CapacityNext
<1>0. Callers = Jobs
  BY ReviewAssumption
<1>1. ASSUME Gate PROVE CapacityNext \/ UNCHANGED capacityVars
  BY <1>0, <1>1 DEF Gate
<1>2. ASSUME RunStep PROVE UNCHANGED capacityVars
  BY <1>2 DEF RunStep, Collect, RefuseSnapshot, EndVerify, Aggregate
<1>3. ASSUME Cancel PROVE CapacityNext
  <2>1. {j \in Jobs : InReview(j)} \in SUBSET Callers
    BY <1>0
  <2> QED BY <1>3, <2>1 DEF Cancel
<1>4. ASSUME NEW j \in Jobs, TimeOut(j) PROVE CapacityNext
  <2>1. {j} \in SUBSET Callers
    BY <1>0
  <2> QED BY <1>4, <2>1 DEF TimeOut
<1>5. ASSUME NEW j \in Jobs, AskModel(j) PROVE CapacityNext
  <2>1. cancelled \in BOOLEAN
    BY DEF RunInv, RunTyped
  <2> QED BY <1>0, <1>5, <2>1 DEF AskModel
<1>6. ASSUME NEW j \in Jobs, StartJob(j) \/ SkipJob(j) \/ EndAttempt(j) PROVE UNCHANGED capacityVars
  BY <1>6 DEF StartJob, SkipJob, EndAttempt
<1>7. ASSUME NEW j \in Jobs, StartVerify(j) \/ VerifierAnswers(j) PROVE UNCHANGED capacityVars
  BY <1>7 DEF StartVerify, VerifierAnswers
<1>8. ASSUME NEW j \in Jobs, AskVerifier(j) PROVE CapacityNext \/ UNCHANGED capacityVars
  BY <1>0, <1>8 DEF AskVerifier
<1>9. CASE Rest \/ UNCHANGED vars
  BY <1>9 DEF Rest, vars
<1> QED
  BY <1>1, <1>2, <1>3, <1>4, <1>5, <1>6, <1>7, <1>8, <1>9 DEF Next, JobStep, VerifyStep

\* Every step of a composed review keeps its invariant.
LEMMA RunInvNext ==
    ASSUME CapacityTypeOK, RunInv, [Next \/ Rest]_vars
    PROVE  RunInv'
<1>1. CASE Gate \/ \E j \in Jobs : TimeOut(j)
  BY <1>1, GateSteps, GateKeepsRun
<1>2. CASE Cancel
  <2>1. /\ cancelled' = TRUE /\ ~Over
        /\ UNCHANGED <<at, phase, verify, job, outcome, stage, decision, unverified, output>>
    BY <1>2 DEF Cancel, Stop
  <2> USE DEF RunInv
  <2>2. RunTyped'
    BY <2>1 DEF RunTyped
  <2>3. Asking'
    BY <2>1 DEF Asking, InReview
  <2>4. Joined' /\ Ready'
    BY <2>1 DEF Joined, Ready, Candidates, Over
  <2>5. output' = NoOutput /\ ~Over'
    BY <2>1 DEF Ready, Over
  <2>6. Results'
    BY <2>5 DEF Results, ShipSound, PublishedSound, ExitRight, NoOutput, Over
  <2> QED BY <2>2, <2>3, <2>4, <2>6
<1>3. CASE RunStep
  BY <1>3, CollectKeeps, EndVerifyKeeps, AggregateKeeps DEF RunStep
<1>4. ASSUME NEW j \in Jobs, JobStep(j) \/ VerifyStep(j)
      PROVE  RunInv'
  BY <1>4, JobKeeps, VerifyKeeps
<1>5. CASE Rest \/ UNCHANGED vars
  <2>1. UNCHANGED <<at, runVars>>
    BY <1>5 DEF Rest, vars, capacityVars
  <2> QED BY <2>1, GateKeepsRun
<1> QED BY <1>1, <1>2, <1>3, <1>4, <1>5 DEF Next

\* The invariant of a composed review and its gate.
LEMMA ReviewInvInit == Init => ReviewInv
  BY RunInvInit, CapacityInvInit DEF Init, ReviewInv

\* And every step keeps it.
LEMMA ReviewInvNext == ReviewInv /\ [Next \/ Rest]_vars => ReviewInv'
<1> SUFFICES ASSUME ReviewInv, [Next \/ Rest]_vars
             PROVE  ReviewInv'
  OBVIOUS
<1>1. CapacityInv'
  BY ReviewGate, CapacityInvNext DEF ReviewInv
<1>2. RunInv'
  BY RunInvNext DEF ReviewInv, CapacityInv
<1> QED BY <1>1, <1>2 DEF ReviewInv

\* When a review is over nothing of it is left, neither at work nor at the gate.
LEMMA OverEmpty == ReviewInv => NothingLeft
<1> SUFFICES ASSUME ReviewInv, Over PROVE NothingLeft
  BY DEF NothingLeft
<1> USE DEF ReviewInv, RunInv
<1>1. \A j \in Jobs : job[j] = "done" /\ outcome[j] # Unknown
  BY DEF Joined, Over
<1>2. \A j \in Jobs : ~InReview(j)
  BY <1>1 DEF Asking
<1>3. InFlight = {}
  BY <1>2, ReviewAssumption DEF InFlight, InReview
<1>4. gate.active = 0
  BY <1>3, FS_EmptySet DEF CapacityInv, SlotsCounted
<1> QED BY <1>1, <1>2, <1>4 DEF NothingLeft

\* A composed review goes through the gate as the gate specifies.
THEOREM ReviewImplementsCapacity == Spec => CapacitySpec
<1>1. Init => CapacityInit
  BY DEF Init
<1>2. ReviewInv /\ [Next \/ Rest]_vars => [CapacityNext]_capacityVars
  BY ReviewGate DEF ReviewInv
<1> QED BY <1>1, <1>2, ReviewInvInit, ReviewInvNext, PTL DEF Spec, CapacitySpec

\* Every slot of the gate is held by one request in flight, in a composed review too.
THEOREM ReviewSlots == Spec => []SlotsCounted
  BY ReviewImplementsCapacity, GateSafe, PTL

\* No reviewer and no verifier waits beside a free slot.
THEOREM ReviewNoIdle == Spec => []NoIdleCapacity
  BY ReviewImplementsCapacity, GateSafe, PTL

\* A review that is over, cancelled or not, has left no work and no slot behind.
THEOREM ReviewNothingLeft == Spec => []NothingLeft
  BY OverEmpty, ReviewInvInit, ReviewInvNext, PTL DEF Spec

\* A clean opinion stands for a complete review without open questions.
THEOREM ReviewShip == Spec => []ShipSound
<1>1. ReviewInv => ShipSound
  BY DEF ReviewInv, RunInv, Results
<1> QED BY <1>1, ReviewInvInit, ReviewInvNext, PTL DEF Spec

\* What is published was found and, where asked, verified; nothing else is lost.
THEOREM ReviewPublished == Spec => []PublishedSound
<1>1. ReviewInv => PublishedSound
  BY DEF ReviewInv, RunInv, Results
<1> QED BY <1>1, ReviewInvInit, ReviewInvNext, PTL DEF Spec

\* The exit code tells an error, findings and a clean end apart.
THEOREM ReviewExit == Spec => []ExitRight
<1>1. ReviewInv => ExitRight
  BY DEF ReviewInv, RunInv, Results
<1> QED BY <1>1, ReviewInvInit, ReviewInvNext, PTL DEF Spec

\* The types that those results do not need.
OtherTypes ==
    /\ cancelled \in BOOLEAN /\ verify \in BOOLEAN /\ equipped \in BOOLEAN
    /\ attempts \in [Jobs -> 0 .. ComposeRetries + 1]
    /\ stage \in [Jobs -> [round : 0 .. Rounds, try : 0 .. Corrections]]
    /\ unverified \in BOOLEAN
    /\ output \in [findings : SUBSET Jobs, ship : {"yes", "no", "none"}]

\* They hold at first.
LEMMA OtherTypesInit == Init => OtherTypes
<1> SUFFICES ASSUME Init
             PROVE  OtherTypes
  OBVIOUS
<1>1. cancelled \in BOOLEAN /\ verify \in BOOLEAN /\ equipped \in BOOLEAN /\ unverified \in BOOLEAN
  <2>1. /\ cancelled = FALSE /\ unverified = FALSE
        /\ verify \in BOOLEAN /\ equipped \in {FALSE, verify}
    BY DEF Init
  <2> QED BY <2>1
<1>2. attempts \in [Jobs -> 0 .. ComposeRetries + 1]
  <2>1. attempts = [j \in Jobs |-> 0] /\ 0 \in 0 .. ComposeRetries + 1
    BY ReviewAssumption DEF Init
  <2> QED BY <2>1
<1>3. stage \in [Jobs -> [round : 0 .. Rounds, try : 0 .. Corrections]]
  <2>1. 0 \in 0 .. Rounds /\ 0 \in 0 .. Corrections
    BY ReviewAssumption
  <2>2. NoStage \in [round : 0 .. Rounds, try : 0 .. Corrections]
    BY <2>1 DEF NoStage
  <2>3. stage = [j \in Jobs |-> NoStage]
    BY DEF Init
  <2> QED BY <2>2, <2>3
<1>4. output \in [findings : SUBSET Jobs, ship : {"yes", "no", "none"}]
  <2>1. output = [findings |-> {}, ship |-> "none"] /\ {} \in SUBSET Jobs
    BY DEF Init, NoOutput
  <2> QED BY <2>1
<1> QED BY <1>1, <1>2, <1>3, <1>4 DEF OtherTypes

\* And every step keeps them.
LEMMA OtherTypesNext == OtherTypes /\ [Next \/ Rest]_vars => OtherTypes'
<1> SUFFICES ASSUME OtherTypes, [Next \/ Rest]_vars
             PROVE  OtherTypes'
  OBVIOUS
<1> USE DEF OtherTypes
<1>1. CASE UNCHANGED runVars
  BY <1>1 DEF runVars
<1>2. CASE RunStep \/ Cancel
  <2>1. UNCHANGED <<verify, equipped, attempts, stage>>
    BY <1>2 DEF RunStep, Collect, RefuseSnapshot, EndVerify, Aggregate, Cancel
  <2>4. cancelled' \in BOOLEAN
    BY <1>2 DEF RunStep, Collect, RefuseSnapshot, EndVerify, Aggregate, Cancel
  <2>2. unverified' \in BOOLEAN
    <3>1. CASE Cancel \/ Collect \/ RefuseSnapshot \/ Aggregate
      BY <3>1 DEF Cancel, Collect, RefuseSnapshot, Aggregate
    <3>2. CASE EndVerify
      BY <3>2 DEF EndVerify
    <3> QED BY <1>2, <3>1, <3>2 DEF RunStep
  <2>3. output' \in [findings : SUBSET Jobs, ship : {"yes", "no", "none"}]
    <3>1. CASE UNCHANGED output
      BY <3>1
    <3>2. CASE Aggregate
      <4>1. \A findings : Opinions(findings) \subseteq {"yes", "no", "none"}
        BY DEF Opinions
      <4>2. {j \in Jobs : Publishes(j)} \in SUBSET Jobs
        OBVIOUS
      <4>3. output' = output \/ \E findings \in SUBSET Jobs, ship \in {"yes", "no", "none"} :
                output' = [findings |-> findings, ship |-> ship]
        <5>1. CASE UNCHANGED output
          BY <5>1
        <5>2. CASE \E ship \in Opinions({j \in Jobs : Publishes(j)}) :
                      output' = [findings |-> {j \in Jobs : Publishes(j)}, ship |-> ship]
          <6>1. PICK ship \in Opinions({j \in Jobs : Publishes(j)}) :
                   output' = [findings |-> {j \in Jobs : Publishes(j)}, ship |-> ship]
            BY <5>2
          <6>2. ship \in {"yes", "no", "none"}
            BY <4>1
          <6> QED BY <6>1, <6>2, <4>2
        <5> QED BY <3>2, <5>1, <5>2 DEF Aggregate
      <4> QED BY <4>3
    <3> QED BY <1>2, <3>1, <3>2 DEF RunStep, Collect, RefuseSnapshot, EndVerify, Cancel
  <2> QED BY <2>1, <2>2, <2>3, <2>4
<1>3. ASSUME NEW j \in Jobs, JobStep(j)
      PROVE  OtherTypes'
  <2>1. UNCHANGED <<cancelled, verify, equipped, stage, unverified, output>>
    BY <1>3 DEF JobStep, StartJob, SkipJob, AskModel, EndAttempt
  <2>2. \/ attempts' = attempts
        \/ \E n \in {0, 1} : attempts' = [attempts EXCEPT ![j] = n]
        \/ attempts[j] <= ComposeRetries /\ attempts' = [attempts EXCEPT ![j] = attempts[j] + 1]
    BY <1>3 DEF JobStep, StartJob, SkipJob, AskModel, EndAttempt, MayRepeat, Counted
  <2>3. attempts' \in [Jobs -> 0 .. ComposeRetries + 1]
    BY <2>2, ReviewAssumption
  <2> QED BY <2>1, <2>3
<1>4. ASSUME NEW j \in Jobs, VerifyStep(j)
      PROVE  OtherTypes'
  <2>1. UNCHANGED <<cancelled, verify, equipped, attempts, unverified, output>>
    BY <1>4 DEF VerifyStep, StartVerify, AskVerifier, VerifierAnswers
  <2>2. /\ stage[j].round \in 0 .. Rounds /\ stage[j].try \in 0 .. Corrections
        /\ Rounds \in Nat \ {0} /\ Corrections \in Nat \ {0}
    BY ReviewAssumption
  <2>3. \/ stage' = stage
        \/ \E s \in [round : 0 .. Rounds, try : 0 .. Corrections] : stage' = [stage EXCEPT ![j] = s]
    <3>1. CASE AskVerifier(j)
      BY <3>1 DEF AskVerifier
    <3>2. CASE StartVerify(j)
      <4>1. stage' = [stage EXCEPT ![j] = [round |-> 1, try |-> 1]]
        BY <3>2 DEF StartVerify
      <4>2. 1 \in 0 .. Rounds /\ 1 \in 0 .. Corrections
        BY <2>2
      <4>3. [round |-> 1, try |-> 1] \in [round : 0 .. Rounds, try : 0 .. Corrections]
        BY <4>2
      <4> QED BY <4>1, <4>3
    <3>3. CASE VerifierAnswers(j)
      <4>1. \/ stage' = stage
            \/ stage[j].try < Corrections /\ stage' = [stage EXCEPT ![j].try = @ + 1]
            \/ /\ stage[j].round < Rounds
               /\ stage' = [stage EXCEPT ![j] = [round |-> stage[j].round + 1, try |-> 1]]
        BY <3>3 DEF VerifierAnswers
      <4>2. CASE stage[j].try < Corrections /\ stage' = [stage EXCEPT ![j].try = @ + 1]
        <5>0. stage[j].try + 1 \in 0 .. Corrections
          BY <2>2, <4>2
        <5>3. stage[j] \in [round : 0 .. Rounds, try : 0 .. Corrections]
          OBVIOUS
        <5>1. [stage[j] EXCEPT !.try = @ + 1] \in [round : 0 .. Rounds, try : 0 .. Corrections]
          BY <5>0, <5>3
        <5>2. stage' = [stage EXCEPT ![j] = [stage[j] EXCEPT !.try = @ + 1]]
          BY <4>2
        <5> QED BY <5>1, <5>2
      <4>3. CASE /\ stage[j].round < Rounds
                 /\ stage' = [stage EXCEPT ![j] = [round |-> stage[j].round + 1, try |-> 1]]
        <5>1. [round |-> stage[j].round + 1, try |-> 1]
                 \in [round : 0 .. Rounds, try : 0 .. Corrections]
          BY <2>2, <4>3
        <5> QED BY <4>3, <5>1
      <4> QED BY <4>1, <4>2, <4>3
    <3> QED BY <1>4, <3>1, <3>2, <3>3 DEF VerifyStep
  <2>4. stage' \in [Jobs -> [round : 0 .. Rounds, try : 0 .. Corrections]]
    BY <2>3
  <2> QED BY <2>1, <2>4
<1> QED BY <1>1, <1>2, <1>3, <1>4 DEF Next, Gate, TimeOut, Rest, vars

\* The variables of a composed review and its gate have their types.
THEOREM ReviewTypeCorrect == Spec => []TypeOK
<1>1. ReviewInv /\ OtherTypes => TypeOK
  BY DEF ReviewInv, CapacityInv, RunInv, RunTyped, OtherTypes, TypeOK
<1> QED BY <1>1, ReviewInvInit, ReviewInvNext, OtherTypesInit, OtherTypesNext, PTL DEF Spec
=============================================================================
