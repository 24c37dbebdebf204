----------------------------- MODULE ReviewRun -----------------------------
(***************************************************************************)
(* One composed review (cmd/composite_run.go): a goroutine per review job, *)
(* of which composeConcurrency run at a time, each repeating its reviewer  *)
(* after a transient failure; then the verification of every finding       *)
(* (cmd/finding_verification.go, internal/findingverify/verify.go) by a    *)
(* pool of workers; then one aggregated result and the exit code.          *)
(* Reviewers and verifiers ask the model through the same ModelCapacity    *)
(* gate.  The run may be cancelled at any point.                           *)
(*                                                                         *)
(* A reviewer is a process of somebody else's: it may ask the model, once  *)
(* in the model, and end in any way the Runtime interface has.  Job 1 is the root's pass *)
(* over the full change.  The findings of a job are one candidate.         *)
(***************************************************************************)
EXTENDS ModelCapacity

CONSTANTS
    NJobs,            \* review jobs of the plan
    Concurrency,      \* --compose-concurrency
    ComposeRetries,   \* --compose-retries
    Verifiers,        \* verification workers: 4
    Rounds,           \* evidence stages of a candidate: 2
    Corrections       \* attempts at a well-formed decision in each: 3

Jobs == 1 .. NJobs

ASSUME ReviewAssumption ==
    /\ NJobs \in Nat \ {0} /\ Callers = Jobs
    /\ Concurrency \in Nat \ {0} /\ ComposeRetries \in Nat
    /\ Verifiers \in Nat \ {0} /\ Rounds \in Nat \ {0} /\ Corrections \in Nat \ {0}

VARIABLES
    phase,       \* where runComposedAdversaries is
    cancelled,   \* the run's context is done
    verify,      \* --verify-findings
    equipped,    \* verification has pinned context and a provider
    job,         \* where the goroutine of each job is
    attempts,    \* how often it has started its reviewer
    outcome,     \* results[i]: how the reviewer ended
    stage,       \* verification of each candidate: [round, try]
    decision,    \* and its decision
    unverified,  \* verificationErr
    output       \* what was written: [findings, ship]

runVars == <<phase, cancelled, verify, equipped, job, attempts, outcome, stage, decision,
             unverified, output>>
vars == <<capacityVars, runVars>>

\* What a reviewer reports; "incomplete" and "doubted" carry the observation
\* review.evidence-incomplete, without findings and with some.  "partial" is a
\* failure that left an envelope with findings behind.
Complete  == {"skipped", "clean", "incomplete", "findings", "doubted"}
Failures  == {"failed", "partial"}
Unknown   == "none"
Published == {"keep", "fallback"}
Settled   == Published \cup {"reject", "open", "failed"}
NoStage   == [round |-> 0, try |-> 0]
NoOutput  == [findings |-> {}, ship |-> "none"]

Init ==
    /\ CapacityInit
    /\ phase = "review" /\ cancelled = FALSE
    /\ verify \in BOOLEAN /\ equipped \in {FALSE, verify}
    /\ job = [j \in Jobs |-> "new"]
    /\ attempts = [j \in Jobs |-> 0]
    /\ outcome = [j \in Jobs |-> Unknown]
    /\ stage = [j \in Jobs |-> NoStage]
    /\ decision = [j \in Jobs |-> Unknown]
    /\ unverified = FALSE
    /\ output = NoOutput

-----------------------------------------------------------------------------
(* Review jobs                                                              *)

Holding == {j \in Jobs : job[j] \in {"attempt", "asking"}}     \* sem

StartJob(j) ==
    /\ job[j] = "new" /\ Cardinality(Holding) < Concurrency
    /\ job' = [job EXCEPT ![j] = "attempt"]
    /\ attempts' = [attempts EXCEPT ![j] = 1]
    /\ UNCHANGED <<capacityVars, phase, cancelled, verify, equipped, outcome, stage, decision,
                   unverified, output>>

\* ctx.Done while it waits for its turn.
SkipJob(j) ==
    /\ job[j] = "new" /\ cancelled
    /\ job' = [job EXCEPT ![j] = "done"]
    /\ outcome' = [outcome EXCEPT ![j] = "failed"]
    /\ UNCHANGED <<capacityVars, phase, cancelled, verify, equipped, attempts, stage, decision,
                   unverified, output>>

\* The reviewer asks its broker for a model review.
AskModel(j) ==
    /\ job[j] = "attempt"
    /\ \E limit \in Limits : Review(j, limit, cancelled)
    /\ job' = [job EXCEPT ![j] = "asking"]
    /\ UNCHANGED <<phase, cancelled, verify, equipped, attempts, outcome, stage, decision,
                   unverified, output>>

\* How a reviewer ends, whatever answer it got.  The text of a failure makes it
\* look transient, unless it names the exhausted capacity budget.
Ends == {end \in [how : Complete \cup Failures, again : BOOLEAN] :
            end.again => end.how \in Failures}

\* Mutant: repeated attempts are not counted.
CountedOnce(j) == attempts[j]

Counted(j) == attempts[j] + 1

MayRepeat(j, end) == end.again /\ ~cancelled /\ attempts[j] <= ComposeRetries

\* The reviewer's process ends, and its broker with the calls it serves.
EndAttempt(j) ==
    /\ job[j] = "attempt" \/ (job[j] = "asking" /\ ~InReview(j))
    /\ \E end \in Ends :
          IF MayRepeat(j, end)
          THEN /\ job' = [job EXCEPT ![j] = "attempt"]
               /\ attempts' = [attempts EXCEPT ![j] = Counted(j)]
               /\ UNCHANGED outcome
          ELSE /\ job' = [job EXCEPT ![j] = "done"]
               /\ outcome' = [outcome EXCEPT ![j] = end.how]
               /\ attempts' = [attempts EXCEPT ![j] = 0]
    /\ UNCHANGED <<capacityVars, phase, cancelled, verify, equipped, stage, decision,
                   unverified, output>>

-----------------------------------------------------------------------------
(* What the results say                                                     *)

Failed    == {j \in Jobs : outcome[j] \in Failures}
Completed == {j \in Jobs : outcome[j] \in Complete \ {"skipped"}}

\* Mutant: a failed reviewer's envelope stays.
KeptPartial(j) == outcome[j]

\* A failed process can emit a partial envelope, which is dropped.
Kept(j) == IF outcome[j] = "partial" THEN "failed" ELSE outcome[j]

HasEnvelope(j) == outcome[j] \in Complete \cup {"partial"}
Candidates     == {j \in Jobs : outcome[j] \in {"findings", "doubted", "partial"}}

\* Mutant: a cancelled run does not wait for its reviewers.
JobsOverOrCancelled == cancelled \/ \A j \in Jobs : job[j] = "done"

JobsOver == \A j \in Jobs : job[j] = "done"

\* wg.Wait and the loop over the results.
Collect ==
    /\ phase = "review" /\ JobsOver
    /\ IF cancelled
       THEN phase' = "error" /\ UNCHANGED outcome
       ELSE /\ phase' = IF verify THEN "verify" ELSE "aggregate"
            /\ outcome' = [j \in Jobs |-> Kept(j)]
    /\ UNCHANGED <<capacityVars, cancelled, verify, equipped, job, attempts, stage, decision,
                   unverified, output>>

-----------------------------------------------------------------------------
(* Verification                                                             *)

Open(j) == stage[j] # NoStage /\ decision[j] = Unknown
InWork  == {j \in Jobs : Open(j)}

Decide(j, what) == decision' = [decision EXCEPT ![j] = what]

\* findingverify.Run refuses a snapshot that is too large.
RefuseSnapshot ==
    /\ phase = "verify" /\ Candidates # {} /\ \A j \in Jobs : stage[j] = NoStage
    /\ phase' = "error" /\ unverified' = TRUE
    /\ UNCHANGED <<capacityVars, cancelled, verify, equipped, job, attempts, outcome, stage,
                   decision, output>>

\* The next candidate goes to an idle worker.
StartVerify(j) ==
    /\ phase = "verify" /\ Cardinality(InWork) < Verifiers
    /\ j \in Candidates /\ stage[j] = NoStage
    /\ \A i \in Candidates : i < j => stage[i] # NoStage
    /\ stage' = [stage EXCEPT ![j] = [round |-> 1, try |-> 1]]
    /\ IF equipped THEN UNCHANGED decision ELSE Decide(j, "failed")
    /\ UNCHANGED <<capacityVars, phase, cancelled, verify, equipped, job, attempts, outcome,
                   unverified, output>>

\* requestDecision: a cancelled or oversized request is not made.
AskVerifier(j) ==
    /\ phase = "verify" /\ Open(j) /\ job[j] = "done"
    /\ \/ /\ ~cancelled
          /\ \E limit \in Limits : Review(j, limit, FALSE)
          /\ job' = [job EXCEPT ![j] = "verifying"]
          /\ UNCHANGED decision
       \/ Decide(j, "failed") /\ UNCHANGED <<capacityVars, job>>
    /\ UNCHANGED <<phase, cancelled, verify, equipped, attempts, outcome, stage, unverified, output>>

\* No usable answer, an ill-formed decision, a decision, or too little
\* evidence, which one more stage may bring.  An undecided candidate is
\* published all the same when its citation is good enough ("fallback").
VerifierAnswers(j) ==
    /\ phase = "verify" /\ Open(j) /\ job[j] = "verifying" /\ ~InReview(j)
    /\ job' = [job EXCEPT ![j] = "done"]
    /\ \/ Decide(j, "failed") /\ UNCHANGED stage
       \/ /\ answer[j] = "ok" /\ stage[j].try < Corrections
          /\ stage' = [stage EXCEPT ![j].try = @ + 1] /\ UNCHANGED decision
       \/ /\ answer[j] = "ok" /\ stage[j].round < Rounds
          /\ stage' = [stage EXCEPT ![j] = [round |-> @.round + 1, try |-> 1]]
          /\ UNCHANGED decision
       \/ /\ answer[j] = "ok"
          /\ \E what \in {"keep", "reject", "fallback", "open"} : Decide(j, what)
          /\ UNCHANGED stage
    /\ UNCHANGED <<capacityVars, phase, cancelled, verify, equipped, attempts, outcome, unverified,
                   output>>

\* workers.Wait, and the report.
EndVerify ==
    /\ phase = "verify" /\ \A j \in Candidates : decision[j] \in Settled
    /\ phase' = "aggregate"
    /\ unverified' \in {cancelled, TRUE}        \* or the report cannot be written
    /\ UNCHANGED <<capacityVars, cancelled, verify, equipped, job, attempts, outcome, stage,
                   decision, output>>

-----------------------------------------------------------------------------
(* The result                                                               *)

Withheld == {j \in Candidates : decision[j] \in {"open", "failed"}}

Publishes(j) == j \in Candidates /\ (verify => decision[j] \in Published)

HardErr == Failed # {} \/ unverified

\* The envelope that the aggregate starts from: the root's if it has one.
Base == CHOOSE j \in Jobs : HasEnvelope(j) /\ \A i \in Jobs : HasEnvelope(i) => j <= i

\* A failed reviewer or one that withheld candidates.
Incomplete == Failed # {} \/ \E j \in Jobs : outcome[j] \in {"incomplete", "doubted"}

\* Mutant: unresolved candidates are not looked at.
VerifiedUnchecked == ~HardErr

Verified == ~HardErr /\ Withheld = {}

\* The opinion: of the verification or, without it, of the base envelope; a
\* partial review has none.
Opinions(findings) ==
    IF Incomplete THEN {"none"}
    ELSE IF verify THEN IF ~Verified THEN {"none"} ELSE IF findings = {} THEN {"yes"} ELSE {"no"}
    ELSE IF outcome[Base] = "skipped" THEN {"none"} ELSE {"yes", "no", "none"}

\* Mutant: one failed reviewer makes the run an error.
FatalFailed == HardErr

Fatal == unverified \/ (HardErr /\ Completed = {})

\* The findings are merged, the result is written and the run ends; it ends
\* also when the result cannot be written.
Aggregate ==
    /\ phase = "aggregate"
    /\ \/ /\ \A j \in Jobs : ~HasEnvelope(j)
          /\ phase' = "error" /\ UNCHANGED output
       \/ /\ \E j \in Jobs : HasEnvelope(j)
          /\ phase' = "unwritten" /\ UNCHANGED output
       \/ /\ \E j \in Jobs : HasEnvelope(j)
          /\ LET findings == {j \in Jobs : Publishes(j)}
             IN  /\ phase' = IF Fatal THEN "error" ELSE IF findings # {} THEN "findings" ELSE "ok"
                 /\ \E opinion \in Opinions(findings) :
                       output' = [findings |-> findings, ship |-> opinion]
    /\ UNCHANGED <<capacityVars, cancelled, verify, equipped, job, attempts, outcome, stage,
                   decision, unverified>>

-----------------------------------------------------------------------------

\* "error" and "unwritten" are the ends with an execution error.
Over == phase \in {"ok", "findings", "error", "unwritten"}

\* Ctrl-C ends the context of the run and those derived from it.
Cancel ==
    /\ ~Over /\ ~cancelled
    /\ cancelled' = TRUE
    /\ Stop({j \in Jobs : InReview(j)})
    /\ UNCHANGED <<phase, verify, equipped, job, attempts, outcome, stage, decision, unverified,
                   output>>

\* The budget of one model review, or of its reviewer, is used up.
TimeOut(j) ==
    /\ InReview(j) /\ ~stopped[j]
    /\ Stop({j})
    /\ UNCHANGED runVars

JobStep(j) == StartJob(j) \/ SkipJob(j) \/ AskModel(j) \/ EndAttempt(j)

VerifyStep(j) == StartVerify(j) \/ AskVerifier(j) \/ VerifierAnswers(j)

RunStep == Collect \/ RefuseSnapshot \/ EndVerify \/ Aggregate

Gate == (Tick \/ \E j \in Jobs : CallStep(j)) /\ UNCHANGED runVars

Next ==
    \/ Gate \/ RunStep \/ Cancel
    \/ \E j \in Jobs : TimeOut(j) \/ JobStep(j) \/ VerifyStep(j)

Rest == Over /\ UNCHANGED vars

Spec == Init /\ [][Next \/ Rest]_vars

\* Goroutines are scheduled, reviewers end (by themselves, or --timeout kills
\* them) and time passes.
Fairness ==
    /\ WF_vars(RunStep)
    /\ WF_vars(Tick /\ UNCHANGED runVars)
    /\ \A j \in Jobs : /\ WF_vars(JobStep(j))
                       /\ WF_vars(VerifyStep(j))
                       /\ WF_vars(CallStep(j) /\ UNCHANGED runVars)

FairSpec == Spec /\ Fairness

-----------------------------------------------------------------------------
(* Properties                                                               *)

TypeOK ==
    /\ CapacityTypeOK
    /\ phase \in {"review", "verify", "aggregate", "ok", "findings", "error",
                 "unwritten"}
    /\ cancelled \in BOOLEAN /\ verify \in BOOLEAN /\ equipped \in BOOLEAN
    /\ job \in [Jobs -> {"new", "attempt", "asking", "done", "verifying"}]
    /\ attempts \in [Jobs -> 0 .. ComposeRetries + 1]
    /\ outcome \in [Jobs -> Complete \cup Failures \cup {Unknown}]
    /\ stage \in [Jobs -> [round : 0 .. Rounds, try : 0 .. Corrections]]
    /\ decision \in [Jobs -> Settled \cup {Unknown}]
    /\ unverified \in BOOLEAN
    /\ output \in [findings : SUBSET Jobs, ship : {"yes", "no", "none"}]

\* When the run is over, cancelled or not, every result is written, no
\* goroutine of it works and no slot of the gate is taken.
NothingLeft ==
    Over => /\ \A j \in Jobs : job[j] = "done" /\ outcome[j] # Unknown /\ ~InReview(j)
            /\ gate.active = 0

\* docs/finding-verification.md: a clean opinion is given only for a review
\* that is complete: nobody failed, nothing was withheld, nothing is open.
ShipSound ==
    output.ship = "yes" =>
        /\ \A j \in Jobs : outcome[j] \in {"clean", "findings", "skipped"}
        /\ verify => output.findings = {} /\ \A j \in Candidates : decision[j] = "reject"

\* What is published was found by a reviewer that completed and, in a verified
\* run, judged by a verification that did not fail; nothing else is lost.
PublishedSound ==
    output # NoOutput =>
        output.findings = {j \in Jobs : /\ outcome[j] \in {"findings", "doubted"}
                                        /\ verify => decision[j] \notin {"reject", "open", "failed"}}

\* The exit code (docs/finding-verification.md, Partial reviewer failures): one
\* reviewer that completed makes the run a success or a run with findings,
\* unless it was cancelled or the report or the result could not be written; if
\* all failed, an error.
ExitRight ==
    /\ phase = "error" => cancelled \/ unverified \/ (Failed # {} /\ Completed = {})
    /\ phase \in {"ok", "findings"} =>
        /\ phase = "findings" <=> output.findings # {}
        /\ Completed # {} \/ Failed = {}
        /\ ~unverified

\* A run ends, however its calls are rejected, delayed, timed out or cancelled.
RunEnds == <>Over
=============================================================================
