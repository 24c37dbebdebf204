------------------------ MODULE CatalogProposalsProofs ------------------------
(***************************************************************************)
(* Safety of CatalogProposals for every number of findings, jobs, requests *)
(* and closings of the server.                                             *)
(***************************************************************************)
EXTENDS CatalogProposals, TLAPS

-----------------------------------------------------------------------------
(* The invariant *)

\* A goroutine has its job's fields; its row is typed.
JobsKnown == \A j \in Jobs : step[j] # "unused" => job[j] \in Job

\* Who has locked catalogGitMu and is to unlock it.
Holds(j) == step[j] = "remove" \/ setupLocked[j]

\* The mutex is locked exactly as often as somebody is to unlock it.
MutexDiscipline ==
    /\ \A j \in Jobs : setupLocked[j] => step[j] \in {"fetch", "add", "cleanup"}
    /\ \A j \in Jobs : step[j] \in {"fetch", "add"} => setupLocked[j]
    /\ \A j \in Jobs : Holds(j) => gitMu = 1
    /\ \A j, k \in Jobs : Holds(j) /\ Holds(k) => j = k

\* Rows that were read and are to be saved are backed like those on disk.
RowsBacked ==
    /\ ProposalsBacked
    /\ \A q \in Requests :
          request[q].kind \in {"save", "reopenSave"} => Backed(request[q].finding, request[q].row)
    /\ \A j \in Jobs : step[j] = "markSave" => Backed(job[j].finding, job[j].row)
    /\ \A j \in Jobs : step[j] = "record" => j \in pulls
    /\ \A j \in pulls : step[j] # "unused"

\* How far a job has come: what it would report if it ended now is true.
Honest(j) ==
    /\ step[j] = "unused" => j \notin pulls
    /\ step[j] \in {"read", "lock", "fetch", "add", "generate", "push", "open"} =>
          job[j].result = "ok" /\ j \notin pulls
    /\ step[j] = "record" => job[j].result = "ok" /\ j \in pulls
    /\ step[j] \in {"cleanup", "remove", "finish", "done"} =>
          (job[j].result = "ok" => j \in pulls)
    /\ step[j] \in {"mark", "markSave"} => job[j].result = "covered"
    /\ step[j] \in {"cleanup", "remove", "mark", "markSave", "finish", "done"} =>
          (job[j].result = "covered" => j \notin pulls)

Course == \A j \in Jobs : Honest(j)

IInv == TypeOK /\ JobsKnown /\ MutexDiscipline /\ RowsBacked /\ Course

-----------------------------------------------------------------------------
(* Types *)

\* The server starts well typed.
LEMMA TypesInit == Init => TypeOK /\ JobsKnown
BY ProposalsAssumption DEF ProposalsAssumption, Init, TypeOK, JobsKnown, Row, NewRow,
   Statuses, Request, Served, NoJob

FlowOK ==
    /\ request \in [Requests -> Request]
    /\ step \in [Jobs -> Running \cup {"unused", "done", "dropped", "lost"}]
    /\ job \in [Jobs -> Job \cup {NoJob}]
    /\ closings \in 0..MaxClosings
    /\ JobsKnown

\* A goroutine that goes on with its job unchanged stays typed.
LEMMA SucceedTypes ==
    ASSUME FlowOK, NEW j \in Jobs, step[j] # "unused",
           NEW s \in Running \cup {"done"}, Succeed(j, s)
    PROVE  FlowOK'
BY DEF FlowOK, JobsKnown, Succeed, Goto

\* So does one whose job is changed to one of the right type.
LEMMA ChangeTypes ==
    ASSUME FlowOK, NEW j \in Jobs, step[j] # "unused",
           NEW s \in Running \cup {"done"}, Goto(j, s),
           NEW g \in Job, job' = [job EXCEPT ![j] = g]
    PROVE  FlowOK'
BY DEF FlowOK, JobsKnown, Goto

\* And one whose step failed.
LEMMA ErrTypes ==
    ASSUME FlowOK, NEW j \in Jobs, step[j] # "unused",
           NEW s \in Running \cup {"done"}, Err(j, s)
    PROVE  FlowOK'
<1>1. job[j] \in Job
    BY DEF FlowOK, JobsKnown
<1>2. [job[j] EXCEPT !.result = "failed"] \in Job
    BY <1>1 DEF Job
<1>3. job' = [job EXCEPT ![j] = [job[j] EXCEPT !.result = "failed"]] /\ Goto(j, s)
    BY DEF Err
<1>4. QED
    BY <1>2, <1>3, ChangeTypes

\* The steps of a job keep every type.
LEMMA WorkTypes ==
    ASSUME TypeOK, JobsKnown, MutexDiscipline, NEW j \in Jobs, Work(j)
    PROVE  (TypeOK /\ JobsKnown)'
<1> DEFINE Rest == /\ rows \in [Findings -> Row]
                   /\ setupLocked \in [Jobs -> BOOLEAN]
                   /\ gitMu \in {0, 1}
                   /\ pulls \subseteq Jobs
<1>1. step[j] # "unused" /\ job[j] \in Job /\ FlowOK /\ Rest
    BY DEF Work, JobsKnown, ReadRow, LockSetup, Fetch, AddWorktree, Generate, Push, OpenPull,
           Record, CleanUp, RemoveWorktree, ReadToMark, SaveCovered, Finish, FlowOK, TypeOK
<1>2. job[j].finding \in Findings /\ job[j].row \in Row
    BY <1>1 DEF Job
<1>3. FlowOK'
    <2> USE <1>1, SucceedTypes, ErrTypes DEF Running
    <2>1. CASE ReadRow(j)
        BY <2>1 DEF ReadRow
    <2>2. CASE LockSetup(j)
        <3>1. Succeed(j, "fetch")
            BY <2>2 DEF LockSetup, Succeed
        <3>2. QED
            BY <3>1
    <2>3. CASE Fetch(j)
        BY <2>3 DEF Fetch
    <2>4. CASE AddWorktree(j)
        BY <2>4 DEF AddWorktree
    <2>5. CASE Generate(j)
        <3>1. [job[j] EXCEPT !.result = "covered"] \in Job
            BY DEF Job
        <3>2. CASE /\ job' = [job EXCEPT ![j].result = "covered"]
                   /\ Goto(j, "cleanup")
            BY <3>1, <3>2, ChangeTypes
        <3>3. QED
            BY <2>5, <3>2 DEF Generate
    <2>6. CASE Push(j)
        BY <2>6 DEF Push
    <2>7. CASE OpenPull(j)
        BY <2>7 DEF OpenPull
    <2>8. CASE Record(j)
        BY <2>8 DEF Record
    <2>9. CASE CleanUp(j)
        <3>1. Succeed(j, "remove")
            BY <2>9 DEF CleanUp, Succeed
        <3>2. QED
            BY <3>1
    <2>10. CASE RemoveWorktree(j)
        <3>1. Succeed(j, "mark") \/ Succeed(j, "finish")
            BY <2>10 DEF RemoveWorktree, Succeed
        <3>2. QED
            BY <3>1
    <2>11. CASE ReadToMark(j)
        <3> DEFINE row == [rows[job[j].finding] EXCEPT !.status = "covered"]
        <3>1. row \in Row
            BY <1>2 DEF Row, Statuses
        <3>2. [job[j] EXCEPT !.row = row] \in Job
            BY <3>1 DEF Job
        <3>3. CASE job' = [job EXCEPT ![j].row = row] /\ Goto(j, "markSave")
            <4>1. job' = [job EXCEPT ![j] = [job[j] EXCEPT !.row = row]]
                BY <3>3
            <4>2. QED
                BY <3>2, <3>3, <4>1, ChangeTypes
        <3>4. QED
            BY <2>11, <3>3 DEF ReadToMark
    <2>12. CASE SaveCovered(j)
        BY <2>12 DEF SaveCovered
    <2>13. CASE Finish(j)
        BY <2>13 DEF Finish
    <2>14. QED
        BY <2>1, <2>2, <2>3, <2>4, <2>5, <2>6, <2>7, <2>8, <2>9, <2>10, <2>11, <2>12, <2>13
           DEF Work
<1>4. Rest'
    <2> USE <1>1, <1>2
    <2>1. CASE ReadRow(j)
        BY <2>1 DEF ReadRow
    <2>2. CASE LockSetup(j)
        BY <2>2 DEF LockSetup, Lock
    <2>3. CASE Fetch(j)
        <3>1. setupLocked[j]
            BY <2>3 DEF Fetch, MutexDiscipline
        <3>2. gitMu = 1
            BY <3>1 DEF MutexDiscipline, Holds
        <3>3. gitMu' \in {0, 1}
            BY <2>3, <3>2 DEF Fetch, Unlock
        <3>4. setupLocked' \in [Jobs -> BOOLEAN]
            BY <2>3 DEF Fetch
        <3>5. QED
            BY <2>3, <3>3, <3>4 DEF Fetch
    <2>4. CASE AddWorktree(j)
        <3>1. setupLocked[j]
            BY <2>4 DEF AddWorktree, MutexDiscipline
        <3>2. gitMu = 1
            BY <3>1 DEF MutexDiscipline, Holds
        <3>3. gitMu' \in {0, 1}
            BY <2>4, <3>2 DEF AddWorktree, Unlock
        <3>4. setupLocked' \in [Jobs -> BOOLEAN]
            BY <2>4 DEF AddWorktree
        <3>5. QED
            BY <2>4, <3>3, <3>4 DEF AddWorktree
    <2>5. CASE Generate(j)
        BY <2>5 DEF Generate
    <2>6. CASE Push(j)
        BY <2>6 DEF Push
    <2>7. CASE OpenPull(j)
        BY <2>7 DEF OpenPull
    <2>8. CASE Record(j)
        BY <2>8 DEF Record, Row, Statuses
    <2>9. CASE CleanUp(j)
        BY <2>9 DEF CleanUp, Lock
    <2>10. CASE RemoveWorktree(j)
        BY <2>10 DEF RemoveWorktree, MutexDiscipline, Holds
    <2>11. CASE ReadToMark(j)
        BY <2>11 DEF ReadToMark
    <2>12. CASE SaveCovered(j)
        BY <2>12 DEF SaveCovered
    <2>13. CASE Finish(j)
        BY <2>13 DEF Finish
    <2>14. QED
        BY <2>1, <2>2, <2>3, <2>4, <2>5, <2>6, <2>7, <2>8, <2>9, <2>10, <2>11, <2>12, <2>13
           DEF Work
<1>5. QED
    BY <1>3, <1>4 DEF FlowOK, TypeOK

\* A request that goes on keeps every type.
LEMMA BecomeTypes ==
    ASSUME TypeOK, JobsKnown, NEW q \in Requests, NEW r \in Request, Become(q, r),
           rows' \in [Findings -> Row]
    PROVE  (TypeOK /\ JobsKnown)'
BY DEF TypeOK, JobsKnown, Become

\* The steps of a request keep every type.
LEMMA ServeTypes ==
    ASSUME TypeOK, JobsKnown, NEW q \in Requests, Serve(q)
    PROVE  (TypeOK /\ JobsKnown)'
<1>1. rows \in [Findings -> Row] /\ request[q] \in Request
    BY DEF TypeOK
<1>2. ASSUME NEW f \in Findings, NEW status \in Decisions, ReadForDecision(q, f, status)
      PROVE  (TypeOK /\ JobsKnown)'
    <2>1. status \in Statuses
        BY ProposalsAssumption DEF ProposalsAssumption, Statuses
    <2>2. [rows[f] EXCEPT !.status = status] \in Row
        BY <1>1, <2>1 DEF Row
    <2>3. [kind |-> "save", finding |-> f, row |-> [rows[f] EXCEPT !.status = status]] \in Request
        BY <2>2 DEF Request
    <2>4. QED
        BY <1>1, <1>2, <2>3, BecomeTypes DEF ReadForDecision
<1>3. ASSUME NEW f \in Findings, NEW overlap \in BOOLEAN, AskForProposal(q, f, overlap)
      PROVE  (TypeOK /\ JobsKnown)'
    <2>1. \A kind \in {"reopen", "scan"} :
              [kind |-> kind, finding |-> f, overlap |-> overlap] \in Request
        BY DEF Request
    <2>2. QED
        BY <1>1, <1>3, <2>1, BecomeTypes DEF AskForProposal
<1>4. CASE SaveDecision(q)
    <2>1. request[q].finding \in Findings /\ request[q].row \in Row
        BY <1>1, <1>4 DEF SaveDecision, Request, Served
    <2>2. rows' \in [Findings -> Row] /\ Served \in Request
        BY <1>1, <1>4, <2>1 DEF SaveDecision, Request
    <2>3. QED
        BY <1>4, <2>2, BecomeTypes DEF SaveDecision
<1>5. CASE ReadToReopen(q)
    <2>1. request[q].finding \in Findings
        BY <1>1, <1>5 DEF ReadToReopen, Request, Served
    <2>2. [rows[request[q].finding] EXCEPT !.status = "new"] \in Row
        BY <1>1, <2>1 DEF Row, Statuses
    <2>3. [kind |-> "reopenSave", finding |-> request[q].finding,
           row |-> [rows[request[q].finding] EXCEPT !.status = "new"]] \in Request
        BY <2>1, <2>2 DEF Request
    <2>4. QED
        BY <1>1, <1>5, <2>3, BecomeTypes DEF ReadToReopen
<1>6. CASE SaveReopened(q)
    <2>1. request[q].finding \in Findings /\ request[q].row \in Row
        BY <1>1, <1>6 DEF SaveReopened, Request, Served
    <2>2. rows' \in [Findings -> Row]
        BY <1>1, <1>6, <2>1 DEF SaveReopened
    <2>3. [kind |-> "scan", finding |-> request[q].finding, overlap |-> TRUE] \in Request
        BY <2>1 DEF Request
    <2>4. QED
        BY <1>6, <2>2, <2>3, BecomeTypes DEF SaveReopened
<1>7. CASE ScanJobs(q)
    <2>1. request[q] \in [kind : {"reopen", "scan", "insert"}, finding : Findings, overlap : BOOLEAN]
        BY <1>1, <1>7 DEF ScanJobs, Request, Served
    <2>2. [request[q] EXCEPT !.kind = "insert"] \in Request /\ Served \in Request
        BY <2>1 DEF Request
    <2>3. QED
        BY <1>1, <1>7, <2>2, BecomeTypes DEF ScanJobs
<1>8. ASSUME NEW j \in Jobs, StartJob(q, j)
      PROVE  (TypeOK /\ JobsKnown)'
    <2>1. request[q].finding \in Findings /\ request[q].overlap \in BOOLEAN
        BY <1>1, <1>8 DEF StartJob, Request, Served
    <2> DEFINE g == [finding |-> request[q].finding, overlap |-> request[q].overlap,
                     row |-> NewRow, result |-> "ok"]
    <2>2. g \in Job
        BY <2>1 DEF Job, Row, NewRow, Statuses
    <2>3. job' = [job EXCEPT ![j] = g]
        BY <1>8 DEF StartJob
    <2>4. Served \in Request
        BY DEF Request
    <2> HIDE DEF g
    <2>5. QED
        BY <1>8, <2>2, <2>3, <2>4 DEF StartJob, TypeOK, JobsKnown, Running
<1>9. QED
    BY <1>2, <1>3, <1>4, <1>5, <1>6, <1>7, <1>8 DEF Serve

\* Dropping a finished job keeps every type.
LEMMA DropTypes ==
    ASSUME TypeOK, JobsKnown, NEW j \in Jobs, DropJob(j)
    PROVE  (TypeOK /\ JobsKnown)'
BY DEF TypeOK, JobsKnown, DropJob

\* So does closing the server.
LEMMA CloseTypes ==
    ASSUME TypeOK, JobsKnown, CloseServer
    PROVE  (TypeOK /\ JobsKnown)'
<1>1. step' \in [Jobs -> Running \cup {"unused", "done", "dropped", "lost"}]
    BY DEF TypeOK, CloseServer
<1>2. \A j \in Jobs : step'[j] # "unused" => step[j] # "unused"
    BY DEF CloseServer, Running
<1>3. request' \in [Requests -> Request]
    BY DEF CloseServer, Request
<1>4. closings' \in 0..MaxClosings
    BY ProposalsAssumption DEF ProposalsAssumption, TypeOK, CloseServer
<1>5. QED
    BY <1>1, <1>2, <1>3, <1>4 DEF TypeOK, JobsKnown, CloseServer

-----------------------------------------------------------------------------
(* The mutex *)

\* Every step of a job leaves the mutex locked by at most one of them.
LEMMA WorkMutex ==
    ASSUME TypeOK, MutexDiscipline, NEW j \in Jobs, Work(j)
    PROVE  MutexDiscipline'
<1> USE DEF Goto, Succeed, Err, Lock, Unlock
<1>1. /\ step \in [Jobs -> Running \cup {"unused", "done", "dropped", "lost"}]
      /\ setupLocked \in [Jobs -> BOOLEAN]
    BY DEF TypeOK
<1>2. CASE ReadRow(j)
    BY <1>1, <1>2 DEF ReadRow, MutexDiscipline, Holds
<1>3. CASE LockSetup(j)
    BY <1>1, <1>3 DEF LockSetup, MutexDiscipline, Holds
<1>4. CASE Fetch(j)
    BY <1>1, <1>4 DEF Fetch, MutexDiscipline, Holds
<1>5. CASE AddWorktree(j)
    BY <1>1, <1>5 DEF AddWorktree, MutexDiscipline, Holds
<1>6. CASE Generate(j)
    BY <1>1, <1>6 DEF Generate, MutexDiscipline, Holds
<1>7. CASE Push(j)
    BY <1>1, <1>7 DEF Push, MutexDiscipline, Holds
<1>8. CASE OpenPull(j)
    BY <1>1, <1>8 DEF OpenPull, MutexDiscipline, Holds
<1>9. CASE Record(j)
    BY <1>1, <1>9 DEF Record, MutexDiscipline, Holds
<1>10. CASE CleanUp(j)
    BY <1>1, <1>10 DEF CleanUp, MutexDiscipline, Holds
<1>11. CASE RemoveWorktree(j)
    BY <1>1, <1>11 DEF RemoveWorktree, MutexDiscipline, Holds
<1>12. CASE ReadToMark(j)
    BY <1>1, <1>12 DEF ReadToMark, MutexDiscipline, Holds
<1>13. CASE SaveCovered(j)
    BY <1>1, <1>13 DEF SaveCovered, MutexDiscipline, Holds
<1>14. CASE Finish(j)
    BY <1>1, <1>14 DEF Finish, MutexDiscipline, Holds
<1>15. QED
    BY <1>2, <1>3, <1>4, <1>5, <1>6, <1>7, <1>8, <1>9, <1>10, <1>11, <1>12, <1>13, <1>14
       DEF Work

\* Requests, dropped jobs and a closing server leave it so too.
LEMMA OthersMutex ==
    ASSUME TypeOK, MutexDiscipline,
           \/ \E q \in Requests : Serve(q)
           \/ \E j \in Jobs : DropJob(j)
           \/ CloseServer
           \/ UNCHANGED vars
    PROVE  MutexDiscipline'
<1>1. /\ step \in [Jobs -> Running \cup {"unused", "done", "dropped", "lost"}]
      /\ setupLocked \in [Jobs -> BOOLEAN]
    BY DEF TypeOK
<1>2. ASSUME NEW q \in Requests, Serve(q)
      PROVE  MutexDiscipline'
    <2>1. ASSUME NEW j \in Jobs, StartJob(q, j)
          PROVE  MutexDiscipline'
        BY <1>1, <2>1 DEF StartJob, MutexDiscipline, Holds
    <2>2. CASE UNCHANGED <<step, setupLocked, gitMu>>
        BY <2>2 DEF MutexDiscipline, Holds
    <2>3. QED
        BY <1>2, <2>1, <2>2 DEF Serve, ReadForDecision, AskForProposal, SaveDecision,
           ReadToReopen, SaveReopened, ScanJobs, Become
<1>3. ASSUME NEW j \in Jobs, DropJob(j)
      PROVE  MutexDiscipline'
    BY <1>1, <1>3 DEF DropJob, MutexDiscipline, Holds
<1>4. CASE CloseServer
    BY <1>1, <1>4 DEF CloseServer, MutexDiscipline, Holds, Running
<1>5. CASE UNCHANGED vars
    BY <1>5 DEF vars, MutexDiscipline, Holds
<1>6. QED
    BY <1>2, <1>3, <1>4, <1>5

-----------------------------------------------------------------------------
(* The inbox *)

\* A step of a job opens at most its own pull request; no finding changes.
LEMMA WorkKeeps ==
    ASSUME TypeOK, JobsKnown, NEW j \in Jobs, Work(j)
    PROVE  /\ pulls \subseteq pulls' /\ pulls' \subseteq pulls \cup {j}
           /\ \A k \in Jobs : job'[k].finding = job[k].finding
           /\ step[j] # "unused" /\ job[j].finding \in Findings
<1> USE DEF Goto, Succeed, Err
<1>1. job \in [Jobs -> Job \cup {NoJob}]
    BY DEF TypeOK
<1>2. step[j] # "unused"
    BY DEF Work, ReadRow, LockSetup, Fetch, AddWorktree, Generate, Push, OpenPull,
           Record, CleanUp, RemoveWorktree, ReadToMark, SaveCovered, Finish
<1>3. job[j] \in Job
    BY <1>2 DEF JobsKnown
<1>4. pulls \subseteq pulls' /\ pulls' \subseteq pulls \cup {j}
    BY DEF Work, ReadRow, LockSetup, Fetch, AddWorktree, Generate, Push, OpenPull,
           Record, CleanUp, RemoveWorktree, ReadToMark, SaveCovered, Finish
<1>5. \/ job' = job
      \/ \E r : job' = [job EXCEPT ![j].result = r]
      \/ \E r : job' = [job EXCEPT ![j].row = r]
    BY DEF Work, ReadRow, LockSetup, Fetch, AddWorktree, Generate, Push, OpenPull,
           Record, CleanUp, RemoveWorktree, ReadToMark, SaveCovered, Finish
<1>6. \A k \in Jobs : job'[k].finding = job[k].finding
    BY <1>1, <1>3, <1>5 DEF Job
<1>7. QED
    BY <1>2, <1>3, <1>4, <1>6 DEF Job

\* A step of a job saves and keeps only rows that are backed.
LEMMA WorkRows ==
    ASSUME TypeOK, JobsKnown, RowsBacked, NEW j \in Jobs, Work(j)
    PROVE  RowsBacked'
<1>1. /\ pulls \subseteq pulls' /\ pulls' \subseteq pulls \cup {j}
      /\ \A k \in Jobs : job'[k].finding = job[k].finding
      /\ step[j] # "unused" /\ job[j].finding \in Findings
    BY WorkKeeps
<1>2. /\ rows \in [Findings -> Row]
      /\ step \in [Jobs -> Running \cup {"unused", "done", "dropped", "lost"}]
      /\ job \in [Jobs -> Job \cup {NoJob}]
      /\ pulls \subseteq Jobs /\ job[j] \in Job
    BY <1>1 DEF TypeOK, JobsKnown
<1>3. request' = request /\ \A k \in Jobs : k # j => step'[k] = step[k] /\ job'[k] = job[k]
    BY <1>2 DEF Work, ReadRow, LockSetup, Fetch, AddWorktree, Generate, Push, OpenPull,
       Record, CleanUp, RemoveWorktree, ReadToMark, SaveCovered, Finish, Goto, Succeed, Err
<1>4. step'[j] # "unused"
    BY <1>2 DEF Work, ReadRow, LockSetup, Fetch, AddWorktree, Generate, Push, OpenPull,
       Record, CleanUp, RemoveWorktree, ReadToMark, SaveCovered, Finish, Goto, Succeed, Err
<1>5. step'[j] = "record" => j \in pulls'
    <2>1. CASE OpenPull(j)
        BY <1>2, <2>1 DEF OpenPull, Goto, Succeed, Err
    <2>2. CASE ~OpenPull(j)
        BY <1>2, <2>2 DEF Work, ReadRow, LockSetup, Fetch, AddWorktree, Generate, Push,
           Record, CleanUp, RemoveWorktree, ReadToMark, SaveCovered, Finish, Goto, Succeed, Err
    <2>3. QED
        BY <2>1, <2>2
<1>6. \A f \in Findings :
          \/ rows'[f] = rows[f]
          \/ /\ step[j] = "record" /\ f = job[j].finding
             /\ rows'[f] = [status |-> "proposed", pull |-> j]
          \/ /\ step[j] = "markSave" /\ f = job[j].finding
             /\ rows'[f] = job[j].row
    BY <1>2 DEF Work, ReadRow, LockSetup, Fetch, AddWorktree, Generate, Push, OpenPull,
       Record, CleanUp, RemoveWorktree, ReadToMark, SaveCovered, Finish, Goto, Succeed, Err
<1>7. step'[j] = "markSave" => job'[j].row = [rows[job[j].finding] EXCEPT !.status = "covered"]
    <2>1. CASE ReadToMark(j)
        <3>1. \/ job' = [job EXCEPT ![j].row = [rows[job[j].finding] EXCEPT !.status = "covered"]]
              \/ step'[j] = "finish"
            BY <1>2, <2>1 DEF ReadToMark, Goto, Err
        <3>2. QED
            BY <1>2, <3>1 DEF Job
    <2>2. CASE ~ReadToMark(j)
        BY <1>2, <2>2 DEF Work, ReadRow, LockSetup, Fetch, AddWorktree, Generate, Push, OpenPull,
           Record, CleanUp, RemoveWorktree, SaveCovered, Finish, Goto, Succeed, Err
    <2>3. QED
        BY <2>1, <2>2
<1>8. ProposalsBacked'
    <2> SUFFICES ASSUME NEW f \in Findings PROVE Backed(f, rows[f])'
        BY DEF ProposalsBacked
    <2>1. CASE rows'[f] = rows[f]
        BY <1>1, <1>2, <2>1 DEF RowsBacked, ProposalsBacked, Backed
    <2>2. CASE step[j] = "record" /\ f = job[j].finding
               /\ rows'[f] = [status |-> "proposed", pull |-> j]
        BY <1>1, <2>2, ProposalsAssumption DEF ProposalsAssumption, RowsBacked, Backed
    <2>3. CASE step[j] = "markSave" /\ f = job[j].finding /\ rows'[f] = job[j].row
        BY <1>1, <1>2, <2>3 DEF RowsBacked, Backed
    <2>4. QED
        BY <1>6, <2>1, <2>2, <2>3
<1>9. ASSUME NEW q \in Requests, request'[q].kind \in {"save", "reopenSave"}
      PROVE  Backed(request[q].finding, request[q].row)'
    BY <1>1, <1>2, <1>3, <1>9 DEF RowsBacked, Backed
<1>10. ASSUME NEW k \in Jobs, step'[k] = "markSave"
       PROVE  Backed(job[k].finding, job[k].row)'
    <2>1. CASE k # j
        BY <1>1, <1>2, <1>3, <1>10, <2>1 DEF RowsBacked, Backed
    <2>2. CASE k = j
        <3>1. /\ job'[k].row.pull = rows[job[j].finding].pull
              /\ job'[k].row.status = "covered"
            BY <1>1, <1>2, <1>7, <1>10, <2>2 DEF Row
        <3>2. QED
            BY <1>1, <1>2, <2>2, <3>1 DEF RowsBacked, ProposalsBacked, Backed
    <2>3. QED
        BY <2>1, <2>2
<1>11. \A k \in Jobs : step'[k] = "record" => k \in pulls'
    BY <1>1, <1>3, <1>5 DEF RowsBacked
<1>12. \A k \in pulls' : step'[k] # "unused"
    BY <1>1, <1>2, <1>3, <1>4 DEF RowsBacked
<1>13. QED
    BY <1>8, <1>9, <1>10, <1>11, <1>12 DEF RowsBacked

\* What a request saves is a row it read before, with a status it may give.
LEMMA ServeRows ==
    ASSUME TypeOK, JobsKnown, RowsBacked, NEW q \in Requests, Serve(q)
    PROVE  RowsBacked'
<1>1. /\ rows \in [Findings -> Row] /\ request \in [Requests -> Request]
      /\ step \in [Jobs -> Running \cup {"unused", "done", "dropped", "lost"}]
      /\ job \in [Jobs -> Job \cup {NoJob}] /\ pulls \subseteq Jobs
    BY DEF TypeOK
<1>2. ASSUME NEW j \in Jobs, StartJob(q, j)
      PROVE  RowsBacked'
    <2>1. /\ j \notin pulls /\ step' = [step EXCEPT ![j] = "read"]
          /\ \A k \in Jobs : k # j => job'[k] = job[k]
          /\ pulls' = pulls /\ rows' = rows
          /\ request' = [request EXCEPT ![q] = Served]
        BY <1>1, <1>2 DEF StartJob, RowsBacked
    <2>2. ProposalsBacked'
        BY <1>1, <2>1 DEF RowsBacked, ProposalsBacked, Backed
    <2>3. ASSUME NEW p \in Requests, request'[p].kind \in {"save", "reopenSave"}
          PROVE  Backed(request[p].finding, request[p].row)'
        BY <1>1, <2>1, <2>3 DEF RowsBacked, Backed, Served
    <2>4. ASSUME NEW k \in Jobs, step'[k] = "markSave"
          PROVE  Backed(job[k].finding, job[k].row)'
        BY <1>1, <2>1, <2>4 DEF RowsBacked, Backed
    <2>5. QED
        BY <1>1, <2>1, <2>2, <2>3, <2>4 DEF RowsBacked
<1>3. CASE UNCHANGED <<step, job, pulls>>
    <2>1. ASSUME NEW f \in Findings
          PROVE  \/ rows'[f] = rows[f]
                 \/ /\ request[q].kind \in {"save", "reopenSave"}
                    /\ f = request[q].finding /\ rows'[f] = request[q].row
        BY <1>1, <1>2, <2>1 DEF Serve, ReadForDecision, AskForProposal, SaveDecision,
           ReadToReopen, SaveReopened, ScanJobs, Become, StartJob
    <2>2. ProposalsBacked'
        BY <1>3, <2>1 DEF RowsBacked, ProposalsBacked, Backed
    <2>3. \A p \in Requests : p # q => request'[p] = request[p]
        BY <1>1 DEF Serve, ReadForDecision, AskForProposal, SaveDecision,
           ReadToReopen, SaveReopened, ScanJobs, Become, StartJob
    <2>4. ASSUME request'[q].kind \in {"save", "reopenSave"}
          PROVE  \E s \in Statuses \ {"proposed"}, f \in Findings :
                    /\ request'[q].finding = f
                    /\ request'[q].row = [rows[f] EXCEPT !.status = s]
        <3>1. request[q] \in Request
            BY <1>1
        <3>2. ASSUME NEW f \in Findings, NEW s \in Decisions, ReadForDecision(q, f, s)
              PROVE  \E t \in Statuses \ {"proposed"}, g \in Findings :
                        /\ request'[q].finding = g
                        /\ request'[q].row = [rows[g] EXCEPT !.status = t]
            <4>1. s \in Statuses \ {"proposed"}
                BY ProposalsAssumption DEF ProposalsAssumption, Statuses
            <4>2. QED
                BY <1>1, <3>2, <4>1 DEF ReadForDecision, Become
        <3>3. CASE ReadToReopen(q)
            <4>1. request[q].finding \in Findings
                BY <3>1, <3>3 DEF ReadToReopen, Request, Served
            <4>2. /\ request'[q].finding = request[q].finding
                  /\ request'[q].row = [rows[request[q].finding] EXCEPT !.status = "new"]
                BY <1>1, <3>3 DEF ReadToReopen, Become
            <4>3. "new" \in Statuses \ {"proposed"}
                BY DEF Statuses
            <4>4. QED
                BY <4>1, <4>2, <4>3
        <3>4. ASSUME NEW f \in Findings, NEW o \in BOOLEAN, AskForProposal(q, f, o)
              PROVE  FALSE
            BY <1>1, <2>4, <3>4 DEF AskForProposal, Become
        <3>5. CASE SaveDecision(q)
            BY <1>1, <2>4, <3>5 DEF SaveDecision, Become, Served
        <3>6. CASE SaveReopened(q)
            BY <1>1, <2>4, <3>6 DEF SaveReopened, Become
        <3>7. CASE ScanJobs(q)
            <4>1. request[q] \in [kind : {"reopen", "scan", "insert"},
                                  finding : Findings, overlap : BOOLEAN]
                BY <3>1, <3>7 DEF ScanJobs, Request, Served
            <4>2. request'[q] = Served \/ request'[q] = [request[q] EXCEPT !.kind = "insert"]
                BY <1>1, <3>7 DEF ScanJobs, Become
            <4>3. QED
                BY <2>4, <4>1, <4>2 DEF Served
        <3>8. ASSUME NEW j \in Jobs, StartJob(q, j)
              PROVE  FALSE
            BY <1>1, <2>4, <3>8 DEF StartJob, Served
        <3>9. QED
            BY <3>2, <3>3, <3>4, <3>5, <3>6, <3>7, <3>8 DEF Serve
    <2>5. ASSUME NEW p \in Requests, request'[p].kind \in {"save", "reopenSave"}
          PROVE  Backed(request[p].finding, request[p].row)'
        <3>1. CASE p # q
            BY <1>3, <2>3, <2>5, <3>1 DEF RowsBacked, Backed
        <3>2. CASE p = q
            <4>1. PICK s \in Statuses \ {"proposed"}, f \in Findings :
                        /\ request'[q].finding = f
                        /\ request'[q].row = [rows[f] EXCEPT !.status = s]
                BY <2>4, <2>5, <3>2
            <4>2. request'[p].row.pull = rows[f].pull /\ request'[p].row.status # "proposed"
                BY <1>1, <3>2, <4>1 DEF Row
            <4>3. QED
                BY <1>3, <3>2, <4>1, <4>2 DEF RowsBacked, ProposalsBacked, Backed
        <3>3. QED
            BY <3>1, <3>2
    <2>6. QED
        BY <1>3, <2>2, <2>5 DEF RowsBacked, Backed
<1>4. QED
    BY <1>2, <1>3 DEF Serve, ReadForDecision, AskForProposal, SaveDecision,
       ReadToReopen, SaveReopened, ScanJobs, Become

\* Dropped jobs and a closing server change no row.
LEMMA OthersRows ==
    ASSUME TypeOK, RowsBacked,
           (\E j \in Jobs : DropJob(j)) \/ CloseServer \/ UNCHANGED vars
    PROVE  RowsBacked'
<1>1. /\ step \in [Jobs -> Running \cup {"unused", "done", "dropped", "lost"}]
      /\ request \in [Requests -> Request]
      /\ pulls \subseteq Jobs
    BY DEF TypeOK
<1>2. /\ rows' = rows /\ job' = job /\ pulls' = pulls
      /\ \A q \in Requests : request'[q] = request[q] \/ request'[q] = Served
      /\ \A j \in Jobs :
            step'[j] = step[j] \/ (step[j] # "unused" /\ step'[j] \in {"dropped", "lost"})
    BY <1>1 DEF DropJob, CloseServer, vars, Running
<1>3. ProposalsBacked'
    BY <1>2 DEF RowsBacked, ProposalsBacked, Backed
<1>4. ASSUME NEW q \in Requests, request'[q].kind \in {"save", "reopenSave"}
      PROVE  Backed(request[q].finding, request[q].row)'
    BY <1>2, <1>4 DEF RowsBacked, Backed, Served
<1>5. ASSUME NEW j \in Jobs, step'[j] = "markSave"
      PROVE  Backed(job[j].finding, job[j].row)'
    BY <1>2, <1>5 DEF RowsBacked, Backed
<1>6. \A j \in Jobs : step'[j] = "record" => j \in pulls'
    BY <1>2 DEF RowsBacked
<1>7. \A j \in pulls' : step'[j] # "unused"
    BY <1>1, <1>2 DEF RowsBacked
<1>8. QED
    BY <1>3, <1>4, <1>5, <1>6, <1>7 DEF RowsBacked

-----------------------------------------------------------------------------
(* The course of a job *)

\* Every step of a job keeps its own report true.
LEMMA WorkCourse ==
    ASSUME TypeOK, JobsKnown, Course, NEW j \in Jobs, Work(j)
    PROVE  Course'
<1>1. /\ step \in [Jobs -> Running \cup {"unused", "done", "dropped", "lost"}]
      /\ job \in [Jobs -> Job \cup {NoJob}] /\ job[j] \in Job
      /\ Honest(j)
    BY WorkKeeps DEF TypeOK, JobsKnown, Course
<1>2. Honest(j)'
    <2> USE <1>1 DEF Goto, Succeed, Err, Honest, Job
    <2>1. CASE ReadRow(j)
        BY <2>1 DEF ReadRow
    <2>2. CASE LockSetup(j)
        BY <2>2 DEF LockSetup
    <2>3. CASE Fetch(j)
        BY <2>3 DEF Fetch
    <2>4. CASE AddWorktree(j)
        BY <2>4 DEF AddWorktree
    <2>5. CASE Generate(j)
        BY <2>5 DEF Generate
    <2>6. CASE Push(j)
        BY <2>6 DEF Push
    <2>7. CASE OpenPull(j)
        BY <2>7 DEF OpenPull
    <2>8. CASE Record(j)
        BY <2>8 DEF Record
    <2>9. CASE CleanUp(j)
        BY <2>9 DEF CleanUp
    <2>10. CASE RemoveWorktree(j)
        BY <2>10 DEF RemoveWorktree
    <2>11. CASE ReadToMark(j)
        BY <2>11 DEF ReadToMark
    <2>12. CASE SaveCovered(j)
        BY <2>12 DEF SaveCovered
    <2>13. CASE Finish(j)
        BY <2>13 DEF Finish
    <2>14. QED
        BY <2>1, <2>2, <2>3, <2>4, <2>5, <2>6, <2>7, <2>8, <2>9, <2>10, <2>11, <2>12, <2>13
           DEF Work
<1>3. ASSUME NEW k \in Jobs, k # j
      PROVE  Honest(k)'
    <2>1. /\ step'[k] = step[k] /\ job'[k] = job[k]
          /\ k \in pulls' <=> k \in pulls
        BY <1>1, <1>3 DEF Work, ReadRow, LockSetup, Fetch, AddWorktree, Generate, Push, OpenPull,
           Record, CleanUp, RemoveWorktree, ReadToMark, SaveCovered, Finish, Goto, Succeed, Err
    <2>2. QED
        BY <2>1 DEF Course, Honest
<1>4. QED
    BY <1>2, <1>3 DEF Course

\* Requests start jobs afresh; dropped jobs and a closing server end them.
LEMMA OthersCourse ==
    ASSUME TypeOK, Course,
           \/ \E q \in Requests : Serve(q)
           \/ \E j \in Jobs : DropJob(j)
           \/ CloseServer
           \/ UNCHANGED vars
    PROVE  Course'
<1>1. /\ step \in [Jobs -> Running \cup {"unused", "done", "dropped", "lost"}]
      /\ job \in [Jobs -> Job \cup {NoJob}]
    BY DEF TypeOK
<1>2. pulls' = pulls
    BY DEF Serve, ReadForDecision, AskForProposal, SaveDecision, ReadToReopen, SaveReopened,
       ScanJobs, StartJob, Become, DropJob, CloseServer, vars
<1>3. ASSUME NEW j \in Jobs
      PROVE  \/ step'[j] = step[j] /\ job'[j] = job[j]
             \/ step[j] = "unused" /\ step'[j] = "read" /\ job'[j].result = "ok"
             \/ step[j] = "done" /\ step'[j] = "dropped"
             \/ step'[j] = "lost"
    <2>1. CASE \E q \in Requests : Serve(q)
        <3>1. ASSUME NEW q \in Requests, NEW k \in Jobs, StartJob(q, k)
              PROVE  \/ step'[j] = step[j] /\ job'[j] = job[j]
                     \/ step[j] = "unused" /\ step'[j] = "read" /\ job'[j].result = "ok"
            BY <1>1, <3>1 DEF StartJob
        <3>2. QED
            BY <2>1, <3>1 DEF Serve, ReadForDecision, AskForProposal, SaveDecision,
               ReadToReopen, SaveReopened, ScanJobs, Become
    <2>2. CASE \E k \in Jobs : DropJob(k)
        BY <1>1, <2>2 DEF DropJob
    <2>3. CASE CloseServer
        BY <1>1, <2>3 DEF CloseServer
    <2>4. CASE UNCHANGED vars
        BY <2>4 DEF vars
    <2>5. QED
        BY <2>1, <2>2, <2>3, <2>4
<1>4. ASSUME NEW j \in Jobs
      PROVE  Honest(j)'
    BY <1>2, <1>3 DEF Course, Honest
<1>5. QED
    BY <1>4 DEF Course

-----------------------------------------------------------------------------
(* The theorems *)

\* A server that starts has no job, no lock and no proposal.
LEMMA InvariantInit == Init => IInv
<1> SUFFICES ASSUME Init PROVE IInv
    OBVIOUS
<1>1. TypeOK /\ JobsKnown
    BY TypesInit
<1>2. MutexDiscipline
    BY DEF Init, MutexDiscipline, Holds
<1>3. RowsBacked
    BY DEF Init, RowsBacked, ProposalsBacked, Backed, NewRow, Served
<1>4. Course
    BY DEF Init, Course, Honest
<1>5. QED
    BY <1>1, <1>2, <1>3, <1>4 DEF IInv

\* Every step of requests, jobs and server keeps the invariant.
LEMMA InvariantStep == IInv /\ [Next]_vars => IInv'
<1> SUFFICES ASSUME TypeOK, JobsKnown, MutexDiscipline, RowsBacked, Course, [Next]_vars
             PROVE  IInv'
    BY DEF IInv
<1>1. ASSUME NEW j \in Jobs, Work(j)
      PROVE  IInv'
    BY <1>1, WorkTypes, WorkMutex, WorkRows, WorkCourse DEF IInv
<1>2. ASSUME NEW q \in Requests, Serve(q)
      PROVE  IInv'
    BY <1>2, ServeTypes, OthersMutex, ServeRows, OthersCourse DEF IInv
<1>3. ASSUME NEW j \in Jobs, DropJob(j)
      PROVE  IInv'
    BY <1>3, DropTypes, OthersMutex, OthersRows, OthersCourse DEF IInv
<1>4. CASE CloseServer
    BY <1>4, CloseTypes, OthersMutex, OthersRows, OthersCourse DEF IInv
<1>5. CASE UNCHANGED vars
    <2>1. (TypeOK /\ JobsKnown)'
        BY <1>5 DEF vars, TypeOK, JobsKnown
    <2>2. QED
        BY <1>5, <2>1, OthersMutex, OthersRows, OthersCourse DEF IInv
<1>6. QED
    BY <1>1, <1>2, <1>3, <1>4, <1>5 DEF Next

\* The invariant holds in every state of every server.
THEOREM ProposalsInductive == Spec => []IInv
BY InvariantInit, InvariantStep, PTL DEF Spec

\* Every variable keeps its type; above all the mutex is never unlocked by a
\* deferred function while nobody has locked it, which Go answers by ending
\* the whole server.
THEOREM ProposalsTypeCorrect == Spec => []TypeOK
<1>1. IInv => TypeOK
    BY DEF IInv
<1>2. QED
    BY <1>1, ProposalsInductive, PTL

\* Git set-up and clean-up of any number of jobs never overlap, on any path
\* through the two deferred functions that share the unlocking.
THEOREM GitSetupExclusive == Spec => []GitExclusive
<1>1. IInv => GitExclusive
    BY DEF IInv, MutexDiscipline, Holds, GitExclusive, InSetup
<1>2. QED
    BY <1>1, ProposalsInductive, PTL

\* However the whole-row saves of any number of requests and jobs overtake
\* each other, a proposal in the inbox has a pull request of its finding.
THEOREM InboxBacked == Spec => []ProposalsBacked
<1>1. IInv => ProposalsBacked
    BY DEF IInv, RowsBacked
<1>2. QED
    BY <1>1, ProposalsInductive, PTL

\* What any finished job reports is true, whichever of its steps failed.
THEOREM ReportsTruth == Spec => []ReportsTrue
<1>1. IInv => ReportsTrue
    BY DEF IInv, Course, Honest, ReportsTrue
<1>2. QED
    BY <1>1, ProposalsInductive, PTL
=============================================================================
