CONSTANTS
    Findings = {f1}
    Jobs = {j1, j2}
    Requests = {q1, q2}
    Decisions = {"applied", "dismissed"}
    MaxClosings = 1
    None = None
SPECIFICATION FairSpec
INVARIANTS
    TypeOK
    ProposalsBacked
    ReportsTrue
    GitExclusive
PROPERTY JobsFinish
