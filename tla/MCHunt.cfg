SPECIFICATION FairSpec
CONSTANTS
    p1 = p1
    p2 = p2
    Procs = {"r1", "r2"}
    Hunters = {"r1"}
    NTargets = 2
    Total = 3
    PRs = {p1, p2}
    RepoOf <- Repository
    Evidence <- Reviews
    Concurrency = 1
    QueueCap = 1
    TargetPRs = 1
    MaxTurns = 2
    Modes = {"repos", "github_events", "history", "author"}
    CollectOnly = TRUE
    MaxLaunches = 2
    MaxTroubles = 1
    MaxRates = 1
    Kinds = {"overlap", "kill", "interrupt", "search", "save", "rows", "reset"}
INVARIANTS TypeOK LimitsKept CollectedOnce AdmittedSaved ReturnComplete FairCycle EvenProbing
PROPERTY RunsEnd
