SPECIFICATION Spec
CONSTANTS
    p1 = p1
    p2 = p2
    Procs = {"r1"}
    Hunters = {"r1"}
    NTargets = 1
    Total = 1
    PRs = {p1, p2}
    RepoOf <- Repository
    Evidence <- Reviews
    Concurrency = 1
    QueueCap = 1
    TargetPRs = 1
    MaxTurns = 2
    Modes = {"history"}
    CollectOnly = TRUE
    MaxLaunches = 2
    MaxTroubles = 1
    MaxRates = 0
    Kinds = {"interrupt"}
INVARIANT HistoryRead
