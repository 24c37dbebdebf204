SPECIFICATION FairSpec
CONSTANTS
    Callers = {1, 2}
    Limits = {1, 2}
    RequestRetries = 1
    Recovery = 1
    MaxDelay = 1
    NJobs = 2
    Concurrency = 2
    ComposeRetries = 1
    Verifiers = 1
    Rounds = 2
    Corrections = 2
INVARIANTS TypeOK SlotsCounted NoIdleCapacity NothingLeft ShipSound PublishedSound ExitRight
PROPERTIES RunEnds
