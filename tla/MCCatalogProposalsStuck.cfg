CONSTANTS
    Findings = {f1}
    Jobs = {j1, j2}
    Requests = {q1}
    Decisions = {"dismissed"}
    MaxClosings = 0
    None = None
SPECIFICATION FairSpec
PROPERTY FailedJobsEnd
