CONSTANTS
    Jobs = {1, 2, 3}
    Workers = {w1}
    MaxAttempts = 2
    BatchSize = 3
    Lease = 1
    MaxFaults = 0
    Null = Null
    Job <- MCJob
    k1 = k1
    e1 = e1
    Keys = {k1}
    Entities = {e1}
    Consumers = {c1}
    Sweepers = {s1}
    SweepSize = 2
    SendLease = 1
    Backoff = 1
    MaxRetries = 2
SPECIFICATION FairSpec
INVARIANT RefreshedReminderIsScheduled
CHECK_DEADLOCK FALSE
