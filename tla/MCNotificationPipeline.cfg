CONSTANTS
    Jobs = {1, 2}
    Workers = {w1}
    MaxAttempts = 2
    BatchSize = 2
    Lease = 0
    MaxFaults = 2
    Null = Null
    Job <- MCJob
    k1 = k1
    e1 = e1
    Keys = {k1}
    Entities = {e1}
    Consumers = {c1, c2}
    Sweepers = {s1}
    SweepSize = 2
    SendLease = 0
    Backoff = 1
    MaxRetries = 2
SPECIFICATION FairSpec
INVARIANTS
    TypeOK
    MailsAreAccountedFor
PROPERTIES
    KeepsContract
    OutboxRowsSettle
    RemindersSettle
CHECK_DEADLOCK FALSE
