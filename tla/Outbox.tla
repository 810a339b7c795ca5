------------------------------- MODULE Outbox -------------------------------
(***************************************************************************)
(* The notification outbox of the backend (outbox.worker.ts,               *)
(* notification.publisher.ts) and the RabbitMQ queue it publishes to.      *)
(*                                                                         *)
(* Workers claim a batch of rows in one statement, under a lease, and then *)
(* publish and settle them one after the other.  A failed row is retried   *)
(* when its lease has run out, MaxAttempts times at most.  A lease may     *)
(* also run out while its worker is still at work.                         *)
(*                                                                         *)
(* The channel has no publisher confirms: what it has accepted may be      *)
(* lost, and a refusal for back-pressure has been accepted all the same.   *)
(* Instead of a clock, the claim of a row that is not settled has an age,  *)
(* up to the end of its lease.                                             *)
(* Faults, crashes among them, are bounded by MaxFaults.                   *)
(***************************************************************************)
EXTENDS Integers, FiniteSets

CONSTANTS
    Jobs,           \* the notifications, numbered in the order they are enqueued
    Workers,        \* one outbox worker per backend process
    MaxAttempts,    \* MAX_ATTEMPTS
    BatchSize,      \* BATCH_SIZE
    Lease,          \* LEASE
    MaxFaults,      \* bound of the faults that happen
    Null

VARIABLES
    outbox,         \* outbox[j]: the OutboxNotification row of j
    batch,          \* batch[w]: the rows that w has claimed and not settled yet
    at,             \* at[w]: the row of its batch that w is at
    step,           \* step[w]: what the pass of w does next
    queue,          \* queue[j]: copies of j's message that no consumer has taken
    lost,           \* history: jobs of which the broker has lost a copy
    overtaken,      \* history: overtaken[j]: how often j was claimed while another worker had it
    faults

outboxVars == <<outbox, batch, at, step, overtaken>>

ASSUME OutboxAssumption ==
    /\ Jobs \in SUBSET Nat /\ IsFiniteSet(Jobs) /\ IsFiniteSet(Workers)
    /\ MaxAttempts \in Nat \ {0} /\ BatchSize \in Nat \ {0} /\ Lease \in Nat /\ MaxFaults \in Nat
    /\ Null \notin Nat

Ages == 0..Lease + 1

Row == [enqueued: BOOLEAN, processed: BOOLEAN, deadLettered: BOOLEAN, attempts: Nat,
        claimAge: Ages \cup {Null}]

NoRow == [enqueued |-> FALSE, processed |-> FALSE, deadLettered |-> FALSE, attempts |-> 0,
          claimAge |-> Null]

Fault ==
    /\ faults < MaxFaults
    /\ faults' = faults + 1

OutboxInit ==
    /\ outbox = [j \in Jobs |-> NoRow]
    /\ batch = [w \in Workers |-> {}]
    /\ at = [w \in Workers |-> Null]
    /\ step = [w \in Workers |-> "idle"]
    /\ queue = [j \in Jobs |-> 0]
    /\ lost = {}
    /\ overtaken = [j \in Jobs |-> 0]
    /\ faults = 0

Pending(j) == outbox[j].enqueued /\ ~outbox[j].processed /\ ~outbox[j].deadLettered

\* publishNotificationSafely, after the change it tells of has been committed
Enqueue(j) ==
    /\ ~outbox[j].enqueued
    /\ \A i \in Jobs : i < j => outbox[i].enqueued
    /\ outbox' = [outbox EXCEPT ![j].enqueued = TRUE]
    /\ UNCHANGED <<batch, at, step, queue, lost, overtaken, faults>>

\* mutant: rows that are settled are claimed as well
ClaimableSettled(j) ==
    /\ outbox[j].enqueued
    /\ outbox[j].attempts < MaxAttempts
    /\ outbox[j].claimAge = Null \/ outbox[j].claimAge > Lease

\* mutant: a claim never runs out
ClaimableOnce(j) ==
    /\ Pending(j)
    /\ outbox[j].attempts < MaxAttempts
    /\ outbox[j].claimAge = Null

Claimable(j) ==
    /\ Pending(j)
    /\ outbox[j].attempts < MaxAttempts
    /\ outbox[j].claimAge = Null \/ outbox[j].claimAge > Lease

\* The oldest claimable rows, as one UPDATE
ClaimBatch(w) ==
    LET due == {j \in Jobs : Claimable(j)}
        rows == {j \in due : Cardinality({i \in due : i < j}) < BatchSize}
    IN  /\ step[w] = "idle"
        /\ rows # {}
        /\ outbox' = [j \in Jobs |->
                         IF j \in rows THEN [outbox[j] EXCEPT !.claimAge = 0] ELSE outbox[j]]
        /\ overtaken' = [j \in Jobs |->
                            IF j \in rows /\ \E v \in Workers : j \in batch[v]
                            THEN overtaken[j] + 1 ELSE overtaken[j]]
        /\ batch' = [batch EXCEPT ![w] = rows]
        /\ step' = [step EXCEPT ![w] = "publish"]
        /\ UNCHANGED <<at, queue, lost, faults>>

Continue(w, next) == step' = [step EXCEPT ![w] = next]

\* One row of the batch after the other; UPDATE ... RETURNING promises no order.
TakeUp(w, j) == at' = [at EXCEPT ![w] = j]

\* Written to the channel, and marked as processed whether or not the broker keeps it
Publish(w) ==
    /\ step[w] = "publish"
    /\ \E j \in batch[w] :
         /\ TakeUp(w, j)
         /\ \/ queue' = [queue EXCEPT ![j] = @ + 1] /\ UNCHANGED <<lost, faults>>
            \/ Fault /\ lost' = lost \cup {j} /\ UNCHANGED queue
    /\ Continue(w, "markProcessed")
    /\ UNCHANGED <<outbox, batch, overtaken>>

\* mutant: an error is taken for an answer
PublishFailsUnnoticed(w) ==
    /\ step[w] = "publish"
    /\ Fault
    /\ \E j \in batch[w] : TakeUp(w, j)
    /\ Continue(w, "markProcessed")
    /\ UNCHANGED <<outbox, batch, queue, lost, overtaken>>

\* The broker is down.
PublishFails(w) ==
    /\ step[w] = "publish"
    /\ Fault
    /\ \E j \in batch[w] : TakeUp(w, j)
    /\ Continue(w, "recordFailure")
    /\ UNCHANGED <<outbox, batch, queue, lost, overtaken>>

\* The channel's buffer is full: the message has been written all the same.
PublishIsRefused(w) ==
    /\ step[w] = "publish"
    /\ Fault
    /\ \E j \in batch[w] :
         /\ TakeUp(w, j)
         /\ queue' = [queue EXCEPT ![j] = @ + 1]
    /\ Continue(w, "recordRefusal")
    /\ UNCHANGED <<outbox, batch, lost, overtaken>>

\* The next row of the batch, or the end of the pass; another pass may follow at once.
Settled(w) ==
    /\ batch' = [batch EXCEPT ![w] = @ \ {at[w]}]
    /\ at' = [at EXCEPT ![w] = Null]
    /\ Continue(w, IF batch[w] = {at[w]} THEN "idle" ELSE "publish")

MarkProcessed(w) ==
    /\ step[w] = "markProcessed"
    /\ outbox' = [outbox EXCEPT ![at[w]] = [@ EXCEPT !.processed = TRUE, !.claimAge = Null]]
    /\ Settled(w)
    /\ UNCHANGED <<queue, lost, overtaken, faults>>

MarkProcessedFails(w) ==
    /\ step[w] = "markProcessed"
    /\ Fault
    /\ Continue(w, "recordFailure")
    /\ UNCHANGED <<outbox, batch, at, queue, lost, overtaken>>

\* recordFailure: the attempts are counted, then, in a second statement, the row is dead-lettered.
RecordFailure(w) ==
    LET j == at[w]
    IN  /\ step[w] \in {"recordRefusal", "recordFailure"}
        /\ outbox' = [outbox EXCEPT ![j].attempts = @ + 1]
        /\ IF outbox[j].attempts + 1 < MaxAttempts THEN Settled(w)
           ELSE /\ Continue(w, IF step[w] = "recordRefusal" THEN "deadLetterRefusal" ELSE "deadLetter")
                /\ UNCHANGED <<batch, at>>
        /\ UNCHANGED <<queue, lost, overtaken, faults>>

DeadLetter(w) ==
    /\ step[w] \in {"deadLetterRefusal", "deadLetter"}
    /\ outbox' = [outbox EXCEPT ![at[w]] = [@ EXCEPT !.deadLettered = TRUE, !.claimAge = Null]]
    /\ Settled(w)
    /\ UNCHANGED <<queue, lost, overtaken, faults>>

\* The failure to record a refusal is recorded in turn; that of recording an error is logged only,
\* and the lease will run out.
RecordFailureFails(w) ==
    /\ \/ /\ step[w] \in {"recordRefusal", "deadLetterRefusal"}
          /\ Continue(w, "recordFailure")
          /\ UNCHANGED <<batch, at>>
       \/ /\ step[w] \in {"recordFailure", "deadLetter"}
          /\ Settled(w)
    /\ Fault
    /\ UNCHANGED <<outbox, queue, lost, overtaken>>

\* The process restarts, and its first pass sweeps what is claimable then.
WorkerCrashes(w) ==
    /\ step[w] # "idle"
    /\ Fault
    /\ batch' = [batch EXCEPT ![w] = {}]
    /\ at' = [at EXCEPT ![w] = Null]
    /\ Continue(w, "idle")
    /\ UNCHANGED <<outbox, queue, lost, overtaken>>

Serve(w) == ClaimBatch(w) \/ Publish(w) \/ MarkProcessed(w) \/ RecordFailure(w) \/ DeadLetter(w)

WorkerFaults(w) ==
    \/ PublishFails(w) \/ PublishIsRefused(w)
    \/ MarkProcessedFails(w) \/ RecordFailureFails(w) \/ WorkerCrashes(w)

Older(age) == IF age = Null \/ age > Lease THEN age ELSE age + 1

OutboxTick ==
    outbox' = [j \in Jobs |-> [outbox[j] EXCEPT !.claimAge = Older(@)]]
=============================================================================
