------------------------ MODULE NotificationService ------------------------
(***************************************************************************)
(* The notification service: its consumers, the dead-letter queue, the     *)
(* reminder scheduler and the Notification table they share, over the      *)
(* queue that Outbox fills.                                                *)
(*                                                                         *)
(* The broker hands the messages of a queue to consumers that run          *)
(* concurrently (prefetch), so that their statements may follow in any     *)
(* order; a message is delivered again when its consumer crashes.          *)
(* Templates, recipients and SMTP retries within one send are left out.    *)
(* Instead of a clock, what is to be sent later counts down its wait, and  *)
(* a claim has an age.                                                     *)
(***************************************************************************)
EXTENDS Outbox

CONSTANTS
    Job,            \* Job[j]: what j asks for
    Keys, Entities,
    Consumers,      \* the messages that may be in process at once
    Sweepers,       \* the reminder scheduler of each instance of the service
    SweepSize,      \* REMINDER_BATCH_SIZE
    SendLease,      \* NOTIFICATION_SEND_LEASE_MS
    Backoff,        \* NOTIFICATION_RETRY_BACKOFF_MS
    MaxRetries      \* NOTIFICATION_MAX_ATTEMPTS

VARIABLES
    wait,           \* wait[j]: the time left to the sendAt of job j
    rows,           \* rows[k]: the Notification row of key k, Null when there is none
    dlq,            \* dlq[j]: copies of j's message in the dead-letter queue
    stage,          \* stage[p]: where consumer or sweeper p stands
    record,         \* record[p]: what p works on, with what it has read of it
    claimed,        \* claimed[p]: the rows that sweeper p has claimed and not begun to send
    mails,          \* history: mails[k]: how many mails of key k have left
    reclaimed,      \* history: reclaimed[k]: how often row k was reclaimed while a sweeper had it
    handled,        \* history: jobs of which a message has been acknowledged
    dropped         \* history: jobs of which a message has failed twice

serviceVars == <<wait, rows, dlq, stage, record, claimed, mails, reclaimed, handled, dropped>>

Statuses == {"PENDING", "SCHEDULED", "SENDING", "SENT", "FAILED", "RETRYING", "CANCELLED"}
Cancellable == {"SCHEDULED", "PENDING", "RETRYING"}
Final == {"SENT", "CANCELLED"}

JobType == [kind: {"mail"}, key: Keys, entity: Entities, delay: Nat]
           \cup [kind: {"cancelReminders"}, entity: Entities]

RowType ==
    [status: Statuses, job: Jobs, entity: Entities, wait: Nat, retries: Nat, age: 0..SendLease + 1]

ASSUME ServiceAssumption ==
    /\ \A j \in Jobs : Job[j] \in JobType
    /\ SweepSize \in Nat \ {0} /\ SendLease \in Nat /\ Backoff \in Nat /\ MaxRetries \in Nat \ {0}
    /\ Null \notin Jobs \cup Keys \cup RowType
    /\ IsFiniteSet(Consumers) /\ IsFiniteSet(Sweepers) /\ Consumers \cap Sweepers = {}

Senders == Consumers \cup Sweepers

NoRecord == [job |-> Null, key |-> Null, later |-> FALSE, retries |-> 0, from |-> Null]

ServiceInit ==
    /\ wait = [j \in Jobs |-> IF Job[j].kind = "mail" THEN Job[j].delay ELSE 0]
    /\ rows = [k \in Keys |-> Null]
    /\ dlq = [j \in Jobs |-> 0]
    /\ stage = [p \in Senders |-> "idle"]
    /\ record = [p \in Senders |-> NoRecord]
    /\ claimed = [p \in Sweepers |-> {}]
    /\ mails = [k \in Keys |-> 0]
    /\ reclaimed = [k \in Keys |-> 0]
    /\ handled = {}
    /\ dropped = {}

Goto(p, next, r) ==
    /\ stage' = [stage EXCEPT ![p] = next]
    /\ record' = [record EXCEPT ![p] = r]

Done(p) == Goto(p, "idle", NoRecord)

SetRow(k, status, w, retries) ==
    rows' = [rows EXCEPT ![k] = [@ EXCEPT !.status = status, !.wait = w, !.retries = retries,
                                          !.age = 0]]

-----------------------------------------------------------------------------
(* Consumers of the queue and of the dead-letter queue *)

\* Whether the mail is due is decided before anything else.
Message(j, from) ==
    [job |-> j, key |-> IF Job[j].kind = "mail" THEN Job[j].key ELSE Null, later |-> wait[j] > 0,
     retries |-> 0, from |-> from]

Take(p, j, from) ==
    Goto(p, IF Job[j].kind = "mail" THEN "lookUp" ELSE "cancel", Message(j, from))

Deliver(p) ==
    /\ p \in Consumers
    /\ stage[p] = "idle"
    /\ \E j \in Jobs :
         \/ /\ queue[j] > 0
            /\ queue' = [queue EXCEPT ![j] = @ - 1]
            /\ Take(p, j, "queue")
            /\ UNCHANGED dlq
         \/ /\ dlq[j] > 0
            /\ dlq' = [dlq EXCEPT ![j] = @ - 1]
            /\ Take(p, j, "dlq")
            /\ UNCHANGED queue
    /\ UNCHANGED <<outboxVars, lost, faults, wait, rows, claimed, mails, reclaimed, handled, dropped>>

Ack(p) == handled' = handled \cup {record[p].job}

\* nack without requeue: a failed message goes to the dead-letter queue, a dead letter nowhere.
Nack(p) ==
    LET j == record[p].job
    IN  IF record[p].from = "queue"
        THEN dlq' = [dlq EXCEPT ![j] = @ + 1] /\ UNCHANGED dropped
        ELSE dropped' = dropped \cup {j} /\ UNCHANGED dlq

\* cancelNotificationsByEntity
Cancelled(row, entity) ==
    IF row # Null /\ row.entity = entity /\ row.status \in Cancellable
    THEN [row EXCEPT !.status = "CANCELLED", !.wait = 0]
    ELSE row

CancelReminders(p) ==
    /\ stage[p] = "cancel"
    /\ rows' = [k \in Keys |-> Cancelled(rows[k], Job[record[p].job].entity)]
    /\ Ack(p)
    /\ Done(p)
    /\ UNCHANGED <<outboxVars, queue, lost, faults, wait, dlq, claimed, mails, reclaimed, dropped>>

\* createOrUpsertNotification looks for the row of the key first; a final one ends the handling.
LookUp(p) ==
    LET row == rows[record[p].key]
    IN  /\ stage[p] = "lookUp"
        /\ IF row # Null /\ row.status \in Final
           THEN Done(p) /\ Ack(p)
           ELSE Goto(p, "upsert", record[p]) /\ UNCHANGED handled
        /\ UNCHANGED <<outboxVars, queue, lost, faults, wait, rows, dlq, claimed, mails, reclaimed,
                       dropped>>

\* What was due is sent at once, the rest is left to the scheduler.
Upsert(p) ==
    LET r == record[p]
        retries == IF rows[r.key] = Null THEN 0 ELSE rows[r.key].retries
    IN  /\ stage[p] = "upsert"
        /\ rows' = [rows EXCEPT ![r.key] =
                       [status |-> IF r.later THEN "SCHEDULED" ELSE "PENDING", job |-> r.job,
                        entity |-> Job[r.job].entity, wait |-> IF r.later THEN wait[r.job] ELSE 0,
                        retries |-> retries, age |-> 0]]
        /\ IF r.later
           THEN Done(p) /\ Ack(p)
           ELSE Goto(p, "send", [r EXCEPT !.retries = retries]) /\ UNCHANGED handled
        /\ UNCHANGED <<outboxVars, queue, lost, faults, wait, dlq, claimed, mails, reclaimed, dropped>>

\* The database does not answer, and the message fails.
HandlingFails(p) ==
    /\ stage[p] \in {"cancel", "lookUp", "upsert"}
    /\ Fault
    /\ Nack(p)
    /\ Done(p)
    /\ UNCHANGED <<outboxVars, queue, lost, wait, rows, claimed, mails, reclaimed, handled>>

\* An unacknowledged message is delivered again.
ConsumerCrashes(p) ==
    LET j == record[p].job
    IN  /\ p \in Consumers
        /\ stage[p] # "idle"
        /\ Fault
        /\ IF record[p].from = "queue"
           THEN queue' = [queue EXCEPT ![j] = @ + 1] /\ UNCHANGED dlq
           ELSE dlq' = [dlq EXCEPT ![j] = @ + 1] /\ UNCHANGED queue
        /\ Done(p)
        /\ UNCHANGED <<outboxVars, lost, wait, rows, claimed, mails, reclaimed, handled, dropped>>

-----------------------------------------------------------------------------
(* The sweep of the reminder scheduler *)

\* mutant: what a consumer is about to send is due
DuePending(row) == row # Null /\ row.status \in {"PENDING", "SCHEDULED", "RETRYING"} /\ row.wait = 0

Due(row) == row # Null /\ row.status \in {"SCHEDULED", "RETRYING"} /\ row.wait = 0

\* mutant: the status left by a sweeper that died is not the one looked for
StalePending(row) == row # Null /\ row.status = "PENDING" /\ row.age > SendLease

Stale(row) == row # Null /\ row.status = "SENDING" /\ row.age > SendLease

InHand(p, k) == record[p].key = k \/ \E r \in claimed[p] : r.key = k

\* A sweep that would find nothing is not a step.
Reclaim(p) ==
    /\ p \in Sweepers
    /\ stage[p] = "idle"
    /\ \E k \in Keys : Due(rows[k]) \/ Stale(rows[k])
    /\ rows' = [k \in Keys |->
                   IF Stale(rows[k])
                   THEN [rows[k] EXCEPT !.status = "RETRYING", !.wait = 0, !.age = 0]
                   ELSE rows[k]]
    /\ reclaimed' = [k \in Keys |->
                        IF Stale(rows[k]) /\ \E s \in Sweepers : InHand(s, k)
                        THEN reclaimed[k] + 1 ELSE reclaimed[k]]
    /\ Goto(p, "claim", NoRecord)
    /\ UNCHANGED <<outboxVars, queue, lost, faults, wait, dlq, claimed, mails, handled, dropped>>

Claim(k) == [NoRecord EXCEPT !.key = k, !.job = rows[k].job, !.retries = rows[k].retries]

SendOneOf(p, claims) ==
    \E r \in claims :
        /\ Goto(p, "send", r)
        /\ claimed' = [claimed EXCEPT ![p] = claims \ {r}]

\* SweepSize due rows become SENDING in one UPDATE.
ClaimDue(p) ==
    LET due == {k \in Keys : Due(rows[k])}
    IN  /\ stage[p] = "claim"
        /\ \E keys \in SUBSET due :
             /\ Cardinality(keys) = IF Cardinality(due) < SweepSize THEN Cardinality(due) ELSE SweepSize
             /\ rows' = [k \in Keys |->
                            IF k \in keys THEN [rows[k] EXCEPT !.status = "SENDING", !.age = 0]
                            ELSE rows[k]]
             /\ IF keys = {}
                THEN Done(p) /\ UNCHANGED claimed
                ELSE SendOneOf(p, {Claim(k) : k \in keys})
        /\ UNCHANGED <<outboxVars, queue, lost, faults, wait, dlq, mails, reclaimed, handled, dropped>>

SweeperCrashes(p) ==
    /\ p \in Sweepers
    /\ stage[p] # "idle"
    /\ Fault
    /\ Done(p)
    /\ claimed' = [claimed EXCEPT ![p] = {}]
    /\ UNCHANGED <<outboxVars, queue, lost, wait, rows, dlq, mails, reclaimed, handled, dropped>>

-----------------------------------------------------------------------------
(* sendStoredNotification, for both; the row is not read again before the mail leaves. *)

NextRow(p) ==
    IF p \in Sweepers /\ claimed[p] # {}
    THEN SendOneOf(p, claimed[p])
    ELSE Done(p) /\ UNCHANGED claimed

SendMail(p) ==
    /\ stage[p] = "send"
    /\ mails' = [mails EXCEPT ![record[p].key] = @ + 1]
    /\ Goto(p, "markSent", record[p])
    /\ UNCHANGED <<outboxVars, queue, lost, faults, wait, rows, dlq, claimed, reclaimed, handled,
                   dropped>>

\* Transiently, so that the scheduler may try again, or for good
SendMailFails(p) ==
    /\ stage[p] = "send"
    /\ Fault
    /\ \/ Goto(p, "markFailed", record[p])
       \/ p \in Sweepers /\ record[p].retries + 1 < MaxRetries /\ Goto(p, "markRetry", record[p])
    /\ UNCHANGED <<outboxVars, queue, lost, wait, rows, dlq, claimed, mails, reclaimed, handled,
                   dropped>>

\* A consumer acknowledges or rejects its message, a sweeper goes on with the next row.
Succeed(p) ==
    /\ NextRow(p)
    /\ IF p \in Consumers THEN Ack(p) ELSE UNCHANGED handled
    /\ UNCHANGED <<dlq, dropped>>

Fail(p) ==
    /\ NextRow(p)
    /\ IF p \in Consumers THEN Nack(p) ELSE UNCHANGED <<dlq, dropped>>
    /\ UNCHANGED handled

MarkSent(p) ==
    LET k == record[p].key
    IN  /\ stage[p] = "markSent"
        /\ SetRow(k, "SENT", 0, rows[k].retries)
        /\ Succeed(p)
        /\ UNCHANGED <<outboxVars, queue, lost, faults, wait, mails, reclaimed>>

MarkFailed(p) ==
    LET k == record[p].key
    IN  /\ stage[p] = "markFailed"
        /\ SetRow(k, "FAILED", 0, rows[k].retries + 1)
        /\ Fail(p)
        /\ UNCHANGED <<outboxVars, queue, lost, faults, wait, mails, reclaimed>>

\* The retries are those of the claim, and the backoff grows with them.
MarkForRetry(p) ==
    LET retries == record[p].retries + 1
    IN  /\ stage[p] = "markRetry"
        /\ SetRow(record[p].key, "RETRYING", Backoff * retries, retries)
        /\ Fail(p)
        /\ UNCHANGED <<outboxVars, queue, lost, faults, wait, mails, reclaimed>>

\* The outcome is not written, which is logged only.
MarkFails(p) ==
    /\ stage[p] \in {"markSent", "markFailed", "markRetry"}
    /\ Fault
    /\ IF stage[p] = "markSent" THEN Succeed(p) ELSE Fail(p)
    /\ UNCHANGED <<outboxVars, queue, lost, wait, rows, mails, reclaimed>>

Work(p) ==
    \/ Deliver(p) \/ CancelReminders(p) \/ LookUp(p) \/ Upsert(p)
    \/ Reclaim(p) \/ ClaimDue(p)
    \/ SendMail(p) \/ MarkSent(p) \/ MarkFailed(p) \/ MarkForRetry(p)

SenderFaults(p) ==
    \/ HandlingFails(p) \/ ConsumerCrashes(p) \/ SweeperCrashes(p)
    \/ SendMailFails(p) \/ MarkFails(p)

CountDown(n) == IF n = 0 THEN 0 ELSE n - 1

ServiceTick ==
    /\ wait' = [j \in Jobs |-> IF outbox[j].enqueued THEN CountDown(wait[j]) ELSE wait[j]]
    /\ rows' = [k \in Keys |->
                   IF rows[k] = Null THEN Null
                   ELSE [rows[k] EXCEPT !.wait = CountDown(@),
                                        !.age = IF rows[k].status = "SENDING" /\ @ <= SendLease
                                                THEN @ + 1 ELSE @]]
=============================================================================
