------------------------ MODULE NotificationPipeline ------------------------
(***************************************************************************)
(* A notification on its way from the backend to the mail server: the      *)
(* outbox and its workers, the queue, and the notification service with    *)
(* its consumers and schedulers.  Every process takes its next step when   *)
(* it can; when a job is requested and when a fault happens is left open.  *)
(***************************************************************************)
EXTENDS NotificationService, Sequences, FiniteSetsExt

vars == <<outboxVars, queue, lost, faults, serviceVars>>

Init == OutboxInit /\ ServiceInit

Tick ==
    /\ OutboxTick
    /\ ServiceTick
    /\ <<outbox, wait, rows>>' # <<outbox, wait, rows>>
    /\ UNCHANGED <<batch, at, step, queue, lost, overtaken, faults, dlq, stage, record, claimed, mails, reclaimed,
                   handled, dropped>>

Next ==
    \/ \E j \in Jobs : Enqueue(j) /\ UNCHANGED serviceVars
    \/ \E w \in Workers : Serve(w) /\ UNCHANGED serviceVars
    \/ \E w \in Workers : WorkerFaults(w) /\ UNCHANGED serviceVars
    \/ \E p \in Senders : Work(p)
    \/ \E p \in Senders : SenderFaults(p)
    \/ Tick

Spec == Init /\ [][Next]_vars

\* A pass is started by the signal of Enqueue, by a poll and at boot, a sweep by a timer.
FairSpec ==
    /\ Spec
    /\ \A w \in Workers : WF_vars(Serve(w) /\ UNCHANGED serviceVars)
    /\ \A p \in Senders : WF_vars(Work(p))
    /\ WF_vars(Tick)

-----------------------------------------------------------------------------
(* What booking.notification.ts requests *)

StudentReminder(k, entity, delay) == [kind |-> "mail", key |-> k, entity |-> entity, delay |-> delay]

CancelBookingReminders(entity) == [kind |-> "cancelReminders", entity |-> entity]

\* The reminder of a booking has the same key before and after.
BookedAndCancelled(k, entity) == <<StudentReminder(k, entity, 1), CancelBookingReminders(entity)>>

BookedAndRescheduled(k, entity) == BookedAndCancelled(k, entity) \o <<StudentReminder(k, entity, 2)>>

-----------------------------------------------------------------------------
(* Properties *)

RecordType ==
    [job: Jobs \cup {Null}, key: Keys \cup {Null}, later: BOOLEAN, retries: Nat,
     from: {"queue", "dlq", Null}]

\* Every row, record and message has its type; what a worker has in hand has been requested, and a
\* row that is settled is not claimed again (claimBatch, markProcessed, recordFailure).
TypeOK ==
    /\ outbox \in [Jobs -> Row]
    /\ \A w \in Workers : \A j \in batch[w] : outbox[j].enqueued
    /\ \A w \in Workers : at[w] \in batch[w] \cup {Null}
    /\ \A j \in Jobs :
         outbox[j].processed \/ outbox[j].deadLettered => outbox[j].claimAge = Null
    /\ queue \in [Jobs -> Nat] /\ dlq \in [Jobs -> Nat]
    /\ wait \in [Jobs -> Nat]
    /\ rows \in [Keys -> RowType \cup {Null}]
    /\ record \in [Senders -> RecordType]
    /\ lost \cup handled \cup dropped \subseteq Jobs

\* A message of j waits in a queue, is in process, has been handled, or has failed in both queues.
GoneOut(j) ==
    \/ queue[j] + dlq[j] > 0
    \/ \E p \in Consumers : record[p].job = j
    \/ j \in handled \cup dropped

\* "Retrying on failure" (outbox.worker.ts): a row is settled only after the channel has accepted a
\* message, and only the broker can have lost that one.  What has reached the queue is in somebody's
\* hands in every state, crashes included, and a row is given up only after MaxAttempts failures.
Contract == INSTANCE DeliveryContract WITH
    owed <- {j \in Jobs : Pending(j)},
    out <- {j \in Jobs : GoneOut(j)},
    settled <- {j \in Jobs : outbox[j].processed},
    given <- {j \in Jobs : outbox[j].deadLettered},
    failures <- [j \in Jobs |-> outbox[j].attempts]

KeepsContract == Contract!Spec

Requests(k) == {j \in Jobs : Job[j].kind = "mail" /\ Job[j].key = k /\ outbox[j].enqueued}

\* A mail leaves once for every request, and once more for every fault and every claim that ran out
\* while its holder was still at work ("the notification-service dedups it (no duplicate email)"
\* needs as much of a broker, a database and a lease that never fail).
MailsAreAccountedFor ==
    \A k \in Keys :
        mails[k] <= Cardinality(Requests(k)) + faults + reclaimed[k]
                      + MapThenSumSet(LAMBDA j : overtaken[j], Requests(k))

\* What is requested is published in the end, unless every attempt has failed.
OutboxRowsSettle ==
    \A j \in Jobs :
        Pending(j) ~> outbox[j].processed \/ outbox[j].attempts >= MaxAttempts

StatusOf(k) == IF rows[k] = Null THEN "none" ELSE rows[k].status

\* A notification that the scheduler owes leaves the states the scheduler looks for.
RemindersSettle ==
    \A k \in Keys :
        StatusOf(k) \in {"SCHEDULED", "RETRYING", "SENDING"}
            ~> StatusOf(k) \in {"SENT", "FAILED", "CANCELLED", "PENDING"}

-----------------------------------------------------------------------------
(* What the comments say *)

\* "No notification is silently lost when RabbitMQ is unavailable" (outbox.worker.ts): a row that is
\* settled has a message in somebody's hands.
NothingSilentlyLost == \A j \in Jobs : outbox[j].processed => GoneOut(j)

Quiet ==
    /\ \A j \in Jobs : outbox[j].processed /\ queue[j] + dlq[j] = 0
    /\ \A p \in Senders : stage[p] = "idle"

\* "Rescheduling should also refresh the reminders!": when all messages have been handled, the
\* reminder is the one that was requested last, and it has not been cancelled.
RefreshedReminderIsScheduled ==
    Quiet => \A k \in Keys :
        LET last == CHOOSE j \in Jobs :
                        /\ Job[j].kind = "mail" /\ Job[j].key = k
                        /\ \A i \in Jobs : Job[i].kind = "mail" /\ Job[i].key = k => i <= j
        IN  rows[k].job = last /\ rows[k].status # "CANCELLED"
=============================================================================
